\* Two orders of one merchant compete for one Solana account.
SPECIFICATION FairSpec
CONSTANTS
    m1 = m1
    m2 = m2
    usdc = usdc
    usdt = usdt
    a1 = a1
    a2 = a2
    a3 = a3
    bscUsdt = bscUsdt
    MaxOrders = 2
    Merchants = {m1}
    Assets = {usdc}
    Accounts = {a1}
    AssetOf <- OneAccountAssets
    AccountsOf <- OneAccountOwner
    EvmTokens = {}
    Amounts = {100, 200}
    Transfers = {99, 200}
    Lifetime = 1
    SolanaMayFail = TRUE
    MaxClock = 2
    MaxTransfers = 2
    MaxLost = 1
INVARIANTS
    TypeOK
    OnePaymentOneOrder
    ClaimsBacked
    WatermarkIsSumOfClaims
    DeadlineKept
    ToldIsPaidFor
    DeliveredIsTrue
PROPERTIES
    SettledIsFinal
    EventuallySettled
    ImplementsLedger
