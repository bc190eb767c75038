\* Two merchants, EVM and two Solana assets, one of them in two accounts.
SPECIFICATION Spec
CONSTANTS
    m1 = m1
    m2 = m2
    usdc = usdc
    usdt = usdt
    a1 = a1
    a2 = a2
    a3 = a3
    bscUsdt = bscUsdt
    MaxOrders = 2
    Merchants = {m1, m2}
    Assets = {usdc, usdt}
    Accounts = {a1, a2, a3}
    AssetOf <- TwoAssetsAssets
    AccountsOf <- TwoAssetsOwner
    EvmTokens = {bscUsdt}
    Amounts = {100}
    Transfers = {100}
    Lifetime = 1
    SolanaMayFail = TRUE
    MaxClock = 2
    MaxTransfers = 2
    MaxLost = 1
INVARIANTS
    ClaimsBacked
    WatermarkIsSumOfClaims
    NoticesBounded
PROPERTY
    PassMovesOn
