\* A transfer lands between the checks of two orders.
SPECIFICATION Spec
CONSTANTS
    m1 = m1
    m2 = m2
    usdc = usdc
    usdt = usdt
    a1 = a1
    a2 = a2
    a3 = a3
    bscUsdt = bscUsdt
    MaxOrders = 2
    Merchants = {m1}
    Assets = {usdc}
    Accounts = {a1}
    AssetOf <- OneAccountAssets
    AccountsOf <- OneAccountOwner
    EvmTokens = {}
    Amounts = {100}
    Transfers = {100}
    Lifetime = 1
    SolanaMayFail = FALSE
    MaxClock = 2
    MaxTransfers = 2
    MaxLost = 0
INVARIANT FirstCreatedFirstClaim
