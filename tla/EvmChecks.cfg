\* Three providers on one chain and two of them on the other; one answers anything.
SPECIFICATION EvmFairSpec
CONSTANTS
    Providers = {"publicnode", "ankr", "quicknode"}
    Pools <- TwoPools
    Faulty = {"ankr"}
    Raw <- Strings
    ValueOf <- Decoded
    NotANumber <- Unreadable
    Balances = {0, 99}
    Threshold = 1
    Cooldown = 2
    Rate = 1
    Burst = 1
    MaxClock = 2
    MaxRounds = 4
    Chains = {"ethereum", "binance-smart-chain"}
    Reads = 2
    ChainOf <- TwoChains
    Scale <- Decimals
    AlchemyKey = FALSE
    QuickNode = {"ethereum"}
    Prices = {1}
INVARIANTS
    EvmTypeOK
    ReachedIsTrue
    AskedWithinRate
    DeadProviderRarelyAsked
    MatchIsTrue
    PaidIsFound
PROPERTIES
    FaultyCannotVeto
    ImplementsRead
    CheckMovesOn
    CheckEnds
