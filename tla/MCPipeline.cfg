CONSTANTS
    SymbolList <- MCSymbolList
    ShardList <- MCShardList
    Slots = 2
    Feeds = {"synthetic", "binance"}
    FeedSize = 5
    Sizes = {5, 20}
    RiskLimit = 75
    Rounds = 2
    MaxSeq = 4
SPECIFICATION LiveExchangeSpec
INVARIANTS
    SymbolOrderKept
    NothingVanishes
PROPERTIES
    Terminates
