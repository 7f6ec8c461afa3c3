SPECIFICATION IndexerSpec
CONSTANTS
    a = a
    b = b
    None = None
    NoKey = NoKey
    MAIN = MAIN
    SIDE = SIDE
    UNKNOWN = UNKNOWN
    PRUNE = FALSE
    PLOTROOT_MATURITY = 1
    PLOTS_UNTIL_NEW_SERIES = 2
    MAX_NUMBER = 4
    MAX_FUTURE_SECONDS = 0
    NUM_PLOTS_FOR_MEDIAN_TMESTAMP = 3
    BITCOIN_CASH_RETARGET_ALGORITHM_HEIGHT = 5
    RETARGET_SMA_WINDOW = 3
    Clock = {9}
    Key = {a, b}
    Plot <- MCPlot
    Genesis = "g"
    Previous <- MCPrevious
    Height <- MCHeight
    Work <- MCWork
    ThreadWork <- MCThreadWork
    Time <- MCTime
    IDNumber <- MCIDNumber
    Representation <- MCRepresentation
    Representations <- MCRepresentations
    Ancestry <- MCAncestry
    MaxRepresentationsPerPlot <- MCMaxRepresentationsPerPlot
    Target <- MCTarget
    OriginalTarget <- MCTarget
    RevisedTarget <- MCRevisedTarget
INVARIANTS
    WeightsFollowThread
    VettedPlotsCloseNoCycle
    RankIsOfTip
PROPERTIES
    ImplementsProcessor
    IndexerRegisters
