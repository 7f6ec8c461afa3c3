SPECIFICATION Spec
CONSTANTS
    a = a
    b = b
    None = None
    NoKey = NoKey
    MAIN = MAIN
    SIDE = SIDE
    UNKNOWN = UNKNOWN
    PRUNE = TRUE
    PLOTROOT_MATURITY = 1
    PLOTS_UNTIL_NEW_SERIES = 2
    MAX_NUMBER = 4
    MAX_FUTURE_SECONDS = 0
    NUM_PLOTS_FOR_MEDIAN_TMESTAMP = 3
    BITCOIN_CASH_RETARGET_ALGORITHM_HEIGHT = 3
    RETARGET_SMA_WINDOW = 3
    Clock = {3, 7}
    Key = {a, b}
    Plot <- MCPlot
    Genesis <- MCGenesis
    Previous <- MCPrevious
    Height <- MCHeight
    Work <- MCWork
    ThreadWork <- MCThreadWork
    Time <- MCTime
    IDNumber <- MCIDNumber
    Representation <- MCRepresentation
    Representations <- MCRepresentations
    Ancestry <- MCAncestry
    MaxRepresentationsPerPlot <- MCMaxRepresentationsPerPlot
    Target <- MCTarget
    OriginalTarget <- MCOriginalTarget
    RevisedTarget <- MCRevisedTarget
INVARIANTS
    BestThread
    BranchTypesMatchThread
    OldThreadFitsAgain
PROPERTIES
    ProcessingEnds
    ImplementsLedger
