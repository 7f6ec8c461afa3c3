SPECIFICATION QSpec
CONSTANTS
    a = a
    b = b
    None = None
    NoKey = NoKey
    MAIN = MAIN
    SIDE = SIDE
    UNKNOWN = UNKNOWN
    PRUNE = TRUE
    PLOTROOT_MATURITY = 1
    PLOTS_UNTIL_NEW_SERIES = 2
    MAX_NUMBER = 3
    MAX_FUTURE_SECONDS = 0
    NUM_PLOTS_FOR_MEDIAN_TMESTAMP = 3
    BITCOIN_CASH_RETARGET_ALGORITHM_HEIGHT = 9
    RETARGET_SMA_WINDOW = 3
    Clock = {5}
    MAX_REPRESENTATION_QUEUE_LENGTH = 3
    c = c
    Key = {a, b, c}
    Plot <- MCPlot
    Genesis <- MCGenesis
    Previous <- MCPrevious
    Height <- MCHeight
    Work <- MCWork
    ThreadWork <- MCThreadWork
    Time <- MCTime
    IDNumber <- MCIDNumber
    Representation <- MCRepresentation
    Representations <- MCRepresentations
    Ancestry <- MCAncestry
    MaxRepresentationsPerPlot <- MCMaxRepresentationsPerPlot
    Target <- MCTarget
    OriginalTarget <- MCTarget
    RevisedTarget <- MCRevisedTarget
INVARIANTS
    NothingQueuedIsConfirmed
    QueueIsEligible
    QueueIsFundedUntilDrift
PROPERTY NothingIsForgotten
