SPECIFICATION LedgerSpec
CONSTANTS
    a = a
    b = b
    None = None
    NoKey = NoKey
    MAIN = MAIN
    SIDE = SIDE
    UNKNOWN = UNKNOWN
    MaxHeight = 6
    PRUNE = TRUE
    PLOTROOT_MATURITY = 1
    PLOTS_UNTIL_NEW_SERIES = 2
    MAX_NUMBER = 6
    MAX_FUTURE_SECONDS = 0
    NUM_PLOTS_FOR_MEDIAN_TMESTAMP = 3
    Key = {a, b}
    Plot <- MCPlot
    Genesis <- MCGenesis
    Previous <- MCPrevious
    Height <- MCHeight
    Work <- MCWork
    ThreadWork <- MCThreadWork
    Time <- MCTime
    IDNumber <- MCIDNumber
    Representation <- MCRepresentation
    Representations <- MCRepresentations
    Ancestry <- MCAncestry
    MaxRepresentationsPerPlot <- MCMaxRepresentationsPerPlot
VIEW LedgerView
INVARIANTS
    ThreadIsLinked
    NoDoubleConfirmation
    RepIndexIsExact
    ImbalancesMatchThread
    UndoNeverPanics
PROPERTY ImplementsThread
