SPECIFICATION Spec
CONSTANTS
    None = None
    r1 = r1
    r2 = r2
    scriber = scriber
    indexer = indexer
    writer = writer
    t1 = t1
    t2 = t2
    Reader = {r1}
    Scriber = {scriber}
    Indexer = {}
    Writer = {}
    Leaving = {scriber}
    Tx = {t1}
    TipCapacity <- MCTipCapacity
    TxCapacity <- MCTxCapacity
    PlotCapacity = 10
    RepresentationCapacity = 100
    MAX_REPRESENTATIONS_TO_INCLUDE_PER_PLOT = 3
    MaxCalls = 2
    MaxSolutions = 1
CHECK_DEADLOCK FALSE
PROPERTY CallsReturn
