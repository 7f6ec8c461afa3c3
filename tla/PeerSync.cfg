SPECIFICATION Spec
CONSTANTS
    None = None
    a = a
    b = b
    g = g
    m1 = m1
    m2 = m2
    m3 = m3
    x = x
    Peer = {a, b}
    Reliable = {b}
    Plot <- MCPlot
    Genesis = g
    Previous <- MCPrevious
    ThreadTo <- MCThreadTo
    Invalid = {x}
    InitialTip = g
    InitialRemoteTip <- MCInitialRemoteTip
    FinalRemoteTip <- MCFinalRemoteTip
    SyncedHeight = 1
    maxPlotsPerInv = 2
    inflightQueueMax = 1
    downloadQueueMax = 4
    DenseIDs = 1
INVARIANTS
    AnswersAreExpected
    OwnersDownload
PROPERTY
    SyncCompletesIfAsked
