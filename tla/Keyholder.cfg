SPECIFICATION Spec
CONSTANTS
    None = None
    Generated = {g1}
    Imported = {i1}
    Passphrase = {p1, p2}
    Command <- MCCommand
    MaxConn = 2
    MaxCall = 3
    MaxPush = 1
CHECK_DEADLOCK FALSE
INVARIANTS
    KeysAreReadable
    FilterHasKeys
    AnswersAreOwn
    PeerHasKeys
