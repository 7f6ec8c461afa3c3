SPECIFICATION Spec
CONSTANTS
    None = None
    Generated = {g1}
    Imported = {}
    Passphrase = {p1}
    Command <- MCCommand
    MaxConn = 2
    MaxCall = 3
    MaxPush = 1
CHECK_DEADLOCK FALSE
PROPERTIES
    CallsReturn
    ShutdownEnds
