SPECIFICATION Spec
CONSTANTS
    c1 = c1
    c2 = c2
    Conns = {c1, c2}
    None = None
    Poller = Poller
    DATA_WAIT = 0
    CLOSE_WAIT = 0
    RespLimit = 0
    UploadTime = 2
    MaxDepth = 2
    Kinds <- MCKinds
INVARIANTS
    NoStray
    OwnReplies
PROPERTY Served
