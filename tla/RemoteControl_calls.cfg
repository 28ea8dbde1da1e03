SPECIFICATION Spec
CONSTANTS
    Guests = {g1}
    Calls = {c1, c2}
    Keys = {k1}
    Longer <- MCLonger
    Resps = {ok, old}
    TooOld = old
    maxlogs = 3
    MaxLines = 4
    MaxTime = 3
    ErequestActualSec = 0
    NoKey = NoKey
    NoTime = NoTime
    NoResp = NoResp
    Header = Header
    Broken = Broken
    NoFile = NoFile
    Empty = Empty
    NoReply = NoReply
    NoCall = NoCall
SYMMETRY Symmetry
INVARIANTS
    RefusedOnlyWhenOld
