SPECIFICATION Spec
CONSTANTS
    Guests = {g1, g2}
    Calls = {c1}
    Keys = {k1, k2}
    Longer <- MCLonger
    Resps = {ok, old}
    TooOld = old
    maxlogs = 3
    MaxLines = 3
    MaxTime = 2
    ErequestActualSec = 0
    NoKey = NoKey
    NoTime = NoTime
    NoResp = NoResp
    Header = Header
    Broken = Broken
    NoFile = NoFile
    Empty = Empty
    NoReply = NoReply
    NoCall = NoCall
SYMMETRY Symmetry
INVARIANTS
    TypeOK
    NothingInvented
    AnswerOfTheSecond
