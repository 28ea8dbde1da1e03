SPECIFICATION FormSpec
CONSTANTS
    CR = CR
    LF = LF
    DASH = DASH
    Alphabet = {CR, LF, DASH, "b"}
    Boundary <- MCBoundary
    Forms <- MCForms
    MaxFile = 6
    BUFLEN = 3
    KeyLen = 2
    MAX_KEYS = 2
INVARIANTS
    
    DelimiterSeen
    
    
