SPECIFICATION Spec
CONSTANTS
    Limit = 2
    Pause = 1
    MaxEvents = 2
INVARIANTS
    KeepsTrying
    ConnectedHonest
 
