SPECIFICATION SettingsSpec
CONSTANTS
    Text <- MCText
    Size = 2
    VERSION <- MCVersion
    Edevelopment <- MCOne
    One <- MCOne
INVARIANTS
    OnlyKnownLoss
    
    
