SPECIFICATION Spec
CONSTANTS
    Old = "Old"
    New = "New"
    Inner = "Inner"
    Outer = "Outer"
    Color = "Color"
    MaxVaried = 3
    Schema <- MCSchema
    Clients <- MCClients
    Enums <- MCEnums
    KeyText <- MCKeyText
    Builtins <- MCBuiltins
    Levels <- MCLevels
    Passed <- MCPassed
INVARIANTS
    TypeOK
    ReadIsTyped
    CarriedUnchanged
    SkewResetsToDefault
    RefusedOnlyUnfit
