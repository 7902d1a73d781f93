SPECIFICATION NetSpec
CONSTANTS
    Shapes <- MCShapes
    Joins = {"merge"}
    MaxEmits = 2
    MaxCalls = 1
INVARIANTS
    OutEndsWithAll
CHECK_DEADLOCK FALSE
