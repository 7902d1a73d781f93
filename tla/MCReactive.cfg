SPECIFICATION NetSpec
CONSTANTS
    Shapes <- MCShapes
    Joins = {"none", "merge", "combine", "concat", "all", "race", "finish", "fork"}
    MaxEmits = 2
    MaxCalls = 1
INVARIANTS
    EveryoneIsReached
    OutEndsLast
    OutEnds
PROPERTIES
    LateIsDropped
CHECK_DEADLOCK FALSE
