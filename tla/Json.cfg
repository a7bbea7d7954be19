SPECIFICATION Spec
CONSTANTS
    Doc = {l, r, x}
    Result = x
    Key = {1, 2}
    Given <- MCGiven
    Path <- MCPath
    Written = 7
    IntLimit = 16
    MaxDepth = 2
    MaxSteps = 2
INVARIANT TypeOK
INVARIANT Related
 
CHECK_DEADLOCK FALSE
