\* The last reduction is done with a mask of one bit too many.
SPECIFICATION Spec
CONSTANTS
    Str <- MCStr
INVARIANTS
    ReducedToBpp
