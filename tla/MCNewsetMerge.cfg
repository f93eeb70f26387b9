\* Sets of values below 9, the second of at most three.
SPECIFICATION MCSpec
CONSTANTS
    MaxValue = 8
    MaxSecond = 3
    Arrays <- MCArrays
INVARIANTS
    WindowHolds
    AnswersVerdict
PROPERTIES
    Terminates
