\* sorted_subset: sets of values below 9, the small one of at most two.
\* downsample_set: every set of values up to 9 that fits the precision it is reduced from.
\* downsample_to: from 26 bits to ten in two passes, to 17 in three, to 23 and 25 bit by bit.
SPECIFICATION MCSpec
CONSTANTS
    MaxCompared = 8
    MaxSmall = 2
    Compared <- MCCompared
    MaxValue = 9
    Target = {1, 2, 3}
    Arrays <- MCArrays
    DecodedSets <- MCSets
    DirectTarget = {10, 17, 23, 25, 26}
    RadixBits = 8
INVARIANTS
    NoWrap
    AnswersInclusion
    HeadsInside
    ReducesSet
    DirectReducesSet
PROPERTIES
    Terminates
