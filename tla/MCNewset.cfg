\* Every sequence of comparisons of seven strings, five of which can be cached.
\* Up to three symbols out of four, an array that grows by two entries.
SPECIFICATION MCSpec
CONSTANTS
    Str <- MCStr
    Arg <- MCArg
    Arrays <- MCArrays
    CACHE_SIZE = 4
    PIVOT_SIZE = 2
    s1 = s1
    s2 = s2
    s3 = s3
    s4 = s4
    Symbols <- Names
    Hash <- MCHash
    Address = {1, 2, 3, 4}
    BPP = {3, 5}
    WORD = 5
    Delta = 2
    MaxSymbols = 3
INVARIANTS
    RecentHitsKept
PROPERTIES
    ImplementsSetVersion
    ImplementsSymbolSet
