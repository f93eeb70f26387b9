\* Two caches of one entry each, every sequence of comparisons of seven strings.
SPECIFICATION CmpSpec
CONSTANTS
    Str <- MCStr
    Decoded <- MCDecoded
    Arg <- MCArg
    Addr = {a1, a2, a3}
    NULL = NULL
    CacheId = {0, 1}
    CACHE_SIZE = 1
    Bucket = {"left", "right"}
    CacheBucket <- MCCacheBucket
SYMMETRY Symmetry
INVARIANTS
    HeldArrays
PROPERTIES
    ImplementsSetVersion
