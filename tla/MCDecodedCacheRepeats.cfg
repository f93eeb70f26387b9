\* A string whose payload holds the same value twice.
SPECIFICATION Spec
CONSTANTS
    Str <- RepeatStr
    Decoded <- RepeatDecoded
    Addr = {a1, a2}
    NULL = NULL
    CacheId = {0}
    CACHE_SIZE = 1
    Bucket = {"left", "right"}
    CacheBucket <- MCCacheBucket
SYMMETRY Symmetry
INVARIANTS
    NormalisedArrays
