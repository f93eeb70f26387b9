\* One cache of three entries and ten keys, every sequence of requests.
SPECIFICATION Spec
CONSTANTS
    Str <- AllStr
    Decoded <- AllDecoded
    Addr = {a1, a2, a3, a4}
    NULL = NULL
    CacheId = {0}
    CACHE_SIZE = 3
    Bucket = {"left", "right"}
    CacheBucket <- MCCacheBucket
SYMMETRY Symmetry
INVARIANTS
    CacheSound
    StructuresIntact
PROPERTIES
    ReturnsRequested
    ImplementsLru
