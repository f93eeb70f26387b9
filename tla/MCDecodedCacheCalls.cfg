\* One cache of three entries and five keys, every sequence of requests, all running on.
SPECIFICATION FairSpec
CONSTANTS
    Str <- FewStr
    Decoded <- FewDecoded
    Addr = {a1, a2, a3, a4}
    NULL = NULL
    CacheId = {0}
    CACHE_SIZE = 3
    Bucket = {"left", "right"}
    CacheBucket <- MCCacheBucket
PROPERTIES
    CallsReturn
