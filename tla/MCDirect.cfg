\* Every sequence of comparisons of six strings, until five identities are used.
\* Up to four symbols, passes of two bits from three symbols on, two precisions.
SPECIFICATION MCSpec
CONSTANTS
    Str <- MCStr
    Arg <- MCArg
    Decoded <- MCDecoded
    CACHE_SIZE = 2
    PAIR_CACHE_SIZE = 2
    Bucket = {"left", "right"}
    CacheBucket <- MCCacheBucket
    MaxIdentity = 5
    s1 = s1
    s2 = s2
    s3 = s3
    s4 = s4
    Symbols <- Names
    Length <- MCLength
    Hash <- MCHash
    BPP = {3, 5}
    WORD = 5
    SymbolsStep = 2
    StringsFirst = 2
    RadixFrom = 3
    RadixBits = 2
    MaxSymbols = 4
INVARIANTS
    MemorySound
    HeldEntries
    StructuresAgree
    NamesFollow
PROPERTIES
    ImplementsSetVersion
    ImplementsSymbolSet
