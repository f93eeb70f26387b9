\* Every sequence of comparisons of eleven strings.
\* Up to five additions of four symbols, four strings, one size that is too large.
SPECIFICATION MCSpec
CONSTANTS
    s1 = s1
    s2 = s2
    s3 = s3
    s4 = s4
    Symbols <- MCSymbols
    Hash <- MCHash
    Str <- MCStr
    Arg <- MCArg
    BPP = {3, 5}
    WORD = 5
    PortableSize <- MCPortableSize
    MAX_SERIALIZED_SIZE = 3
    MaxAdded = 5
    MaxStrings = 4
INVARIANTS
    OneStringOwned
PROPERTIES
    ImplementsSymbolSet
    ImplementsSetVersion
