\* Up to four symbols, radix passes of two bits from three symbols on.
SPECIFICATION FairSpec
CONSTANTS
    s1 = s1
    s2 = s2
    s3 = s3
    s4 = s4
    Symbols <- MCSymbols
    Length <- MCLength
    Hash <- MCHash
    BPP = {3, 5}
    WORD = 5
    SymbolsStep = 2
    StringsFirst = 2
    RadixFrom = 3
    RadixBits = 2
    MaxSymbols = 4
    NoSymbol = NoSymbol
INVARIANTS
    TypeOK
    SymbolsKept
    SortedSoFar
PROPERTIES
    ImplementsSymbolSet
    CallsReturn
