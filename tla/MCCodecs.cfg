\* Decoder: payloads of up to five characters of six kinds, words of 14 bits.
\* Encoder: subsets of eight values of 14 bits, and a set with one long gap.
\* Direct format: six widths, nine arrays each, and every text next to one of their encodings.
SPECIFICATION MCSpec
CONSTANTS
    WORD = 14
    Payload <- MCPayload
    MSHIFT = {7, 12}
    Arrays <- MCArrays
    BPP = 14
    MaxLength = 5
    Gap = 16383
INVARIANTS
    TypeOK
    ReadsInside
    StreamedAsStaged
    FitsBuffer
    RoundTrip
    AcceptsCanonical
PROPERTIES
    Terminates
