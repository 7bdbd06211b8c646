SPECIFICATION Spec
CONSTANTS
    Documents <- MCDocuments
    HashLength = 2
    Values <- MCValues
    decode <- Decode
    encode <- Encode
    utf8 <- Utf8
    Threads = {t1, t2}
    Alphabet = {"i", "e", "l", "d", ":", "-", "+", "_", "0", "1", "x"}
    MaxLength = 4
    MaxSize = 3
    MaxTotal = 3
    MaxFiles = 3
    PieceLengths = {1, 2, 3}
INVARIANTS TypeOK SpellingIsKept WritesLandRight FilesAreWhole
CHECK_DEADLOCK FALSE
SYMMETRY ThreadSymmetry
