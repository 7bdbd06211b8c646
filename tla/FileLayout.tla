------------------------------ MODULE FileLayout ------------------------------
(***************************************************************************)
(* Where the bytes of a piece belong: TorrentMetadata.get_piece_length and *)
(* get_file_offset.  A layout m has m.pieceLength, m.numPieces, m.size and *)
(* m.files, a sequence of [path, size].  Positions count from 0; a slice   *)
(* of a piece is what it has in one file.                                  *)
(***************************************************************************)
EXTENDS Integers, Sequences

LesserOf(a, b)  == IF a < b THEN a ELSE b
GreaterOf(a, b) == IF a > b THEN a ELSE b

\* file_start of each file, and, one past the last, the sum of the sizes.
Starts(files) ==
    LET start[k \in 1..Len(files) + 1] ==
            IF k = 1 THEN 0 ELSE start[k - 1] + files[k - 1].size
    IN start

TotalSize(files) == Starts(files)[Len(files) + 1]

FileStart(m, k) == Starts(m.files)[k]

\* Mutation: a last piece that is full has no bytes.
PieceLengthBare(m, i) ==
    IF i = m.numPieces - 1 THEN m.size % m.pieceLength ELSE m.pieceLength

\* get_piece_length, and the same computation in PieceManager.__init__.
PieceLength(m, i) ==
    IF i = m.numPieces - 1 /\ m.size % m.pieceLength # 0
    THEN m.size % m.pieceLength
    ELSE m.pieceLength

PieceStart(m, i) == i * m.pieceLength

PieceEnd(m, i) == PieceStart(m, i) + PieceLength(m, i)

\* The files get_file_offset makes a slice of: those before the piece are
\* skipped, those past it end the loop.
Overlaps(m, i) ==
    {k \in DOMAIN m.files : FileStart(m, k) < PieceEnd(m, i) /\ FileStart(m, k + 1) > PieceStart(m, i)}

SliceFrom(m, i, k) == GreaterOf(PieceStart(m, i), FileStart(m, k))

SliceTo(m, i, k) == LesserOf(PieceEnd(m, i), FileStart(m, k + 1))

\* Mutation: the offset is the piece's, not the overlap's.
OffsetAtPiece(m, i, k) == GreaterOf(0, PieceStart(m, i) - FileStart(m, 1))

\* offset_in_file
Offset(m, i, k) == SliceFrom(m, i, k) - FileStart(m, k)

SliceLength(m, i, k) == SliceTo(m, i, k) - SliceFrom(m, i, k)
=============================================================================
