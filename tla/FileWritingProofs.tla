-------------------------- MODULE FileWritingProofs --------------------------
(***************************************************************************)
(* What holds of FileWriting for a torrent of any files, any piece length  *)
(* and any number of threads: the slices of a piece are where they belong, *)
(* whatever is on disk is the torrent's, and pieces that were all written  *)
(* leave no holes, but in files a thread made when they had something.     *)
(* And of TorrentMetadata: whatever file is offered, what it loads is such *)
(* a torrent, so the same holds from the .torrent file on.                 *)
(***************************************************************************)
EXTENDS TorrentMetadata, SequenceTheorems, WellFoundedInduction, TLAPS

-----------------------------------------------------------------------------
(* The inductive invariant. *)

\* Whoever wrote anything, or is about to, had a torrent to write.
OnlyWritable ==
    written # {} \/ DOMAIN disk # {} \/ (\E t \in Threads : job[t].piece # NoPiece) => Writable

\* What is left of a piece is its last slices, and the cursor is at the first.
CursorsFollow ==
    \A t \in Threads : LET i == job[t].piece IN
        IF i = NoPiece THEN job[t].left = {} ELSE
            /\ job[t].left \subseteq Overlaps(meta, i)
            /\ \A k \in job[t].left :
                  /\ \A j \in Overlaps(meta, i) : j >= k => j \in job[t].left
                  /\ (\A j \in job[t].left : k <= j) =>
                        job[t].cursor = SliceFrom(meta, i, k) - PieceStart(meta, i)

\* What piece i has in file k is on disk, or the file was emptied.
IsOnDisk(i, k) == LET f == meta.files[k] IN
    f.path \notin emptied =>
    /\ f.path \in DOMAIN disk
    /\ \A o \in 1..f.size :
          FileStart(meta, k) + o \in PieceStart(meta, i) + 1..PieceEnd(meta, i) =>
              o \in DOMAIN disk[f.path] /\ disk[f.path][o] # 0

\* Of a written piece every slice is on disk; of one being written, those that
\* are not left.
SlicesStay ==
    DistinctPaths =>
        /\ \A i \in written : \A k \in Overlaps(meta, i) : IsOnDisk(i, k)
        /\ \A t \in Threads : job[t].piece # NoPiece =>
              \A k \in Overlaps(meta, job[t].piece) \ job[t].left : IsOnDisk(job[t].piece, k)

WriteInv == WriteTypeOK /\ OnlyWritable /\ CursorsFollow /\ WritesLandRight /\ SlicesStay

-----------------------------------------------------------------------------
(* The starts of the files. *)

\* Induction: a set of numbers has a least one.
LEMMA LeastNumber ==
    ASSUME NEW S \in SUBSET Nat, S # {}
    PROVE  \E n \in S : \A k \in S : n <= k
<1>1. PICK n \in S : \A k \in S : <<k, n>> \notin OpToRel(<, Nat)
  BY WFMin, NatLessThanWellFounded
<1>2. \A k \in S : k \in Nat /\ n \in Nat => ~ (k < n)
  BY <1>1, Zenon DEF OpToRel
<1> QED
  BY <1>2

SizesTyped(files) ==
    /\ Len(files) \in Nat /\ DOMAIN files = 1..Len(files)
    /\ \A k \in DOMAIN files : files[k].size \in Int

\* f sums up the sizes of the files before k, for k up to n.
SumsUp(f, files, n) ==
    /\ f \in [1..n -> Int] /\ f[1] = 0
    /\ \A k \in 1..n : k # 1 => f[k] = f[k - 1] + files[k - 1].size

\* The recursion that defines Starts has a solution.
LEMMA SumsExist ==
    ASSUME NEW files, SizesTyped(files)
    PROVE  \E f : SumsUp(f, files, Len(files) + 1)
<1> DEFINE Fails == {n \in Nat : n <= Len(files) /\ ~ \E f : SumsUp(f, files, n + 1)}
<1>1. SUFFICES Fails = {}
  BY <1>1 DEF SizesTyped
<1>2. SUFFICES ASSUME NEW n \in Fails, \A k \in Fails : n <= k
               PROVE  FALSE
  BY <1>2, LeastNumber
<1>3. n \in Nat /\ n <= Len(files) /\ Len(files) \in Nat
  BY DEF SizesTyped
<1>4. CASE n = 0
  <2> DEFINE f == [k \in 1..1 |-> 0]
  <2>1. SumsUp(f, files, 1)
    BY DEF SumsUp
  <2> QED
    BY <1>4, <2>1
<1>5. CASE n # 0
  <2>1. n - 1 \in Nat /\ n - 1 <= Len(files) /\ n - 1 < n /\ (n - 1) + 1 = n
    BY <1>3, <1>5
  <2>9. n - 1 \notin Fails
    <3> HIDE DEF Fails
    <3> QED
      BY <1>2, <1>3, <2>1
  <2>2. PICK f : SumsUp(f, files, n)
    BY <2>1, <2>9
  <2> DEFINE g == [k \in 1..(n + 1) |-> IF k = n + 1 THEN f[n] + files[n].size ELSE f[k]]
  <2>3. files[n].size \in Int
    BY <1>3, <1>5 DEF SizesTyped
  <2>4. f \in [1..n -> Int] /\ f[1] = 0
    BY <2>2 DEF SumsUp
  <2>5. g \in [1..(n + 1) -> Int]
    BY <1>3, <1>5, <2>3, <2>4
  <2>6. g[1] = 0
    BY <1>3, <1>5, <2>4
  <2>7. ASSUME NEW k \in 1..(n + 1), k # 1
        PROVE  g[k] = g[k - 1] + files[k - 1].size
    <3>1. CASE k = n + 1
      BY <1>3, <1>5, <3>1
    <3>2. CASE k # n + 1
      <4>1. k \in 1..n /\ k - 1 \in 1..(n + 1) /\ k - 1 # n + 1
        BY <1>3, <2>7, <3>2
      <4>2. f[k] = f[k - 1] + files[k - 1].size
        BY <2>2, <2>7, <4>1 DEF SumsUp
      <4> QED
        BY <3>2, <4>1, <4>2
    <3> QED
      BY <3>1, <3>2
  <2>8. SumsUp(g, files, n + 1)
    <3> HIDE DEF g
    <3> QED
      BY <2>5, <2>6, <2>7 DEF SumsUp
  <2> QED
    BY <2>8
<1> QED
  BY <1>4, <1>5

\* Starts is that solution.
LEMMA StartsIs ==
    ASSUME NEW files, SizesTyped(files)
    PROVE  SumsUp(Starts(files), files, Len(files) + 1)
<1> DEFINE D == 1..Len(files) + 1
           Eq(s) == s = [k \in D |-> IF k = 1 THEN 0 ELSE s[k - 1] + files[k - 1].size]
<1>1. PICK f : SumsUp(f, files, Len(files) + 1)
  BY SumsExist
<1>2. Eq(f)
  <2>1. f \in [D -> Int]
    BY <1>1 DEF SumsUp
  <2>2. \A k \in D : f[k] = IF k = 1 THEN 0 ELSE f[k - 1] + files[k - 1].size
    BY <1>1 DEF SumsUp
  <2> HIDE DEF D
  <2> QED
    BY <2>1, <2>2
<1>3. Starts(files) = CHOOSE s : Eq(s)
  BY DEF Starts
<1> HIDE DEF Eq
<1>4. Eq(Starts(files))
  BY <1>2, <1>3, Zenon
<1> DEFINE s == Starts(files)
<1>5. s = [k \in D |-> IF k = 1 THEN 0 ELSE s[k - 1] + files[k - 1].size]
  BY <1>4 DEF Eq
<1> HIDE DEF s
<1>6. \A k \in D : s[k] = IF k = 1 THEN 0 ELSE s[k - 1] + files[k - 1].size
  <2> HIDE DEF D
  <2> QED
    BY <1>5, Zenon
<1>7. DOMAIN s = D /\ s = [k \in D |-> s[k]]
  <2> HIDE DEF D
  <2> QED
    BY <1>5, Zenon
<1>8. Len(files) \in Nat /\ 1 \in D
  BY DEF SizesTyped
<1>9. \A k \in D : s[k] = f[k]
  <2> DEFINE Fails == {k \in Nat : k \in D /\ s[k] # f[k]}
  <2>1. SUFFICES Fails = {}
    BY <1>8, <2>1
  <2>2. SUFFICES ASSUME NEW k \in Fails, \A j \in Fails : k <= j
                 PROVE  FALSE
    BY <2>2, LeastNumber
  <2>3. CASE k = 1
    BY <1>1, <1>6, <1>8, <2>2, <2>3 DEF SumsUp
  <2>4. CASE k # 1
    <3>1. k - 1 \in D /\ k - 1 \in Nat /\ k - 1 \notin Fails
      BY <1>8, <2>2, <2>4
    <3>2. s[k - 1] = f[k - 1]
      BY <3>1
    <3>3. f[k] = f[k - 1] + files[k - 1].size
      BY <1>1, <1>8, <2>2, <2>4 DEF SumsUp
    <3> QED
      BY <1>6, <2>2, <2>4, <3>2, <3>3
  <2> QED
    BY <2>3, <2>4
<1>10. \A k \in D : s[k] \in Int
  BY <1>1, <1>9 DEF SumsUp
<1>11. s \in [D -> Int]
  <2> HIDE DEF D
  <2> QED
    BY <1>7, <1>10
<1>12. s[1] = 0 /\ \A k \in D : k # 1 => s[k] = s[k - 1] + files[k - 1].size
  BY <1>6, <1>8
<1>13. SumsUp(s, files, Len(files) + 1)
  BY <1>11, <1>12 DEF SumsUp
<1> QED
  BY <1>13 DEF s

\* Files come one after the other, from 0 to the size of the torrent.
LEMMA FilesInARow ==
    ASSUME IsLayout(meta), Writable
    PROVE  LET n == Len(meta.files) IN
           /\ n \in Nat /\ DOMAIN meta.files = 1..n
           /\ FileStart(meta, 1) = 0 /\ FileStart(meta, n + 1) = meta.size
           /\ \A k \in 1..n : /\ meta.files[k].size \in Nat
                              /\ FileStart(meta, k + 1) = FileStart(meta, k) + meta.files[k].size
           /\ \A k \in 1..(n + 1) : FileStart(meta, k) \in Int
<1>1. SizesTyped(meta.files)
  BY DEF IsLayout, SizesTyped
<1>2. SumsUp(Starts(meta.files), meta.files, Len(meta.files) + 1)
  BY <1>1, StartsIs
<1>3. meta.size = Starts(meta.files)[Len(meta.files) + 1]
  BY DEF IsLayout, TotalSize
<1>4. \A k \in 1..Len(meta.files) : k + 1 \in 1..(Len(meta.files) + 1) /\ k + 1 # 1 /\ (k + 1) - 1 = k
  BY <1>1 DEF SizesTyped
<1> DEFINE n == Len(meta.files)
           start == Starts(meta.files)
<1>5. /\ n \in Nat /\ DOMAIN meta.files = 1..n
      /\ \A k \in 1..n : meta.files[k].size \in Nat
  BY <1>1 DEF SizesTyped, Writable
<1>6. /\ start[1] = 0 /\ \A k \in 1..(n + 1) : start[k] \in Int
      /\ \A k \in 1..(n + 1) : k # 1 => start[k] = start[k - 1] + meta.files[k - 1].size
  BY <1>2 DEF SumsUp
<1>7. \A k \in 1..n : start[k + 1] = start[k] + meta.files[k].size
  <2> HIDE DEF n, start
  <2> QED
    BY <1>4, <1>5, <1>6 DEF n
<1> QED
  BY <1>3, <1>5, <1>6, <1>7 DEF FileStart

LEMMA FilesRise ==
    ASSUME IsLayout(meta), Writable,
           NEW j \in 1..(Len(meta.files) + 1), NEW k \in 1..(Len(meta.files) + 1), j <= k
    PROVE  FileStart(meta, j) <= FileStart(meta, k)
<1> DEFINE n == Len(meta.files)
           Fails == {l \in Nat : l \in 1..(n + 1) /\ j <= l /\ ~ FileStart(meta, j) <= FileStart(meta, l)}
<1>1. /\ n \in Nat
      /\ \A l \in 1..n : /\ meta.files[l].size \in Nat
                         /\ FileStart(meta, l + 1) = FileStart(meta, l) + meta.files[l].size
      /\ \A l \in 1..(n + 1) : FileStart(meta, l) \in Int
  BY FilesInARow
<1>2. SUFFICES Fails = {}
  BY SMTT(40), <1>1, <1>2
<1>3. SUFFICES ASSUME NEW l \in Fails, \A h \in Fails : l <= h
               PROVE  FALSE
  BY <1>3, LeastNumber
<1>4. l # j
  BY <1>1, <1>3
<1>5. l - 1 \in Nat /\ l - 1 \in 1..n /\ j <= l - 1 /\ (l - 1) + 1 = l
  BY <1>1, <1>3, <1>4
<1>6. FileStart(meta, j) <= FileStart(meta, l - 1)
  <2>1. l - 1 \notin Fails
    BY <1>3, <1>5
  <2> QED
    BY <1>1, <1>5, <2>1
<1>7. FileStart(meta, l) = FileStart(meta, l - 1) + meta.files[l - 1].size
  BY <1>1, <1>5
<1>8. /\ FileStart(meta, j) \in Int /\ FileStart(meta, l - 1) \in Int
      /\ meta.files[l - 1].size \in Nat
  BY <1>1, <1>5
<1>9. FileStart(meta, j) <= FileStart(meta, l)
  BY <1>6, <1>7, <1>8
<1> QED
  BY <1>3, <1>9

LEMMA StartsInSize ==
    ASSUME IsLayout(meta), Writable
    PROVE  /\ meta.size \in Nat
           /\ \A k \in 1..(Len(meta.files) + 1) : FileStart(meta, k) \in 0..meta.size
<1> DEFINE n == Len(meta.files)
<1>1. /\ n \in Nat /\ 1 \in 1..(n + 1) /\ n + 1 \in 1..(n + 1)
      /\ FileStart(meta, 1) = 0 /\ FileStart(meta, n + 1) = meta.size
      /\ \A k \in 1..(n + 1) : FileStart(meta, k) \in Int
  BY FilesInARow
<1>2. \A k \in 1..(n + 1) : FileStart(meta, 1) <= FileStart(meta, k) /\ FileStart(meta, k) <= FileStart(meta, n + 1)
  BY <1>1, FilesRise
<1> QED
  BY <1>1, <1>2

-----------------------------------------------------------------------------
(* Pieces and slices. *)

LEMMA PieceTyped ==
    ASSUME IsLayout(meta), Writable, NEW i \in 0..(meta.numPieces - 1)
    PROVE  PieceStart(meta, i) \in Nat /\ PieceEnd(meta, i) \in Nat /\ PieceStart(meta, i) < PieceEnd(meta, i)
<1>1. meta.pieceLength \in Nat /\ meta.pieceLength > 0 /\ i \in Nat /\ meta.size \in Int
  BY StartsInSize DEF IsLayout, Writable
<1>2. PieceStart(meta, i) \in Nat
  BY <1>1 DEF PieceStart
<1>3. PieceLength(meta, i) \in Nat \ {0}
  <2>1. meta.size % meta.pieceLength \in Nat
    BY <1>1
  <2> QED
    BY <1>1, <2>1 DEF PieceLength
<1> QED
  BY <1>2, <1>3 DEF PieceEnd

\* A slice is the part of the piece that lies in the file, and lies in it where
\* it does in the torrent.
LEMMA SliceFits ==
    ASSUME IsLayout(meta), Writable, NEW i \in 0..(meta.numPieces - 1), NEW k \in Overlaps(meta, i)
    PROVE  LET from == Offset(meta, i, k)
               to == Offset(meta, i, k) + SliceLength(meta, i, k)
           IN /\ k \in DOMAIN meta.files /\ k \in Nat /\ k \in 1..Len(meta.files)
              /\ from \in Nat /\ SliceLength(meta, i, k) \in Nat /\ to <= meta.files[k].size
              /\ SliceFrom(meta, i, k) \in Int /\ SliceFrom(meta, i, k) = FileStart(meta, k) + from
              /\ SliceFrom(meta, i, k) - PieceStart(meta, i) \in Nat
              /\ \A o \in 1..meta.files[k].size :
                    o \in (from + 1)..to <=> FileStart(meta, k) + o \in (PieceStart(meta, i) + 1)..PieceEnd(meta, i)
<1>1. k \in DOMAIN meta.files /\ FileStart(meta, k) < PieceEnd(meta, i) /\ FileStart(meta, k + 1) > PieceStart(meta, i)
  BY DEF Overlaps
<1>2. /\ k \in Nat /\ k \in 1..Len(meta.files) /\ meta.files[k].size \in Nat /\ FileStart(meta, k) \in Int
      /\ FileStart(meta, k + 1) = FileStart(meta, k) + meta.files[k].size
  BY <1>1, FilesInARow
<1>3. PieceStart(meta, i) \in Nat /\ PieceEnd(meta, i) \in Nat /\ PieceStart(meta, i) < PieceEnd(meta, i)
  BY PieceTyped
<1> DEFINE a == SliceFrom(meta, i, k)
           b == SliceTo(meta, i, k)
<1>4. /\ a \in Int /\ PieceStart(meta, i) <= a /\ FileStart(meta, k) <= a
      /\ a = PieceStart(meta, i) \/ a = FileStart(meta, k)
  BY <1>2, <1>3 DEF SliceFrom, GreaterOf
<1>5. FileStart(meta, k + 1) \in Int
  BY <1>2
<1>6. /\ b \in Int /\ b <= PieceEnd(meta, i) /\ b <= FileStart(meta, k + 1)
      /\ b = PieceEnd(meta, i) \/ b = FileStart(meta, k + 1)
  BY <1>3, <1>5 DEF SliceTo, LesserOf
<1>7. /\ a \in Int /\ b \in Int /\ a <= b
      /\ PieceStart(meta, i) <= a /\ FileStart(meta, k) <= a
      /\ b <= FileStart(meta, k) + meta.files[k].size
  <2> HIDE DEF a, b
  <2> QED
    BY SMTT(40), <1>1, <1>2, <1>3, <1>4, <1>5, <1>6
<1>8. ASSUME NEW o \in 1..meta.files[k].size
      PROVE  FileStart(meta, k) + o \in (a + 1)..b
                <=> FileStart(meta, k) + o \in (PieceStart(meta, i) + 1)..PieceEnd(meta, i)
  <2> DEFINE x == FileStart(meta, k) + o
  <2>1. x \in Int /\ x > FileStart(meta, k) /\ x <= FileStart(meta, k + 1) /\ FileStart(meta, k + 1) \in Int
    BY SMTT(40), <1>2
  <2> HIDE DEF x
  <2>2. x \in (a + 1)..b <=> x \in (PieceStart(meta, i) + 1)..PieceEnd(meta, i)
    BY SMTT(40), <1>2, <1>3, <2>1 DEF SliceFrom, SliceTo, GreaterOf, LesserOf
  <2> QED
    BY <2>2 DEF x
<1>9. Offset(meta, i, k) = a - FileStart(meta, k) /\ SliceLength(meta, i, k) = b - a
  BY DEF Offset, SliceLength
<1> HIDE DEF a, b
<1>10. \A o \in 1..meta.files[k].size :
        o \in (Offset(meta, i, k) + 1)..(Offset(meta, i, k) + SliceLength(meta, i, k)) <=> FileStart(meta, k) + o \in (a + 1)..b
  BY SMTT(40), <1>2, <1>7, <1>9
<1>11. /\ Offset(meta, i, k) \in Nat /\ SliceLength(meta, i, k) \in Nat
       /\ Offset(meta, i, k) + SliceLength(meta, i, k) <= meta.files[k].size
       /\ a = FileStart(meta, k) + Offset(meta, i, k) /\ a - PieceStart(meta, i) \in Nat
  <2>1. a - FileStart(meta, k) \in Nat /\ b - a \in Nat /\ a - PieceStart(meta, i) \in Nat
    BY SMTT(40), <1>2, <1>3, <1>7
  <2>2. a = FileStart(meta, k) + (a - FileStart(meta, k)) /\ (a - FileStart(meta, k)) + (b - a) <= meta.files[k].size
    BY SMTT(40), <1>2, <1>7
  <2> QED
    BY <1>9, <2>1, <2>2
<1>12. \A o \in 1..meta.files[k].size :
        o \in (Offset(meta, i, k) + 1)..(Offset(meta, i, k) + SliceLength(meta, i, k))
            <=> FileStart(meta, k) + o \in (PieceStart(meta, i) + 1)..PieceEnd(meta, i)
  BY <1>8, <1>10, Zenon
<1> QED
  BY <1>1, <1>2, <1>7, <1>11, <1>12 DEF a

\* The slices of a piece are those of files in a row, and one begins where the
\* one before ends.
LEMMA SlicesInARow ==
    ASSUME IsLayout(meta), Writable, NEW i \in 0..(meta.numPieces - 1),
           NEW j \in Overlaps(meta, i), NEW k \in Overlaps(meta, i), j < k
    PROVE  /\ j + 1 \in Overlaps(meta, i)
           /\ SliceFrom(meta, i, j) + SliceLength(meta, i, j) = SliceFrom(meta, i, j + 1)
<1>1. /\ j \in DOMAIN meta.files /\ FileStart(meta, j) < PieceEnd(meta, i) /\ FileStart(meta, j + 1) > PieceStart(meta, i)
      /\ k \in DOMAIN meta.files /\ FileStart(meta, k) < PieceEnd(meta, i)
  BY DEF Overlaps
<1>2. /\ Len(meta.files) \in Nat /\ DOMAIN meta.files = 1..Len(meta.files)
      /\ \A l \in 1..(Len(meta.files) + 1) : FileStart(meta, l) \in Int
  BY FilesInARow
<1>3. j + 1 \in DOMAIN meta.files /\ j + 2 \in 1..(Len(meta.files) + 1) /\ (j + 1) + 1 = j + 2
  BY <1>1, <1>2
<1>4. FileStart(meta, j + 1) <= FileStart(meta, k) /\ FileStart(meta, j + 1) <= FileStart(meta, j + 2)
      /\ FileStart(meta, j) <= FileStart(meta, j + 1)
  BY SMTT(40), <1>1, <1>2, <1>3, FilesRise
<1>5. PieceStart(meta, i) \in Nat /\ PieceEnd(meta, i) \in Nat /\ PieceStart(meta, i) < PieceEnd(meta, i)
  BY PieceTyped
<1>6. /\ FileStart(meta, j) \in Int /\ FileStart(meta, j + 1) \in Int /\ FileStart(meta, j + 2) \in Int
      /\ FileStart(meta, k) \in Int
  BY <1>1, <1>2, <1>3
<1>7. j + 1 \in Overlaps(meta, i)
  BY <1>1, <1>3, <1>4, <1>5, <1>6 DEF Overlaps
<1> QED
  BY <1>1, <1>3, <1>4, <1>5, <1>6, <1>7 DEF SliceLength, SliceFrom, SliceTo, GreaterOf, LesserOf

\* The first slice of a piece begins where the piece does.
LEMMA FirstSlice ==
    ASSUME IsLayout(meta), Writable, NEW i \in 0..(meta.numPieces - 1), NEW k \in Overlaps(meta, i),
           \A j \in Overlaps(meta, i) : k <= j
    PROVE  SliceFrom(meta, i, k) - PieceStart(meta, i) = 0
<1>1. k \in DOMAIN meta.files /\ FileStart(meta, k) < PieceEnd(meta, i)
  BY DEF Overlaps
<1>2. /\ Len(meta.files) \in Nat /\ DOMAIN meta.files = 1..Len(meta.files) /\ FileStart(meta, 1) = 0
      /\ \A l \in 1..(Len(meta.files) + 1) : FileStart(meta, l) \in Int
  BY FilesInARow
<1>3. PieceStart(meta, i) \in Nat /\ PieceEnd(meta, i) \in Nat
  BY PieceTyped
<1>4. ~ FileStart(meta, k) > PieceStart(meta, i)
  <2> SUFFICES ASSUME FileStart(meta, k) > PieceStart(meta, i)
               PROVE  FALSE
    OBVIOUS
  <2>1. k # 1
    BY <1>2, <1>3
  <2>2. k - 1 \in DOMAIN meta.files /\ k - 1 \in 1..(Len(meta.files) + 1) /\ k \in 1..(Len(meta.files) + 1) /\ k - 1 <= k
        /\ (k - 1) + 1 = k /\ ~ k <= k - 1
    BY <1>1, <1>2, <2>1
  <2>3. FileStart(meta, k - 1) <= FileStart(meta, k)
    BY <2>2, FilesRise
  <2>4. FileStart(meta, k - 1) < PieceEnd(meta, i)
    BY <1>1, <1>2, <1>3, <2>2, <2>3
  <2>5. k - 1 \in Overlaps(meta, i)
    BY <2>2, <2>4 DEF Overlaps
  <2> QED
    BY <2>2, <2>5
<1>5. FileStart(meta, k) \in Int
  BY <1>1, <1>2
<1> QED
  BY <1>3, <1>4, <1>5 DEF SliceFrom, GreaterOf

-----------------------------------------------------------------------------
(* A step keeps the invariant. *)

Busy(t) == job[t].piece # NoPiece

LEMMA JobsTyped ==
    ASSUME WriteTypeOK, NEW t \in Threads
    PROVE  /\ job[t].piece \in {NoPiece} \cup 0..(meta.numPieces - 1)
           /\ job[t].left \subseteq DOMAIN meta.files /\ job[t].cursor \in Nat
BY DEF WriteTypeOK, Jobs

\* old with bytes from + 1 to "to" set to those of the torrent that start at shift.
Patched(old, from, to, shift) ==
    [o \in 1..GreaterOf(Len(old), to) |->
        IF o \in (from + 1)..to THEN shift + o ELSE IF o \in DOMAIN old THEN old[o] ELSE 0]

\* The contents a slice of file k is written over.
Contents(k) == disk[meta.files[k].path]

\* The piece of a busy job, the first of its slices that are left.
FirstLeft(t, k) ==
    /\ IsNext(t, k) /\ k \in Overlaps(meta, job[t].piece)
    /\ job[t].piece \in 0..(meta.numPieces - 1)
    /\ Writable

\* A slice is written where the torrent has it.
Written(t, k) == LET i == job[t].piece IN
    /\ meta.files[k].path \in DOMAIN disk
    /\ disk' = [disk EXCEPT ![meta.files[k].path] =
                  Patched(Contents(k), Offset(meta, i, k), Offset(meta, i, k) + SliceLength(meta, i, k), FileStart(meta, k))]
    /\ job' = [job EXCEPT ![t].left = @ \ {k}, ![t].cursor = @ + SliceLength(meta, i, k)]
    /\ written' = written /\ emptied' = emptied

LEMMA NextIsFirst ==
    ASSUME WriteInv, NEW t \in Threads, NEW k, IsNext(t, k)
    PROVE  FirstLeft(t, k) /\ job[t].cursor = SliceFrom(meta, job[t].piece, k) - PieceStart(meta, job[t].piece)
<1> DEFINE i == job[t].piece
<1>1. k \in job[t].left /\ \A j \in job[t].left : k <= j
  BY DEF IsNext
<1>2. i # NoPiece /\ k \in Overlaps(meta, i) /\ job[t].cursor = SliceFrom(meta, i, k) - PieceStart(meta, i)
  BY <1>1 DEF WriteInv, CursorsFollow
<1>3. i \in 0..(meta.numPieces - 1)
  BY <1>2, JobsTyped DEF WriteInv
<1>4. Writable
  BY <1>2 DEF WriteInv, OnlyWritable
<1> QED
  BY <1>2, <1>3, <1>4 DEF FirstLeft

LEMMA SliceIsWritten ==
    ASSUME IsLayout(meta), WriteInv, NEW t \in Threads, WriteSlice(t)
    PROVE  \E k \in job[t].left : FirstLeft(t, k) /\ Written(t, k)
<1> DEFINE i == job[t].piece
           New(k) == Overwrite(Contents(k), Offset(meta, i, k), SliceLength(meta, i, k), i, job[t].cursor)
<1>1. PICK k \in job[t].left :
        /\ IsNext(t, k) /\ meta.files[k].path \in DOMAIN disk
        /\ disk' = [disk EXCEPT ![meta.files[k].path] = New(k)]
        /\ job' = [job EXCEPT ![t].left = @ \ {k}, ![t].cursor = @ + SliceLength(meta, i, k)]
        /\ written' = written /\ emptied' = emptied
  BY Zenon DEF WriteSlice, Contents
<1>2. FirstLeft(t, k) /\ job[t].cursor = SliceFrom(meta, i, k) - PieceStart(meta, i)
  <2> HIDE DEF New
  <2> QED
    BY <1>1, NextIsFirst
<1>3. k \in Overlaps(meta, i) /\ i \in 0..(meta.numPieces - 1) /\ Writable
  BY <1>2 DEF FirstLeft
<1> DEFINE from == Offset(meta, i, k)
           length == SliceLength(meta, i, k)
<1>4. /\ from \in Nat /\ length \in Nat /\ FileStart(meta, k) \in Int
      /\ SliceFrom(meta, i, k) \in Int /\ SliceFrom(meta, i, k) = FileStart(meta, k) + from
  <2>1. k \in 1..Len(meta.files)
    BY <1>3, SliceFits
  <2> QED
    BY <1>3, <2>1, SliceFits, FilesInARow
<1>5. PieceStart(meta, i) \in Int
  BY <1>3, PieceTyped
<1>6. ASSUME NEW o \in (from + 1)..(from + length)
      PROVE  PieceStart(meta, i) + job[t].cursor + (o - from) = FileStart(meta, k) + o
  BY <1>2, <1>4, <1>5, <1>6
<1>7. New(k) = Patched(Contents(k), from, from + length, FileStart(meta, k))
  <2>1. New(k) = Overwrite(Contents(k), from, length, i, job[t].cursor)
    OBVIOUS
  <2> HIDE DEF from, length, i, New
  <2>2. New(k) = [o \in 1..GreaterOf(Len(Contents(k)), from + length) |->
                    IF o \in (from + 1)..(from + length)
                    THEN PieceStart(meta, i) + job[t].cursor + (o - from)
                    ELSE IF o \in DOMAIN Contents(k) THEN Contents(k)[o] ELSE 0]
    BY <2>1, Zenon DEF Overwrite
  <2> DEFINE L(o) == PieceStart(meta, i) + job[t].cursor + (o - from)
             R(o) == FileStart(meta, k) + o
             In(o) == o \in (from + 1)..(from + length)
  <2>3. \A o : In(o) => L(o) = R(o)
    BY <1>6 DEF i
  <2> HIDE DEF L, R, In
  <2>4. New(k) = [o \in 1..GreaterOf(Len(Contents(k)), from + length) |->
                    IF In(o) THEN R(o) ELSE IF o \in DOMAIN Contents(k) THEN Contents(k)[o] ELSE 0]
    BY <2>2, <2>3, Zenon DEF L, In
  <2> QED
    BY <2>4, Zenon DEF Patched, R, In
<1> QED
  BY <1>1, <1>2, <1>7 DEF Written

\* The size a file is truncated to is the one the torrent gives it.
LEMMA FirstSizeIs ==
    ASSUME IsLayout(meta), Writable, NEW k \in DOMAIN meta.files
    PROVE  /\ FirstSize(meta.files[k].path) \in Nat
           /\ DistinctPaths => FirstSize(meta.files[k].path) = meta.files[k].size
<1> DEFINE Same == {j \in Nat : j \in DOMAIN meta.files /\ meta.files[j].path = meta.files[k].path}
           First(h) == /\ meta.files[h].path = meta.files[k].path
                       /\ \A j \in DOMAIN meta.files : j < h => meta.files[j].path # meta.files[k].path
           c == CHOOSE h \in DOMAIN meta.files : First(h)
<1>1. Len(meta.files) \in Nat /\ DOMAIN meta.files = 1..Len(meta.files)
  BY FilesInARow
<1>2. k \in Same
  BY <1>1
<1>3. PICK h \in Same : \A j \in Same : h <= j
  BY <1>2, LeastNumber
<1>4. h \in DOMAIN meta.files /\ First(h)
  BY <1>1, <1>3
<1>5. c \in DOMAIN meta.files /\ First(c)
  <2> HIDE DEF First
  <2> QED
    BY <1>4, Zenon
<1>6. FirstSize(meta.files[k].path) = meta.files[c].size
  BY Zenon DEF FirstSize
<1> HIDE DEF c
<1>7. meta.files[c].size \in Nat
  BY <1>5, FilesInARow
<1>8. DistinctPaths => c = k
  BY <1>5 DEF DistinctPaths
<1> QED
  BY <1>6, <1>7, <1>8

LEMMA SameRange ==
    ASSUME NEW a \in Nat, NEW b \in Nat, 1..a = 1..b
    PROVE  a = b
<1>1. a <= b
  <2>1. a = 0 \/ a \in 1..a
    OBVIOUS
  <2> QED
    BY <2>1
<1>2. b <= a
  <2>1. b = 0 \/ b \in 1..b
    OBVIOUS
  <2> QED
    BY <2>1
<1> QED
  BY <1>1, <1>2

\* The bytes of old and those set are positions of a torrent of n bytes.
PatchFits(n, old, from, to, shift) ==
    /\ n \in Nat /\ old \in Seq(0..n) /\ from \in Nat /\ to \in Nat /\ shift \in Int
    /\ \A o \in (from + 1)..to : shift + o \in 0..n

LEMMA PatchedIs ==
    ASSUME NEW n, NEW old, NEW from, NEW to, NEW shift, PatchFits(n, old, from, to, shift),
           NEW new, new = Patched(old, from, to, shift)
    PROVE  /\ new \in Seq(0..n) /\ DOMAIN new = 1..Len(new) /\ Len(new) = GreaterOf(Len(old), to)
           /\ \A o \in 1..Len(new) :
                new[o] = IF o \in (from + 1)..to THEN shift + o ELSE IF o \in DOMAIN old THEN old[o] ELSE 0
<1> DEFINE m == GreaterOf(Len(old), to)
           Byte(o) == IF o \in (from + 1)..to THEN shift + o ELSE IF o \in DOMAIN old THEN old[o] ELSE 0
<1>1. Len(old) \in Nat /\ DOMAIN old = 1..Len(old) /\ old \in [1..Len(old) -> 0..n]
  BY LenProperties DEF PatchFits
<1>2. m \in Nat
  BY <1>1 DEF GreaterOf, PatchFits
<1>3. new = [o \in 1..m |-> Byte(o)]
  BY DEF Patched
<1>4. \A o \in 1..m : Byte(o) \in 0..n
  <2>1. 0 \in 0..n /\ \A o \in DOMAIN old : old[o] \in 0..n
    BY <1>1 DEF PatchFits
  <2> QED
    BY <2>1 DEF PatchFits
<1> HIDE DEF m, Byte
<1>5. new \in [1..m -> 0..n]
  BY <1>3, <1>4
<1>6. new \in Seq(0..n)
  BY <1>2, <1>5, SeqDef
<1>7. Len(new) \in Nat /\ DOMAIN new = 1..Len(new) /\ DOMAIN new = 1..m
  BY <1>5, <1>6, LenProperties
<1>8. Len(new) = m
  <2>1. 1..Len(new) = 1..m
    BY <1>7
  <2> QED
    BY <1>2, <1>7, <2>1, SameRange
<1>9. \A o \in 1..m : new[o] = Byte(o)
  BY <1>3
<1> QED
  BY <1>6, <1>7, <1>8, <1>9 DEF m, Byte

TruncateFits(n, old, size) == n \in Nat /\ old \in Seq(0..n) /\ size \in Nat

\* A file that is truncated keeps what it had, and is filled with holes.
LEMMA TruncatedIs ==
    ASSUME NEW n, NEW old, NEW size, TruncateFits(n, old, size),
           NEW new, new = Truncated(old, size)
    PROVE  /\ new \in Seq(0..n) /\ DOMAIN new = 1..size /\ Len(new) = size
           /\ \A o \in 1..size : new[o] = IF o \in DOMAIN old THEN old[o] ELSE 0
<1> DEFINE Byte(o) == IF o \in DOMAIN old THEN old[o] ELSE 0
<1>0. n \in Nat /\ old \in Seq(0..n) /\ size \in Nat
  BY DEF TruncateFits
<1>1. Len(old) \in Nat /\ DOMAIN old = 1..Len(old) /\ old \in [1..Len(old) -> 0..n]
  BY <1>0, LenProperties
<1>2. new = [o \in 1..size |-> Byte(o)]
  BY DEF Truncated
<1>3. \A o \in 1..size : Byte(o) \in 0..n
  BY <1>0, <1>1
<1> HIDE DEF Byte
<1>4. new \in [1..size -> 0..n] /\ DOMAIN new = 1..size
  BY <1>2, <1>3
<1>5. new \in Seq(0..n)
  BY <1>0, <1>4, SeqDef
<1>6. Len(new) \in Nat /\ DOMAIN new = 1..Len(new)
  BY <1>5, LenProperties
<1>7. Len(new) = size
  <2>1. 1..Len(new) = 1..size
    BY <1>4, <1>6
  <2> QED
    BY <1>0, <1>6, <2>1, SameRange
<1>8. \A o \in 1..size : new[o] = Byte(o)
  BY <1>2
<1> QED
  BY <1>4, <1>5, <1>7, <1>8 DEF Byte

\* A file that a step leaves alone stays as it has to be, unless it is the one
\* whose making the step ends.
LEMMA LandsStill ==
    ASSUME meta' = meta, NEW t \in Threads, NEW k,
           \A u \in Threads : u # t => job'[u] = job[u],
           meta.files[k].path \in DOMAIN disk' =>
             meta.files[k].path \in DOMAIN disk /\ disk'[meta.files[k].path] = disk[meta.files[k].path],
           ~Allocates(t, meta.files[k].path) \/ Allocates(t, meta.files[k].path)',
           Lands(k)
    PROVE  Lands(k)'
<1> DEFINE f == meta.files[k]
<1> SUFFICES ASSUME f.path \in DOMAIN disk'
             PROVE  /\ Len(disk'[f.path]) <= f.size
                    /\ Len(disk'[f.path]) = f.size \/ \E u \in Threads : Allocates(u, f.path)'
                    /\ \A o \in DOMAIN disk'[f.path] : disk'[f.path][o] \in {0, FileStart(meta, k) + o}
  BY DEF Lands
<1>1. f.path \in DOMAIN disk /\ disk'[f.path] = disk[f.path]
  OBVIOUS
<1>2. ASSUME NEW u \in Threads, Allocates(u, f.path)
      PROVE  Allocates(u, f.path)'
  <2>1. CASE u = t
    BY <1>2, <2>1
  <2>2. CASE u # t
    BY <1>2, <2>2 DEF Allocates, IsNext
  <2> QED
    BY <2>1, <2>2
<1> QED
  BY <1>1, <1>2 DEF Lands

\* A thread is about to make one file at most, the next one.
LEMMA AllocatesNext ==
    ASSUME IsLayout(meta), WriteTypeOK, NEW t \in Threads, NEW k \in job[t].left, IsNext(t, k),
           NEW path, Allocates(t, path)
    PROVE  path = meta.files[k].path /\ job[t].making = "allocate"
<1>1. PICK j \in job[t].left : IsNext(t, j) /\ meta.files[j].path = path
  BY DEF Allocates
<1>2. j \in Int /\ k \in Int
  BY JobsTyped DEF IsLayout
<1>3. j = k
  BY <1>1, <1>2 DEF IsNext
<1> QED
  BY <1>1, <1>3 DEF Allocates

LEMMA SameTorrent ==
    ASSUME meta' = meta
    PROVE  /\ DistinctPaths' <=> DistinctPaths
           /\ Writable' <=> Writable
           /\ Paths' = Paths
           /\ Jobs' = Jobs
BY DEF DistinctPaths, Writable, Paths, Jobs

LEMMA InvInit ==
    ASSUME WriteInit
    PROVE  WriteInv
<1>1. job = [t \in Threads |-> Idle] /\ written = {} /\ disk = <<>> /\ emptied = {}
  BY DEF WriteInit
<1>2. DOMAIN disk = {}
  BY <1>1
<1>3. \A t \in Threads : job[t] = Idle
  BY <1>1
<1>4. WriteTypeOK
  <2>1. Idle \in Jobs
    BY DEF Idle, Jobs, Makings
  <2> QED
    BY <1>1, <1>2, <2>1 DEF WriteTypeOK
<1>5. OnlyWritable
  BY <1>1, <1>2, <1>3 DEF OnlyWritable, Idle
<1>6. CursorsFollow
  BY <1>3 DEF CursorsFollow, Idle
<1>7. WritesLandRight
  BY <1>2 DEF WritesLandRight, Lands
<1>8. SlicesStay
  BY <1>1, <1>3 DEF SlicesStay, Idle
<1> QED
  BY <1>4, <1>5, <1>6, <1>7, <1>8 DEF WriteInv

LEMMA InvBegin ==
    ASSUME IsLayout(meta), WriteInv, meta' = meta,
           NEW t \in Threads, NEW i \in 0..(meta.numPieces - 1), BeginWrite(t, i)
    PROVE  WriteInv'
<1> DEFINE r == [piece |-> i, left |-> Overlaps(meta, i), cursor |-> 0, making |-> "none"]
<1>1. Writable /\ job' = [job EXCEPT ![t] = r] /\ written' = written /\ disk' = disk /\ emptied' = emptied
  BY DEF BeginWrite
<1>2. WriteTypeOK /\ CursorsFollow /\ WritesLandRight /\ SlicesStay
  BY DEF WriteInv
<1>3. \A u \in Threads : job'[u] = IF u = t THEN r ELSE job[u]
  BY <1>1, <1>2 DEF WriteTypeOK
<1>4. WriteTypeOK'
  <2>1. r \in Jobs
    BY DEF Overlaps, Jobs, Makings
  <2> HIDE DEF r
  <2>2. job' \in [Threads -> Jobs]
    BY <1>1, <1>2, <2>1 DEF WriteTypeOK
  <2> QED
    BY <1>1, <1>2, <2>2, SameTorrent DEF WriteTypeOK
<1>5. OnlyWritable'
  BY <1>1, SameTorrent DEF OnlyWritable
<1>6. CursorsFollow'
  <2> SUFFICES ASSUME NEW u \in Threads
               PROVE  LET h == job'[u].piece IN
                      IF h = NoPiece THEN job'[u].left = {} ELSE
                          /\ job'[u].left \subseteq Overlaps(meta, h)
                          /\ \A k \in job'[u].left :
                                /\ \A j \in Overlaps(meta, h) : j >= k => j \in job'[u].left
                                /\ (\A j \in job'[u].left : k <= j) =>
                                      job'[u].cursor = SliceFrom(meta, h, k) - PieceStart(meta, h)
    BY DEF CursorsFollow
  <2>1. CASE u = t
    <3>1. \A k \in Overlaps(meta, i) : (\A j \in Overlaps(meta, i) : k <= j) => SliceFrom(meta, i, k) - PieceStart(meta, i) = 0
      BY <1>1, FirstSlice
    <3>2. i # NoPiece
      BY DEF NoPiece
    <3> QED
      BY <1>3, <2>1, <3>1, <3>2
  <2>2. CASE u # t
    BY <1>2, <1>3, <2>2 DEF CursorsFollow
  <2> QED
    BY <2>1, <2>2
<1>7. WritesLandRight'
  <2>1. job[t].left = {}
    BY <1>2 DEF CursorsFollow, BeginWrite
  <2>2. \A path : ~Allocates(t, path)
    BY <2>1 DEF Allocates
  <2>3. ASSUME DistinctPaths, NEW k \in DOMAIN meta.files
        PROVE  Lands(k)'
    BY <1>1, <1>2, <1>3, <2>2, <2>3, LandsStill DEF WritesLandRight
  <2> QED
    BY <2>3, SameTorrent DEF WritesLandRight
<1>8. SlicesStay'
  <2>1. \A h, k : IsOnDisk(h, k)' <=> IsOnDisk(h, k)
    BY <1>1 DEF IsOnDisk
  <2> QED
    BY <1>1, <1>2, <1>3, <2>1, SameTorrent DEF SlicesStay
<1> QED
  BY <1>4, <1>5, <1>6, <1>7, <1>8 DEF WriteInv

LEMMA InvEnd ==
    ASSUME IsLayout(meta), WriteInv, meta' = meta, NEW t \in Threads, EndWrite(t)
    PROVE  WriteInv'
<1> DEFINE i == job[t].piece
<1>1. /\ i # NoPiece /\ job[t].left = {} /\ written' = written \cup {i}
      /\ job' = [job EXCEPT ![t] = Idle] /\ disk' = disk /\ emptied' = emptied
  BY DEF EndWrite
<1>2. WriteTypeOK /\ OnlyWritable /\ CursorsFollow /\ WritesLandRight /\ SlicesStay
  BY DEF WriteInv
<1>3. \A u \in Threads : job'[u] = IF u = t THEN Idle ELSE job[u]
  BY <1>1, <1>2 DEF WriteTypeOK
<1>4. i \in 0..(meta.numPieces - 1)
  BY <1>1, <1>2, JobsTyped
<1>5. WriteTypeOK'
  <2>1. Idle \in Jobs
    BY DEF Idle, Jobs, Makings
  <2>2. job' \in [Threads -> Jobs]
    BY <1>1, <1>2, <2>1 DEF WriteTypeOK
  <2> QED
    BY <1>1, <1>2, <1>4, <2>2, SameTorrent DEF WriteTypeOK
<1>6. OnlyWritable'
  BY <1>1, <1>2, SameTorrent DEF OnlyWritable
<1>7. CursorsFollow'
  <2>1. \A u \in Threads : u # t => job'[u] = job[u]
    BY <1>3
  <2>2. job'[t].piece = NoPiece /\ job'[t].left = {}
    BY <1>3 DEF Idle
  <2> QED
    BY <1>2, <2>1, <2>2 DEF CursorsFollow
<1>8. WritesLandRight'
  <2>1. \A path : ~Allocates(t, path)
    BY <1>1 DEF Allocates
  <2>2. ASSUME DistinctPaths, NEW k \in DOMAIN meta.files
        PROVE  Lands(k)'
    BY <1>1, <1>2, <1>3, <2>1, <2>2, LandsStill DEF WritesLandRight
  <2> QED
    BY <2>2, SameTorrent DEF WritesLandRight
<1>9. SlicesStay'
  <2>1. \A h, k : IsOnDisk(h, k)' <=> IsOnDisk(h, k)
    BY <1>1 DEF IsOnDisk
  <2>2. \A u \in Threads : job'[u].piece # NoPiece => job'[u] = job[u]
    BY <1>3 DEF Idle
  <2>3. DistinctPaths => \A k \in Overlaps(meta, i) : IsOnDisk(i, k)
    BY <1>1, <1>2 DEF SlicesStay
  <2> QED
    BY <1>1, <1>2, <2>1, <2>2, <2>3, SameTorrent DEF SlicesStay
<1> QED
  BY <1>5, <1>6, <1>7, <1>8, <1>9 DEF WriteInv

\* A step that only tells whether a file is to be made keeps what is known of jobs.
LEMMA SameWork ==
    ASSUME WriteInv, meta' = meta, written' = written, NEW t \in Threads, NEW b \in Makings,
           job' = [job EXCEPT ![t].making = b]
    PROVE  /\ job' \in [Threads -> Jobs]
           /\ \A u \in Threads : /\ job'[u].piece = job[u].piece /\ job'[u].left = job[u].left
                                 /\ job'[u].cursor = job[u].cursor
                                 /\ u # t => job'[u] = job[u]
           /\ job'[t].making = b
           /\ CursorsFollow'
<1>1. job \in [Threads -> Jobs] /\ CursorsFollow
  BY DEF WriteInv, WriteTypeOK
<1>2. [job[t] EXCEPT !.making = b] \in Jobs
  <2>1. job[t] \in Jobs
    BY <1>1
  <2> QED
    BY <2>1, Zenon DEF Jobs
<1>3. job' = [job EXCEPT ![t] = [job[t] EXCEPT !.making = b]]
  BY <1>1
<1>4. job' \in [Threads -> Jobs]
  BY <1>1, <1>2, <1>3
<1>5. ASSUME NEW u \in Threads
      PROVE  /\ job'[u].piece = job[u].piece /\ job'[u].left = job[u].left
             /\ job'[u].cursor = job[u].cursor
             /\ u # t => job'[u] = job[u]
             /\ u = t => job'[u].making = b
  <2>1. job[u] \in Jobs
    BY <1>1
  <2> QED
    BY <1>1, <1>3, <2>1 DEF Jobs
<1>6. CursorsFollow'
  BY <1>1, <1>5 DEF CursorsFollow
<1> QED
  BY <1>4, <1>5, <1>6

LEMMA InvFind ==
    ASSUME IsLayout(meta), WriteInv, meta' = meta, NEW t \in Threads, FindMissing(t)
    PROVE  WriteInv'
<1>1. PICK k \in job[t].left : /\ IsNext(t, k) /\ job[t].making = "none"
                               /\ job' = [job EXCEPT ![t].making = "create"]
                               /\ written' = written /\ disk' = disk /\ emptied' = emptied
  BY Zenon DEF FindMissing
<1>2. WriteTypeOK /\ OnlyWritable /\ WritesLandRight /\ SlicesStay
  BY DEF WriteInv
<1>3. /\ job' \in [Threads -> Jobs] /\ CursorsFollow'
      /\ \A u \in Threads : /\ job'[u].piece = job[u].piece /\ job'[u].left = job[u].left
                            /\ u # t => job'[u] = job[u]
  BY <1>1, SameWork DEF Makings
<1>4. WriteTypeOK'
  BY <1>1, <1>2, <1>3, SameTorrent DEF WriteTypeOK
<1>5. OnlyWritable'
  BY <1>1, <1>2, <1>3, SameTorrent DEF OnlyWritable
<1>6. WritesLandRight'
  <2>1. \A path : ~Allocates(t, path)
    BY <1>1 DEF Allocates
  <2>2. ASSUME DistinctPaths, NEW l \in DOMAIN meta.files
        PROVE  Lands(l)'
    BY <1>1, <1>2, <1>3, <2>1, <2>2, LandsStill DEF WritesLandRight
  <2> QED
    BY <2>2, SameTorrent DEF WritesLandRight
<1>7. SlicesStay'
  <2>1. \A h, l : IsOnDisk(h, l)' <=> IsOnDisk(h, l)
    BY <1>1 DEF IsOnDisk
  <2> QED
    BY <1>1, <1>2, <1>3, <2>1, SameTorrent DEF SlicesStay
<1> QED
  BY <1>3, <1>4, <1>5, <1>6, <1>7 DEF WriteInv

\* A file that is opened anew loses what it had, and is in emptied if it had
\* anything; the thread that did it makes it whole again next.
LEMMA InvCreate ==
    ASSUME IsLayout(meta), WriteInv, meta' = meta, NEW t \in Threads, CreateFile(t)
    PROVE  WriteInv'
<1> DEFINE path(k) == meta.files[k].path
           had(k) == {p \in {path(k)} \cap DOMAIN disk : \E o \in DOMAIN disk[p] : disk[p][o] # 0}
<1>1. PICK k \in job[t].left :
        /\ IsNext(t, k) /\ job[t].making = "create"
        /\ job' = [job EXCEPT ![t].making = "allocate"] /\ written' = written
        /\ disk' = [p \in DOMAIN disk \cup {path(k)} |-> IF p = path(k) THEN <<>> ELSE disk[p]]
        /\ emptied' = emptied \cup had(k)
  BY Zenon DEF CreateFile
<1>2. WriteTypeOK /\ OnlyWritable /\ WritesLandRight /\ SlicesStay
  BY DEF WriteInv
<1>3. /\ job' \in [Threads -> Jobs] /\ CursorsFollow'
      /\ \A u \in Threads : /\ job'[u].piece = job[u].piece /\ job'[u].left = job[u].left
                            /\ u # t => job'[u] = job[u]
      /\ job'[t].making = "allocate"
  BY <1>1, SameWork DEF Makings
<1>4. Writable /\ k \in DOMAIN meta.files
  <2>1. FirstLeft(t, k)
    BY <1>1, NextIsFirst
  <2> QED
    BY <2>1 DEF FirstLeft, Overlaps
<1> DEFINE f == meta.files[k]
<1>5. /\ DOMAIN disk' = DOMAIN disk \cup {f.path} /\ disk'[f.path] = <<>>
      /\ \A p \in DOMAIN disk : p # f.path => disk'[p] = disk[p]
  BY <1>1
<1>6. /\ <<>> \in Seq(0..meta.size) /\ Len(<<>>) = 0 /\ DOMAIN <<>> = {}
      /\ 0 <= f.size
  BY <1>4, FilesInARow, EmptySeq
<1>7. WriteTypeOK'
  <2>1. f.path \in Paths
    BY <1>4 DEF Paths
  <2>2. /\ DOMAIN disk' \subseteq Paths /\ emptied' \subseteq DOMAIN disk'
        /\ \A p \in DOMAIN disk' : disk'[p] \in Seq(0..meta.size)
    BY <1>1, <1>2, <1>5, <1>6, <2>1 DEF WriteTypeOK
  <2> QED
    BY <1>1, <1>2, <1>3, <2>2, SameTorrent DEF WriteTypeOK
<1>8. OnlyWritable'
  BY <1>4, SameTorrent DEF OnlyWritable
<1>9. WritesLandRight'
  <2> SUFFICES ASSUME DistinctPaths, NEW l \in DOMAIN meta.files
               PROVE  Lands(l)'
    BY SameTorrent DEF WritesLandRight
  <2>1. CASE l = k
    <3>1. Allocates(t, f.path)'
      BY <1>1, <1>3 DEF Allocates, IsNext
    <3> QED
      BY <1>5, <1>6, <2>1, <3>1 DEF Lands
  <2>2. CASE l # k
    <3>1. meta.files[l].path # f.path /\ Lands(l)
      BY <1>2, <1>4, <2>2 DEF DistinctPaths, WritesLandRight
    <3>2. \A p : ~Allocates(t, p)
      BY <1>1 DEF Allocates
    <3> QED
      BY <1>3, <1>5, <3>1, <3>2, LandsStill
  <2> QED
    BY <2>1, <2>2
<1>10. SlicesStay'
  <2>1. SUFFICES ASSUME DistinctPaths'
                 PROVE  SlicesStay'
    BY DEF SlicesStay
  <2>2. DistinctPaths
    BY <2>1, SameTorrent
  <2>3. ASSUME NEW h, NEW l \in DOMAIN meta.files, IsOnDisk(h, l)
        PROVE  IsOnDisk(h, l)'
    <3>1. CASE meta.files[l].path \in emptied'
      BY <3>1 DEF IsOnDisk
    <3>2. CASE meta.files[l].path \notin emptied' /\ l = k
      <4>1. f.path \notin emptied /\ f.path \notin had(k)
        BY <1>1, <3>2
      <4>2. f.path \in DOMAIN disk
        BY <2>3, <3>2, <4>1 DEF IsOnDisk
      <4>3. \A o \in DOMAIN disk[f.path] : disk[f.path][o] = 0
        BY <4>1, <4>2
      <4> QED
        BY <1>5, <1>6, <2>3, <3>2, <4>1, <4>3 DEF IsOnDisk
    <3>3. CASE meta.files[l].path \notin emptied' /\ l # k
      <4>1. meta.files[l].path # f.path
        BY <1>4, <2>2, <3>3 DEF DistinctPaths
      <4>2. meta.files[l].path \notin emptied
        BY <1>1, <3>3
      <4> QED
        BY <1>5, <2>3, <4>1, <4>2 DEF IsOnDisk
    <3> QED
      BY <3>1, <3>2, <3>3
  <2>4. \A h : \A l \in Overlaps(meta, h) : l \in DOMAIN meta.files
    BY DEF Overlaps
  <2>5. ASSUME NEW h \in written', NEW l \in Overlaps(meta, h)
        PROVE  IsOnDisk(h, l)'
    <3>1. IsOnDisk(h, l)
      BY <1>1, <1>2, <2>2, <2>5 DEF SlicesStay
    <3> QED
      BY <2>3, <2>4, <3>1
  <2>6. ASSUME NEW u \in Threads, NEW h, h = job'[u].piece, h # NoPiece,
               NEW l \in Overlaps(meta, h) \ job'[u].left
        PROVE  IsOnDisk(h, l)'
    <3>1. IsOnDisk(h, l)
      BY <1>2, <1>3, <2>2, <2>6 DEF SlicesStay
    <3> QED
      BY <2>3, <2>4, <3>1
  <2> QED
    BY <2>1, <2>5, <2>6 DEF SlicesStay
<1> QED
  BY <1>3, <1>7, <1>8, <1>9, <1>10 DEF WriteInv

\* A file that is truncated to its size keeps what it has, and is filled up.
LEMMA InvTruncate ==
    ASSUME IsLayout(meta), WriteInv, meta' = meta, NEW t \in Threads, TruncateFile(t)
    PROVE  WriteInv'
<1>1. PICK k \in job[t].left :
        /\ IsNext(t, k) /\ job[t].making = "allocate" /\ meta.files[k].path \in DOMAIN disk
        /\ job' = [job EXCEPT ![t].making = "none"] /\ written' = written
        /\ disk' = [disk EXCEPT ![meta.files[k].path] = Truncated(@, FirstSize(meta.files[k].path))]
        /\ emptied' = emptied
  BY Zenon DEF TruncateFile
<1>2. WriteTypeOK /\ OnlyWritable /\ WritesLandRight /\ SlicesStay
  BY DEF WriteInv
<1>3. /\ job' \in [Threads -> Jobs] /\ CursorsFollow'
      /\ \A u \in Threads : /\ job'[u].piece = job[u].piece /\ job'[u].left = job[u].left
                            /\ u # t => job'[u] = job[u]
  BY <1>1, SameWork DEF Makings
<1>4. Writable /\ k \in DOMAIN meta.files
  <2>1. FirstLeft(t, k)
    BY <1>1, NextIsFirst
  <2> QED
    BY <2>1 DEF FirstLeft, Overlaps
<1> DEFINE f == meta.files[k]
<1> DEFINE old == disk[f.path]
           new == Truncated(old, FirstSize(f.path))
<1>5. /\ DOMAIN disk' = DOMAIN disk /\ disk'[f.path] = new
      /\ \A p \in DOMAIN disk : p # f.path => disk'[p] = disk[p]
  BY <1>1
<1>6. /\ new \in Seq(0..meta.size)
      /\ DistinctPaths =>
           /\ Len(new) = f.size
           /\ \A o \in DOMAIN new : new[o] \in {0, FileStart(meta, k) + o}
           /\ \A o \in DOMAIN old : o \in DOMAIN new /\ new[o] = old[o]
  <2> DEFINE size == FirstSize(f.path)
  <2>1. meta.size \in Nat /\ old \in Seq(0..meta.size) /\ size \in Nat
    BY <1>1, <1>2, <1>4, FirstSizeIs, StartsInSize DEF WriteTypeOK
  <2>2. DistinctPaths => size = f.size
    BY <1>4, FirstSizeIs
  <2>3. DistinctPaths => /\ Len(old) <= f.size
                         /\ \A o \in DOMAIN old : old[o] \in {0, FileStart(meta, k) + o}
    BY <1>1, <1>2, <1>4 DEF WritesLandRight, Lands
  <2>4. DOMAIN old = 1..Len(old) /\ Len(old) \in Nat
    BY <2>1, LenProperties
  <2>5. new = Truncated(old, size)
    OBVIOUS
  <2> DEFINE n == meta.size
  <2> HIDE DEF old, new, size, n
  <2>9. TruncateFits(n, old, size)
    BY <2>1 DEF n, TruncateFits
  <2>10. /\ new \in Seq(0..n) /\ DOMAIN new = 1..size /\ Len(new) = size
         /\ \A o \in 1..size : new[o] = IF o \in DOMAIN old THEN old[o] ELSE 0
    BY <2>5, <2>9, TruncatedIs
  <2>6. /\ new \in Seq(0..meta.size) /\ DOMAIN new = 1..size /\ Len(new) = size
        /\ \A o \in 1..size : new[o] = IF o \in DOMAIN old THEN old[o] ELSE 0
    BY <2>10 DEF n
  <2> HIDE DEF f
  <2>7. ASSUME DistinctPaths, NEW o \in DOMAIN old
        PROVE  o \in DOMAIN new /\ new[o] = old[o]
    BY <2>1, <2>2, <2>3, <2>4, <2>6, <2>7
  <2>8. ASSUME DistinctPaths, NEW o \in DOMAIN new
        PROVE  new[o] \in {0, FileStart(meta, k) + o}
    BY <2>3, <2>6, <2>8
  <2> QED
    BY <2>2, <2>6, <2>7, <2>8
<1> HIDE DEF new, old
<1>7. WriteTypeOK'
  <2>1. f.path \in Paths
    BY <1>4 DEF Paths
  <2>2. /\ DOMAIN disk' \subseteq Paths /\ emptied' \subseteq DOMAIN disk'
        /\ \A p \in DOMAIN disk' : disk'[p] \in Seq(0..meta.size)
    BY <1>1, <1>2, <1>5, <1>6, <2>1 DEF WriteTypeOK
  <2> QED
    BY <1>1, <1>2, <1>3, <2>2, SameTorrent DEF WriteTypeOK
<1>8. OnlyWritable'
  BY <1>4, SameTorrent DEF OnlyWritable
<1>9. WritesLandRight'
  <2> SUFFICES ASSUME DistinctPaths, NEW l \in DOMAIN meta.files
               PROVE  Lands(l)'
    BY SameTorrent DEF WritesLandRight
  <2>1. CASE l = k
    BY <1>5, <1>6, <2>1 DEF Lands
  <2>2. CASE l # k
    <3>1. meta.files[l].path # f.path /\ Lands(l)
      BY <1>2, <1>4, <2>2 DEF DistinctPaths, WritesLandRight
    <3>2. ~Allocates(t, meta.files[l].path)
      BY <1>1, <1>2, <3>1, AllocatesNext
    <3> QED
      BY <1>3, <1>5, <3>1, <3>2, LandsStill
  <2> QED
    BY <2>1, <2>2
<1>10. SlicesStay'
  <2>1. SUFFICES ASSUME DistinctPaths'
                 PROVE  SlicesStay'
    BY DEF SlicesStay
  <2>2. DistinctPaths
    BY <2>1, SameTorrent
  <2>3. ASSUME NEW h, NEW l \in DOMAIN meta.files, IsOnDisk(h, l)
        PROVE  IsOnDisk(h, l)'
    <3>1. CASE l = k
      <4>1. \A o \in DOMAIN old : o \in DOMAIN new /\ new[o] = old[o]
        BY <1>6, <2>2
      <4>2. old = disk[f.path]
        BY DEF old
      <4> QED
        BY <1>1, <1>5, <2>3, <3>1, <4>1, <4>2 DEF IsOnDisk
    <3>2. CASE l # k
      <4>1. meta.files[l].path # f.path
        BY <1>4, <2>2, <3>2 DEF DistinctPaths
      <4> QED
        BY <1>1, <1>5, <2>3, <4>1 DEF IsOnDisk
    <3> QED
      BY <3>1, <3>2
  <2>4. \A h : \A l \in Overlaps(meta, h) : l \in DOMAIN meta.files
    BY DEF Overlaps
  <2>5. ASSUME NEW h \in written', NEW l \in Overlaps(meta, h)
        PROVE  IsOnDisk(h, l)'
    <3>1. IsOnDisk(h, l)
      BY <1>1, <1>2, <2>2, <2>5 DEF SlicesStay
    <3> QED
      BY <2>3, <2>4, <3>1
  <2>6. ASSUME NEW u \in Threads, NEW h, h = job'[u].piece, h # NoPiece,
               NEW l \in Overlaps(meta, h) \ job'[u].left
        PROVE  IsOnDisk(h, l)'
    <3>1. IsOnDisk(h, l)
      BY <1>2, <1>3, <2>2, <2>6 DEF SlicesStay
    <3> QED
      BY <2>3, <2>4, <3>1
  <2> QED
    BY <2>1, <2>5, <2>6 DEF SlicesStay
<1> QED
  BY <1>3, <1>7, <1>8, <1>9, <1>10 DEF WriteInv

\* The slice that is written is that of the first file left.
LEMMA InvSlice ==
    ASSUME IsLayout(meta), WriteInv, meta' = meta, NEW t \in Threads, WriteSlice(t)
    PROVE  WriteInv'
<1>1. PICK k \in job[t].left : FirstLeft(t, k) /\ Written(t, k)
  BY SliceIsWritten
<1> DEFINE i == job[t].piece
           f == meta.files[k]
           from == Offset(meta, i, k)
           length == SliceLength(meta, i, k)
           old == Contents(k)
           new == Patched(old, from, from + length, FileStart(meta, k))
<1>2. WriteTypeOK /\ OnlyWritable /\ CursorsFollow /\ WritesLandRight /\ SlicesStay
  BY DEF WriteInv
<1>3. /\ \A j \in job[t].left : k <= j
      /\ k \in Overlaps(meta, i) /\ i \in 0..(meta.numPieces - 1) /\ Writable
  BY <1>1 DEF FirstLeft, IsNext
<1>4. /\ f.path \in DOMAIN disk /\ disk' = [disk EXCEPT ![f.path] = new]
      /\ job' = [job EXCEPT ![t].left = @ \ {k}, ![t].cursor = @ + length]
      /\ written' = written /\ emptied' = emptied
  BY <1>1 DEF Written
<1>5. /\ k \in DOMAIN meta.files /\ k \in 1..Len(meta.files) /\ from \in Nat /\ length \in Nat
      /\ from + length <= f.size
      /\ \A o \in 1..f.size : o \in (from + 1)..(from + length)
            <=> FileStart(meta, k) + o \in (PieceStart(meta, i) + 1)..PieceEnd(meta, i)
  BY <1>3, SliceFits
<1>6. /\ f.size \in Nat /\ FileStart(meta, k) \in Nat /\ meta.size \in Nat
      /\ FileStart(meta, k) + f.size <= meta.size
  <2>1. /\ Len(meta.files) \in Nat /\ f.size \in Nat /\ FileStart(meta, k + 1) = FileStart(meta, k) + f.size
    BY <1>3, <1>5, FilesInARow
  <2>2. k \in 1..(Len(meta.files) + 1) /\ k + 1 \in 1..(Len(meta.files) + 1)
    BY <1>5, <2>1
  <2> QED
    BY <1>3, <2>1, <2>2, StartsInSize
<1>7. old \in Seq(0..meta.size)
  BY <1>2, <1>4 DEF Contents, WriteTypeOK
<1>8. DistinctPaths =>
        /\ Len(old) <= f.size
        /\ Len(old) = f.size \/ \E u \in Threads : Allocates(u, f.path)
        /\ \A o \in DOMAIN old : old[o] \in {0, FileStart(meta, k) + o}
  BY <1>2, <1>4, <1>5 DEF Contents, WritesLandRight, Lands
<1>9. /\ new \in Seq(0..meta.size) /\ DOMAIN new = 1..Len(new) /\ Len(new) = GreaterOf(Len(old), from + length)
      /\ \A o \in 1..Len(new) :
           new[o] = IF o \in (from + 1)..(from + length) THEN FileStart(meta, k) + o
                    ELSE IF o \in DOMAIN old THEN old[o] ELSE 0
  <2>1. \A o \in (from + 1)..(from + length) : FileStart(meta, k) + o \in 0..meta.size
    BY SMTT(40), <1>5, <1>6
  <2>2. from + length \in Nat
    BY <1>5
  <2>3. new = Patched(old, from, from + length, FileStart(meta, k))
    OBVIOUS
  <2>4. from \in Nat /\ FileStart(meta, k) \in Int /\ meta.size \in Nat
    BY <1>5, <1>6
  <2> DEFINE to == from + length
             n == meta.size
             shift == FileStart(meta, k)
  <2>5. PatchFits(n, old, from, to, shift) /\ new = Patched(old, from, to, shift)
    BY <1>7, <2>1, <2>2, <2>3, <2>4 DEF PatchFits
  <2> HIDE DEF from, to, n, shift, old, new
  <2>6. /\ new \in Seq(0..n) /\ DOMAIN new = 1..Len(new) /\ Len(new) = GreaterOf(Len(old), to)
        /\ \A o \in 1..Len(new) :
             new[o] = IF o \in (from + 1)..to THEN shift + o ELSE IF o \in DOMAIN old THEN old[o] ELSE 0
    BY <2>5, PatchedIs
  <2> QED
    BY <2>6 DEF to, n, shift
<1>10. DistinctPaths =>
         /\ Len(new) <= f.size /\ (Len(old) = f.size => Len(new) = f.size)
         /\ \A o \in DOMAIN new : new[o] \in {0, FileStart(meta, k) + o}
         /\ \A o \in DOMAIN old : o \in DOMAIN new /\ (old[o] # 0 => new[o] # 0)
         /\ \A o \in (from + 1)..(from + length) : o \in DOMAIN new /\ new[o] # 0
  <2>1. Len(old) \in Nat /\ DOMAIN old = 1..Len(old)
    BY <1>7, LenProperties
  <2>2. from + length \in Nat
    BY <1>5
  <2> HIDE DEF old, new, from, length, f
  <2>3. /\ Len(old) <= Len(new) /\ from + length <= Len(new) /\ Len(new) \in Nat
        /\ Len(new) = Len(old) \/ Len(new) = from + length
    BY <1>9, <2>1, <2>2 DEF GreaterOf
  <2>4. DistinctPaths => Len(new) <= f.size /\ (Len(old) = f.size => Len(new) = f.size)
    BY <1>5, <1>6, <1>8, <2>1, <2>2, <2>3
  <2>5. ASSUME DistinctPaths, NEW o \in DOMAIN new
        PROVE  new[o] \in {0, FileStart(meta, k) + o}
    BY <1>8, <1>9, <2>5
  <2>6. ASSUME NEW o \in (from + 1)..(from + length)
        PROVE  o \in DOMAIN new /\ new[o] # 0
    <3>1. o \in 1..Len(new) /\ FileStart(meta, k) + o # 0
      BY <1>5, <1>6, <2>2, <2>3, <2>6
    <3> QED
      BY <1>9, <2>6, <3>1
  <2>7. ASSUME NEW o \in DOMAIN old
        PROVE  o \in DOMAIN new /\ (old[o] # 0 => new[o] # 0)
    <3>1. o \in 1..Len(new)
      BY <2>1, <2>3, <2>7
    <3> QED
      BY <1>9, <2>6, <2>7, <3>1
  <2> QED
    BY <2>4, <2>5, <2>6, <2>7
<1> HIDE DEF from, length, old, new, i
<1>11. /\ DOMAIN disk' = DOMAIN disk /\ disk'[f.path] = new
       /\ \A p \in DOMAIN disk : p # f.path => disk'[p] = disk[p]
  BY <1>4
<1>12. /\ job[t] \in Jobs
       /\ job'[t] = [job[t] EXCEPT !.left = @ \ {k}, !.cursor = @ + length]
       /\ \A u \in Threads : u # t => job'[u] = job[u]
  BY <1>2, <1>4 DEF WriteTypeOK
<1>13. /\ job'[t].piece = i /\ job'[t].left = job[t].left \ {k} /\ job'[t].cursor = job[t].cursor + length
       /\ \A u \in Threads : job'[u].piece = job[u].piece
  BY <1>12 DEF i, Jobs
<1>14. WriteTypeOK'
  <2>1. job'[t] \in Jobs
    <3>1. job[t].left \ {k} \in SUBSET DOMAIN meta.files /\ job[t].cursor + length \in Nat
      BY <1>5, <1>12 DEF Jobs
    <3> QED
      BY <1>12, <3>1, Zenon DEF Jobs
  <2>2. job' \in [Threads -> Jobs]
    <3>1. job' = [job EXCEPT ![t] = job'[t]]
      BY <1>2, <1>4, <1>12 DEF WriteTypeOK
    <3> QED
      BY <1>2, <2>1, <3>1 DEF WriteTypeOK
  <2>3. DOMAIN disk' \subseteq Paths /\ emptied' \subseteq DOMAIN disk' /\ \A p \in DOMAIN disk' : disk'[p] \in Seq(0..meta.size)
    BY <1>2, <1>4, <1>9, <1>11 DEF WriteTypeOK
  <2> QED
    BY <1>2, <1>4, <2>2, <2>3, SameTorrent DEF WriteTypeOK
<1>15. OnlyWritable'
  BY <1>3, SameTorrent DEF OnlyWritable
<1>16. CursorsFollow'
  <2> DEFINE left == job'[t].left
  <2>1. i # NoPiece /\ job[t].left \subseteq Overlaps(meta, i) /\ k \in job[t].left
        /\ \A l \in job[t].left : \A j \in Overlaps(meta, i) : j >= l => j \in job[t].left
        /\ job[t].cursor = SliceFrom(meta, i, k) - PieceStart(meta, i)
    BY <1>1, <1>2, <1>3 DEF CursorsFollow, i, FirstLeft
  <2>2. left \subseteq Overlaps(meta, i)
    BY <1>13, <2>1
  <2>3. ASSUME NEW l \in left
        PROVE  l \in Overlaps(meta, i) /\ l \in Nat /\ k \in Nat /\ k < l
    <3>1. l \in job[t].left /\ l # k /\ l \in Overlaps(meta, i)
      BY <1>13, <2>1
    <3>2. l \in Nat /\ k \in Nat
      BY <1>3, <3>1, SliceFits
    <3> QED
      BY <1>3, <3>1, <3>2
  <2>4. ASSUME NEW l \in left, NEW j \in Overlaps(meta, i), j >= l
        PROVE  j \in left
    <3>1. j \in Nat
      BY <1>3, SliceFits
    <3>2. j # k
      BY <2>3, <2>4, <3>1
    <3> QED
      BY <1>13, <2>1, <2>4, <3>2
  <2>5. ASSUME NEW l \in left, \A j \in left : l <= j
        PROVE  job'[t].cursor = SliceFrom(meta, i, l) - PieceStart(meta, i)
    <3>1. k + 1 \in Overlaps(meta, i) /\ SliceFrom(meta, i, k) + length = SliceFrom(meta, i, k + 1)
      BY <1>3, <2>3, SlicesInARow DEF length
    <3>2. k + 1 \in left
      BY <1>13, <2>1, <2>3, <3>1
    <3>3. l = k + 1
      BY <2>3, <2>5, <3>2
    <3>4. SliceFrom(meta, i, k) \in Int /\ PieceStart(meta, i) \in Int
      BY <1>3, SliceFits, PieceTyped
    <3> QED
      BY SMTT(40), <1>5, <1>13, <2>1, <3>1, <3>3, <3>4
  <2>6. \A u \in Threads : u # t => job'[u] = job[u]
    BY <1>12
  <2> SUFFICES ASSUME NEW u \in Threads
               PROVE  LET h == job'[u].piece IN
                      IF h = NoPiece THEN job'[u].left = {} ELSE
                          /\ job'[u].left \subseteq Overlaps(meta, h)
                          /\ \A l \in job'[u].left :
                                /\ \A j \in Overlaps(meta, h) : j >= l => j \in job'[u].left
                                /\ (\A j \in job'[u].left : l <= j) =>
                                      job'[u].cursor = SliceFrom(meta, h, l) - PieceStart(meta, h)
    BY DEF CursorsFollow
  <2>7. CASE u = t
    BY <1>13, <2>1, <2>2, <2>4, <2>5, <2>7
  <2>8. CASE u # t
    BY <1>2, <2>6, <2>8 DEF CursorsFollow
  <2> QED
    BY <2>7, <2>8
<1>17. WritesLandRight'
  <2>0. job[t].making = "none"
    BY DEF WriteSlice
  <2>1. \A path : ~Allocates(t, path)
    BY <2>0 DEF Allocates
  <2> SUFFICES ASSUME DistinctPaths, NEW l \in DOMAIN meta.files
               PROVE  Lands(l)'
    BY SameTorrent DEF WritesLandRight
  <2>2. CASE l = k
    <3>1. ASSUME NEW u \in Threads, Allocates(u, f.path)
          PROVE  Allocates(u, f.path)'
      <4>1. u # t
        BY <2>1, <3>1
      <4> QED
        BY <1>12, <3>1, <4>1 DEF Allocates, IsNext
    <3>2. /\ Len(new) <= f.size
          /\ Len(new) = f.size \/ \E u \in Threads : Allocates(u, f.path)'
          /\ \A o \in DOMAIN new : new[o] \in {0, FileStart(meta, k) + o}
      BY <1>8, <1>10, <3>1
    <3> QED
      BY <1>4, <1>11, <2>2, <3>2 DEF Lands
  <2>3. CASE l # k
    <3>1. meta.files[l].path # f.path
      BY <1>5, <2>3 DEF DistinctPaths
    <3>2. Lands(l) /\ \A u \in Threads : u # t => job'[u] = job[u]
      BY <1>2, <1>12 DEF WritesLandRight
    <3> QED
      BY <1>11, <2>1, <3>1, <3>2, LandsStill
  <2> QED
    BY <2>2, <2>3
<1>18. SlicesStay'
  <2>1. SUFFICES ASSUME DistinctPaths'
                  PROVE  SlicesStay'
    BY DEF SlicesStay
  <2>2. DistinctPaths
    BY <2>1, SameTorrent
  <2>3. /\ \A o \in DOMAIN old : o \in DOMAIN new /\ (old[o] # 0 => new[o] # 0)
        /\ \A o \in (from + 1)..(from + length) : o \in DOMAIN new /\ new[o] # 0
    BY <1>10, <2>2
  <2>4. ASSUME NEW h, NEW l \in DOMAIN meta.files, IsOnDisk(h, l)
        PROVE  IsOnDisk(h, l)'
    <3>1. CASE l = k
      <4>1. f.path \in DOMAIN disk /\ old = disk[f.path]
        BY <1>4 DEF old, Contents
      <4> QED
        BY <1>4, <1>11, <2>3, <2>4, <3>1, <4>1 DEF IsOnDisk
    <3>2. CASE l # k
      <4>1. meta.files[l].path # f.path
        BY <1>5, <2>2, <3>2 DEF DistinctPaths
      <4> QED
        BY <1>4, <1>11, <2>4, <4>1 DEF IsOnDisk
    <3> QED
      BY <3>1, <3>2
  <2>5. ASSUME NEW h, h = i
        PROVE  IsOnDisk(h, k)'
    BY <1>4, <1>5, <1>11, <2>3, <2>5 DEF IsOnDisk
  <2>6. \A h : \A l \in Overlaps(meta, h) : l \in DOMAIN meta.files
    BY DEF Overlaps
  <2>7. ASSUME NEW h \in written', NEW l \in Overlaps(meta, h)
        PROVE  IsOnDisk(h, l)'
    <3>1. IsOnDisk(h, l)
      BY <1>2, <1>4, <2>7, <2>2 DEF SlicesStay
    <3> QED
      BY <2>4, <2>6, <3>1
  <2>8. ASSUME NEW u \in Threads, NEW h, h = job'[u].piece, h # NoPiece,
               NEW l \in Overlaps(meta, h) \ job'[u].left
        PROVE  IsOnDisk(h, l)'
    <3>1. job[u].piece = h /\ l \in DOMAIN meta.files
      BY <1>13, <2>6, <2>8
    <3>2. CASE l \notin job[u].left
      <4>1. IsOnDisk(h, l)
        BY <1>2, <2>8, <2>2, <3>1, <3>2 DEF SlicesStay
      <4> QED
        BY <2>4, <3>1, <4>1
    <3>3. CASE l \in job[u].left
      <4>1. u = t /\ l = k
        BY <1>12, <1>13, <2>8, <3>3
      <4>2. h = i
        BY <3>1, <4>1 DEF i
      <4> QED
        BY <2>5, <4>1, <4>2
    <3> QED
      BY <3>2, <3>3
  <2> QED
    BY <2>7, <2>8, <2>1 DEF SlicesStay
<1> QED
  BY <1>14, <1>15, <1>16, <1>17, <1>18 DEF WriteInv

LEMMA InvStep ==
    ASSUME IsLayout(meta), WriteInv, [WriteStep /\ UNCHANGED meta]_<<meta, writeVars>>
    PROVE  IsLayout(meta)' /\ WriteInv'
<1>1. meta' = meta
  BY DEF writeVars
<1>2. IsLayout(meta)'
  BY <1>1 DEF IsLayout
<1>3. CASE UNCHANGED <<meta, writeVars>>
  <2>1. meta' = meta /\ job' = job /\ written' = written /\ disk' = disk /\ emptied' = emptied
    BY <1>3 DEF writeVars
  <2>2. WriteTypeOK' /\ OnlyWritable'
    BY <2>1, SameTorrent DEF WriteInv, WriteTypeOK, OnlyWritable
  <2>3. CursorsFollow'
    BY <2>1 DEF WriteInv, CursorsFollow
  <2>4. WritesLandRight'
    BY <2>1, SameTorrent DEF WriteInv, WritesLandRight, Lands, Allocates, IsNext
  <2>5. SlicesStay'
    <3>1. \A h, l : IsOnDisk(h, l)' <=> IsOnDisk(h, l)
      BY <2>1 DEF IsOnDisk
    <3> QED
      BY <2>1, <3>1, SameTorrent DEF WriteInv, SlicesStay
  <2> QED
    BY <2>2, <2>3, <2>4, <2>5 DEF WriteInv
<1>4. CASE WriteStep
  <2>1. PICK t \in Threads : \/ \E i \in 0..(meta.numPieces - 1) : BeginWrite(t, i)
                             \/ FindMissing(t)
                             \/ CreateFile(t)
                             \/ TruncateFile(t)
                             \/ WriteSlice(t)
                             \/ EndWrite(t)
    BY <1>4 DEF WriteStep
  <2>2. CASE \E i \in 0..(meta.numPieces - 1) : BeginWrite(t, i)
    BY <1>1, <2>2, InvBegin
  <2>3. CASE FindMissing(t)
    BY <1>1, <2>3, InvFind
  <2>4. CASE CreateFile(t)
    BY <1>1, <2>4, InvCreate
  <2>7. CASE TruncateFile(t)
    BY <1>1, <2>7, InvTruncate
  <2>5. CASE WriteSlice(t)
    BY <1>1, <2>5, InvSlice
  <2>6. CASE EndWrite(t)
    BY <1>1, <2>6, InvEnd
  <2> QED
    BY <1>2, <2>1, <2>2, <2>3, <2>4, <2>5, <2>6, <2>7
<1> QED
  BY <1>2, <1>3, <1>4

-----------------------------------------------------------------------------
(* Every byte is in a piece. *)

\* What div and mod are, of numbers.
LEMMA Division ==
    ASSUME NEW a \in Int, NEW b \in Nat, b > 0
    PROVE  a \div b \in Int /\ a % b \in Nat /\ a % b < b /\ a = (a \div b) * b + (a % b)
OBVIOUS

\* The last piece, and no other, may be short, and then it ends with the torrent.
LEMMA PiecesCover ==
    ASSUME IsLayout(meta), Writable, HashesFit, NEW q \in Int, 1 <= q, q <= meta.size
    PROVE  \E i \in 0..(meta.numPieces - 1) : q \in (PieceStart(meta, i) + 1)..PieceEnd(meta, i)
<1> DEFINE L == meta.pieceLength
           size == meta.size
           n == meta.numPieces
           i == (q - 1) \div L
           last == size \div L
           short == size % L
<1>1. L \in Nat /\ L > 0 /\ size \in Nat /\ n \in Nat
  BY StartsInSize DEF IsLayout, Writable
<1>2. n = (size + L - 1) \div L
  BY DEF HashesFit
<1>3. i \in Int /\ q - 1 >= i * L /\ q - 1 < i * L + L
  <2>1. q - 1 \in Int
    OBVIOUS
  <2>2. /\ i \in Int /\ (q - 1) % L \in Nat /\ (q - 1) % L < L
        /\ q - 1 = i * L + ((q - 1) % L)
    BY <1>1, <2>1, Division
  <2> HIDE DEF i, L
  <2> QED
    BY <1>1, <2>2
<1>4. last \in Int /\ short \in Nat /\ short < L /\ size = last * L + short
  <2>1. size \in Int
    BY <1>1
  <2>2. last \in Int /\ short \in Nat /\ short < L /\ size = last * L + (size % L)
    BY <1>1, <2>1, Division
  <2> QED
    BY <2>2
<1>5. n * L <= size + L - 1 /\ size <= n * L
  BY <1>1, <1>2, Division
<1>6. i \in 0..(n - 1)
  <2>1. i * L >= 0 - L + 1 /\ i * L < n * L
    BY <1>1, <1>3, <1>5
  <2>2. i < n
    BY <1>1, <1>3, <2>1
  <2>3. 0 - 1 < i
    <3>1. (0 - 1) * L < i * L
      BY <1>1, <2>1
    <3> QED
      BY <1>1, <1>3, <3>1
  <2> QED
    BY <1>1, <1>3, <2>2, <2>3
<1>7. PieceStart(meta, i) = i * L
  BY DEF PieceStart
<1>8. q <= PieceEnd(meta, i)
  <2>1. CASE i = n - 1 /\ short # 0
    <3>1. PieceEnd(meta, i) = i * L + short
      BY <2>1 DEF PieceEnd, PieceStart, PieceLength
    <3>2. last <= i
      <4>1. last * L < size /\ size <= n * L
        BY <1>1, <1>4, <1>5, <2>1
      <4>2. last < n
        <5> HIDE DEF last, L, n, size
        <5>1. last * L \in Int /\ n * L \in Int /\ size \in Int
          BY <1>1, <1>4
        <5>2. last * L < n * L
          BY <4>1, <5>1
        <5> QED
          BY <1>1, <1>4, <5>2
      <4> QED
        BY <1>1, <1>4, <2>1, <4>2
    <3>3. last * L <= i * L
      BY <1>1, <1>3, <1>4, <3>2
    <3> QED
      BY <1>1, <1>3, <1>4, <3>1, <3>3
  <2>2. CASE ~ (i = n - 1 /\ short # 0)
    <3>1. PieceEnd(meta, i) = i * L + L
      BY <2>2 DEF PieceEnd, PieceStart, PieceLength
    <3> QED
      BY <1>1, <1>3, <3>1
  <2> QED
    BY <2>1, <2>2
<1>9. PieceStart(meta, i) \in Nat /\ PieceEnd(meta, i) \in Nat
  BY <1>6, PieceTyped
<1>10. q \in (PieceStart(meta, i) + 1)..PieceEnd(meta, i)
  BY <1>3, <1>7, <1>8, <1>9
<1> QED
  BY <1>6, <1>10

LEMMA InvWhole ==
    ASSUME IsLayout(meta), WriteInv
    PROVE  FilesAreWhole
<1> SUFFICES ASSUME DistinctPaths, Writable, HashesFit, written = 0..(meta.numPieces - 1),
                    NEW k \in DOMAIN meta.files, meta.files[k].size > 0,
                    meta.files[k].path \notin emptied
             PROVE  /\ meta.files[k].path \in DOMAIN disk
                    /\ Len(disk[meta.files[k].path]) = meta.files[k].size
                    /\ \A o \in 1..meta.files[k].size : disk[meta.files[k].path][o] # 0
  BY DEF FilesAreWhole
<1> DEFINE f == meta.files[k]
           F == FileStart(meta, k)
<1>1. /\ f.size \in Nat /\ F \in Nat /\ F + f.size <= meta.size /\ meta.size \in Nat
      /\ FileStart(meta, k + 1) = F + f.size
  <2>1. /\ Len(meta.files) \in Nat /\ f.size \in Nat /\ FileStart(meta, k + 1) = F + f.size /\ k \in 1..Len(meta.files)
    BY FilesInARow
  <2>2. k \in 1..(Len(meta.files) + 1) /\ k + 1 \in 1..(Len(meta.files) + 1)
    BY <2>1
  <2> QED
    BY <2>1, <2>2, StartsInSize
<1>2. ASSUME NEW o \in 1..f.size
      PROVE  f.path \in DOMAIN disk /\ o \in DOMAIN disk[f.path] /\ disk[f.path][o] # 0
  <2>1. F + o \in Int /\ 1 <= F + o /\ F + o <= meta.size
    BY <1>1, <1>2
  <2>2. PICK i \in 0..(meta.numPieces - 1) : F + o \in (PieceStart(meta, i) + 1)..PieceEnd(meta, i)
    <3> HIDE DEF F
    <3> QED
      BY <2>1, PiecesCover
  <2>3. PieceStart(meta, i) \in Nat /\ PieceEnd(meta, i) \in Nat
    BY PieceTyped
  <2>4. k \in Overlaps(meta, i)
    BY <1>1, <1>2, <2>2, <2>3 DEF Overlaps
  <2>5. IsOnDisk(i, k)
    BY <2>4 DEF WriteInv, SlicesStay
  <2> QED
    BY <1>2, <2>2, <2>5 DEF IsOnDisk
<1>3. f.size \in 1..f.size
  BY <1>1
<1>4. Len(disk[f.path]) = f.size
  <2>1. disk[f.path] \in Seq(0..meta.size) /\ Len(disk[f.path]) <= f.size
    BY <1>2, <1>3 DEF WriteInv, WriteTypeOK, WritesLandRight, Lands
  <2>2. DOMAIN disk[f.path] = 1..Len(disk[f.path]) /\ Len(disk[f.path]) \in Nat
    BY <2>1, LenProperties
  <2>3. f.size <= Len(disk[f.path])
    BY <1>2, <1>3, <2>2
  <2> QED
    BY <1>1, <2>1, <2>2, <2>3
<1> QED
  BY <1>2, <1>3, <1>4

-----------------------------------------------------------------------------
LEMMA Writing == WriteSpec => [](IsLayout(meta) /\ WriteInv)
<1>1. IsLayout(meta) /\ WriteInit => IsLayout(meta) /\ WriteInv
  BY InvInit
<1>2. (IsLayout(meta) /\ WriteInv) /\ [WriteStep /\ UNCHANGED meta]_<<meta, writeVars>> => (IsLayout(meta) /\ WriteInv)'
  BY InvStep
<1> QED
  BY <1>1, <1>2, PTL DEF WriteSpec

\* Every thread writes some piece's slices, from the data it has of the piece,
\* to files of the torrent (download_manager.py: _write_piece_sync).
THEOREM WritingIsTyped == WriteSpec => []WriteTypeOK
<1>1. WriteInv => WriteTypeOK
  BY DEF WriteInv
<1> QED
  BY <1>1, Writing, PTL

\* Whatever files the torrent has and however many threads write at once, what
\* is on disk is what the torrent has there: get_file_offset and the cursor of
\* _write_piece_sync agree.
THEOREM WritesAreRight == WriteSpec => []WritesLandRight
<1>1. WriteInv => WritesLandRight
  BY DEF WriteInv
<1> QED
  BY <1>1, Writing, PTL

\* When all the pieces are written, in any order, any number of times, no file
\* has a hole but one that was emptied: the pieces cover the torrent, the last
\* one being short (get_piece_length), and the only way to lose a byte is to
\* open with 'wb' a file another thread has made.
THEOREM WrittenIsWhole == WriteSpec => []FilesAreWhole
<1>1. IsLayout(meta) /\ WriteInv => FilesAreWhole
  BY InvWhole
<1> QED
  BY <1>1, Writing, PTL

-----------------------------------------------------------------------------
(***************************************************************************)
(* One thread.  What it found missing is missing when it makes it, so it   *)
(* empties no file; a file then lacks nothing once everything is written.  *)
(***************************************************************************)
OneThread == \A t, u \in Threads : t = u

NothingEmptied ==
    /\ emptied = {}
    /\ \A t \in Threads : job[t].making = "create" =>
          \A k \in job[t].left : IsNext(t, k) => meta.files[k].path \notin DOMAIN disk

\* A file that has the torrent's bytes, and nothing else.
IsTheTorrents(k) == LET f == meta.files[k] IN
    /\ f.path \in DOMAIN disk
    /\ Len(disk[f.path]) = f.size
    /\ \A o \in 1..f.size : disk[f.path][o] = FileStart(meta, k) + o

EveryFileIsTheTorrents ==
    DistinctPaths /\ Writable /\ HashesFit /\ written = 0..(meta.numPieces - 1) =>
        \A k \in DOMAIN meta.files : meta.files[k].size > 0 => IsTheTorrents(k)

\* A lone thread finds every file as it left it.
LEMMA EmptiedStep ==
    ASSUME OneThread, IsLayout(meta), WriteTypeOK, NothingEmptied,
           [WriteStep /\ UNCHANGED meta]_<<meta, writeVars>>
    PROVE  NothingEmptied'
<1>1. meta' = meta
  BY DEF writeVars
<1>2. CASE UNCHANGED <<meta, writeVars>>
  BY <1>1, <1>2 DEF writeVars, NothingEmptied, IsNext
<1>3. CASE WriteStep
  <2>1. PICK t \in Threads : \/ \E i \in 0..(meta.numPieces - 1) : BeginWrite(t, i)
                             \/ FindMissing(t)
                             \/ CreateFile(t)
                             \/ TruncateFile(t)
                             \/ WriteSlice(t)
                             \/ EndWrite(t)
    BY <1>3 DEF WriteStep
  <2>2. \A u \in Threads : u = t
    BY DEF OneThread
  <2>3. job \in [Threads -> Jobs] /\ emptied = {}
    BY DEF WriteTypeOK, NothingEmptied
  <2>4. SUFFICES emptied' = {} /\ (job'[t].making = "create" => \A k \in job'[t].left : IsNext(t, k)' => meta.files[k].path \notin DOMAIN disk')
    BY <1>1, <2>2, <2>4 DEF NothingEmptied
  <2>5. ASSUME NEW i \in 0..(meta.numPieces - 1), BeginWrite(t, i)
        PROVE  emptied' = {} /\ job'[t].making # "create"
    BY <2>3, <2>5 DEF BeginWrite
  <2>6. ASSUME FindMissing(t)
        PROVE  /\ emptied' = {} /\ job'[t].left = job[t].left
               /\ \A k \in job[t].left : IsNext(t, k) => meta.files[k].path \notin DOMAIN disk'
    <3>1. PICK h \in job[t].left : IsNext(t, h) /\ meta.files[h].path \notin DOMAIN disk
      BY <2>6 DEF FindMissing
    <3>2. \A k \in job[t].left : k \in Int
      BY <2>3 DEF Jobs, IsLayout
    <3>3. \A k \in job[t].left : IsNext(t, k) => k = h
      BY <3>1, <3>2 DEF IsNext
    <3>4. job' = [job EXCEPT ![t].making = "create"] /\ disk' = disk /\ emptied' = emptied
      BY <2>6 DEF FindMissing
    <3>5. job'[t].left = job[t].left
      BY <2>3, <3>4 DEF Jobs
    <3> QED
      BY <2>3, <3>1, <3>3, <3>4, <3>5
  <2>7. ASSUME CreateFile(t)
        PROVE  emptied' = {} /\ job'[t].making # "create"
    <3>1. PICK h \in job[t].left :
             /\ IsNext(t, h) /\ job[t].making = "create"
             /\ emptied' = emptied \cup {p \in {meta.files[h].path} \cap DOMAIN disk : \E o \in DOMAIN disk[p] : disk[p][o] # 0}
             /\ job' = [job EXCEPT ![t].making = "allocate"]
      BY <2>7 DEF CreateFile
    <3>2. meta.files[h].path \notin DOMAIN disk
      BY <3>1 DEF NothingEmptied
    <3>3. {meta.files[h].path} \cap DOMAIN disk = {}
      BY <3>2
    <3>4. emptied' = {}
      BY <2>3, <3>1, <3>3
    <3> QED
      BY <2>3, <3>1, <3>4 DEF Jobs
  <2>8. ASSUME WriteSlice(t)
        PROVE  emptied' = {} /\ job'[t].making # "create"
    <3>1. PICK h \in job[t].left :
             /\ job[t].making = "none" /\ emptied' = emptied
             /\ job' = [job EXCEPT ![t].left = @ \ {h}, ![t].cursor = @ + SliceLength(meta, job[t].piece, h)]
      BY <2>8 DEF WriteSlice
    <3> QED
      BY <2>3, <3>1 DEF Jobs
  <2>9. ASSUME EndWrite(t)
        PROVE  emptied' = {} /\ job'[t].making # "create"
    BY <2>3, <2>9 DEF EndWrite, Idle
  <2>11. ASSUME TruncateFile(t)
         PROVE  emptied' = {} /\ job'[t].making # "create"
    BY <2>3, <2>11 DEF TruncateFile, Jobs
  <2>10. ASSUME FindMissing(t), NEW k \in job'[t].left, IsNext(t, k)'
         PROVE  IsNext(t, k)
    BY <2>6, <2>10 DEF IsNext
  <2> QED
    BY <2>1, <2>5, <2>6, <2>7, <2>8, <2>9, <2>10, <2>11
<1> QED
  BY <1>2, <1>3

\* With one executor thread every file ends up as the torrent has it, byte by
\* byte: with the default of two, the race for a missing file is all that can
\* come between.
THEOREM OneThreadWritesEverything ==
    ASSUME OneThread
    PROVE  WriteSpec => []EveryFileIsTheTorrents
<1> DEFINE I == IsLayout(meta) /\ WriteInv
<1>1. I /\ WriteInit => NothingEmptied
  BY DEF WriteInit, NothingEmptied, Idle
<1>2. I /\ NothingEmptied /\ [WriteStep /\ UNCHANGED meta]_<<meta, writeVars>> => NothingEmptied'
  BY EmptiedStep DEF WriteInv
<1>3. I /\ NothingEmptied => EveryFileIsTheTorrents
  <2> SUFFICES ASSUME I, NothingEmptied, DistinctPaths, Writable, HashesFit,
                      written = 0..(meta.numPieces - 1),
                      NEW k \in DOMAIN meta.files, meta.files[k].size > 0
               PROVE  IsTheTorrents(k)
    BY DEF EveryFileIsTheTorrents
  <2> DEFINE f == meta.files[k]
  <2>1. FilesAreWhole /\ WritesLandRight
    BY InvWhole DEF WriteInv
  <2>2. f.path \in DOMAIN disk /\ \A o \in 1..f.size : disk[f.path][o] # 0
    BY <2>1 DEF FilesAreWhole, NothingEmptied
  <2>3. Len(disk[f.path]) = f.size /\ \A o \in 1..f.size : disk[f.path][o] \in {0, FileStart(meta, k) + o}
    <3>1. /\ Len(disk[f.path]) = f.size
          /\ \A o \in DOMAIN disk[f.path] : disk[f.path][o] \in {0, FileStart(meta, k) + o}
          /\ disk[f.path] \in Seq(0..meta.size)
      BY <2>1, <2>2 DEF FilesAreWhole, NothingEmptied, WritesLandRight, Lands, WriteInv, WriteTypeOK
    <3> QED
      BY <3>1, LenProperties
  <2> QED
    BY <2>2, <2>3 DEF IsTheTorrents
<1> QED
  BY <1>1, <1>2, <1>3, Writing, PTL DEF WriteSpec

-----------------------------------------------------------------------------
(***************************************************************************)
(* From the .torrent file on.  The checks of TorrentMetadata leave a       *)
(* layout: sizes are numbers, and pieces, if there are any, have a length  *)
(* other than 0.  Where there are none, nothing is ever written.           *)
(***************************************************************************)
Phases == {"read", "rejected", "crashed", "loaded"}

LoadInv ==
    /\ doc \in Documents
    /\ phase \in Phases /\ meta.numPieces \in Nat
    /\ phase = "read" => meta.numPieces = 0
    /\ IF meta.numPieces > 0 THEN IsLayout(meta) /\ meta.pieceLength # 0 ELSE WriteInit
    /\ WriteInv

\* What a dictionary has under a key is a value.
LEMMA GetIsValue ==
    ASSUME NEW d \in Values, d.t = "dict", NEW key, Has(d, key)
    PROVE  Get(d, key) \in Values
<1>1. d.v \in Seq(Seq(STRING) \X Values)
  BY DecodeAssumption
<1> DEFINE k == CHOOSE n \in DOMAIN d.v : IsEntry(d, key, n)
<1>2. k \in DOMAIN d.v
  BY DEF Has
<1> HIDE DEF k
<1>3. d.v[k] \in Seq(STRING) \X Values
  <2> DEFINE Pairs == Seq(STRING) \X Values
  <2> HIDE DEF Pairs
  <2>1. d.v \in Seq(Pairs)
    BY <1>1 DEF Pairs
  <2>2. k \in 1..Len(d.v)
    BY <1>2, <2>1, LenProperties
  <2>3. d.v[k] \in Pairs
    BY <2>1, <2>2, ElementOfSeq
  <2> QED
    BY <2>3 DEF Pairs
<1>4. d.v[k][2] \in Values
  BY <1>3
<1> QED
  BY <1>4 DEF Get, k

\* What a list has at a place is a value.
LEMMA ItemIsValue ==
    ASSUME NEW x \in Values, x.t = "list"
    PROVE  /\ Len(x.v) \in Nat /\ DOMAIN x.v = 1..Len(x.v)
           /\ \A k \in DOMAIN x.v : x.v[k] \in Values
<1>1. x.v \in Seq(Values)
  BY DecodeAssumption
<1> QED
  BY <1>1, ElementOfSeq, LenProperties

\* An info dictionary that parses gives files whose sizes are numbers.
LEMMA FilesTyped ==
    ASSUME NEW info \in Values, info.t = "dict", Has(info, "files") \/ Has(info, "length"),
           FilesParse(info)
    PROVE  SizesTyped(Files(info))
<1>1. CASE ~Has(info, "files")
  <2>1. Get(info, "length") \in Values /\ Get(info, "length").t = "int"
    BY <1>1, GetIsValue DEF FilesParse
  <2>2. Get(info, "length").v \in Int
    BY <2>1, DecodeAssumption
  <2> DEFINE f == [path |-> <<Get(info, "name").v>>, size |-> Get(info, "length").v]
  <2>3. Files(info) = <<f>>
    BY <1>1 DEF Files
  <2> QED
    BY <2>2, <2>3 DEF SizesTyped
<1>2. CASE Has(info, "files")
  <2> DEFINE list == Get(info, "files")
             File(k) == [path |-> <<Get(info, "name").v>> \o
                                    [j \in DOMAIN Get(list.v[k], "path").v |-> Item(Get(list.v[k], "path"), j).v],
                         size |-> Get(list.v[k], "length").v]
  <2>0. list \in Values /\ list.t # "int" /\ \A k \in DOMAIN list.v : FileParses(Item(list, k))
    BY <1>2, GetIsValue DEF FilesParse, Iterable
  <2>1. \/ list.v = <<>>
        \/ list.t = "list" /\ \A k \in DOMAIN list.v : FileParses(list.v[k])
    <3>1. CASE list.t = "list"
      BY <2>0, <3>1 DEF Item
    <3>2. CASE list.t # "list"
      <4>1. \A k \in DOMAIN list.v : ~FileParses(Item(list, k))
        BY <3>2 DEF Item, FileParses
      <4>2. DOMAIN list.v = {} /\ \E S : list.v \in Seq(S)
        BY <2>0, <4>1, DecodeAssumption
      <4> HIDE DEF list
      <4>3. PICK S : list.v \in Seq(S)
        BY <4>2
      <4>4. Len(list.v) \in Nat /\ DOMAIN list.v = 1..Len(list.v)
        BY <4>3, LenProperties
      <4>5. Len(list.v) = 0
        <5>1. 1 \notin 1..Len(list.v)
          BY <4>2, <4>4
        <5> QED
          BY <4>4, <5>1
      <4> QED
        BY <4>3, <4>5, EmptySeq
    <3> QED
      BY <3>1, <3>2
  <2>2. Files(info) = [k \in DOMAIN list.v |-> File(k)]
    BY <1>2 DEF Files
  <2>3. CASE list.v = <<>>
    <3> HIDE DEF list, File
    <3>1. Files(info) = << >>
      BY <2>2, <2>3
    <3> QED
      BY <3>1 DEF SizesTyped
  <2>4. CASE list.t = "list" /\ \A k \in DOMAIN list.v : FileParses(list.v[k])
    <3>1. /\ Len(list.v) \in Nat /\ DOMAIN list.v = 1..Len(list.v)
          /\ \A k \in DOMAIN list.v : list.v[k] \in Values
      BY <2>0, <2>4, ItemIsValue
    <3>2. ASSUME NEW k \in DOMAIN list.v
          PROVE  File(k).size \in Int
      <4>1. list.v[k] \in Values /\ list.v[k].t = "dict" /\ Has(list.v[k], "length")
            /\ Get(list.v[k], "length").t = "int"
        BY <2>4, <3>1, <3>2 DEF FileParses
      <4> QED
        BY <4>1, GetIsValue, DecodeAssumption
    <3> HIDE DEF list, File
    <3> DEFINE files == [k \in DOMAIN list.v |-> File(k)]
    <3>3. DOMAIN files = 1..Len(list.v) /\ Len(files) = Len(list.v)
      BY <3>1
    <3> QED
      BY <2>2, <3>1, <3>2, <3>3 DEF SizesTyped
  <2> QED
    BY <2>1, <2>3, <2>4
<1> QED
  BY <1>1, <1>2

\* The number of hashes that a string of n bytes has in it.
LEMMA NumberOfPieces ==
    ASSUME NEW n \in Nat
    PROVE  n \div HashLength \in Nat /\ (n < HashLength => n \div HashLength = 0)
<1> DEFINE q == n \div HashLength
<1>1. HashLength \in Nat /\ HashLength > 0
  BY MetadataAssumption
<1>2. q \in Int /\ n % HashLength \in Nat /\ n % HashLength < HashLength
      /\ n = q * HashLength + (n % HashLength)
  BY <1>1, Division
<1> HIDE DEF q
<1>3. q >= 0
  <2> SUFFICES ASSUME q <= -1 PROVE FALSE
    BY <1>2
  <2>1. q * HashLength <= -1 * HashLength
    BY <1>1, <1>2
  <2> QED
    BY <1>1, <1>2, <2>1
<1>4. q > 0 => q * HashLength >= HashLength
  BY <1>1, <1>2
<1> QED
  BY <1>1, <1>2, <1>3, <1>4 DEF q

\* What passes the checks of TorrentMetadata and PieceManager is a layout, if
\* it has pieces.
LEMMA AttributesTyped ==
    ASSUME NEW r, r.got => r.val \in Values, Verdict(r) = "loaded", Divides(Get(r.val, "info"))
    PROVE  LET m == Attributes(Get(r.val, "info")) IN
           m.numPieces \in Nat /\ (m.numPieces > 0 => IsLayout(m) /\ m.pieceLength # 0)
<1> DEFINE info == Get(r.val, "info")
           m == Attributes(info)
<1>1. /\ r.val \in Values /\ r.val.t = "dict" /\ Has(r.val, "info") /\ info.t = "dict"
      /\ InfoVerdict(info) = "loaded"
  BY DEF Verdict
<1>2. info \in Values
  BY <1>1, GetIsValue
<1> HIDE DEF info
<1>3. /\ Has(info, "piece length") /\ Has(info, "pieces") /\ Get(info, "pieces").t # "int"
      /\ Has(info, "files") \/ Has(info, "length")
      /\ FilesParse(info)
  BY <1>1 DEF InfoVerdict
<1>4. Len(Get(info, "pieces").v) \in Nat
  BY <1>1, <1>2, <1>3, GetIsValue, DecodeAssumption, LenProperties
<1>5. m.numPieces = Len(Get(info, "pieces").v) \div HashLength
  BY DEF Attributes
<1>6. m.numPieces \in Nat /\ (Len(Get(info, "pieces").v) < HashLength => m.numPieces = 0)
  <2> HIDE DEF m
  <2> QED
    BY <1>4, <1>5, NumberOfPieces
<1>7. SizesTyped(m.files)
  BY <1>1, <1>2, <1>3, FilesTyped DEF Attributes
<1>8. ASSUME m.numPieces > 0
      PROVE  m.pieceLength \in Int /\ m.pieceLength # 0
  <2>1. Get(info, "piece length").t = "int" /\ Get(info, "piece length").v # 0
    <3>1. Divides(info)
      BY DEF info
    <3> HIDE DEF m
    <3>2. m.numPieces # 0
      BY <1>8
    <3> QED
      BY <1>6, <3>1, <3>2 DEF Divides
  <2> QED
    BY <1>1, <1>2, <1>3, <2>1, GetIsValue, DecodeAssumption DEF Attributes
<1>9. m.size = TotalSize(m.files)
  BY DEF Attributes
<1> QED
  BY <1>6, <1>7, <1>8, <1>9 DEF IsLayout, SizesTyped, info

\* Where nothing is written yet, the invariant holds of any torrent.
LEMMA InvBefore == WriteInit' => WriteInv'
<1>1. WriteInit => WriteInv
  BY InvInit
<1> QED
  BY <1>1, PTL

\* A torrent without pieces gives the threads nothing to do.
LEMMA NothingToWrite ==
    ASSUME WriteInit, meta.numPieces = 0
    PROVE  ~WriteStep
<1>1. \A t \in Threads : job[t].left = {} /\ job[t].piece = NoPiece
  BY DEF WriteInit, Idle
<1>2. ~ \E i \in 0..(meta.numPieces - 1) : TRUE
  OBVIOUS
<1>3. ASSUME NEW t \in Threads
      PROVE  ~FindMissing(t) /\ ~CreateFile(t) /\ ~TruncateFile(t) /\ ~WriteSlice(t) /\ ~EndWrite(t)
  BY <1>1 DEF FindMissing, CreateFile, TruncateFile, WriteSlice, EndWrite
<1> QED
  BY <1>2, <1>3 DEF WriteStep

\* Loading leaves the files as they are; from then on there is only writing.
LEMMA LoadStep == LoadInv /\ [Next]_vars => LoadInv'
<1> SUFFICES ASSUME LoadInv, [Next]_vars PROVE LoadInv'
  OBVIOUS
<1>1. CASE Load
  <2> DEFINE r == decode(doc)
             info == Get(r.val, "info")
  <2>1. WriteInit' /\ meta.numPieces = 0
    BY <1>1 DEF Load, LoadInv, WriteInit, writeVars
  <2>2. WriteInv'
    BY <2>1, InvBefore
  <2>3. phase' \in Phases \ {"read"}
    BY <1>1 DEF Load, Verdict, InfoVerdict, Phases
  <2>4. CASE phase' = "loaded"
    <3>1. meta' = Attributes(info) /\ Verdict(r) = "loaded" /\ Divides(info)
      BY <1>1, <2>4 DEF Load
    <3>2. r.got => r.val \in Values
      BY DecodeAssumption DEF LoadInv
    <3>3. meta'.numPieces \in Nat /\ (meta'.numPieces > 0 => IsLayout(meta') /\ meta'.pieceLength # 0)
      BY <3>1, <3>2, AttributesTyped
    <3>4. doc' \in Documents
      BY <1>1 DEF Load, LoadInv
    <3> QED
      BY <2>1, <2>2, <2>3, <3>3, <3>4 DEF LoadInv
  <2>5. CASE phase' # "loaded"
    BY <1>1, <2>1, <2>2, <2>3, <2>5 DEF Load, LoadInv
  <2> QED
    BY <2>4, <2>5
<1>2. CASE Writes
  <2>1. WriteStep /\ meta' = meta /\ phase' = phase
    BY <1>2 DEF Writes
  <2>2. meta.numPieces > 0 /\ IsLayout(meta)
    BY <2>1, NothingToWrite DEF LoadInv
  <2>3. WriteInv'
    BY <2>1, <2>2, InvStep DEF LoadInv
  <2>4. doc' \in Documents /\ phase' \in Phases /\ (phase' = "read" => meta'.numPieces = 0)
    BY <1>2, <2>1 DEF Writes, LoadInv
  <2> QED
    BY <2>1, <2>2, <2>3, <2>4 DEF LoadInv
<1>3. CASE UNCHANGED vars
  <2>1. doc' = doc /\ phase' = phase /\ meta' = meta /\ UNCHANGED writeVars
    BY <1>3 DEF vars
  <2>2. CASE meta.numPieces > 0
    BY <2>1, <2>2, InvStep DEF LoadInv
  <2>3. CASE ~(meta.numPieces > 0)
    <3>1. WriteInit'
      BY <2>1, <2>3 DEF LoadInv, WriteInit, writeVars
    <3> QED
      BY <2>1, <2>3, <3>1, InvBefore DEF LoadInv
  <2> QED
    BY <2>2, <2>3
<1> QED
  BY <1>1, <1>2, <1>3 DEF Next

\* What holds of every file that is offered.
LEMMA Loading == Spec => []LoadInv
<1>1. Init => LoadInv
  <2> SUFFICES ASSUME Init PROVE LoadInv
    OBVIOUS
  <2>1. doc \in Documents /\ phase = "read" /\ meta.numPieces = 0 /\ WriteInit
    BY DEF Init, NoMeta
  <2>2. WriteInv
    BY <2>1, InvInit
  <2> QED
    BY <2>1, <2>2 DEF LoadInv, Phases
<1>2. LoadInv /\ [Next]_vars => LoadInv'
  BY LoadStep
<1> QED
  BY <1>1, <1>2, PTL DEF Spec

\* Whatever file is offered, TorrentMetadata and PieceManager refuse it or make
\* a layout of it whose pieces, if there are any, have a length, and the
\* threads write within its files and pieces.
THEOREM LoadedIsALayout == Spec => []TypeOK
<1>1. LoadInv => TypeOK
  BY DEF LoadInv, Phases, TypeOK, WriteInv
<1> QED
  BY <1>1, Loading, PTL

\* From whatever .torrent file, what is on disk is the torrent's, byte by byte.
THEOREM LoadedWritesAreRight == Spec => []WritesLandRight
<1>1. LoadInv => WritesLandRight
  BY DEF LoadInv, WriteInv
<1> QED
  BY <1>1, Loading, PTL

\* From whatever .torrent file, when all the pieces are written no file has a
\* hole but one that was emptied.
THEOREM LoadedIsWhole == Spec => []FilesAreWhole
<1>1. LoadInv => FilesAreWhole
  <2>1. CASE meta.numPieces > 0
    BY <2>1, InvWhole DEF LoadInv
  <2>2. CASE ~(meta.numPieces > 0)
    BY <2>2 DEF FilesAreWhole, Writable
  <2> QED
    BY <2>1, <2>2
<1> QED
  BY <1>1, Loading, PTL
=============================================================================
