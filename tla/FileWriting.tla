----------------------------- MODULE FileWriting -----------------------------
(***************************************************************************)
(* From verified pieces to files: Download._write_piece_sync, run by the   *)
(* threads of the executor, for a torrent of any files.  A thread takes a  *)
(* piece and goes through its slices: it looks for the file, opens it with *)
(* 'wb' and truncates it to its size if it found none, and writes.  A byte *)
(* of the data is named by its position, counted from 1; 0 is a hole.      *)
(***************************************************************************)
EXTENDS FileLayout, FiniteSets

CONSTANTS
    Threads         \* of the executor

VARIABLES
    meta,           \* the torrent: pieceLength, numPieces, size, files
    job,            \* what each thread is writing
    written,        \* pieces written
    disk,           \* path -> contents, for the files that exist
    emptied         \* history: files that had something in them when a
                    \* thread that had found none opened them with 'wb'

writeVars == <<job, written, disk, emptied>>

NoPiece == -1

\* left: the files of the slices to come; cursor: data_cursor; making: what is
\* to be done about the file of the next slice, which was not there.
Idle == [piece |-> NoPiece, left |-> {}, cursor |-> 0, making |-> "none"]

Makings == {"none", "create", "allocate"}

Jobs == [piece : {NoPiece} \cup 0..(meta.numPieces - 1), left : SUBSET DOMAIN meta.files,
         cursor : Nat, making : Makings]

Paths == {meta.files[k].path : k \in DOMAIN meta.files}

\* What TorrentMetadata makes of a torrent with pieces.
IsLayout(m) ==
    /\ Len(m.files) \in Nat /\ DOMAIN m.files = 1..Len(m.files)
    /\ \A k \in DOMAIN m.files : m.files[k].size \in Int
    /\ m.pieceLength \in Int /\ m.numPieces \in Nat
    /\ m.size = TotalSize(m.files)

WriteTypeOK ==
    /\ job \in [Threads -> Jobs]
    /\ written \subseteq 0..(meta.numPieces - 1)
    /\ DOMAIN disk \subseteq Paths /\ emptied \subseteq DOMAIN disk
    /\ \A p \in DOMAIN disk : disk[p] \in Seq(0..meta.size)

WriteInit ==
    /\ job = [t \in Threads |-> Idle]
    /\ written = {}
    /\ disk = <<>>
    /\ emptied = {}

-----------------------------------------------------------------------------
\* A torrent with files of negative size, or whose pieces have no bytes, is
\* not followed; of one without pieces the piece length may be anything.
Writable ==
    /\ meta.numPieces > 0 /\ meta.pieceLength > 0
    /\ \A k \in DOMAIN meta.files : meta.files[k].size >= 0

\* get_piece_data and get_file_offset: piece i was verified.
BeginWrite(t, i) ==
    /\ job[t].piece = NoPiece
    /\ Writable
    /\ job' = [job EXCEPT ![t] = [piece |-> i, left |-> Overlaps(meta, i), cursor |-> 0, making |-> "none"]]
    /\ UNCHANGED <<written, disk, emptied>>

IsNext(t, k) == k \in job[t].left /\ \A j \in job[t].left : k <= j

\* os.path.exists
FindMissing(t) ==
    \E k \in job[t].left :
        /\ IsNext(t, k) /\ job[t].making = "none"
        /\ meta.files[k].path \notin DOMAIN disk
        /\ job' = [job EXCEPT ![t].making = "create"]
        /\ UNCHANGED <<written, disk, emptied>>

\* open(path, 'wb'), which empties a file that is there.
CreateFile(t) ==
    \E k \in job[t].left : LET path == meta.files[k].path IN
        /\ IsNext(t, k) /\ job[t].making = "create"
        /\ disk' = [p \in DOMAIN disk \cup {path} |-> IF p = path THEN <<>> ELSE disk[p]]
        /\ emptied' = emptied \cup {p \in {path} \cap DOMAIN disk : \E o \in DOMAIN disk[p] : disk[p][o] # 0}
        /\ job' = [job EXCEPT ![t].making = "allocate"]
        /\ UNCHANGED written

\* The size of the first file of that path.
FirstSize(path) ==
    LET k == CHOOSE k \in DOMAIN meta.files :
                /\ meta.files[k].path = path
                /\ \A j \in DOMAIN meta.files : j < k => meta.files[j].path # path
    IN meta.files[k].size

\* truncate(size), which keeps what others wrote since the file was opened.
Truncated(contents, size) ==
    [o \in 1..size |-> IF o \in DOMAIN contents THEN contents[o] ELSE 0]

TruncateFile(t) ==
    \E k \in job[t].left : LET path == meta.files[k].path IN
        /\ IsNext(t, k) /\ job[t].making = "allocate"
        /\ path \in DOMAIN disk
        /\ disk' = [disk EXCEPT ![path] = Truncated(@, FirstSize(path))]
        /\ job' = [job EXCEPT ![t].making = "none"]
        /\ UNCHANGED <<written, emptied>>

\* seek(offset) and write(data[cursor:cursor + length]), data being piece i's;
\* a file that is too short grows, by a hole up to offset.
Overwrite(contents, offset, length, i, cursor) ==
    [o \in 1..GreaterOf(Len(contents), offset + length) |->
        IF o \in offset + 1..offset + length
        THEN PieceStart(meta, i) + cursor + (o - offset)
        ELSE IF o \in DOMAIN contents THEN contents[o] ELSE 0]

WriteSlice(t) ==
    \E k \in job[t].left :
        LET i == job[t].piece
            path == meta.files[k].path
            length == SliceLength(meta, i, k)
        IN /\ IsNext(t, k) /\ job[t].making = "none"
           /\ path \in DOMAIN disk
           /\ disk' = [disk EXCEPT ![path] = Overwrite(@, Offset(meta, i, k), length, i, job[t].cursor)]
           /\ job' = [job EXCEPT ![t].left = @ \ {k}, ![t].cursor = @ + length]
           /\ UNCHANGED <<written, emptied>>

EndWrite(t) ==
    /\ job[t].piece # NoPiece /\ job[t].left = {}
    /\ written' = written \cup {job[t].piece}
    /\ job' = [job EXCEPT ![t] = Idle]
    /\ UNCHANGED <<disk, emptied>>

WriteStep ==
    \E t \in Threads :
        \/ \E i \in 0..(meta.numPieces - 1) : BeginWrite(t, i)
        \/ FindMissing(t)
        \/ CreateFile(t)
        \/ TruncateFile(t)
        \/ WriteSlice(t)
        \/ EndWrite(t)

\* Writing alone, for a torrent that was loaded.
WriteSpec ==
    /\ IsLayout(meta) /\ WriteInit
    /\ [][WriteStep /\ UNCHANGED meta]_<<meta, writeVars>>

-----------------------------------------------------------------------------
DistinctPaths == \A j, k \in DOMAIN meta.files : meta.files[j].path = meta.files[k].path => j = k

\* t has the file open, and will truncate it to its size.
Allocates(t, path) ==
    job[t].making = "allocate" /\ \E k \in job[t].left : IsNext(t, k) /\ meta.files[k].path = path

Lands(k) ==
    LET f == meta.files[k] IN
    f.path \in DOMAIN disk =>
        /\ Len(disk[f.path]) <= f.size
        /\ Len(disk[f.path]) = f.size \/ \E t \in Threads : Allocates(t, f.path)
        /\ \A o \in DOMAIN disk[f.path] : disk[f.path][o] \in {0, FileStart(meta, k) + o}

\* Whatever sizes the files have and in whatever order pieces arrive, a byte of
\* a file is a hole or the torrent's byte for that place, no file outgrows its
\* size, and one is shorter only while a thread has it open to make it.
WritesLandRight == DistinctPaths => \A k \in DOMAIN meta.files : Lands(k)

\* The number of hashes is what the size calls for; the parser does not look.
HashesFit == meta.numPieces = (meta.size + meta.pieceLength - 1) \div meta.pieceLength

\* Once every piece is written, every file that has a byte is there and has no
\* holes, but for those emptied: pieces tile the files, and PieceManager's
\* lengths fit them.
FilesAreWhole ==
    DistinctPaths /\ Writable /\ HashesFit /\ written = 0..(meta.numPieces - 1) =>
        \A k \in DOMAIN meta.files : LET f == meta.files[k] IN
            f.size > 0 /\ f.path \notin emptied =>
                /\ f.path \in DOMAIN disk
                /\ Len(disk[f.path]) = f.size
                /\ \A o \in 1..f.size : disk[f.path][o] # 0
=============================================================================
