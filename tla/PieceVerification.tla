------------------------- MODULE PieceVerification -------------------------
(***************************************************************************)
(* What happens to the pieces of one download between the block that       *)
(* arrives from a peer and the bytes on disk.                              *)
(*                                                                         *)
(* Two kinds of thread share the PieceManager of a download.  The asyncio  *)
(* event loop runs one message loop per connection (the PIECE handler of   *)
(* Download._on_peer_message), the main _download_loop and pause/resume;   *)
(* an executor of two threads runs verify_piece and _write_piece_sync,     *)
(* which read and write the very Piece objects the event loop goes on      *)
(* using.  A handler hands a job over, awaits it and acts on its result;   *)
(* everything else may run in between, which is what this module is about. *)
(*                                                                         *)
(* Data is abstract.  The bytes of a block are right or wrong, SHA-1 tells *)
(* a wholly right piece from any other, and the output is one file whose   *)
(* region for a piece is "absent" (not written, zeroes), "right" or        *)
(* "wrong".  Time is abstract: a timer may have run out whenever the code  *)
(* looks at it.                                                            *)
(***************************************************************************)
EXTENDS Integers, FiniteSets

CONSTANTS
    Peers,              \* remote peers, one connection each at most
    Pieces,             \* pieces of the torrent
    Blocks,             \* blocks of one piece
    Workers,            \* threads of the executor (max_workers=2)
    MaxHashFailures,    \* MAX_HASH_FAILURES_PER_PEER
    MaxWrong,           \* bound: corrupted blocks that arrive
    MaxStale,           \* bound: stale timers that run out while blocks still come
    MaxPause,           \* bound: calls of pause()
    MaxLost,            \* bound: connections that close by themselves
    MaxIo,              \* bound: writes that raise OSError
    NoPeer, NoPiece     \* model values: no owner, no piece

ASSUME SetsAssumption ==
    /\ IsFiniteSet(Peers) /\ IsFiniteSet(Pieces) /\ IsFiniteSet(Blocks)
    /\ Peers # {} /\ Pieces # {} /\ Blocks # {} /\ Workers # {}
    /\ NoPeer \notin Peers /\ NoPiece \notin Pieces

ASSUME BoundsAssumption ==
    /\ MaxHashFailures \in Nat \ {0}
    /\ MaxWrong \in Nat /\ MaxStale \in Nat /\ MaxPause \in Nat /\ MaxLost \in Nat
    /\ MaxIo \in Nat

VARIABLES
    status,         \* Piece.status
    received,       \* blocks with Block.received set
    good,           \* blocks whose bytes in Piece._data are the torrent's bytes
    timers,         \* keys of PieceManager._piece_start_times
    conn,           \* peers whose connection is up
    asked,          \* requests on the wire, per connection
    handler,        \* where each connection's message loop is
    cur,            \* the piece a suspended PIECE handler is about
    queue,          \* peers whose handler has a job waiting in the executor
    job,            \* what each executor thread is doing
    fileExists,     \* the output file has been created
    disk,           \* the output file's region of each piece
    have,           \* pieces whose HAVE broadcast was started
    fails,          \* PeerReputation.hash_failures
    banned,         \* SecurityManager._banned_peers
    dl,             \* Download.state
    loops,          \* _download_loop tasks that have not left their while
    completion,     \* where _complete_download is
    callbacks,      \* calls of the on_complete callback
    leaving,        \* connections a pause() has still to disconnect
    stale,          \* pieces the stale check chose and has not reset yet
    faults,         \* how much of each bound is used up
    raced           \* history: pieces hit by one of the races named at Race

pieceVars == <<status, received, good, timers>>
peerVars  == <<conn, asked, handler, cur, queue>>
secVars   == <<fails, banned>>
diskVars  == <<fileExists, disk>>
loopVars  == <<dl, loops, completion, callbacks, leaving>>
resultVars == <<diskVars, have, secVars, loopVars>>
noteVars == <<faults, raced>>
vars == <<pieceVars, peerVars, job, resultVars, stale, noteVars>>

(***************************************************************************)
(* A worker's job.  verify_piece is "hash" (read the bytes and digest      *)
(* them), "conclude" (set the status), and after a mismatch "clear" (the   *)
(* rest of Piece.reset).  _write_piece_sync is "read" (get_piece_data),    *)
(* "exists" (the os.path.exists test), "create" (open 'wb'), "allocate"    *)
(* (truncate) and "flush" (write the slice).  "ok" is what the job knows   *)
(* of its bytes.  The owner is NoPeer once the awaiting handler was        *)
(* cancelled.                                                              *)
(***************************************************************************)
Idle == [stage |-> "idle", peer |-> NoPeer, piece |-> NoPiece, ok |-> FALSE]

Stages == {"idle", "hash", "conclude", "clear", "read", "exists", "create",
           "allocate", "flush"}

Jobs == [stage : Stages, peer : Peers \cup {NoPeer},
         piece : Pieces \cup {NoPiece}, ok : BOOLEAN]

\* "verify" and "write" await the executor; the others but "reading" have a
\* result, or an exception, the event loop has not resumed them with yet.
HandlerPoints == {"reading", "verify", "verified", "failed", "write", "written", "raised"}

FaultKinds == {"wrong", "stale", "pause", "lost", "io"}

TypeOK ==
    /\ status \in [Pieces -> {"missing", "in_progress", "completed"}]
    /\ received \in [Pieces -> SUBSET Blocks]
    /\ good \in [Pieces -> SUBSET Blocks]
    /\ timers \subseteq Pieces
    /\ conn \subseteq Peers
    /\ asked \in [Peers -> SUBSET (Pieces \X Blocks)]
    /\ handler \in [Peers -> HandlerPoints]
    /\ cur \in [Peers -> Pieces \cup {NoPiece}]
    /\ queue \subseteq Peers
    /\ job \in [Workers -> Jobs]
    /\ fileExists \in BOOLEAN
    /\ disk \in [Pieces -> {"absent", "right", "wrong"}]
    /\ have \subseteq Pieces
    /\ fails \in [Peers -> Nat]
    /\ banned \subseteq Peers
    /\ dl \in {"Running", "Paused", "Completed"}
    /\ loops \in Nat
    /\ completion \in {"not_handled", "announcing", "handled"}
    /\ callbacks \in Nat
    /\ leaving \subseteq Peers
    /\ stale \subseteq Pieces
    /\ faults \in [FaultKinds -> Nat]
    /\ raced \subseteq Pieces

Init ==
    /\ status = [i \in Pieces |-> "missing"]
    /\ received = [i \in Pieces |-> {}]
    /\ good = [i \in Pieces |-> {}]
    /\ timers = {}
    /\ conn = {}
    /\ asked = [p \in Peers |-> {}]
    /\ handler = [p \in Peers |-> "reading"]
    /\ cur = [p \in Peers |-> NoPiece]
    /\ queue = {}
    /\ job = [w \in Workers |-> Idle]
    /\ fileExists = FALSE
    /\ disk = [i \in Pieces |-> "absent"]
    /\ have = {}
    /\ fails = [p \in Peers |-> 0]
    /\ banned = {}
    /\ dl = "Running"
    /\ loops = 1
    /\ completion = "not_handled"
    /\ callbacks = 0
    /\ leaving = {}
    /\ stale = {}
    /\ faults = [k \in FaultKinds |-> 0]
    /\ raced = {}

-----------------------------------------------------------------------------
\* The bytes held for piece i are the torrent's.
Right(i) == good[i] = Blocks

AllCompleted == \A i \in Pieces : status[i] = "completed"    \* is_complete

\* The main loop resets the stale pieces without awaiting, so until it has
\* no other coroutine of the event loop runs; the executor threads do.
LoopFree == stale = {}

Spend(k, bound) == faults[k] < bound /\ faults' = [faults EXCEPT ![k] = @ + 1]

\* Handlers and jobs that are between a complete piece i and its end.
HandlersOn(i) == {p \in Peers : handler[p] # "reading" /\ cur[p] = i}
JobsOn(i)     == {w \in Workers : job[w].stage # "idle" /\ job[w].piece = i}
InFlight(i)   == HandlersOn(i) # {} \/ JobsOn(i) # {}

\* The races that can separate what was verified from what is kept:
\* a wrong block written into a piece that is being verified or saved, a
\* reset of a piece that another job or handler is still about, a handler
\* cancelled while it awaits, a file created over a piece already written, a
\* write that raised.
Race(S) == raced' = raced \cup S

\* Mutation: reset() zeroes the bytes and leaves the blocks received.
ForgetKeepsFlags(i) ==
    /\ received' = received
    /\ good' = [good EXCEPT ![i] = {}]

\* Piece.reset: every block forgotten, the bytes zeroed.
Forget(i) ==
    /\ received' = [received EXCEPT ![i] = {}]
    /\ good' = [good EXCEPT ![i] = {}]

\* The executor hands the job's outcome to the handler awaiting it, if any.
Finish(w, outcome) ==
    /\ job' = [job EXCEPT ![w] = Idle]
    /\ handler' = IF job[w].peer = NoPeer THEN handler
                  ELSE [handler EXCEPT ![job[w].peer] = outcome]

\* A connection's end: its message loop is cancelled (or over), a job it
\* had queued is withdrawn, a job that runs goes on without an owner.
Drop(p) ==
    /\ conn' = conn \ {p}
    /\ asked' = [asked EXCEPT ![p] = {}]
    /\ handler' = [handler EXCEPT ![p] = "reading"]
    /\ cur' = [cur EXCEPT ![p] = NoPiece]
    /\ queue' = queue \ {p}
    /\ job' = [w \in Workers |-> IF job[w].peer = p
                                 THEN [job[w] EXCEPT !.peer = NoPeer] ELSE job[w]]

-----------------------------------------------------------------------------
(* Connections and requests. *)

\* Mutation: the ban is not looked up.
MayConnectAnybody(p) == p \notin conn

\* Neither connected already nor banned.
MayConnect(p) == p \notin conn \cup banned

\* _connect_peer, whoever called _connect_to_peers: the initial task, the
\* main loop every 15 s, or the tracker callback, which outlives a pause.
Connect(p) ==
    /\ LoopFree
    /\ MayConnect(p)
    /\ conn' = conn \cup {p}
    /\ leaving' = leaving \ {p}
    /\ UNCHANGED <<pieceVars, asked, handler, cur, queue, job, diskVars, have, secVars,
                   dl, loops, completion, callbacks, stale, noteVars>>

\* The remote end closes, or the read times out, between two messages.
ConnLost(p) ==
    /\ LoopFree
    /\ p \in conn /\ handler[p] = "reading"
    /\ Spend("lost", MaxLost)
    /\ Drop(p)
    /\ UNCHANGED <<pieceVars, resultVars, stale, raced>>

AskFor(p, i) == asked' = [asked EXCEPT ![p] = @ \cup ({i} \X (Blocks \ received[i]))]

\* _request_from_peer, step 2: a MISSING piece becomes IN_PROGRESS, its
\* timer starts and its pending blocks are requested.
StartPiece(p, i) ==
    /\ LoopFree
    /\ p \in conn
    /\ status[i] = "missing"
    /\ status' = [status EXCEPT ![i] = "in_progress"]
    /\ timers' = timers \cup {i}
    /\ AskFor(p, i)
    /\ UNCHANGED <<received, good, conn, handler, cur, queue, job, resultVars, stale,
                   noteVars>>

\* _request_from_peer, steps 1 and 3: pending blocks of an IN_PROGRESS piece
\* are requested (again), from this or from another connection.
AskAgain(p, i) ==
    /\ LoopFree
    /\ p \in conn
    /\ status[i] = "in_progress"
    /\ ~ ({i} \X (Blocks \ received[i]) \subseteq asked[p])
    /\ AskFor(p, i)
    /\ UNCHANGED <<pieceVars, conn, handler, cur, queue, job, resultVars, stale, noteVars>>

-----------------------------------------------------------------------------
(* The PIECE handler. *)

\* Piece.submit_block: a later copy of a block overwrites the one before.
Store(i, b, right) ==
    /\ received' = [received EXCEPT ![i] = @ \cup {b}]
    /\ good' = [good EXCEPT ![i] = IF right THEN @ \cup {b} ELSE @ \ {b}]

\* A block arrives.  One for a COMPLETED piece is ignored; otherwise it is
\* stored, even over one received before, and whichever block finds the
\* piece complete sends it to verification.
Deliver(p, i, b, right) ==
    /\ LoopFree
    /\ p \in conn /\ handler[p] = "reading" /\ <<i, b>> \in asked[p]
    /\ asked' = [asked EXCEPT ![p] = @ \ {<<i, b>>}]
    /\ IF right THEN UNCHANGED faults ELSE Spend("wrong", MaxWrong)
    /\ IF status[i] = "completed"
       THEN UNCHANGED <<received, good, handler, cur, queue, raced>>
       ELSE /\ Store(i, b, right)
            /\ Race(IF ~right /\ InFlight(i) THEN {i} ELSE {})
            /\ IF received'[i] = Blocks
               THEN /\ handler' = [handler EXCEPT ![p] = "verify"]
                    /\ cur' = [cur EXCEPT ![p] = i]
                    /\ queue' = queue \cup {p}
               ELSE UNCHANGED <<handler, cur, queue>>
    /\ UNCHANGED <<status, timers, conn, job, resultVars, stale>>

\* Mutation: the write is forgotten.
HandlerVerifiedForgets(p) ==
    /\ LoopFree
    /\ handler[p] = "verified"
    /\ handler' = [handler EXCEPT ![p] = "reading"]
    /\ cur' = [cur EXCEPT ![p] = NoPiece]
    /\ UNCHANGED <<pieceVars, conn, asked, queue, job, resultVars, stale, noteVars>>

\* The handler resumes with verified = True: the write is submitted.
HandlerVerified(p) ==
    /\ LoopFree
    /\ handler[p] = "verified"
    /\ handler' = [handler EXCEPT ![p] = "write"]
    /\ queue' = queue \cup {p}
    /\ UNCHANGED <<pieceVars, conn, asked, cur, job, resultVars, stale, noteVars>>

\* should_ban, and _ban_peer with the disconnect that follows it.
ShouldBan(failures) == failures >= MaxHashFailures
Ban(p) == banned' = banned \cup {p} /\ Drop(p)

\* The handler resumes with verified = False: the peer that delivered the
\* last block is charged, and disconnected when that bans it.
HandlerFailed(p) ==
    /\ LoopFree
    /\ handler[p] = "failed"
    /\ fails' = [fails EXCEPT ![p] = @ + 1]
    /\ IF ShouldBan(fails'[p])
       THEN Ban(p)
       ELSE /\ handler' = [handler EXCEPT ![p] = "reading"]
            /\ cur' = [cur EXCEPT ![p] = NoPiece]
            /\ UNCHANGED <<banned, conn, asked, queue, job>>
    /\ UNCHANGED <<pieceVars, diskVars, have, loopVars, stale, noteVars>>

\* The handler resumes after the write: HAVE goes out, and the download is
\* marked completed, whatever its state was, when no piece is left.
HandlerWritten(p) ==
    /\ LoopFree
    /\ handler[p] = "written"
    /\ have' = have \cup {cur[p]}
    /\ dl' = IF AllCompleted THEN "Completed" ELSE dl
    /\ handler' = [handler EXCEPT ![p] = "reading"]
    /\ cur' = [cur EXCEPT ![p] = NoPiece]
    /\ UNCHANGED <<pieceVars, conn, asked, queue, job, diskVars, secVars, loops,
                   completion, callbacks, leaving, stale, noteVars>>

\* The write raised: the message loop logs the exception and disconnects.
HandlerRaised(p) ==
    /\ LoopFree
    /\ handler[p] = "raised"
    /\ Drop(p)
    /\ UNCHANGED <<pieceVars, resultVars, stale, noteVars>>

-----------------------------------------------------------------------------
(* The executor's threads. *)

\* An idle thread takes a queued job.
TakeJob(w, p) ==
    /\ job[w].stage = "idle"
    /\ p \in queue
    /\ queue' = queue \ {p}
    /\ job' = [job EXCEPT ![w] =
                 [stage |-> IF handler[p] = "verify" THEN "hash" ELSE "read",
                  peer |-> p, piece |-> cur[p], ok |-> FALSE]]
    /\ UNCHANGED <<pieceVars, conn, asked, handler, cur, resultVars, stale, noteVars>>

\* Mutation: a piece is taken for right once all its blocks are there.
AllReceived(i) == received[i] = Blocks

\* The SHA-1 of the bytes as they are now is the expected one.
HashMatches(i) == Right(i)

\* Piece.verify_hash.
Hash(w) ==
    /\ job[w].stage = "hash"
    /\ job' = [job EXCEPT ![w].stage = "conclude",
                              ![w].ok = HashMatches(job[w].piece)]
    /\ UNCHANGED <<pieceVars, peerVars, resultVars, stale, noteVars>>

\* verify_piece, the hash matched: COMPLETED, whatever the status is now.
VerifyPass(w) ==
    /\ job[w].stage = "conclude" /\ job[w].ok
    /\ status' = [status EXCEPT ![job[w].piece] = "completed"]
    /\ Finish(w, "verified")
    /\ UNCHANGED <<received, good, timers, conn, asked, cur, queue, resultVars, stale,
                   noteVars>>

OthersOn(w, i) == HandlersOn(i) \ {job[w].peer} # {} \/ JobsOn(i) \ {w} # {}

ResetRace(w, i) == Race(IF OthersOn(w, i) \/ status[i] = "completed" THEN {i} ELSE {})

\* verify_piece, the hash differed: reset() sets the status first...
VerifyFail(w) ==
    /\ job[w].stage = "conclude" /\ ~job[w].ok
    /\ ResetRace(w, job[w].piece)
    /\ status' = [status EXCEPT ![job[w].piece] = "missing"]
    /\ job' = [job EXCEPT ![w].stage = "clear"]
    /\ UNCHANGED <<received, good, timers, peerVars, resultVars, stale, faults>>

\* Mutation: the executor's thread also drops the start time.
VerifyClearUntimes(w) ==
    /\ job[w].stage = "clear"
    /\ ResetRace(w, job[w].piece)
    /\ Forget(job[w].piece)
    /\ timers' = timers \ {job[w].piece}
    /\ Finish(w, "failed")
    /\ UNCHANGED <<status, conn, asked, cur, queue, resultVars, stale, faults>>

\* ... then drops the bytes and the blocks, also those that came meanwhile.
VerifyClear(w) ==
    /\ job[w].stage = "clear"
    /\ ResetRace(w, job[w].piece)
    /\ Forget(job[w].piece)
    /\ Finish(w, "failed")
    /\ UNCHANGED <<status, timers, conn, asked, cur, queue, resultVars, stale, faults>>

\* Mutation: the status is compared with the wrong member.
ReadableBefore(i) == status[i] = "in_progress"

\* get_piece_data has something to return.
Readable(i) == status[i] = "completed"

\* _write_piece_sync takes a copy of the bytes, or returns without one.
WriteRead(w) ==
    /\ job[w].stage = "read"
    /\ IF Readable(job[w].piece)
       THEN /\ job' = [job EXCEPT ![w].stage = "exists",
                                  ![w].ok = Right(job[w].piece)]
            /\ UNCHANGED handler
       ELSE Finish(w, "written")
    /\ UNCHANGED <<pieceVars, conn, asked, cur, queue, resultVars, stale, noteVars>>

\* if not os.path.exists(full_path)
WriteExists(w) ==
    /\ job[w].stage = "exists"
    /\ job' = [job EXCEPT ![w].stage = IF fileExists THEN "flush" ELSE "create"]
    /\ UNCHANGED <<pieceVars, peerVars, resultVars, stale, noteVars>>

\* open(full_path, 'wb') creates the file, or empties one that is there by now.
WriteCreate(w) ==
    /\ job[w].stage = "create"
    /\ fileExists' = TRUE
    /\ disk' = [i \in Pieces |-> "absent"]
    /\ Race({i \in Pieces : disk[i] # "absent"})
    /\ job' = [job EXCEPT ![w].stage = "allocate"]
    /\ UNCHANGED <<pieceVars, peerVars, have, secVars, loopVars, stale, faults>>

\* truncate(file_size) extends the file with zeroes, and leaves in it what the
\* other thread may have written since it was opened.
WriteAllocate(w) ==
    /\ job[w].stage = "allocate"
    /\ job' = [job EXCEPT ![w].stage = "flush"]
    /\ UNCHANGED <<pieceVars, peerVars, resultVars, stale, noteVars>>

\* What the file has for piece i once all the bytes of the job are written.
Content(w) == IF job[w].ok THEN "right" ELSE "wrong"

WriteFlush(w) ==
    /\ job[w].stage = "flush"
    /\ disk' = [disk EXCEPT ![job[w].piece] = Content(w)]
    /\ Finish(w, "written")
    /\ UNCHANGED <<pieceVars, conn, asked, cur, queue, fileExists, have, secVars,
                   loopVars, stale, noteVars>>

\* Any call on the output file may raise.  An open 'wb' that raises did nothing,
\* a truncate comes after the file was emptied, and a write may have written
\* nothing, a part of the bytes or all of them.
WriteRaises(w) ==
    /\ job[w].stage \in {"exists", "create", "allocate", "flush"}
    /\ Spend("io", MaxIo)
    /\ Race({job[w].piece})
    /\ IF job[w].stage = "flush"
       THEN \E d \in {disk[job[w].piece], "wrong", Content(w)} :
                disk' = [disk EXCEPT ![job[w].piece] = d]
       ELSE UNCHANGED disk
    /\ Finish(w, "raised")
    /\ UNCHANGED <<pieceVars, conn, asked, cur, queue, fileExists, have, secVars, loopVars,
                   stale>>

-----------------------------------------------------------------------------
(* The main loop, pause and resume. *)

\* Every block is there, yet no verification is under way: the one that was
\* queued went with the handler a pause cancelled.
Stuck(i) == received[i] = Blocks /\ ~InFlight(i)

\* The condition of the while of a main loop that is still in it.
StaysInWhile == loops > 0 /\ ~AllCompleted /\ dl = "Running"

\* Mutation: a loop that has left its while leaves it again.
LeavesWhileAgain == AllCompleted \/ dl # "Running"

LeavesWhile == loops > 0 /\ (AllCompleted \/ dl # "Running")

\* Mutation: only pieces that still lack a block are looked at.
TimedLacking == {i \in timers : status[i] = "in_progress" /\ received[i] # Blocks}

\* The pieces reset_stale_pieces looks at the age of.
Timed == {i \in timers : status[i] = "in_progress"}

\* reset_stale_pieces, the first loop: S is what has timed out.
StaleCheck(S) ==
    /\ LoopFree
    /\ StaysInWhile
    /\ S # {} /\ S \subseteq Timed
    /\ IF \A i \in S : Stuck(i) THEN UNCHANGED faults ELSE Spend("stale", MaxStale)
    /\ stale' = S
    /\ UNCHANGED <<pieceVars, peerVars, job, resultVars, raced>>

\* reset_stale_pieces, the second loop: no status is looked at again.
StaleReset(i) ==
    /\ i \in stale
    /\ status' = [status EXCEPT ![i] = "missing"]
    /\ Forget(i)
    /\ timers' = timers \ {i}
    /\ stale' = stale \ {i}
    /\ Race(IF InFlight(i) \/ status[i] = "completed" THEN {i} ELSE {})
    /\ UNCHANGED <<peerVars, job, resultVars, faults>>

\* Mutation: anything not paused yet can be paused.
NotPausedYet == dl # "Paused"

Pausable == dl = "Running"

\* pause() up to its first await; the main loop is not cancelled.
Pause ==
    /\ LoopFree
    /\ Pausable
    /\ Spend("pause", MaxPause)
    /\ dl' = "Paused"
    /\ leaving' = leaving \cup conn
    /\ UNCHANGED <<pieceVars, peerVars, job, diskVars, have, secVars, loops, completion,
                   callbacks, stale, raced>>

\* pause() disconnects one connection: its handler is cancelled wherever it is.
PauseDisconnect(p) ==
    /\ LoopFree
    /\ p \in leaving
    /\ leaving' = leaving \ {p}
    /\ IF p \in conn
       THEN Drop(p) /\ Race(IF handler[p] # "reading" THEN {cur[p]} ELSE {})
       ELSE UNCHANGED <<peerVars, job, raced>>
    /\ UNCHANGED <<pieceVars, diskVars, have, secVars, dl, loops, completion, callbacks,
                   stale, faults>>

\* resume() starts another main loop beside one that has not noticed yet.
Resume ==
    /\ LoopFree
    /\ dl = "Paused"
    /\ dl' = "Running"
    /\ loops' = loops + 1
    /\ UNCHANGED <<pieceVars, peerVars, job, diskVars, have, secVars, completion,
                   callbacks, leaving, stale, noteVars>>

\* Mutation: no _completion_handled flag.
FinishesAgain == AllCompleted

\* Mutation: completion counts only while the state is Running.
FinishesRunning == AllCompleted /\ completion = "not_handled" /\ dl = "Running"

\* The loop ended on a complete download and nobody handled that yet.
Finishes == AllCompleted /\ completion = "not_handled"

\* A main loop leaves its while; the first to find the download complete
\* runs _complete_download, up to the announce to the tracker.
MainExit ==
    /\ LoopFree
    /\ LeavesWhile
    /\ loops' = loops - 1
    /\ IF Finishes
       THEN completion' = "announcing" /\ dl' = "Completed"
       ELSE UNCHANGED <<completion, dl>>
    /\ UNCHANGED <<pieceVars, peerVars, job, diskVars, have, secVars, callbacks, leaving,
                   stale, noteVars>>

\* _complete_download after the announce: the on_complete callback.
OnComplete ==
    /\ LoopFree
    /\ completion = "announcing"
    /\ completion' = "handled"
    /\ callbacks' = callbacks + 1
    /\ UNCHANGED <<pieceVars, peerVars, job, diskVars, have, secVars, dl, loops, leaving,
                   stale, noteVars>>

-----------------------------------------------------------------------------
HandlerStep(p) ==
    HandlerVerified(p) \/ HandlerFailed(p) \/ HandlerWritten(p) \/ HandlerRaised(p)

JobStep(w) ==
    \/ Hash(w) \/ VerifyPass(w) \/ VerifyFail(w) \/ VerifyClear(w)
    \/ WriteRead(w) \/ WriteExists(w) \/ WriteCreate(w) \/ WriteAllocate(w)
    \/ WriteFlush(w)

WorkerStep(w) == (\E p \in Peers : TakeJob(w, p)) \/ JobStep(w)

Next ==
    \/ \E p \in Peers : Connect(p) \/ ConnLost(p) \/ HandlerStep(p) \/ PauseDisconnect(p)
    \/ \E p \in Peers, i \in Pieces : StartPiece(p, i) \/ AskAgain(p, i)
    \/ \E p \in Peers, i \in Pieces, b \in Blocks, right \in BOOLEAN : Deliver(p, i, b, right)
    \/ \E w \in Workers : WorkerStep(w) \/ WriteRaises(w)
    \/ \E S \in SUBSET Pieces : StaleCheck(S)
    \/ \E i \in Pieces : StaleReset(i)
    \/ Pause \/ Resume \/ MainExit \/ OnComplete

Spec == Init /\ [][Next]_vars

(***************************************************************************)
(* Fairness: the executor and the event loop run what is ready; a peer is  *)
(* reconnected, asked and answers with a right block it was asked for; the *)
(* stale check of a piece nothing else can move comes round every 0.1 s;   *)
(* somebody resumes a paused download.                                     *)
(***************************************************************************)
Fairness ==
    /\ \A w \in Workers : WF_vars(WorkerStep(w))
    /\ \A p \in Peers : /\ WF_vars(HandlerStep(p))
                        /\ WF_vars(PauseDisconnect(p))
    /\ WF_vars(\E p \in Peers : Connect(p))
    /\ WF_vars(\E p \in Peers, i \in Pieces : StartPiece(p, i))
    /\ WF_vars(\E p \in Peers, i \in Pieces : AskAgain(p, i))
    /\ WF_vars(\E p \in Peers, i \in Pieces, b \in Blocks :
                 b \notin received[i] /\ Deliver(p, i, b, TRUE))
    /\ WF_vars(\E i \in Pieces : Stuck(i) /\ StaleCheck({i}))
    /\ WF_vars(\E i \in Pieces : StaleReset(i))
    /\ WF_vars(Resume) /\ WF_vars(MainExit) /\ WF_vars(OnComplete)

FairSpec == Spec /\ Fairness

-----------------------------------------------------------------------------
(* Safety. *)

\* A piece called COMPLETED holds the torrent's bytes, unless one of the
\* races hit it: verify_piece sets the status some time after it read the
\* bytes, and the event loop may have stored a block in between.
VerifiedIsRight ==
    \A i \in Pieces \ raced : status[i] = "completed" => Right(i)

\* A piece announced with HAVE is on disk: the PIECE handler starts the
\* broadcast only after the write job it awaited.
HaveIsOnDisk == \A i \in have \ raced : disk[i] = "right"

\* Once no handler and no thread is about a COMPLETED piece any more, it is
\* on disk: nothing else would ever write it.
SettledIsOnDisk ==
    \A i \in Pieces \ raced :
        status[i] = "completed" /\ ~InFlight(i) => disk[i] = "right"

\* A piece IN_PROGRESS keeps a start time, through every reset by either
\* thread: reset_stale_pieces is what recovers a piece whose verification
\* was cancelled with its handler, and it only looks at pieces with one.
InProgressIsTimed == \A i \in Pieces : status[i] = "in_progress" => i \in timers

\* A ban closes the connection the failure was charged to and no peer is
\* charged, connected or asked again after it, although verifications of
\* its blocks may still be running and connection attempts go on.
BanIsFinal ==
    \A p \in Peers :
        /\ p \in banned <=> fails[p] >= MaxHashFailures
        /\ p \in banned => p \notin conn /\ asked[p] = {} /\ handler[p] = "reading"

\* The completion logic runs once (_completion_handled), however many main
\* loops a quick pause and resume leave running, and the state is Completed
\* from then on.
CompletionHandledOnce ==
    /\ callbacks <= 1
    /\ completion # "not_handled" => dl = "Completed"

\* A peer is charged with a hash failure only if some block really was
\* wrong, or a race destroyed good bytes before they were digested.
NoBlameWithoutCause ==
    faults["wrong"] = 0 /\ raced = {} => \A p \in Peers : fails[p] = 0

(* Steps. *)

\* The states of DownloadStates, for a download that was started.
Chart == INSTANCE DownloadStates
         WITH state <- dl, complete <- AllCompleted \/ dl = "Completed", reports <- callbacks

\* A piece that was COMPLETED is not any more, by a race.
LosesAPiece ==
    /\ \E i \in raced' : status[i] = "completed" /\ status'[i] = "missing"
    /\ UNCHANGED <<dl, callbacks>>

\* Whoever sets it, a PIECE handler, one of several main loops, pause or resume,
\* the state moves along the chart: Completed comes with the last piece, is
\* never left, and is reported once; and a download has every piece for good,
\* but for races, as DownloadLifecycle takes it to.
KeepsToTheChart == [][Chart!Next \/ LosesAPiece]_(Chart!vars)

\* What is in the file for a piece stays until that piece is written again:
\* creating the file ("if it doesn't exist yet") never empties it.
WrittenStaysWritten ==
    [][\A i \in Pieces : disk[i] = "right" => disk'[i] # "absent"]_vars

(* Liveness, under Fairness. *)

\* With peers that answer, every piece gets verified, whatever resets,
\* cancelled handlers, lost connections and bad blocks came before, as long
\* as hash failures leave a peer to ask.
EventuallyDownloaded == <>(AllCompleted \/ banned = Peers)

\* A COMPLETED piece is announced to the peers after all, or was raced.
CompletedIsAnnounced ==
    \A i \in Pieces : status[i] = "completed" ~> i \in have \cup raced

\* As long as some main loop is there to see the last piece COMPLETED, the
\* callback runs, also when a pause comes before that loop looks again.
CompletionIsReported ==
    AllCompleted /\ loops > 0 ~> (callbacks = 1 \/ raced # {})
=============================================================================
