# TLA+ verification of the Project_Gal torrent engine

This directory holds TLA+ specifications of the engine in `python_engine/`, the
TLC configurations that model-check them on small instances, and proofs that
TLAPS checks for every value of the constants. `PROJECT.json` maps each
definition to the source lines it models, each run to the properties it checks,
each property to a mutation that breaks it, and each hazard to the properties
that guard against it.

## 1. The system

The engine downloads one torrent per `Download` object. An asyncio event loop
runs everything that talks to the network; two executor threads hash pieces and
write them; Flask threads call into the loop from the REST API; a Swing
interface polls that API.

| Component | State | Operations | Modelled in |
|---|---|---|---|
| Piece verification and persistence (`piece_manager.py`, `_on_peer_message`, `_write_piece_sync`) | `Piece.status`, `_data`, `Block.received`, `_piece_start_times`, the output file, `_completion_handled` | PIECE handler, `verify_piece`, `_write_piece_sync`, `reset_stale_pieces`, `_complete_download` | `PieceVerification` |
| Piece availability and selection (`piece_manager.py`) | `_peer_frequency`, `_peer_pieces` | `update_peer_pieces`, `update_peer_have`, `remove_peer`, rarest-first and random selection | `PieceAvailability` |
| Connection pool (`download_manager.py`, `peer_connection.py`) | `_connections`, `_known_peers`, each `PeerConnection` | `_connect_to_peers`, `_connect_peer`, `_cleanup_dead_peers`, message loop | `PeerPool` |
| Block requests (`download_manager.py`, `piece_manager.py`, `peer_connection.py`) | `_peer_piece`, `Block.requested_by`, `_pending_requests`, `peer_choking` | `_request_from_peer`, `_send_block_requests`, CHOKE, UNCHOKE, PIECE, the three timers | `BlockRequests` |
| Download lifecycle (`download_manager.py`) | `state`, the main loops, `_completion_handled`, the state file | `start`, `pause`, `resume`, `cancel`, `_download_loop`, `_complete_download`, `_save_state` | `DownloadLifecycle`, `DownloadStates` (abstract); pause and resume against verification in `PieceVerification` |
| Choke algorithm (`download_manager.py:506-587`) | `am_choking` per connection, round-robin position | tit-for-tat, round-robin, `_choke_loop` | `ChokeAlgorithm` |
| Peer wire connection (`peer_connection.py`) | handshake and choke flags, counters | framing, message loop | start, end and every message that changes state, in `PeerPool`, `BlockRequests` and `ChokeAlgorithm`; framing is left out |
| Tracker client (`tracker_client.py`) | `_running`, announce tasks | announce, periodic loop, `stop` | `TrackerClient` |
| Security manager (`security.py`) | reputations, bans | `report_hash_failure`, `is_peer_banned`, trust score | bans in `PieceVerification` and `PeerPool`; the rest is not called by the engine |
| Torrent metadata and file layout (`torrent_metadata.py`) | immutable | `__init__`, `get_file_offset`, `get_piece_length`; `_write_piece_sync` for several files | `TorrentMetadata`, `FileLayout`, `FileWriting` |
| Bencode (`bencode.py`) | none | encode, decode | `Bencode` |
| REST API and history (`api_server.py`) | the downloads, SQLite rows | start, pause, resume, cancel, completion callback, clear history | `RestApi`; reading end points and statistics are left out |
| Desktop interface (`java_gui/`) | last log sequence number, tables | polling | not modelled |
| Command line (`main.py`) | none | prints progress, cancels on a signal | not modelled |

**Interactions.** The connection pool creates connections and gives them to
the block requests; the answers go to the PIECE handler, which hands complete
pieces to the executor and acts on the result. `piece_manager` is shared by all
of them *and* by the executor's threads, without a lock. Hash failures go to the
security manager, whose bans the pool looks up. The REST API and the command
line call `start`, `pause`, `resume` and `cancel` at any moment; a Flask thread
posts the coroutine to the event loop, waits for it at most sixty seconds and
writes the history, which the completion callback writes from the loop.

**What is hard.** An asyncio coroutine keeps what it read across an `await`
although everything may have changed; the executor threads run in parallel with
all of it, on the same objects; connections end at any `await`; three timers
(10 s for a block, 15 s for a connection's counter, 30 s for a piece) and a
pause or resume cut across. The full list, with lines, is `hazards` in
`PROJECT.json`.

**What makes each component correct.**

- *Verification*: what is called COMPLETED is right, on disk and announced; the
  completion logic runs exactly once; bans are just and final.
- *Availability*: the incremental count equals the number of peers with the
  piece; rarest-first picks a rarest piece.
- *Pool*: one connection per peer, none to a banned peer, none outside the table.
- *Requests*: the counter covers what is on the wire and stays within its limit,
  no two peers are asked the same, nothing is forgotten.
- *Lifecycle*: a running download has a main loop, one that does not run ends its
  main loops; the state follows its chart; the state file is saved.
- *Choking*: at most the configured number of peers is unchoked; contributors come
  first; nobody who stays is left choked for ever.
- *Tracker*: the periodic announces of a client are as many as were started.
- *File layout*: the slices of the pieces partition the files.
- *Bencode*: what is accepted re-encodes to the bytes it came from, because the info
  hash is taken of the re-encoding.
- *History*: a completed download is recorded as completed.

## 2. The modules

A step of every module is what the code does between two points where something
else can run: from one `await` that may suspend to the next on the event loop, and
one access to a shared object in a thread. Time is abstract: a timer may have
run out whenever the code looks at it. Bounds on faults are constants named
`Max...` and appear only in the guards of the fault actions.

### PieceVerification

One download from the arrival of a block to the bytes in the file.

| Model | Code |
|---|---|
| `handler`, `cur` | where the message loop of a connection is in the PIECE handler, and for which piece |
| `queue`, `job` | jobs handed to the `ThreadPoolExecutor`; each thread's job, split at its accesses: `hash`, `conclude`, `clear` for `verify_piece`; `read`, `exists` (`os.path.exists`), `create` (`open(..., 'wb')`), `allocate` (`truncate`), `flush` (the slice) for `_write_piece_sync` |
| `good` | the blocks whose bytes in `Piece._data` are right (SHA-1 tells exactly whether all are) |
| `disk` | the file's region of a piece |
| `dl`, `loops`, `completion`, `callbacks`, `leaving` | state, main loops still in their `while`, `_complete_download`, and the disconnections `pause` has still to do |
| `stale` | pieces `reset_stale_pieces` chose and has not reset yet: it runs in the event loop without awaiting, but the threads run meanwhile |
| `raced` | history: pieces hit by a named race (see below) |

Abstractions: the executor's queue is unordered (a superset of the FIFO order);
one connection per peer (double dials are `PeerPool`'s); all pending blocks of a
piece are requested at once (choking, capacity and assignment are
`BlockRequests`'s); one output file (several are `FileWriting`'s); `have` is the
start of a HAVE broadcast; selecting and starting a piece is one step (a thread could set COMPLETED in
between only after a reset in flight, which is already a race); `cancel` and
`ERROR` are left to the lifecycle module. Any call on the output file may raise
(`WriteRaises`): an `open` that raises did nothing, a `truncate` that raises comes after the
file was emptied, and a write that raises may have written nothing, a part or all of it. When a
connection is dropped, its
handler is cancelled, its queued job withdrawn, and its running job goes on
without anybody to take the result.

*Why `raced`.* The code has no lock around a `Piece`, and some interleavings
really separate what was verified from what is kept. Instead of ruling them out
or weakening the properties to nothing, each of these steps adds the piece to
`raced`, and the properties say what holds of all other pieces. The races are:
a wrong block stored while its piece is verified or saved; a reset of a piece
another job or handler is about; a handler cancelled while it awaits; a piece
in a file that is emptied by `open(..., 'wb')`, at the moment it is emptied, so that a
`truncate` that raises afterwards changes nothing more; the piece whose own write raised. The theorems thus
say that these are the *only* ways in which a COMPLETED piece can be wrong or
missing on disk.

*The state chart.* `KeepsToTheChart` ties this module to the lifecycle: with `complete`
read as "every piece is COMPLETED, or the state says so", each step is one of
`DownloadStates` (below) or leaves it alone, but for `LosesAPiece`, a race that makes a
COMPLETED piece MISSING again. Without that disjunct TLC finds the property violated.
`DownloadLifecycle` may therefore let its last piece stand for all of them, and never take
it back, up to these races.

### PieceAvailability and PeerPool

`PieceAvailability` is the abstract specification (`AvailSpec`): what the piece
manager promises of its counting tables whoever drives it. `PeerPool` extends it
with the connection table and drives it as `Download` does: overlapping calls of
`_connect_to_peers` (from the main loop, the tracker callback and the initial
task), dials that take time and fail, a connection entered in the table before
its bitfield is sent, message loops that end, `pause`, bans, the clean-up.
`ImplementsAvailability` is the refinement: the pool changes the tables only by
the piece manager's operations.

`conns` holds `PeerConnection` objects by identity, because two of them may serve
the same peer; `table` is `_connections`; `doubled` is a history of peers dialled
while a dial of theirs was already going on, for which the one-connection
properties do not hold and do not claim to. How many calls of `_connect_to_peers` overlap is
left open: each connection being dialled is some call's. A connection that is neither in the
table nor up is forgotten; `Conns` bounds those that exist at a time.

A call of `_request_from_peer` tests `connected` when it begins, and picks a piece after the
requests step 1 awaits. So a connection that ends may leave calls behind (`Outlives`), which
go on with what its peer had announced: `late` holds these sets of pieces, `RequestLate` starts
a piece for one, whether or not the clean-up has been there, and `CallsEnd` is the return of the last such
call. `MaxStrays` bounds the peers in `doubled` and the sets in `late` together, in the guards
of the two steps that add to them. The limit
of the pool counts the table only, as in the code. The `rarest_selections`
statistic is left out.

### BlockRequests

Who is asked for which block. `_request_from_peer` runs in the main loop and in
each connection's handler (after UNCHOKE, after a saved piece), and suspends in
every `drain`: the request is on the wire but neither counted
(`_pending_requests`) nor marked (`Block.requested_by`).

`run` holds, per caller, the step of the function it is at, `turn` the caller the
event loop is running: only a drain ends a turn, so all other steps of a
call are free of interference, as in asyncio. A caller whose connection ends
under it (`dead`) goes on with the connection object it holds: the drain raises,
or a transport that is closing took the rest; either way the next request is
refused, and the function goes on to its next step, also for a peer that has
left the table meanwhile. `letGo` is a history of blocks and pieces let go by a
timer, of pieces whose assignment step 1 dropped or step 3 overwrote while a request
for them was being written, and of counters taken for stuck.

Abstractions: verifying and saving a piece is one step, and succeeds; every peer
has every piece and is interesting; step 3 may take any open piece where the code
takes the first; the calls of the main loop that change nothing are stuttering.
The marks of received blocks are dropped, since nothing reads them.

### ChokeAlgorithm

Whom the download uploads to. `round` is where the choke task is: a round chooses
among the interested peers, then goes over `_connections` and awaits a send per
message due. Only a send suspends it: choosing, the first turns of the `for` and what follows a
send run up to the next message due, or to the end of the round, in one step (`Advance`). `keys` are the keys of the dict and `older` its insertion order, as a
relation; the lists the code makes of the dict are kept as the place of each peer in them
(`Places`, `Ahead`). The walk is over the live dict, so the model keeps what Python's dict
iterator keeps (`left`, `size`): an entry added or removed during a send makes the next turn
raise, and so does a send on a connection that went down; either ends the task (`"dead"`), and
nothing restarts it but a resume. Peers join, leave, contribute and change their
interest while a send or the sleep between rounds is awaited. The optimistic choice is any subset the random choice can
give. Left out: two choke tasks at once (two main loops can start one each).

### Bencode, FileLayout, FileWriting and TorrentMetadata

`Bencode` is the codec over sequences of tokens: the bytes the decoder looks at are
tokens, a name of the format counts as one byte. Decoding follows the code's errors,
also the two exceptions that are not a `BencodeDecodeError`, and what `int()` accepts
beyond the grammar. `FileLayout` has `get_piece_length` and `get_file_offset`.

`FileWriting` is `_write_piece_sync` for a torrent of any files, run by several threads.
A thread (`job`) takes a piece and walks over its slices in the order of the files: it
looks whether the file exists (`FindMissing`); if it did not, opens it with `'wb'`
(`CreateFile`) and truncates it to its size (`TruncateFile`); and writes (`WriteSlice`), with
everything of the other threads in between: they may find a file that has no length yet and write to it. `left` are the files
still to come and `cursor` is `data_cursor`. A byte of the data is its position, a hole is
0, so a byte at the wrong place is seen. `emptied` is a history of files that had
something in them when a thread that had found none made them again: the finding
`file_recreated`, here for files shared by pieces. Torrents with a file of negative size or
pieces without bytes load, as in the code, but are not written (`Writable`); calls that raise are
`PieceVerification`'s. `WriteSpec` is
writing alone, for any layout.

`TorrentMetadata` composes them: a document is read, rejected (`TorrentMetadataError`),
crashes the constructor with another exception, or is loaded and then written. It takes
`decode` and `encode` as constants, of which `DecodeAssumption` asks only that `decode`
gives Python values: the checks have to hold whatever the codec makes of a file, and can be
reasoned about apart from its recursion. `utf8` says which bytes are text: a name, an URL or a
path that is none crashes the constructor. What a `for` finds in a value is `Item`: a dict
gives its keys, so one in the place of a path or a tier is accepted, as in the code, and bytes
give numbers; a dict in the place of `pieces` fails when it is sliced. `TorrentFiles.cfg` puts `Bencode`'s operators in
their place, and TLC evaluates the assumption for every document offered (`MCValues`).

### DownloadStates, TrackerClient, DownloadLifecycle and RestApi

`DownloadStates` is the abstract specification: the states of a download, the legal
moves between them, and completion reported once at most and not before every piece is
there. `DownloadLifecycle` is the control of a `Download` as the code has it, with the
tracker clients its main loops create (`TrackerClient`), and `RestApi` composes it with
the Flask threads and the history database. `ImplementsStates` is the refinement: `state`,
`complete` and `reports` map to themselves, every other step stutters. `PieceVerification`
is measured by the same chart (`KeepsToTheChart`).

| Model | Code |
|---|---|
| `loop`, `main`, `cancelled` | the tasks of `_download_loop` by the await they are in, `_main_task`, pending cancellations |
| `client`, `current` | every `TrackerClient` with its `_running` and its announce tasks; `Download._tracker`, the newest, which all of the download's code uses |
| `call` | where the coroutine of a caller is: `pausing` and `cancelling` await disconnections, `stopping` the tracker's `stop` |
| `thread`, `requests` | a Flask thread from the request to the answer; `gone` is one that gave up after 60 s while its coroutine goes on |
| `links`, `dialing`, `last` | is there a connection, is one being dialled, where is the PIECE handler of the last piece |
| `saved`, `row` | `state` in the state file, `"unknown"` after a write of it that raised; `final_status` in the history |
| `lapses` | history: see below |

The chart is more liberal than a user may expect, and is so because the code is: the
PIECE handler sets Completed, and a main loop whose announce fails sets ERROR, over
whatever the state is by then. `LastFinished` and `LoopFails` have no guard on `state`,
and `DownloadStates` states what is left: nothing but a completion, a failure or a
cancellation leaves an end state, and only a paused download resumes.

*Lapses.* `"unsaved"` is set where the code leaves the state file behind the state for
good (the PIECE handler's Completed; a `cancel` whose tracker raised something other than
`TrackerError`) and withdrawn by the next save. `"unrecorded"` is set where a callback
raised, or the state becomes Completed again after the callback was made.
`StateFileIsCurrent` and `CompletedIsInHistory` thus say that these are the only ways, but
for a save that raised.

*Failures and order.* `_save_state` may raise (`SaveFails`): a file that was not opened keeps what it had, one opened
with `'w'` has a part of the new. What is in it is then left open until the next save, the
task or the operation that saved ends with the exception, and the state stays as it was set.

The event loop is first in, first out: no request but the first start is served before the
first main loop has begun, since none can be posted before there is a download. Of later
main loops the model lets the order open, and between the return of the announce and the first
test of the `while`, where the code does not suspend, it lets others run: both allow more than
the code does.

A write of the history holds `_db_lock` from reading the state to the commit, so it is one
action; it may fail. Left out: several downloads (they share the lock and nothing else),
the contents of rows other than the status, and the end points that only read.

### Proof modules

`PieceVerificationProofs` and `VerificationControlProofs`, `PeerPoolProofs`,
`BlockRequestsProofs` and `BlockRequestsSafetyProofs`, `ChokeAlgorithmProofs`,
`FileWritingProofs` and `RestApiProofs`: see 5. The second of a pair extends the first.

## 3. The runs

| Run | Instance | Question |
|---|---|---|
| `verification_races` | 2 peers, 1 piece of 2 blocks, 2 threads; a wrong block, a stale timer, a write error; ban after 2 failures | Do verification, saving, resets and charges stay consistent when they overlap on one piece? |
| `verification_live` | 1 peer, 2 pieces, 2 threads; a wrong block, a lost connection, a write error, a pause; fairness | Does the download end, is every piece announced, is completion handled once and reported, also if a pause cuts in anywhere; does the state keep to its chart? |
| `pool` | 2 peers, 2 pieces, 2 connections, overlapping calls, 1 double dial or call that outlives its connection; fairness | Do pool, bans and availability agree under double dials; is a rarest piece started, also by a call whose connection is gone; are dead peers forgotten; does the pool implement `AvailSpec`? |
| `requests` | 2 peers, 2 pieces of 2 blocks, limit 2, one fault of any kind | Are wire, counters, marks and assignments consistent across the awaits? |
| `requests_live` | 2 peers, 2 pieces, limit 1, one fault of any kind, fairness | Does every block arrive although callers, marks and counters go astray? |
| `choking` | 3 peers, 1 slot, both algorithms, one departure, change of interest or pause; fairness | Are the slots bounded, contributors preferred, and everybody served, whatever changes under a round? |
| `torrent_files` | every string of at most 4 of 11 tokens; 7 kinds of path; 2 threads and torrents of 1 to 3 files of 0 to 3 bytes, 3 in all, with pieces of 1 to 3; fields missing, of another type, not UTF-8, exchanged; single tokens deleted, inserted, exchanged | Does what is accepted keep its info hash, and do pieces written in any order, two at a time, fill the files exactly? |
| `control` | 2 Flask threads, 3 requests, 2 main loops, every save may raise; fairness | Does a running download have a main loop, do state file and history agree with the state, is the state chart kept, do main loops end? |

**Findings** (runs that TLC must find violated; each quotes the line it refutes
in `PROJECT.json`):

- `file_recreated`: two first writes both find the file missing, and the second
  `open('wb')` empties what the first wrote. It takes two executor threads
  (`OneThreadKeepsTheFile`, `OneThreadWritesEverything`).
- `choked_blocks`: the blocks a CHOKE frees stay in a piece assigned to the choked
  peer, and nobody else is offered them.
- `cancel_leaks`: a download paused and resumed during its first announce has two
  main loops, and `cancel` stops the newer one only. It takes a main loop that still goes
  when the next is created (`CancelLeaksOvertakenLoops`).
- `choke_loop_dies`: a round awaits a send, a peer enters the table meanwhile, and the
  next turn of the `for` raises: the choke task of a running download is over for good. A
  clean-up during the send and a send that raises do the same; the run leaves them out
  (`MaxChurn = 0`), so that its trace is the plainest of the three.

**Weaknesses the models contain without a run of their own.** They are in the
models as the code has them, and the properties are stated so as to leave exactly
these out:

- The main loop may report a download complete while pieces are COMPLETED but not
  yet in the file (`MainExit` in `PieceVerification`).
- A download paused during its last write ends up Completed with neither tracker event
  nor callback (`CompletionIsReported` says "by any main loop that is there").
- A connection whose bitfield could not be sent stays in the table without a message
  loop (phase `mute` in `PeerPool`).
- Step 1 of `_request_from_peer` ends by dropping the peer's assignment
  (`download_manager.py:462`), whatever it is after its awaits: a piece that the other
  caller of the same peer was assigned meanwhile is open to every peer while a request for
  it is being written, and its blocks may be asked for twice (`Sent`, `letGo`).
- A lax number in a torrent (`i+1e`, `01:x`) is accepted and re-encoded differently, so
  the info hash is not that of the file (`LaxNumber`).
- The periodic announces of a main loop that was overtaken belong to the newest client,
  and outlive a `cancel` (`StartPeriodicAnnounce`, `Stop` in `TrackerClient`).
- ERROR may be set over Completed, and Completed over Cancelled (`DownloadStates`).
- Every pause adds a history row: the key is generated, so `INSERT OR REPLACE` never
  replaces. `row` is the newest.

**Bounds and why they are enough.** The hazards need two actors on one object:
two handlers on one piece, two threads on one file, two dials of one peer, two
callers on one connection, two main loops of one download. Each run has them. One
fault of a kind is enough to open each window, and a second instance of the same
fault only repeats it; the live runs combine faults of different kinds with the
recovery that follows. Three requests make start, pause and resume, or start, pause
and cancel; the fourth (`cancel_leaks`) is needed only for the finding. Three peers
with one slot plus the optimistic one leave one peer out. The pool holds as many
connections as there are peers: the code's test of its limit is in the model, but as
several dials may pass it together it promises nothing to check. Counts are otherwise at
their limits: `MAX_PENDING_REQUESTS` 1 or 2, a ban after 2 failures, files of 0 bytes, files
that end on a piece boundary, and pieces that span three files. What the proofs cover
(5) holds without any bound.
Symmetry is used only in runs without a liveness property.

**Deadlock** is not checked in any run: a download that is complete, cancelled or whose
peers are all banned stops, torrents that were rejected or are fully written end their
behaviour, and the bounds on requests and faults end others. What must not stop is
stated as liveness instead.

## 4. Fairness

- *Threads and handlers* (`WF` per thread and per connection): the executor runs its
  queue, the event loop its ready callbacks.
- *Connections*: the main loop calls `_connect_to_peers` every 15 s; a dial and
  its handshake have 10 s timeouts. In `pool` it comes round with no new peers (`WF` of `ConnectToPeers({})`), so that
  dead ones are forgotten also when the tracker is silent, and of the dials under way some
  ends some time (`WF` of the dials together). `requests_live` does not even assume that a
  lost peer comes back.
- *Peers*: one that is connected and asked sends a right block it was asked for;
  one that chokes us unchokes us some time. Nothing can be downloaded otherwise.
- *Timers*: the stale check is fair only for pieces nothing else would ever move
  (`Stuck`), the block timer only for marks whose request is gone (`Dropped`);
  elsewhere they may run out early, within the bounds, but need not.
- *The choke task*: its timer fires and sends return (`WF`); the optimistic choice is
  random, so a choice that stays possible is made some time (`SF` per peer).
- *Main loops* (`WF` per loop): the event loop runs what is ready, and announces end
  within their 30 s. Requests, dials and blocks are not fair in `control`.
- *The user*: a paused download is resumed some time. `pause` is never fair.

Liveness holds relative to this: `EventuallyDownloaded` says "or every peer is
banned", because after a race an honest peer may be charged.

## 5. What is proved

`PieceVerificationProofs`, from `SetsAssumption` and `BoundsAssumption` (finite,
non-empty sets; bounds are naturals):

- `TypeCorrectness`, `VerifiedPiecesAreRight`, `AnnouncedPiecesAreOnDisk`,
  `SettledPiecesAreOnDisk`, all from `Invariance: Spec => []IInv`.
- `SettledIsOnDisk` and `HaveIsOnDisk` are not inductive: they say nothing of
  pieces under way. `IInv` adds that queue, threads and handlers agree on who
  awaits what (`HandlersWellFormed`, `JobsWellFormed`), what a job or a handler
  about an unraced piece knows (`JobsKnow`, `HandlersKnow`: a hash that matched still
  does, a handler past the verification finds COMPLETED, one past the write
  finds the piece on disk), and that a COMPLETED piece not yet on disk is owed by a handler
  (`SavedOrOwed`). `SettledIsOnDisk` follows since nobody owes a settled piece.

`VerificationControlProofs`, on top of it: `InProgressPiecesAreTimed`,
`BansAreFinal`, `CompletionIsHandledOnce` (via the state of the completion
logic and the state it forces), `BlameHasACause` (while nothing was wrong and nothing raced,
no good byte is lost, so no digest fails), and two about steps.

- `PiecesKeepToTheChart`: every step is a step of `DownloadStates`, a stutter, or loses a
  piece to a race (`ChartStep`). `complete` is mapped to "or the state is Completed" since a
  race may take a piece back from a Completed download; that completion is reported once, and
  only of a Completed download, is `CompletionInv`.
- `OneThreadKeepsTheFile`: if the executor has one thread, no step takes a written piece from
  the file; what that thread found missing is still missing when it makes it (`FileInv`).

`PeerPoolProofs`, from `AvailabilityAssumption` (finitely many peers): `CountIsExact`
(every operation of the piece manager keeps the running count equal to the cardinality it stands for, so the `max(0, ...)` guards
never hide an error), `PoolImplementsAvailability` (every step of the pool is a
step of the tables or leaves them alone), and `PoolCountIsExact` from the two. Then
`PoolIsTyped`, `PoolIsExclusive`, `BansHold`,
`AvailabilityIsCurrent` and the step property `RarestFirstHolds`, from `SafetyInv`, which
contains them. `OneConnectionPerPeer` is not inductive: `SafetyInv` adds what the phase of a
connection says about the table (`PhasesFit`, `TableIsServed`; a connection that ended or
has no message loop is kept by the table only, `DeadAreInTable`) and that two connection
objects of one peer come from overlapping dials (`OnePerPeer`). `RarestFirstHolds` needs the
exact count *and* that what it counts is what the connections said.

`BlockRequestsProofs`, from `RequestsAssumption` (finite sets, positive limits):

- `RequestsAreTyped`, `LimitIsPassedByOne` and `CounterCoversWire`. The argument for the
  limit: only the main loop and the peer's own message loop can be in a drain of one
  connection, and each passed the test, so the second to count passes the limit by one and
  no third can. The inductive invariant is `BaseInv` (what each point of the function
  means for its caller: `RunFits`) and `CountInv` (who is in a drain, and how many requests
  are on the wire, relative to the counter).

`BlockRequestsSafetyProofs`: `OnePeerPerPiece` and `NoBlockIsAskedTwice`, the longest
argument of the project, from `BaseInv`, `PieceInv` and `AskInv`.

- A request on the wire is neither marked nor counted until its drain is over, so at any
  moment something else has to keep the block from being offered: `WireInv` says that it
  was received, is marked for the peer, belongs to a piece that no caller is about to take
  from the peer (`Firm`), or has a caller about to mark it.
- A list of blocks to request is taken before its awaits: `TodoInv` says that what is still
  in a list is on no other peer's wire.
- A caller whose connection is gone still marks one block for the peer it lost: `DeadInv`
  says that whoever was given that block since does without the mark.
- That a piece has one peer (`ExclusiveInv`) needs that nobody has begun with a MISSING one
  (`MissingInv`) and that requests go to the peer that has the piece (`WorkInv`).
- All of this holds of pieces that were not let go (`Kept`). A first attempt at the proof
  failed at step 1, whose tail drops an assignment that another caller made: see 3.

`ChokeAlgorithmProofs`, from `ChokeAssumption` (finitely many peers, at least one slot):
`ChokingIsTyped`, `SlotsHold` and the step property `ContributorsAreFirst`, from `RoundInv`.

- `SlotsAreBounded` speaks of the time between rounds. `RoundInv` says what holds during
  one: every peer visited is as it was chosen to be, but for the one a message is on its way
  to (`VisitedAreSettled`); the choice fits the slots (`ChosenFit`); round-robin has choked
  everybody before it unchokes one (`AllChoked`). A walk that gets to its end has then
  visited every key, so who is unchoked was chosen.
- The sorted list is a strict order (`AheadIsOrder`); ranks in it are injective, so the top
  K are at most K (`TopKIsBounded`), and whoever uploaded more than one of them is one of
  them (`TopKIsUpClosed`). `Contributes` carries this to the end of the round, however
  the byte counts, the interests and the table change meanwhile.
- A step of the loop may pass many entries of the dict and end in any of four ways: at a send,
  in the last send of round-robin, at the end of the round, or in an exception. `Settled`
  says what holds of the round wherever its `for` goes on; the first turns and those after a
  send are the same argument (`LoopGoesOn`, `LoopOutcomes`).

`FileWritingProofs`, from no assumption at all as far as `WriteSpec` goes (any set of
threads; files, sizes and piece length are those of any layout it starts with):

- `WritingIsTyped`, `WritesAreRight` and `WrittenIsWhole`, from `WriteInv`, which contains
  `WriteTypeOK` and `WritesLandRight`. The cursor is a running sum and the slices are
  computed from the layout, so `CursorsFollow` says that they agree: it is the distance
  from the start of the piece to the first slice left, which holds because the files a piece
  overlaps follow each other without a gap but for empty files (`FilesInARow`, `SlicesInARow`).
- `FilesAreWhole` needs `SlicesStay`: a slice of a piece that is written, or that its thread is
  past, is in its file, unless that file was emptied. With all pieces written, every byte lies
  in a piece (`PiecesCover`, by division with remainder) and so in a slice.
- The starts of the files are a recursive function. That it exists for sizes of any number of
  files (`SumsExist`) is a least-counterexample argument over the naturals, which needs
  no induction theorem; monotonicity of the starts follows the same way.
- The first attempts failed for two reasons that TLC's bounds had hidden, and the model
  was corrected: a write beyond the end of a file leaves a hole where the model had no
  value, and files of negative size, which the parser lets through, may sum to a torrent
  of no bytes whose files are never made.
- `OneThreadWritesEverything`: with one thread nothing is ever emptied, so that once all the
  pieces are written every file is the torrent's, byte by byte.
- `LoadedIsALayout`, `LoadedWritesAreRight` and `LoadedIsWhole` are about `TorrentMetadata`'s
  `Spec`, from `MetadataAssumption` (a hash has a length) and `DecodeAssumption` (what `decode`
  gives is a Python value, with Python values in it): from whatever file, what passes the checks
  is a layout. `AttributesTyped` follows the checks of the constructor in their order:
  each is needed for the field read after it to be there and to be of its type, and the
  piece length, which nobody checks, only by the division in `PieceManager.__init__`
  (`Divides`), and not at all where there are no pieces. `LoadInv` then says that a
  torrent without pieces is never written and that any other is a layout with `WriteInv`. Trying this proof
  showed that `FilesAreWhole` compared a piece length that may be of any type where there are
  no pieces; `Writable` now says that there are some, and the run offers such files.

`RestApiProofs`, from `LoopsAssumption` and `RequestsAssumption` (the bounds are naturals;
the set of callers is any set):

- `RunningLoops`, `StateFile`, `History`, `TypeCorrectness` and `ImplementsPromise`, the
  refinement of `DownloadStates`, all from `Invariance: Spec => []IInv`.
- Neither `StateFileIsCurrent` nor the refinement is inductive. `IInv` adds that before
  the first main loop nothing has happened but requests to start (`NotStarted`), that one
  thread starts the download, once (`StartsOnce`), that one main loop completes it, once
  (`CompletesOnce`), and that a state not yet in the file is owed by a coroutine or by a
  main loop that will get to its `finally` (`SavedOrDue`). `StateFileIsCurrent` follows
  since nobody owes anything when all is quiet.
- `TypeCorrectness` includes that a client never has more periodic tasks than there are
  main loops. That needs a count: `TasksAreStarted` bounds a client's tasks by the
  cardinality of the set of main loops that got past their announce, and `TrackersStep`
  shows that each new task comes with a new member.
- `CancelMissesOvertakenLoops` says what `cancel` does achieve: when it is done, every main
  loop is over or told to end, but for those a later start or resume has overtaken. The
  invariant is that from its first step on the download is in an end state that no main
  loop can be created in, and the newest main loop is over or told to end
  (`CancelHit`). `CancelLeaksOvertakenLoops` concludes that the violated
  `CancelStopsEverything` holds wherever no overtaken main loop still goes.

**Only model-checked.** Liveness under fairness and `ENABLED` are out of the prover's
reach: `CompletionIsReported`, `EventuallyDownloaded`, `DeadPeersAreForgotten`,
`CompletedIsAnnounced`, `EverythingArrives`, `EveryoneGetsATurn` and `LoopsEnd` stay with
TLC, and so do the violated properties. `Bencode` is recursive and what it computes for every
input is an induction over data: `SpellingIsKept` is the one property of a run without a
theorem for that reason. That `Bencode`'s decoder satisfies `DecodeAssumption` is likewise
checked by TLC, for the documents of `torrent_files`, and not proved.

## 6. Not modelled, and why

- Speed statistics, logging, progress callbacks, and the trust score: read by
  nobody in the engine who decides anything.
- The upload side: REQUEST messages from peers are not answered by the code.
- The contents of the JSON state file but for the state: it is written, never read back.
- Framing of messages, HTTP, tracker URLs and the parsing of their answers: conversions
  without state, whose outcome (a message, an answer, one of two errors) is an input of
  the models.
- The command line: a progress printer; its one action, `cancel()`, is in
  `DownloadLifecycle`. It returns when the state becomes Completed, and `asyncio.run` then
  cancels the main loop, perhaps before its announce of 'completed'.
- The desktop interface: windows and an HTTP client that polls. Nothing in the engine
  depends on what it keeps. Its overlapping polls may show a log line twice.
- Statistics tables of the history (rows are added and shown, nothing depends on them) and
  the reading end points of the REST API: their iteration over a table that changes may
  fail, and the next poll repeats it.

## 7. Plan

Done: `PieceVerification`, `PieceAvailability`, `PeerPool`, `BlockRequests`,
`ChokeAlgorithm`, `Bencode`, `FileLayout`, `FileWriting`, `TorrentMetadata`,
`DownloadStates`, `TrackerClient`, `DownloadLifecycle`, `RestApi`, with the runs and proofs above.
Every safety invariant and action property of a passing run is also a theorem, but for
`SpellingIsKept` (5). Left, in this order:

1. A link between `FileWriting` and `PieceVerification`: the one file of the latter is
   the former's for a layout of one file, which would carry its theorems over to torrents
   of several files.
2. `LogPolling`: the desktop interface's overlapping polls over a bounded log buffer.

Running everything: `tlc -config <cfg> <module>` for each run of
`PROJECT.json`, and `tlapm <Module>Proofs.tla` for the proofs.
