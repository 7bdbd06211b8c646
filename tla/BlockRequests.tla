----------------------------- MODULE BlockRequests -----------------------------
(***************************************************************************)
(* Who is asked for which block: Download._request_from_peer and what it   *)
(* reads and writes, that is the per-peer assignment _peer_piece, the      *)
(* request marks of the blocks, and each connection's _pending_requests.   *)
(*                                                                         *)
(* The function runs in the main loop, for one peer after another, and in  *)
(* the message loop of each connection, after an UNCHOKE and after a piece *)
(* was saved.  It suspends where a request is awaited to be written out:   *)
(* the request is then on the wire, but neither counted nor marked.        *)
(* Everything between two awaits is one turn of the event loop, which      *)
(* "turn" keeps together.                                                  *)
(*                                                                         *)
(* The three timers (10 s for a block, 15 s for a connection, 30 s for a   *)
(* piece) may have run out whenever the code looks.  Every peer has every  *)
(* piece, and everybody is interested.  Verifying and writing a piece is   *)
(* one step here, and right: PieceVerification takes it apart.             *)
(***************************************************************************)
EXTENDS Integers, FiniteSets

CONSTANTS
    Peers, Pieces,
    NumBlocks,      \* blocks of a piece
    MaxPending,     \* MAX_PENDING_REQUESTS
    MaxFaults,      \* bound: CHOKE messages, connections that end, and timers
                    \* that run out on what is neither stuck nor dropped
    Main,           \* the main loop, as a caller of _request_from_peer
    NoPiece, NoPeer, NoRunner

ASSUME RequestsAssumption ==
    /\ IsFiniteSet(Peers) /\ IsFiniteSet(Pieces)
    /\ NumBlocks \in Nat \ {0} /\ MaxPending \in Nat \ {0}
    /\ MaxFaults \in Nat
    /\ Main \notin Peers /\ NoPiece \notin Pieces /\ NoPeer \notin Peers
    /\ NoRunner \notin Peers \cup {Main}

Blocks == 1 .. NumBlocks
Runners == Peers \cup {Main}

VARIABLES
    status,         \* Piece.status
    received,       \* blocks with Block.received set
    owner,          \* Block.requested_by, of the blocks not received
    late,           \* blocks requested more than BLOCK_REQUEST_TIMEOUT ago
    assigned,       \* _peer_piece
    pool,           \* keys of _connections
    up,             \* peers of the pool whose connection is up
    choking,        \* connections with peer_choking set
    pending,        \* _pending_requests
    wire,           \* requests a peer has and has not answered
    run,            \* the callers of _request_from_peer
    turn,           \* the caller the event loop is running, if any
    faults,         \* faults so far
    letGo           \* history: what was given up while it was under way: pieces by
                    \* their timers and by steps 1 and 3, blocks and counters by theirs

blockVars == <<status, received, owner, late>>
connVars  == <<pool, up, choking, pending, wire>>
vars == <<blockVars, assigned, connVars, run, turn, faults, letGo>>

(***************************************************************************)
(* A caller is "idle"; at one of the three steps of _request_from_peer     *)
(* ("own", "new", "fallback"); in the loop of _send_block_requests         *)
(* ("sending") or suspended in it ("drain"); or it is a PIECE handler that *)
(* awaits a verification ("verify").  "of" is the step the loop belongs    *)
(* to, "left" the capacity that is left, and "dead" says that the caller   *)
(* waits on a connection that has ended.                                   *)
(***************************************************************************)
Idle == [at |-> "idle", peer |-> NoPeer, piece |-> NoPiece, of |-> "own",
         todo |-> {}, left |-> 0, dead |-> FALSE]

Runs == [at : {"idle", "own", "new", "fallback", "sending", "drain", "verify"},
         peer : Peers \cup {NoPeer}, piece : Pieces \cup {NoPiece},
         of : {"own", "new", "fallback"}, todo : SUBSET Blocks, left : 0 .. MaxPending,
         dead : BOOLEAN]

TypeOK ==
    /\ status \in [Pieces -> {"missing", "in_progress", "completed"}]
    /\ received \in [Pieces -> SUBSET Blocks]
    /\ owner \in [Pieces -> [Blocks -> Peers \cup {NoPeer}]]
    /\ late \subseteq Pieces \X Blocks
    /\ assigned \in [Peers -> Pieces \cup {NoPiece}]
    /\ up \subseteq pool /\ pool \subseteq Peers
    /\ choking \subseteq Peers
    /\ pending \in [Peers -> Nat]
    /\ wire \in [Peers -> SUBSET (Pieces \X Blocks)]
    /\ run \in [Runners -> Runs]
    /\ turn \in Runners \cup {NoRunner}
    /\ faults \in 0 .. MaxFaults
    /\ letGo \in [blocks : SUBSET (Pieces \X Blocks), pieces : SUBSET Pieces,
                     peers : SUBSET Peers]

Init ==
    /\ status = [i \in Pieces |-> "missing"]
    /\ received = [i \in Pieces |-> {}]
    /\ owner = [i \in Pieces |-> [b \in Blocks |-> NoPeer]]
    /\ late = {}
    /\ assigned = [p \in Peers |-> NoPiece]
    /\ pool = Peers /\ up = Peers
    /\ choking = Peers
    /\ pending = [p \in Peers |-> 0]
    /\ wire = [p \in Peers |-> {}]
    /\ run = [r \in Runners |-> Idle]
    /\ turn = NoRunner
    /\ faults = 0
    /\ letGo = [blocks |-> {}, pieces |-> {}, peers |-> {}]

-----------------------------------------------------------------------------
\* The callers that wait for a request to p to be written out.
Drains(p) == {r \in Runners : run[r].at = "drain" /\ run[r].peer = p /\ ~run[r].dead}

\* The pieces those requests are for.
BeingAsked(p) == {run[r].piece : r \in Drains(p)}

AllCompleted == \A i \in Pieces : status[i] = "completed"

Fault == faults < MaxFaults /\ faults' = faults + 1

\* Mutation: a block that was requested is as good as any.
RequestableAlways(i) == Blocks \ received[i]

\* Mutation: a requested block never times out.
RequestableOnce(i) == {b \in Blocks \ received[i] : owner[i][b] = NoPeer}

\* get_requestable_blocks
Requestable(i) ==
    {b \in Blocks \ received[i] : owner[i][b] = NoPeer \/ <<i, b>> \in late}

\* clear_peer_requests for one piece: only a piece IN_PROGRESS is looked at.
Freed(p, i) ==
    IF status[i] # "in_progress" THEN owner[i]
    ELSE [b \in Blocks |-> IF owner[i][b] = p /\ b \notin received[i] THEN NoPeer
                           ELSE owner[i][b]]

\* clear_peer_requests
ClearPeerRequests(p) == owner' = [i \in Pieces |-> Freed(p, i)]

\* Piece.reset
Reset(i) ==
    /\ status' = [status EXCEPT ![i] = "missing"]
    /\ received' = [received EXCEPT ![i] = {}]
    /\ owner' = [owner EXCEPT ![i] = [b \in Blocks |-> NoPeer]]
    /\ late' = late \ ({i} \X Blocks)

\* A coroutine may be resumed: the event loop runs nothing else.
Free == turn = NoRunner

\* _request_from_peer up to its first step, for the caller r.
Enter(r, p, capacity) ==
    /\ run' = [run EXCEPT ![r] = [Idle EXCEPT !.at = "own", !.peer = p, !.left = capacity]]
    /\ turn' = r

\* The next point of a caller, in the same turn.
Goto(r, at) == run' = [run EXCEPT ![r].at = at] /\ UNCHANGED turn

\* _request_from_peer returns.
Return(r) == run' = [run EXCEPT ![r] = Idle] /\ turn' = NoRunner

\* The loop of _send_block_requests is entered.
StartSending(r, i, step, blocks) ==
    /\ run' = [run EXCEPT ![r] = [@ EXCEPT !.at = "sending", !.of = step, !.piece = i,
                                           !.todo = blocks]]
    /\ UNCHANGED turn

-----------------------------------------------------------------------------
(* _request_from_peer, called by r. *)

At(r, point) == turn = r /\ run[r].at = point

\* Step 1: go on with the assigned piece, or wait for its answers, or let go.
Own(r) ==
    /\ At(r, "own")
    /\ LET p == run[r].peer
           i == assigned[p]
       IN IF i # NoPiece /\ status[i] = "in_progress" /\ Requestable(i) # {}
          THEN StartSending(r, i, "own", Requestable(i)) /\ UNCHANGED assigned
          ELSE IF i # NoPiece /\ status[i] = "in_progress" /\ received[i] # Blocks
          THEN Return(r) /\ UNCHANGED assigned
          ELSE assigned' = [assigned EXCEPT ![p] = NoPiece] /\ Goto(r, "new")
    /\ UNCHANGED <<blockVars, connVars, faults, letGo>>

\* Step 2: a MISSING piece is started and all its pending blocks requested.
New(r, i) ==
    /\ At(r, "new")
    /\ status[i] = "missing"
    /\ status' = [status EXCEPT ![i] = "in_progress"]
    /\ assigned' = [assigned EXCEPT ![run[r].peer] = i]
    /\ StartSending(r, i, "new", Blocks \ received[i])
    /\ UNCHANGED <<received, owner, late, connVars, faults, letGo>>

\* Step 3 is reached, after step 2 or because no piece is MISSING.
AtStep3(r) ==
    \/ At(r, "fallback")
    \/ At(r, "new") /\ \A i \in Pieces : status[i] # "missing"

\* Mutation: pieces assigned to other peers are not excluded.
OpenToAll == {i \in Pieces : status[i] = "in_progress" /\ Requestable(i) # {}}

\* find_in_progress_piece, without the pieces assigned to anybody.
Open == {i \in Pieces : /\ status[i] = "in_progress" /\ Requestable(i) # {}
                        /\ \A q \in Peers : assigned[q] # i}

\* Step 3: an open piece is taken over.
Fallback(r, i) ==
    /\ AtStep3(r)
    /\ i \in Open
    /\ LET p == run[r].peer
       IN /\ assigned' = [assigned EXCEPT ![p] = i]
          /\ letGo' = [letGo EXCEPT !.pieces = @ \cup BeingAsked(p)]
    /\ StartSending(r, i, "fallback", Requestable(i))
    /\ UNCHANGED <<blockVars, connVars, faults>>

NoneOpen(r) ==
    /\ AtStep3(r)
    /\ Open = {}
    /\ Return(r)
    /\ UNCHANGED <<blockVars, assigned, connVars, faults, letGo>>

\* Mutation: send_request does not look at the number of requests.
AcceptsAny(p) == p \in up \ choking

\* send_request and send_message do not raise at once; a caller that awaited
\* an ended connection still has that one, whatever the pool has by now.
Accepts(p) == p \in up \ choking /\ pending[p] < MaxPending

\* The blocks are gone through in order.
NextBlock(r) == CHOOSE b \in run[r].todo : \A c \in run[r].todo : b <= c

\* The next request is written and its drain awaited...
Send(r) ==
    /\ At(r, "sending")
    /\ run[r].todo # {} /\ run[r].left > 0 /\ Accepts(run[r].peer) /\ ~run[r].dead
    /\ wire' = [wire EXCEPT ![run[r].peer] = @ \cup {<<run[r].piece, NextBlock(r)>>}]
    /\ run' = [run EXCEPT ![r].at = "drain"]
    /\ turn' = NoRunner
    /\ UNCHANGED <<blockVars, assigned, pool, up, choking, pending, faults, letGo>>

\* mark_requested
Mark(i, b, p) ==
    /\ owner' = IF b \in received[i] THEN owner ELSE [owner EXCEPT ![i][b] = p]
    /\ late' = late \ {<<i, b>>}

\* ... and counted and marked when the drain is over, whatever a CHOKE or a
\* reset did in between.
Drained(r) ==
    /\ Free /\ run[r].at = "drain" /\ ~run[r].dead
    /\ turn' = r
    /\ pending' = [pending EXCEPT ![run[r].peer] = @ + 1]
    /\ Mark(run[r].piece, NextBlock(r), run[r].peer)
    /\ run' = [run EXCEPT ![r].at = "sending", ![r].todo = @ \ {NextBlock(r)},
                          ![r].left = @ - 1]
    /\ UNCHANGED <<status, received, assigned, pool, up, choking, wire, faults, letGo>>

\* The connection has ended: the drain raises, or a transport that is closing
\* took the rest and the block is marked; the next request is refused.
DrainedDead(r, taken) ==
    /\ Free /\ run[r].at = "drain" /\ run[r].dead
    /\ turn' = r
    /\ run' = [run EXCEPT ![r].at = "sending", ![r].todo = {},
                          ![r].left = IF taken THEN @ - 1 ELSE @]
    /\ IF taken THEN Mark(run[r].piece, NextBlock(r), run[r].peer)
       ELSE UNCHANGED <<owner, late>>
    /\ UNCHANGED <<status, received, assigned, connVars, faults, letGo>>

\* The loop ends, with nothing to send, no capacity or a request refused; and
\* what follows it in step 1, 2 or 3.
Sent(r) ==
    /\ At(r, "sending")
    /\ run[r].todo = {} \/ run[r].left = 0 \/ ~Accepts(run[r].peer) \/ run[r].dead
    /\ LET i == run[r].piece
           p == run[r].peer
       IN IF run[r].of = "fallback" \/ run[r].left = 0
          THEN Return(r) /\ UNCHANGED <<assigned, letGo>>
          ELSE IF run[r].of = "new"
          THEN Goto(r, "fallback") /\ UNCHANGED <<assigned, letGo>>
          ELSE IF received[i] # Blocks
          THEN Return(r) /\ UNCHANGED <<assigned, letGo>>
          ELSE /\ assigned' = [assigned EXCEPT ![p] = NoPiece]
               /\ letGo' = [letGo EXCEPT !.pieces = @ \cup BeingAsked(p)]
               /\ Goto(r, "new")
    /\ UNCHANGED <<blockVars, connVars, faults>>

-----------------------------------------------------------------------------
(* The main loop and the connections. *)

\* _request_from_peer would return with everything as it was.
NothingToDo(p) ==
    LET i == assigned[p]
    IN IF i = NoPiece THEN Open = {} /\ \A j \in Pieces : status[j] # "missing"
       ELSE status[i] = "in_progress" /\ received[i] # Blocks /\ Requestable(i) = {}

\* _request_pieces comes to a peer that can be asked.  The calls that change
\* nothing, one every 0.1 s, are stuttering.
Ask(p) ==
    /\ Free /\ run[Main].at = "idle" /\ ~AllCompleted
    /\ p \in up \ choking /\ pending[p] < MaxPending /\ ~NothingToDo(p)
    /\ Enter(Main, p, MaxPending - pending[p])
    /\ UNCHANGED <<blockVars, assigned, connVars, faults, letGo>>

\* can_request: nothing was requested or received for 15 s, so the counter of
\* a connection at its limit is taken for stuck.
Unstick(p) ==
    /\ Free /\ run[Main].at = "idle" /\ ~AllCompleted
    /\ p \in up \ choking /\ pending[p] >= MaxPending
    /\ pending' = [pending EXCEPT ![p] = 0]
    /\ Enter(Main, p, MaxPending)
    /\ letGo' = [letGo EXCEPT !.peers = @ \cup {p}]
    /\ UNCHANGED <<blockVars, assigned, pool, up, choking, wire, faults>>

\* Only the timer helps: nothing of the piece is under way, and it has every
\* block but lost its verification, or only a peer that is gone works on it.
Stuck(i) ==
    /\ \A p \in Peers : wire[p] \cap ({i} \X Blocks) = {}
    /\ \A r \in Runners : run[r].at # "idle" => run[r].piece # i
    /\ \/ received[i] = Blocks
       \/ {p \in Peers : assigned[p] = i} \in (SUBSET (Peers \ pool)) \ {{}}

\* reset_stale_pieces, in the main loop.
StaleReset(i) ==
    /\ Free /\ run[Main].at = "idle"
    /\ status[i] = "in_progress"
    /\ IF Stuck(i) THEN UNCHANGED faults ELSE Fault
    /\ Reset(i)
    /\ letGo' = [letGo EXCEPT !.pieces = @ \cup {i}]
    /\ UNCHANGED <<assigned, connVars, run, turn>>

\* Marked, and for good, after a CHOKE dropped the request or after the peer
\* was cleaned up.
Dropped(i, b) ==
    LET p == owner[i][b]
    IN /\ p \in Peers \ (pool \ up)
       /\ <<i, b>> \notin wire[p]
       /\ \A r \in Drains(p) : run[r].piece # i

\* A requested block is 10 s old.
BlockLate(i, b) ==
    /\ Free
    /\ status[i] = "in_progress" /\ b \notin received[i] /\ owner[i][b] # NoPeer
    /\ <<i, b>> \notin late
    /\ IF Dropped(i, b) THEN UNCHANGED faults ELSE Fault
    /\ late' = late \cup {<<i, b>>}
    /\ letGo' = [letGo EXCEPT !.blocks = @ \cup {<<i, b>>}]
    /\ UNCHANGED <<status, received, owner, assigned, connVars, run, turn>>

\* A new connection comes up; Lose has left its fields as they start.
Connect(p) ==
    /\ Free /\ p \notin pool
    /\ pool' = pool \cup {p} /\ up' = up \cup {p}
    /\ UNCHANGED <<blockVars, assigned, choking, pending, wire, run, turn, faults, letGo>>

\* A connection ends: its message loop is cancelled wherever it is.
Lose(p) ==
    /\ Free /\ p \in up
    /\ Fault
    /\ up' = up \ {p}
    /\ choking' = choking \cup {p}
    /\ pending' = [pending EXCEPT ![p] = 0]
    /\ wire' = [wire EXCEPT ![p] = {}]
    /\ run' = [r \in Runners |->
                 IF r = p THEN Idle
                 ELSE [run[r] EXCEPT !.dead = @ \/ (run[r].at = "drain" /\ run[r].peer = p)]]
    /\ UNCHANGED <<blockVars, assigned, pool, turn, letGo>>

\* _cleanup_dead_peers
Cleanup(p) ==
    /\ Free /\ p \in pool \ up
    /\ pool' = pool \ {p}
    /\ assigned' = [assigned EXCEPT ![p] = NoPiece]
    /\ ClearPeerRequests(p)
    /\ UNCHANGED <<status, received, late, up, choking, pending, wire, run, turn, faults,
                   letGo>>

-----------------------------------------------------------------------------
(* The message loop of a connection, when it is not in a handler. *)

Reads(p) == Free /\ p \in up /\ run[p].at = "idle"

\* CHOKE: the peer has dropped our requests; the counter is zeroed and the
\* blocks freed, the assignment stays.
Choke(p) ==
    /\ Reads(p) /\ p \notin choking
    /\ Fault
    /\ choking' = choking \cup {p}
    /\ pending' = [pending EXCEPT ![p] = 0]
    /\ wire' = [wire EXCEPT ![p] = {}]
    /\ ClearPeerRequests(p)
    /\ UNCHANGED <<status, received, late, assigned, pool, up, run, turn, letGo>>

\* UNCHOKE: blocks are requested at once, in the handler.
Unchoke(p) ==
    /\ Reads(p) /\ p \in choking
    /\ choking' = choking \ {p}
    /\ IF pending[p] < MaxPending THEN Enter(p, p, MaxPending - pending[p])
       ELSE UNCHANGED <<run, turn>>
    /\ UNCHANGED <<blockVars, assigned, pool, up, pending, wire, faults, letGo>>

\* Mutation: the counter goes below zero.
CountedBelowZero(p) == pending' = [pending EXCEPT ![p] = @ - 1]

\* Mutation: an answer settles every request.
CountedAll(p) == pending' = [pending EXCEPT ![p] = 0]

\* max(0, _pending_requests - 1)
Counted(p) == pending' = [pending EXCEPT ![p] = IF @ > 0 THEN @ - 1 ELSE 0]

\* PIECE: the block is stored unless the piece is COMPLETED; the last one
\* sends the piece to verification, which the handler awaits.
Deliver(p, i, b) ==
    /\ Reads(p) /\ <<i, b>> \in wire[p]
    /\ wire' = [wire EXCEPT ![p] = @ \ {<<i, b>>}]
    /\ Counted(p)
    /\ IF status[i] = "completed" THEN UNCHANGED <<received, owner, late, run>>
       ELSE /\ owner' = [owner EXCEPT ![i][b] = NoPeer]
            /\ late' = late \ {<<i, b>>}
            /\ received' = [received EXCEPT ![i] = @ \cup {b}]
            /\ run' = IF received'[i] = Blocks
                      THEN [run EXCEPT ![p] = [Idle EXCEPT !.at = "verify", !.piece = i]]
                      ELSE run
    /\ UNCHANGED <<status, assigned, pool, up, choking, turn, faults, letGo>>

\* "Clear peer assignment for this piece so peers get new work"
Release(i) == assigned' = [p \in Peers |-> IF assigned[p] = i THEN NoPiece ELSE assigned[p]]

\* The verification is over, COMPLETED unless the piece was reset meanwhile;
\* after a success the peer gets new work in the same handler.
Verified(p) ==
    /\ Free /\ run[p].at = "verify"
    /\ LET i == run[p].piece
       IN /\ Release(i)
          /\ IF received[i] = Blocks
             THEN /\ status' = [status EXCEPT ![i] = "completed"]
                  /\ UNCHANGED <<received, owner, late>>
             ELSE Reset(i)
          /\ IF received[i] = Blocks /\ p \notin choking /\ pending[p] < MaxPending
             THEN Enter(p, p, MaxPending - pending[p])
             ELSE run' = [run EXCEPT ![p] = Idle] /\ UNCHANGED turn
    /\ UNCHANGED <<connVars, faults, letGo>>

-----------------------------------------------------------------------------
RunStep(r) ==
    \/ Own(r) \/ NoneOpen(r) \/ Send(r) \/ Drained(r) \/ Sent(r)
    \/ \E taken \in BOOLEAN : DrainedDead(r, taken)
    \/ \E i \in Pieces : New(r, i) \/ Fallback(r, i)

Next ==
    \/ \E r \in Runners : RunStep(r)
    \/ \E p \in Peers : \/ Ask(p) \/ Unstick(p) \/ Connect(p) \/ Lose(p) \/ Cleanup(p)
                        \/ Choke(p) \/ Unchoke(p) \/ Verified(p)
    \/ \E i \in Pieces : StaleReset(i)
    \/ \E i \in Pieces, b \in Blocks : BlockLate(i, b)
    \/ \E p \in Peers, i \in Pieces, b \in Blocks : Deliver(p, i, b)

Spec == Init /\ [][Next]_vars

\* The event loop is a FIFO queue: coroutines are resumed, the main loop comes
\* to every peer, peers answer and unchoke, and the timers
\* run out on what is stuck or dropped.
Fairness ==
    /\ \A r \in Runners : WF_vars(RunStep(r))
    /\ \A p \in Peers : /\ WF_vars(Cleanup(p))
                        /\ WF_vars(Ask(p) \/ Unstick(p)) /\ WF_vars(Unchoke(p))
                        /\ WF_vars(Verified(p))
                        /\ WF_vars(\E i \in Pieces, b \in Blocks : Deliver(p, i, b))
    /\ WF_vars(\E i \in Pieces : Stuck(i) /\ StaleReset(i))
    /\ WF_vars(\E i \in Pieces, b \in Blocks : Dropped(i, b) /\ BlockLate(i, b))

FairSpec == Spec /\ Fairness

-----------------------------------------------------------------------------
(* Properties. *)

\* The test of the limit, the await and the increment are three moments and
\* two callers share a connection: the limit is passed, but by one at most.
PendingIsBounded == \A p \in Peers : pending[p] + Cardinality(Drains(p)) <= MaxPending + 1

\* The counter covers what the peer was asked and has not answered, whatever
\* the order of drains, CHOKEs and answers, unless it was taken for stuck.
WireIsCounted ==
    \A p \in Peers \ letGo.peers :
        Cardinality(wire[p]) <= pending[p] + Cardinality(Drains(p))

\* Two peers work on one piece only if a timer, or step 1 or 3 of a caller
\* while another one awaited, gave it away.
AssignmentIsExclusive ==
    \A p, q \in Peers : p # q /\ assigned[p] = assigned[q] /\ assigned[p] # NoPiece =>
        assigned[p] \in letGo.pieces

\* A block is asked of two peers at once only after one of these let it go.
NoDoubleRequest ==
    \A p, q \in Peers : \A x \in wire[p] \cap wire[q] :
        p # q => x \in letGo.blocks \/ x[1] \in letGo.pieces

\* CHOKE: "Clear block request state so other peers can pick up those blocks":
\* a caller that looks for blocks sees those a choking peer had been asked for.
ChokedBlocksAreOffered ==
    \A r \in Runners, p \in up \cap choking, i \in Pieces :
        AtStep3(r) /\ assigned[p] = i /\ status[i] = "in_progress" /\ Requestable(i) # {} =>
            i \in Open

\* Whatever is lost, choked or late, the pieces are all downloaded.
EverythingArrives == <>AllCompleted

=============================================================================
