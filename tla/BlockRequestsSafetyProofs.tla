---------------------- MODULE BlockRequestsSafetyProofs ----------------------
(***************************************************************************)
(* Who works on a piece, and who is asked for a block: the inductive       *)
(* invariant of BlockRequests.  A piece is "kept" as long as nobody gave   *)
(* it up; of a kept piece, received blocks stay, one peer has it assigned, *)
(* the live callers that send requests for it serve that peer, and a       *)
(* request on the wire of a peer is accounted for: by the block, by its    *)
(* mark, by the assignment, or by the caller that is about to mark it.     *)
(***************************************************************************)
EXTENDS BlockRequestsProofs

Kept == Pieces \ letGo.pieces

SendsFor(r, i) == Sending(r) /\ run[r].piece = i

\* A caller whose connection is up sends requests for piece i to p.
Works(r, p, i) == SendsFor(r, i) /\ ~run[r].dead /\ run[r].peer = p

\* Caller r is suspended, and about to count and mark block b of piece i for q.
AboutToMark(r, q, i, b) == Works(r, q, i) /\ run[r].at = "drain" /\ NextBlock(r) = b

\* The main loop waits on a connection that is gone.
MainIsDead == run[Main].at = "drain" /\ run[Main].dead

-----------------------------------------------------------------------------
(* The invariant, part by part. *)

\* A peer that has requests is up; what is late was let go.
LinkInv ==
    /\ \A p \in Peers : wire[p] # {} => p \in up
    /\ late \subseteq letGo.blocks

\* Nobody has begun with a MISSING piece, and a piece is complete from its
\* verification on.
MissingInv ==
    \A i \in Kept :
        /\ status[i] = "missing" =>
              /\ received[i] = {}
              /\ \A p \in Peers : assigned[p] # i
              /\ \A r \in Runners : ~SendsFor(r, i)
              /\ \A p \in Peers, b \in Blocks : <<i, b>> \notin wire[p]
        /\ status[i] = "completed" => received[i] = Blocks
        /\ \A r \in Runners : run[r].at = "verify" /\ run[r].piece = i => received[i] = Blocks

\* One peer has the piece assigned.
ExclusiveInv ==
    \A i \in Kept, p, q \in Peers : assigned[p] = i /\ assigned[q] = i => p = q

\* Requests go to the peer that has the piece assigned, unless it is complete.
WorkInv ==
    /\ \A i \in Kept, r \in Runners, p \in Peers :
          Works(r, p, i) => assigned[p] = i \/ received[i] = Blocks
    /\ \A i \in Kept, r, s \in Runners, p, q \in Peers :
          Works(r, p, i) /\ Works(s, q, i) => p = q

\* Nobody starts a piece that a dead caller of the main loop was sending for.
DeadSendsOld ==
    \A i \in Kept, s \in Peers :
        MainIsDead /\ run[Main].piece = i /\ SendsFor(s, i) => run[s].of # "new"

\* Neither the piece nor the block was given up.
Certain(i, b) == i \in Kept /\ b \in Blocks /\ <<i, b>> \notin letGo.blocks

\* Peer q has piece i assigned, and no caller is about to change that.
Firm(q, i) ==
    /\ assigned[q] = i
    /\ \A r \in Runners : run[r].peer = q =>
          /\ run[r].at \notin {"new", "fallback"}
          /\ Sending(r) => run[r].piece = i /\ run[r].of # "new"

\* What is on the wire is accounted for.
WireInv ==
    \A q \in Peers, i \in Pieces, b \in Blocks :
        Certain(i, b) /\ <<i, b>> \in wire[q] =>
            \/ b \in received[i] \/ owner[i][b] = q \/ Firm(q, i)
            \/ \E r \in Runners : AboutToMark(r, q, i, b)

\* What a caller is going to ask of p is on no other wire...
TodoInv ==
    \A r \in Runners, p, q \in Peers, i \in Pieces, b \in Blocks :
        Certain(i, b) /\ p # q /\ Works(r, p, i) /\ b \in run[r].todo => <<i, b>> \notin wire[q]

\* ... and if the connection to p is gone, then what another peer was asked
\* for meanwhile can do without its mark.
DeadInv ==
    \A p, q \in Peers, i \in Pieces, b \in Blocks :
        /\ Certain(i, b) /\ p # q /\ <<i, b>> \in wire[q]
        /\ MainIsDead /\ run[Main].peer = p /\ run[Main].piece = i /\ b \in run[Main].todo
        => b \in received[i] \/ Firm(q, i)

PieceInv == LinkInv /\ MissingInv /\ ExclusiveInv /\ WorkInv /\ DeadSendsOld

AskInv == WireInv /\ TodoInv /\ DeadInv /\ NoDoubleRequest

-----------------------------------------------------------------------------
(* What a step changes. *)

\* The steps, those of the callers first.
LEMMA StepCases ==
    ASSUME [Next]_vars
    PROVE  \/ UNCHANGED vars
           \/ \E r \in Runners : \/ Own(r) \/ Send(r) \/ Drained(r) \/ Sent(r)
                                 \/ \E taken \in BOOLEAN : DrainedDead(r, taken)
                                 \/ \E i \in Pieces : New(r, i) \/ Fallback(r, i)
           \/ \E p \in Peers : Lose(p)
           \/ CalmStep
  BY DEF Next, RunStep, CalmStep

\* A kept piece was kept before.
LEMMA KeptBefore ==
    ASSUME BaseInv, [Next]_vars
    PROVE  /\ Kept' \subseteq Kept
           /\ \A i, b : Certain(i, b)' => Certain(i, b)
  BY LetGoGrows DEF Kept, Certain

\* A request comes on the wire where a caller sends it.
LEMMA WireFacts ==
    ASSUME BaseInv, [Next]_vars, NEW q \in Peers, NEW x \in wire'[q], x \notin wire[q]
    PROVE  \E r \in Runners : /\ Send(r) /\ run[r].peer = q
                              /\ x = <<run[r].piece, NextBlock(r)>>
<1>0. wire \in [Peers -> SUBSET (Pieces \X Blocks)]
  BY DEF BaseInv, ConnsTyped
<1>1. ASSUME NEW r \in Runners, Send(r)
      PROVE  run[r].peer = q /\ x = <<run[r].piece, NextBlock(r)>>
  BY <1>0, <1>1, SendFacts
<1>2. ASSUME wire' = wire \/ \E p \in Peers : wire' = [wire EXCEPT ![p] = {}] PROVE FALSE
  BY <1>0, <1>2
<1>3. ASSUME NEW r \in Runners,
             \/ Own(r) \/ Drained(r) \/ Sent(r) \/ NoneOpen(r)
             \/ \E taken \in BOOLEAN : DrainedDead(r, taken)
             \/ \E i \in Pieces : New(r, i) \/ Fallback(r, i)
      PROVE  wire' = wire
  BY <1>3 DEF Own, Drained, Sent, DrainedDead, New, Fallback, NoneOpen, connVars
<1>4. ASSUME NEW p \in Peers, Lose(p) \/ Choke(p) PROVE wire' = [wire EXCEPT ![p] = {}]
  BY <1>4 DEF Lose, Choke
<1>5. ASSUME NEW p \in Peers, NEW i \in Pieces, NEW b \in Blocks, Deliver(p, i, b) PROVE FALSE
  BY <1>0, <1>5 DEF Deliver
<1>6. ASSUME NEW p \in Peers,
             Ask(p) \/ Unstick(p) \/ Connect(p) \/ Cleanup(p) \/ Unchoke(p) \/ Verified(p)
      PROVE  wire' = wire
  BY <1>6 DEF Ask, Unstick, Connect, Cleanup, Unchoke, Verified, connVars
<1>7. ASSUME NEW i \in Pieces, StaleReset(i) PROVE wire' = wire
  BY <1>7 DEF StaleReset, connVars
<1>8. ASSUME NEW i \in Pieces, NEW b \in Blocks, BlockLate(i, b) PROVE wire' = wire
  BY <1>8 DEF BlockLate, connVars
<1>9. UNCHANGED vars => wire' = wire
  BY DEF vars, connVars
<1> QED
  BY <1>1, <1>2, <1>3, <1>4, <1>5, <1>6, <1>7, <1>8, <1>9, StepCases DEF CalmStep

\* Of a piece that is kept, the blocks received stay; it is complete once it
\* is COMPLETED, and a block comes only from the wire.
LEMMA KeptFacts ==
    ASSUME BaseInv, MissingInv, [Next]_vars, NEW i \in Kept'
    PROVE  /\ i \in Kept
           /\ received[i] \subseteq received'[i]
           /\ status'[i] = "missing" => status[i] = "missing"
           /\ status'[i] = "completed" => status[i] = "completed" \/ received[i] = Blocks
           /\ received'[i] # received[i] =>
                 \E p \in Peers, b \in Blocks : <<i, b>> \in wire[p]
<1> DEFINE Goal == /\ received[i] \subseteq received'[i]
                   /\ status'[i] = "missing" => status[i] = "missing"
                   /\ status'[i] = "completed" => status[i] = "completed" \/ received[i] = Blocks
                   /\ received'[i] # received[i] =>
                         \E p \in Peers, b \in Blocks : <<i, b>> \in wire[p]
<1>0. i \in Kept /\ i \in Pieces
  BY KeptBefore DEF Kept
<1>t. /\ status \in [Pieces -> {"missing", "in_progress", "completed"}]
      /\ received \in [Pieces -> SUBSET Blocks]
  BY DEF BaseInv, BlocksTyped
<1>1. ASSUME UNCHANGED <<status, received>> PROVE Goal
  BY <1>1
<1>2. ASSUME NEW r \in Runners,
             \/ Own(r) \/ Send(r) \/ Drained(r) \/ Sent(r) \/ NoneOpen(r)
             \/ \E taken \in BOOLEAN : DrainedDead(r, taken)
             \/ \E j \in Pieces : Fallback(r, j)
      PROVE  UNCHANGED <<status, received>>
  BY <1>2 DEF Own, Send, Drained, Sent, DrainedDead, Fallback, NoneOpen, blockVars
<1>3. ASSUME NEW r \in Runners, NEW j \in Pieces, New(r, j) PROVE Goal
  BY <1>0, <1>t, <1>3 DEF New
<1>4. ASSUME NEW p \in Peers,
             \/ Lose(p) \/ Choke(p) \/ Ask(p) \/ Unstick(p) \/ Connect(p) \/ Cleanup(p)
             \/ Unchoke(p)
      PROVE  UNCHANGED <<status, received>>
  BY <1>4 DEF Lose, Choke, Ask, Unstick, Connect, Cleanup, Unchoke, blockVars
<1>5. ASSUME NEW p \in Peers, NEW j \in Pieces, NEW b \in Blocks, Deliver(p, j, b) PROVE Goal
  <2>1. \/ received' = received
        \/ received' = [received EXCEPT ![j] = @ \cup {b}]
    BY <1>5 DEF Deliver
  <2>2. status' = status /\ <<j, b>> \in wire[p]
    BY <1>5 DEF Deliver
  <2> QED
    BY <1>0, <1>t, <2>1, <2>2
<1>6. ASSUME NEW p \in Peers, Verified(p) PROVE Goal
  <2> DEFINE j == run[p].piece
  <2>1. j \in Pieces /\ run[p].at = "verify" /\ p \in Runners
    BY <1>6, BaseFacts DEF Verified, RunFits, Runners
  <2>2. CASE received[j] = Blocks
    <3>1. status' = [status EXCEPT ![j] = "completed"] /\ received' = received
      BY <1>6, <2>2 DEF Verified
    <3> QED
      BY <1>0, <1>t, <2>1, <2>2, <3>1
  <2>3. CASE received[j] # Blocks
    <3>1. i # j
      BY <1>0, <2>1, <2>3 DEF MissingInv
    <3>2. /\ status' = [status EXCEPT ![j] = "missing"]
          /\ received' = [received EXCEPT ![j] = {}]
      BY <1>6, <2>3 DEF Verified, Reset
    <3> QED
      BY <1>0, <1>t, <2>1, <3>1, <3>2
  <2> QED
    BY <2>2, <2>3
<1>7. ASSUME NEW j \in Pieces, StaleReset(j) PROVE Goal
  <2>1. j \in letGo'.pieces
    BY <1>7 DEF StaleReset, BaseInv, RestTyped
  <2>2. i # j
    BY <2>1 DEF Kept
  <2> QED
    BY <1>0, <1>t, <1>7, <2>2 DEF StaleReset, Reset
<1>8. ASSUME NEW j \in Pieces, NEW b \in Blocks, BlockLate(j, b)
      PROVE  UNCHANGED <<status, received>>
  BY <1>8 DEF BlockLate
<1>9. UNCHANGED vars => UNCHANGED <<status, received>>
  BY DEF vars, blockVars
<1> HIDE DEF Goal
<1>10. Goal
  BY <1>1, <1>2, <1>3, <1>4, <1>5, <1>6, <1>7, <1>8, <1>9, StepCases DEF CalmStep
<1> QED
  BY <1>0, <1>10 DEF Goal

\* Caller r goes into the loop for piece i.
Begins(r, i) ==
    /\ OthersSame(r)
    /\ run[r].at \in {"own", "new", "fallback"} /\ run[r].peer \in Peers
    /\ run'[r].at = "sending" /\ run'[r].piece = i /\ run'[r].peer = run[r].peer
    /\ UNCHANGED <<received, owner, late, wire, up>>
    /\ status'[i] = "in_progress"
    /\ assigned' = [assigned EXCEPT ![run[r].peer] = i]
    /\ \/ /\ run'[r].of = "own" /\ assigned[run[r].peer] = i
          /\ Requestable(i) # {} /\ run'[r].todo = Requestable(i)
       \/ run'[r].of = "new" /\ status[i] = "missing" /\ assigned[run[r].peer] = NoPiece
       \/ /\ run'[r].of = "fallback" /\ run[r].at \in {"new", "fallback"}
          /\ i \in Open /\ run'[r].todo = Requestable(i)

\* Caller r was in the loop, and goes on with the same request or the rest.
Continues(r) ==
    /\ Sending(r)
    /\ run'[r].piece = run[r].piece /\ run'[r].of = run[r].of /\ run'[r].peer = run[r].peer
    /\ run'[r].todo \subseteq run[r].todo
    /\ run[r].dead => run'[r].dead

\* Whoever sends after a step did so before it, or begins with it.
LEMMA WorkFacts ==
    ASSUME BaseInv, [Next]_vars, NEW r \in Runners, Sending(r)'
    PROVE  Continues(r) \/ \E i \in Pieces : Begins(r, i)
<1>1. ASSUME run'[r] = run[r] PROVE Continues(r)
  BY <1>1 DEF Continues, Sending
<1>2. ASSUME NEW s \in Runners, s # r, OthersSame(s) PROVE run'[r] = run[r]
  BY <1>2 DEF OthersSame
<1>3. ASSUME Own(r) PROVE \E i \in Pieces : Begins(r, i)
  <2> DEFINE i == assigned[run[r].peer]
  <2>1. /\ run[r].at = "own" /\ run[r].peer \in Peers /\ UNCHANGED <<blockVars, connVars>>
        /\ i \in Pieces /\ status[i] = "in_progress" /\ Requestable(i) # {}
        /\ Starts(r, i, "own", Requestable(i))
        /\ assigned' = assigned
    BY <1>3, OwnFacts DEF Sending, Leaves
  <2>2. assigned' = [assigned EXCEPT ![run[r].peer] = i]
    BY <2>1 DEF BaseInv, BlocksTyped
  <2>3. Begins(r, i)
    BY <2>1, <2>2 DEF Begins, Starts, blockVars, connVars
  <2> QED
    BY <2>1, <2>3
<1>4. ASSUME NEW i \in Pieces, New(r, i) PROVE Begins(r, i)
  BY <1>4, NewFacts DEF Begins, Starts, connVars, BaseInv, BlocksTyped
<1>5. ASSUME NEW i \in Pieces, Fallback(r, i) PROVE Begins(r, i)
  BY <1>5, FallbackFacts DEF Begins, Starts, Open, blockVars, connVars
<1>6. ASSUME Send(r) \/ Drained(r) \/ \E taken \in BOOLEAN : DrainedDead(r, taken)
      PROVE  Continues(r)
  BY <1>6, SendFacts, DrainedFacts, DrainedDeadFacts DEF Continues, GoesOn, Sending
<1>7. ~Sent(r)
  BY SentFacts DEF Sending, Leaves
<1>8. ASSUME NEW s \in Runners,
             \/ Own(s) \/ Send(s) \/ Drained(s) \/ Sent(s)
             \/ \E taken \in BOOLEAN : DrainedDead(s, taken)
             \/ \E i \in Pieces : New(s, i) \/ Fallback(s, i)
      PROVE  OthersSame(s)
  BY <1>8, OwnFacts, SendFacts, DrainedFacts, SentFacts, DrainedDeadFacts, NewFacts,
     FallbackFacts DEF Starts, GoesOn, Leaves
<1>9. ASSUME NEW p \in Peers, Lose(p) PROVE Continues(r)
  BY <1>9, LoseFacts DEF Continues, Sending
<1>10. ASSUME CalmStep PROVE run'[r] = run[r]
  BY <1>10, CalmFacts DEF Sending
<1>11. UNCHANGED vars => run'[r] = run[r]
  BY DEF vars
<1> QED
  BY <1>1, <1>2, <1>3, <1>4, <1>5, <1>6, <1>7, <1>8, <1>9, <1>10, <1>11, StepCases

\* The same for a caller whose connection is up.
LEMMA WorksFacts ==
    ASSUME BaseInv, [Next]_vars, NEW r \in Runners, NEW p \in Peers, NEW i \in Pieces,
           Works(r, p, i)'
    PROVE  \/ Works(r, p, i) /\ Continues(r)
           \/ Begins(r, i) /\ run[r].peer = p
  BY WorkFacts DEF Works, SendsFor, Continues, Begins

\* The other callers stay as they are when one begins.
LEMMA OthersWorked ==
    ASSUME NEW r \in Runners, NEW s \in Runners, r # s, NEW j, Begins(s, j), NEW p, NEW i
    PROVE  Works(r, p, i)' => Works(r, p, i)
  BY DEF Begins, OthersSame, Works, SendsFor, Sending

\* A peer is given another piece by a caller that begins with it.
LEMMA AssignFacts ==
    ASSUME BaseInv, [Next]_vars, NEW p \in Peers, assigned'[p] \in Pieces,
           assigned'[p] # assigned[p]
    PROVE  \E r \in Runners : /\ Begins(r, assigned'[p]) /\ run[r].peer = p
                              /\ status[assigned'[p]] = "missing" \/ assigned'[p] \in Open
<1>t. assigned \in [Peers -> Pieces \cup {NoPiece}] /\ NoPiece \notin Pieces
  BY RequestsAssumption DEF BaseInv, BlocksTyped
<1>1. ASSUME \/ assigned' = assigned
             \/ \E q \in Peers : assigned' = [assigned EXCEPT ![q] = NoPiece]
      PROVE  FALSE
  BY <1>t, <1>1
<1>2. ASSUME NEW r \in Runners, NEW i \in Pieces, New(r, i) \/ Fallback(r, i)
      PROVE  /\ Begins(r, assigned'[p]) /\ run[r].peer = p
             /\ status[assigned'[p]] = "missing" \/ assigned'[p] \in Open
  <2>1. Begins(r, i) /\ (status[i] = "missing" \/ i \in Open)
    BY <1>2, NewFacts, FallbackFacts
    DEF Begins, Starts, Open, blockVars, connVars, BaseInv, BlocksTyped
  <2>2. assigned' = [assigned EXCEPT ![run[r].peer] = i]
    BY <2>1 DEF Begins
  <2>3. run[r].peer = p /\ assigned'[p] = i
    BY <1>t, <2>2
  <2> QED
    BY <2>1, <2>3
<1>3. ASSUME NEW r \in Runners, Own(r) \/ Sent(r)
      PROVE  \/ assigned' = assigned
             \/ \E q \in Peers : assigned' = [assigned EXCEPT ![q] = NoPiece]
  BY <1>3, OwnFacts, SentFacts
<1>4. ASSUME NEW r \in Runners,
             \/ Send(r) \/ Drained(r) \/ NoneOpen(r)
             \/ \E taken \in BOOLEAN : DrainedDead(r, taken)
      PROVE  assigned' = assigned
  BY <1>4 DEF Send, Drained, NoneOpen, DrainedDead
<1>5. ASSUME NEW q \in Peers,
             \/ Lose(q) \/ Choke(q) \/ Ask(q) \/ Unstick(q) \/ Connect(q) \/ Unchoke(q)
      PROVE  assigned' = assigned
  BY <1>5 DEF Lose, Choke, Ask, Unstick, Connect, Unchoke
<1>6. ASSUME NEW q \in Peers, Cleanup(q) PROVE assigned' = [assigned EXCEPT ![q] = NoPiece]
  BY <1>6 DEF Cleanup
<1>7. ASSUME NEW q \in Peers, Verified(q) PROVE FALSE
  BY <1>t, <1>7 DEF Verified, Release
<1>8. ASSUME NEW q \in Peers, NEW i \in Pieces, NEW b \in Blocks, Deliver(q, i, b)
      PROVE  assigned' = assigned
  BY <1>8 DEF Deliver
<1>9. ASSUME NEW i \in Pieces, StaleReset(i) PROVE assigned' = assigned
  BY <1>9 DEF StaleReset
<1>10. ASSUME NEW i \in Pieces, NEW b \in Blocks, BlockLate(i, b) PROVE assigned' = assigned
  BY <1>10 DEF BlockLate
<1>11. UNCHANGED vars => assigned' = assigned
  BY DEF vars
<1> QED
  BY <1>1, <1>2, <1>3, <1>4, <1>5, <1>6, <1>7, <1>8, <1>9, <1>10, <1>11, StepCases DEF CalmStep

\* A kept piece is taken from a peer when the peer is gone, when the piece is
\* complete, or by a caller of that peer.
LEMMA UnassignFacts ==
    ASSUME BaseInv, MissingInv, [Next]_vars, NEW p \in Peers, NEW i \in Kept',
           assigned[p] = i, assigned'[p] # i
    PROVE  \/ p \notin up \/ received[i] = Blocks
           \/ \E r \in Runners : New(r, assigned'[p]) /\ run[r].peer = p
           \/ \E r \in Runners, j \in Pieces : Fallback(r, j) /\ run[r].peer = p
           \/ \E r \in Runners : Sent(r) /\ run[r].peer = p /\ run[r].of = "own"
                                 /\ received[run[r].piece] = Blocks
                                 /\ letGo' = [letGo EXCEPT !.pieces = @ \cup BeingAsked(p)]
<1> DEFINE Goal == \/ p \notin up \/ received[i] = Blocks
                   \/ \E r \in Runners : New(r, assigned'[p]) /\ run[r].peer = p
                   \/ \E r \in Runners, j \in Pieces : Fallback(r, j) /\ run[r].peer = p
                   \/ \E r \in Runners : Sent(r) /\ run[r].peer = p /\ run[r].of = "own"
                                         /\ received[run[r].piece] = Blocks
                                         /\ letGo' = [letGo EXCEPT !.pieces = @ \cup BeingAsked(p)]
<1>t. assigned \in [Peers -> Pieces \cup {NoPiece}] /\ i \in Kept /\ i \in Pieces
      /\ status[i] \in {"missing", "in_progress", "completed"}
  BY KeptFacts DEF BaseInv, BlocksTyped, Kept
<1>1. assigned' # assigned
  OBVIOUS
<1>2. ASSUME NEW r \in Runners, NEW j \in Pieces, New(r, j) PROVE Goal
  <2>1. assigned' = [assigned EXCEPT ![run[r].peer] = j]
    BY <1>2, NewFacts
  <2> QED
    BY <1>t, <1>2, <2>1
<1>3. ASSUME NEW r \in Runners, NEW j \in Pieces, Fallback(r, j) PROVE Goal
  <2>1. assigned' = [assigned EXCEPT ![run[r].peer] = j]
    BY <1>3, FallbackFacts
  <2> QED
    BY <1>t, <1>3, <2>1
<1>4. ASSUME NEW r \in Runners, Own(r) PROVE Goal
  <2>1. /\ assigned' = [assigned EXCEPT ![run[r].peer] = NoPiece]
        /\ assigned[run[r].peer] \in Pieces /\ status[assigned[run[r].peer]] = "in_progress"
              => received[assigned[run[r].peer]] = Blocks
    BY <1>1, <1>4, OwnFacts
  <2>2. run[r].peer = p
    BY <1>t, <2>1
  <2>3. status[i] = "in_progress" => received[i] = Blocks
    BY <1>t, <2>1, <2>2
  <2>4. status[i] # "missing" /\ (status[i] = "completed" => received[i] = Blocks)
    BY <1>t DEF MissingInv
  <2> QED
    BY <1>t, <2>3, <2>4
<1>5. ASSUME NEW r \in Runners, Sent(r) PROVE Goal
  <2>1. /\ assigned' = [assigned EXCEPT ![run[r].peer] = NoPiece]
        /\ run[r].of = "own" /\ received[run[r].piece] = Blocks
        /\ letGo' = [letGo EXCEPT !.pieces = @ \cup BeingAsked(run[r].peer)]
    BY <1>1, <1>5, SentFacts
  <2>2. run[r].peer = p
    BY <1>t, <2>1
  <2> QED
    BY <1>5, <2>1, <2>2
<1>6. ASSUME NEW q \in Peers, Cleanup(q) PROVE Goal
  <2>1. q \notin up /\ assigned' = [assigned EXCEPT ![q] = NoPiece]
    BY <1>6 DEF Cleanup
  <2> QED
    BY <1>t, <2>1
<1>7. ASSUME NEW q \in Peers, Verified(q) PROVE Goal
  <2>1. run[q].at = "verify" /\ run[q].piece = i /\ q \in Runners
    BY <1>t, <1>7 DEF Verified, Release, Runners
  <2> QED
    BY <1>t, <2>1 DEF MissingInv
<1>8. ASSUME NEW r \in Runners,
             \/ Send(r) \/ Drained(r) \/ NoneOpen(r)
             \/ \E taken \in BOOLEAN : DrainedDead(r, taken)
      PROVE  assigned' = assigned
  BY <1>8 DEF Send, Drained, NoneOpen, DrainedDead
<1>9. ASSUME NEW q \in Peers,
             \/ Lose(q) \/ Choke(q) \/ Ask(q) \/ Unstick(q) \/ Connect(q) \/ Unchoke(q)
      PROVE  assigned' = assigned
  BY <1>9 DEF Lose, Choke, Ask, Unstick, Connect, Unchoke
<1>10. ASSUME NEW q \in Peers, NEW j \in Pieces, NEW b \in Blocks, Deliver(q, j, b)
       PROVE  assigned' = assigned
  BY <1>10 DEF Deliver
<1>11. ASSUME NEW j \in Pieces, StaleReset(j) PROVE assigned' = assigned
  BY <1>11 DEF StaleReset
<1>12. ASSUME NEW j \in Pieces, NEW b \in Blocks, BlockLate(j, b) PROVE assigned' = assigned
  BY <1>12 DEF BlockLate
<1>13. UNCHANGED vars => assigned' = assigned
  BY DEF vars
<1> HIDE DEF Goal
<1>14. Goal
  BY <1>1, <1>2, <1>3, <1>4, <1>5, <1>6, <1>7, <1>8, <1>9, <1>10, <1>11, <1>12, <1>13,
     StepCases DEF CalmStep
<1> QED
  BY <1>14 DEF Goal

\* A caller that comes to a verification brings a complete piece.
LEMMA VerifyFacts ==
    ASSUME BaseInv, [Next]_vars, NEW r \in Runners, run'[r].at = "verify"
    PROVE  \/ run[r].at = "verify" /\ run'[r].piece = run[r].piece
           \/ received'[run'[r].piece] = Blocks
<1> DEFINE Goal == \/ run[r].at = "verify" /\ run'[r].piece = run[r].piece
                   \/ received'[run'[r].piece] = Blocks
<1>1. ASSUME run'[r] = run[r] PROVE Goal
  BY <1>1
<1>2. ASSUME NEW s \in Runners, OthersSame(s), run'[s].at # "verify" PROVE Goal
  BY <1>1, <1>2 DEF OthersSame
<1>3. ASSUME NEW s \in Runners,
             \/ Own(s) \/ Send(s) \/ Drained(s) \/ Sent(s)
             \/ \E taken \in BOOLEAN : DrainedDead(s, taken)
             \/ \E i \in Pieces : New(s, i) \/ Fallback(s, i)
      PROVE  OthersSame(s) /\ run'[s].at # "verify"
  BY <1>3, OwnFacts, SendFacts, DrainedFacts, SentFacts, DrainedDeadFacts, NewFacts,
     FallbackFacts DEF Starts, GoesOn, Leaves
<1>4. ASSUME NEW p \in Peers, Lose(p) PROVE Goal
  BY <1>4, LoseFacts
<1>t. run \in [Runners -> Runs]
  BY DEF BaseInv, RunsTyped
<1>5. ASSUME NEW p \in Peers, NEW s, NEW capacity, Enter(s, p, capacity) PROVE Goal
  <2>1. run'[s].at = "own" \/ run' = run
    BY <1>t, <1>5 DEF Enter, Idle
  <2>2. \A q \in Runners : q # s => run'[q] = run[q]
    BY <1>t, <1>5 DEF Enter
  <2> QED
    BY <1>1, <2>1, <2>2
<1>6. ASSUME NEW s, run' = [run EXCEPT ![s] = Idle] PROVE Goal
  BY <1>t, <1>1, <1>6 DEF Idle
<1>7. ASSUME NEW p \in Peers, NEW i \in Pieces, NEW b \in Blocks, Deliver(p, i, b) PROVE Goal
  <2>1. \/ run' = run
        \/ /\ run' = [run EXCEPT ![p] = [Idle EXCEPT !.at = "verify", !.piece = i]]
           /\ received'[i] = Blocks
    BY <1>7 DEF Deliver
  <2>2. CASE run' = run
    BY <1>1, <2>2
  <2>3. CASE /\ run' = [run EXCEPT ![p] = [Idle EXCEPT !.at = "verify", !.piece = i]]
             /\ received'[i] = Blocks
    <3>1. r # p => run'[r] = run[r]
      BY <1>t, <2>3
    <3>2. run'[p].piece = i
      BY <1>t, <2>3 DEF Idle, Runners
    <3> QED
      BY <1>1, <2>3, <3>1, <3>2
  <2> QED
    BY <2>1, <2>2, <2>3
<1>8. ASSUME NEW p \in Peers, Ask(p) \/ Unstick(p) \/ Unchoke(p) \/ Verified(p)
      PROVE  \/ run' = run
             \/ \E s, capacity : Enter(s, p, capacity)
             \/ \E s : run' = [run EXCEPT ![s] = Idle]
  BY <1>8 DEF Ask, Unstick, Unchoke, Verified
<1>9. ASSUME NEW p \in Peers, Connect(p) \/ Cleanup(p) \/ Choke(p) PROVE run' = run
  BY <1>9 DEF Connect, Cleanup, Choke
<1>10. ASSUME NEW i \in Pieces, StaleReset(i) PROVE run' = run
  BY <1>10 DEF StaleReset
<1>11. ASSUME NEW i \in Pieces, NEW b \in Blocks, BlockLate(i, b) PROVE run' = run
  BY <1>11 DEF BlockLate
<1>12. ASSUME NEW s \in Runners, NoneOpen(s) PROVE run' = [run EXCEPT ![s] = Idle]
  BY <1>12 DEF NoneOpen, Return
<1>13. UNCHANGED vars => run' = run
  BY DEF vars
<1> HIDE DEF Goal
<1>14. Goal
  BY <1>1, <1>2, <1>3, <1>4, <1>5, <1>6, <1>7, <1>8, <1>9, <1>10, <1>11, <1>12, <1>13,
     StepCases DEF CalmStep
<1> QED
  BY <1>14 DEF Goal

-----------------------------------------------------------------------------
(* The steps keep what is said of a piece. *)

\* A connection that ends takes its requests along.
LEMMA UpFacts ==
    ASSUME BaseInv, [Next]_vars, NEW p \in up
    PROVE  p \in up' \/ wire'[p] = {}
<1>1. ASSUME NEW q \in Peers, Lose(q) PROVE p \in up' \/ wire'[p] = {}
  BY <1>1 DEF Lose, BaseInv, ConnsTyped
<1>2. ASSUME NEW r \in Runners,
             \/ Own(r) \/ Send(r) \/ Drained(r) \/ Sent(r)
             \/ \E taken \in BOOLEAN : DrainedDead(r, taken)
             \/ \E i \in Pieces : New(r, i) \/ Fallback(r, i)
      PROVE  up' = up
  BY <1>2 DEF Own, Send, Drained, Sent, DrainedDead, New, Fallback, connVars
<1>3. ASSUME NEW q \in Peers,
             Ask(q) \/ Unstick(q) \/ Cleanup(q) \/ Choke(q) \/ Unchoke(q) \/ Verified(q)
      PROVE  up' = up
  BY <1>3 DEF Ask, Unstick, Cleanup, Choke, Unchoke, Verified, connVars
<1>4. ASSUME NEW q \in Peers, Connect(q) PROVE up \subseteq up'
  BY <1>4 DEF Connect
<1>5. ASSUME NEW i \in Pieces, StaleReset(i) PROVE up' = up
  BY <1>5 DEF StaleReset, connVars
<1>6. ASSUME NEW i \in Pieces, NEW b \in Blocks, BlockLate(i, b) PROVE up' = up
  BY <1>6 DEF BlockLate, connVars
<1>7. ASSUME NEW q \in Peers, NEW i \in Pieces, NEW b \in Blocks, Deliver(q, i, b)
      PROVE  up' = up
  BY <1>7 DEF Deliver
<1>8. ASSUME NEW r \in Runners, NoneOpen(r) PROVE up' = up
  BY <1>8 DEF NoneOpen, connVars
<1>9. UNCHANGED vars => up' = up
  BY DEF vars, connVars
<1> QED
  BY <1>1, <1>2, <1>3, <1>4, <1>5, <1>6, <1>7, <1>8, <1>9, StepCases DEF CalmStep

\* A block is late because its timer ran out.
LEMMA LateFacts ==
    ASSUME BaseInv, [Next]_vars, NEW x \in late', x \notin late
    PROVE  x \in letGo'.blocks
<1>1. ASSUME NEW i \in Pieces, NEW b \in Blocks, BlockLate(i, b) PROVE x \in letGo'.blocks
  BY <1>1 DEF BlockLate, BaseInv, RestTyped
<1>2. ASSUME NEW r \in Runners,
             \/ Own(r) \/ Send(r) \/ Drained(r) \/ Sent(r)
             \/ \E taken \in BOOLEAN : DrainedDead(r, taken)
             \/ \E i \in Pieces : New(r, i) \/ Fallback(r, i)
      PROVE  late' \subseteq late
  BY <1>2 DEF Own, Send, Drained, Sent, DrainedDead, New, Fallback, blockVars, Mark
<1>3. ASSUME NEW q \in Peers,
             \/ Ask(q) \/ Unstick(q) \/ Connect(q) \/ Lose(q) \/ Cleanup(q) \/ Choke(q)
             \/ Unchoke(q)
      PROVE  late' \subseteq late
  BY <1>3 DEF Ask, Unstick, Connect, Lose, Cleanup, Choke, Unchoke, blockVars
<1>4. ASSUME NEW q \in Peers, Verified(q) PROVE late' \subseteq late
  BY <1>4 DEF Verified, Reset
<1>5. ASSUME NEW i \in Pieces, StaleReset(i) PROVE late' \subseteq late
  BY <1>5 DEF StaleReset, Reset
<1>6. ASSUME NEW q \in Peers, NEW i \in Pieces, NEW b \in Blocks, Deliver(q, i, b)
      PROVE  late' \subseteq late
  BY <1>6 DEF Deliver
<1>7. ASSUME NEW r \in Runners, NoneOpen(r) PROVE late' \subseteq late
  BY <1>7 DEF NoneOpen, blockVars
<1>8. UNCHANGED vars => late' \subseteq late
  BY DEF vars, blockVars
<1> QED
  BY <1>1, <1>2, <1>3, <1>4, <1>5, <1>6, <1>7, <1>8, StepCases DEF CalmStep

\* The steps keep the wire and the late blocks as they should be.
LEMMA LinkStep == ASSUME BaseInv, LinkInv, [Next]_vars PROVE LinkInv'
<1>1. ASSUME NEW p \in Peers, wire'[p] # {} PROVE p \in up'
  <2>1. PICK x \in wire'[p] : TRUE
    BY <1>1
  <2>2. CASE x \in wire[p]
    <3>1. p \in up
      BY <2>2 DEF LinkInv
    <3> QED
      BY <1>1, <3>1, UpFacts
  <2>3. CASE x \notin wire[p]
    BY <2>3, WireFacts, SendFacts
  <2> QED
    BY <2>2, <2>3
<1>2. late' \subseteq letGo'.blocks
  BY LateFacts, LetGoGrows DEF LinkInv
<1> QED
  BY <1>1, <1>2 DEF LinkInv

\* The steps keep what is said of MISSING, COMPLETED and verified pieces.
LEMMA MissingStep == ASSUME BaseInv, MissingInv, [Next]_vars PROVE MissingInv'
<1> SUFFICES ASSUME NEW i \in Kept'
             PROVE  /\ status'[i] = "missing" =>
                          /\ received'[i] = {}
                          /\ \A p \in Peers : assigned'[p] # i
                          /\ \A r \in Runners : ~SendsFor(r, i)'
                          /\ \A p \in Peers, b \in Blocks : <<i, b>> \notin wire'[p]
                    /\ status'[i] = "completed" => received'[i] = Blocks
                    /\ \A r \in Runners : run'[r].at = "verify" /\ run'[r].piece = i
                                             => received'[i] = Blocks
  BY DEF MissingInv
<1>1. /\ i \in Kept /\ received[i] \subseteq received'[i]
      /\ status'[i] = "missing" => status[i] = "missing"
      /\ status'[i] = "completed" => status[i] = "completed" \/ received[i] = Blocks
      /\ received'[i] # received[i] => \E p \in Peers, b \in Blocks : <<i, b>> \in wire[p]
  BY KeptFacts
<1>2. i \in Pieces /\ received'[i] \subseteq Blocks
  <2>1. i \in Pieces
    BY DEF Kept
  <2>2. received' \in [Pieces -> SUBSET Blocks]
    BY BaseStep DEF BaseInv, BlocksTyped
  <2> QED
    BY <2>1, <2>2
<1>3. received[i] = Blocks => received'[i] = Blocks
  BY <1>1, <1>2
<1>4. ASSUME status'[i] = "missing"
      PROVE  /\ received'[i] = {}
             /\ \A p \in Peers : assigned'[p] # i
             /\ \A r \in Runners : ~SendsFor(r, i)'
             /\ \A p \in Peers, b \in Blocks : <<i, b>> \notin wire'[p]
  <2>1. /\ status[i] = "missing" /\ received[i] = {}
        /\ \A p \in Peers : assigned[p] # i
        /\ \A r \in Runners : ~SendsFor(r, i)
        /\ \A p \in Peers, b \in Blocks : <<i, b>> \notin wire[p]
    BY <1>1, <1>4 DEF MissingInv
  <2>2. received'[i] = {}
    BY <1>1, <2>1
  <2>3. ASSUME NEW r \in Runners, Begins(r, i) PROVE FALSE
    BY <1>4, <2>3 DEF Begins
  <2>4. \A p \in Peers : assigned'[p] # i
    BY <1>2, <2>1, <2>3, AssignFacts
  <2>5. \A r \in Runners : ~SendsFor(r, i)'
    <3> SUFFICES ASSUME NEW r \in Runners, SendsFor(r, i)' PROVE FALSE
      OBVIOUS
    <3>1. Continues(r) \/ Begins(r, i)
      BY WorkFacts DEF SendsFor, Begins
    <3>2. ~Continues(r)
      BY <2>1 DEF Continues, SendsFor
    <3> QED
      BY <2>3, <3>1, <3>2
  <2>6. \A p \in Peers, b \in Blocks : <<i, b>> \notin wire'[p]
    <3> SUFFICES ASSUME NEW p \in Peers, NEW b \in Blocks, <<i, b>> \in wire'[p] PROVE FALSE
      OBVIOUS
    <3>1. PICK r \in Runners : Send(r) /\ <<i, b>> = <<run[r].piece, NextBlock(r)>>
      BY <2>1, WireFacts
    <3>2. SendsFor(r, i)
      BY <3>1, SendFacts DEF SendsFor, Sending
    <3> QED
      BY <2>1, <3>2
  <2> QED
    BY <2>2, <2>4, <2>5, <2>6
<1>5. status'[i] = "completed" => received'[i] = Blocks
  BY <1>1, <1>3 DEF MissingInv
<1>6. ASSUME NEW r \in Runners, run'[r].at = "verify", run'[r].piece = i
      PROVE  received'[i] = Blocks
  BY <1>1, <1>3, <1>6, VerifyFacts DEF MissingInv
<1> QED
  BY <1>4, <1>5, <1>6

\* The steps keep a piece with one peer.
LEMMA ExclusiveStep ==
    ASSUME BaseInv, MissingInv, ExclusiveInv, [Next]_vars
    PROVE  ExclusiveInv'
<1> SUFFICES ASSUME NEW i \in Kept', NEW p \in Peers, NEW q \in Peers,
                    assigned'[p] = i, assigned'[q] = i, p # q
             PROVE  FALSE
  BY DEF ExclusiveInv
<1>1. i \in Kept /\ i \in Pieces
  BY KeptBefore DEF Kept
<1>2. ASSUME NEW x \in Peers, NEW y \in Peers, x # y, assigned'[x] = i, assigned'[y] = i,
             assigned[x] # i
      PROVE  FALSE
  <2>1. PICK r \in Runners : /\ Begins(r, i) /\ run[r].peer = x
                             /\ status[i] = "missing" \/ i \in Open
    BY <1>1, <1>2, AssignFacts
  <2>2. assigned'[y] = assigned[y]
    BY <1>2, <2>1 DEF Begins, BaseInv, BlocksTyped
  <2>3. assigned[y] # i
    BY <1>1, <2>1 DEF MissingInv, Open
  <2> QED
    BY <1>2, <2>2, <2>3
<1>3. assigned[p] = i /\ assigned[q] = i
  BY <1>2
<1> QED
  BY <1>1, <1>3 DEF ExclusiveInv

\* A piece in progress that a caller begins with is not complete, and was
\* nobody's but the caller's peer's.
LEMMA BeginsAlone ==
    ASSUME BaseInv, MissingInv, ExclusiveInv, WorkInv, NEW r \in Runners, NEW i \in Kept,
           Begins(r, i)
    PROVE  /\ \A s \in Runners, q \in Peers : Works(s, q, i) => q = run[r].peer
           /\ \A q \in Peers : assigned[q] = i => q = run[r].peer
<1>1. i \in Pieces /\ run[r].peer \in Peers
  BY DEF Kept, Begins
<1>2. CASE status[i] = "missing"
  BY <1>2 DEF MissingInv, Works
<1>3. CASE assigned[run[r].peer] = i /\ Requestable(i) # {}
  <2>1. received[i] # Blocks
    BY <1>3 DEF Requestable
  <2>2. \A q \in Peers : assigned[q] = i => q = run[r].peer
    BY <1>1, <1>3 DEF ExclusiveInv
  <2> QED
    BY <2>1, <2>2 DEF WorkInv
<1>4. CASE i \in Open
  <2>1. received[i] # Blocks /\ \A q \in Peers : assigned[q] # i
    BY <1>4 DEF Open, Requestable
  <2> QED
    BY <2>1 DEF WorkInv
<1> QED
  BY <1>2, <1>3, <1>4 DEF Begins

\* The steps keep the senders with the peer that has the piece.
LEMMA WorkStep ==
    ASSUME BaseInv, BaseInv', MissingInv, ExclusiveInv, WorkInv, [Next]_vars
    PROVE  WorkInv'
<1>1. ASSUME NEW i \in Kept', NEW r \in Runners, NEW p \in Peers, Works(r, p, i)'
      PROVE  assigned'[p] = i \/ received'[i] = Blocks
  <2>1. i \in Kept /\ i \in Pieces /\ (received[i] = Blocks => received'[i] = Blocks)
    <3>1. i \in Kept /\ received[i] \subseteq received'[i] /\ i \in Pieces
      BY KeptFacts DEF Kept
    <3>2. received'[i] \subseteq Blocks
      BY <3>1 DEF BaseInv, BlocksTyped
    <3> QED
      BY <3>1, <3>2
  <2>2. CASE Begins(r, i) /\ run[r].peer = p
    BY <2>2 DEF Begins, BaseInv, BlocksTyped
  <2>3. CASE Works(r, p, i) /\ Continues(r)
    <3>1. assigned[p] = i \/ received[i] = Blocks
      BY <2>1, <2>3 DEF WorkInv
    <3> SUFFICES ASSUME assigned[p] = i, assigned'[p] # i, received[i] # Blocks PROVE FALSE
      BY <2>1, <3>1
    <3>2. p \in up
      BY <2>3, BaseFacts DEF Works, SendsFor, Sending, RunFits
    <3>3. ASSUME NEW s \in Runners, turn = s,
                 letGo' = [letGo EXCEPT !.pieces = @ \cup BeingAsked(p)],
                 s # r \/ run[r].at = "drain"
          PROVE  FALSE
      <4>1. run[r].at = "drain"
        BY <2>3, <3>3, BaseFacts DEF Works, SendsFor, Sending, RunFits, InTurn
      <4>2. i \in BeingAsked(p)
        BY <2>3, <4>1 DEF BeingAsked, Drains, Works, SendsFor
      <4>3. i \in letGo'.pieces
        BY <3>3, <4>2 DEF BaseInv, RestTyped
      <4> QED
        BY <4>3 DEF Kept
    <3>4. ASSUME NEW s \in Runners, NEW j, New(s, j), run[s].peer = p PROVE FALSE
      <4>1. assigned[p] = NoPiece
        BY <3>4, BaseFacts DEF New, At, RunFits
      <4> QED
        BY <2>1, <4>1, RequestsAssumption
    <3>5. ASSUME NEW s \in Runners, NEW j \in Pieces, Fallback(s, j), run[s].peer = p PROVE FALSE
      <4>1. /\ turn = s /\ run[s].at \in {"new", "fallback"}
            /\ letGo' = [letGo EXCEPT !.pieces = @ \cup BeingAsked(p)]
        BY <3>5, FallbackFacts
      <4> QED
        BY <2>3, <3>3, <4>1 DEF Works, SendsFor, Sending
    <3>6. ASSUME NEW s \in Runners, Sent(s), run[s].peer = p, run[s].of = "own",
                 received[run[s].piece] = Blocks,
                 letGo' = [letGo EXCEPT !.pieces = @ \cup BeingAsked(p)]
          PROVE  FALSE
      <4>1. turn = s /\ run[s].at = "sending"
        BY <3>6, SentFacts
      <4>2. s # r
        BY <2>3, <3>6 DEF Works, SendsFor
      <4> QED
        BY <3>3, <3>6, <4>1, <4>2
    <3> QED
      BY <3>2, <3>4, <3>5, <3>6, UnassignFacts
  <2> QED
    BY <1>1, <2>1, <2>2, <2>3, WorksFacts
<1>2. ASSUME NEW i \in Kept', NEW r \in Runners, NEW s \in Runners, NEW p \in Peers,
             NEW q \in Peers,
             Works(r, p, i)', Works(s, q, i)', p # q
      PROVE  FALSE
  <2>1. i \in Kept /\ i \in Pieces
    BY KeptBefore DEF Kept
  <2>2. ASSUME NEW x \in Runners, NEW y \in Runners, NEW v \in Peers, NEW w \in Peers, v # w,
               Works(x, v, i)', Works(y, w, i)', Begins(x, i)
        PROVE  FALSE
    <3>1. x # y
      BY <2>2 DEF Works
    <3>2. Works(y, w, i)
      BY <2>2, <3>1, OthersWorked
    <3>3. run[x].peer = v
      BY <2>2 DEF Works, Begins
    <3> QED
      BY <2>1, <2>2, <3>2, <3>3, BeginsAlone
  <2>3. Works(r, p, i) /\ Works(s, q, i)
    BY <1>2, <2>1, <2>2, WorksFacts
  <2> QED
    BY <1>2, <2>1, <2>3 DEF WorkInv
<1> QED
  BY <1>1, <1>2 DEF WorkInv

\* Main came to wait on a connection that is gone because it ended meanwhile.
LEMMA DeadFacts ==
    ASSUME BaseInv, [Next]_vars, MainIsDead'
    PROVE  /\ run[Main].at = "drain" /\ run'[Main].peer = run[Main].peer
           /\ run'[Main].piece = run[Main].piece /\ run'[Main].todo = run[Main].todo
           /\ MainIsDead \/ Lose(run[Main].peer)
<1> Main \in Runners
  BY DEF Runners
<1> DEFINE Goal == /\ run[Main].at = "drain" /\ run'[Main].peer = run[Main].peer
                   /\ run'[Main].piece = run[Main].piece /\ run'[Main].todo = run[Main].todo
                   /\ MainIsDead \/ Lose(run[Main].peer)
<1>1. ASSUME run'[Main] = run[Main] PROVE Goal
  BY <1>1 DEF MainIsDead
<1>2. ASSUME NEW p \in Peers, Lose(p) PROVE Goal
  <2>1. p # Main
    BY RequestsAssumption
  <2>2. /\ run'[Main].at = run[Main].at /\ run'[Main].peer = run[Main].peer
        /\ run'[Main].piece = run[Main].piece /\ run'[Main].todo = run[Main].todo
        /\ run'[Main].dead <=> run[Main].dead \/ (run[Main].at = "drain" /\ run[Main].peer = p)
    BY <1>2, <2>1, LoseFacts
  <2> QED
    BY <1>2, <2>2 DEF MainIsDead
<1>3. ASSUME NEW s \in Runners,
             \/ Own(s) \/ Send(s) \/ Drained(s) \/ Sent(s)
             \/ \E taken \in BOOLEAN : DrainedDead(s, taken)
             \/ \E i \in Pieces : New(s, i) \/ Fallback(s, i)
      PROVE  OthersSame(s) /\ (s = Main => run'[s].at # "drain" \/ ~run'[s].dead)
  BY <1>3, OwnFacts, SendFacts, DrainedFacts, SentFacts, DrainedDeadFacts, NewFacts,
     FallbackFacts DEF Starts, GoesOn, Leaves
<1>4. ASSUME CalmStep PROVE run'[Main] = run[Main]
  BY <1>4, CalmFacts DEF MainIsDead
<1>5. UNCHANGED vars => run'[Main] = run[Main]
  BY DEF vars
<1>6. ASSUME NEW s \in Runners, OthersSame(s), s = Main => run'[s].at # "drain" \/ ~run'[s].dead
      PROVE  run'[Main] = run[Main]
  BY <1>6 DEF OthersSame, MainIsDead
<1> HIDE DEF Goal
<1>7. Goal
  BY <1>1, <1>2, <1>3, <1>4, <1>5, <1>6, StepCases
<1> QED
  BY <1>7 DEF Goal

\* The steps keep what is said of a dead caller.
LEMMA DeadSendsOldStep ==
    ASSUME BaseInv, MissingInv, WorkInv, DeadSendsOld, [Next]_vars
    PROVE  DeadSendsOld'
<1> SUFFICES ASSUME NEW i \in Kept', NEW s \in Peers, MainIsDead', run'[Main].piece = i,
                    SendsFor(s, i)', run'[s].of = "new"
             PROVE  FALSE
  BY DEF DeadSendsOld
<1>1. i \in Kept /\ s \in Runners /\ Main \in Runners /\ s # Main
  BY KeptBefore, RequestsAssumption DEF Runners
<1>2. /\ run[Main].at = "drain" /\ run[Main].piece = i
      /\ MainIsDead \/ Lose(run[Main].peer)
  BY DeadFacts
<1>3. SendsFor(Main, i)
  BY <1>2 DEF SendsFor, Sending
<1>4. CASE Begins(s, i)
  <2>1. status[i] = "missing"
    BY <1>4 DEF Begins
  <2> QED
    BY <1>1, <1>3, <2>1 DEF MissingInv
<1>5. CASE Continues(s) /\ SendsFor(s, i) /\ run[s].of = "new"
  <2>1. CASE MainIsDead
    BY <1>1, <1>2, <1>5, <2>1 DEF DeadSendsOld
  <2>2. CASE ~MainIsDead /\ Lose(run[Main].peer)
    <3>1. /\ run[Main].peer \in Peers /\ run[s].peer = s /\ ~run[s].dead
      BY <1>1, <1>2, <1>5, BaseFacts DEF RunFits, SendsFor, Sending
    <3>2. Works(Main, run[Main].peer, i) /\ Works(s, s, i)
      BY <1>2, <1>3, <1>5, <2>2, <3>1 DEF Works, MainIsDead
    <3>3. s = run[Main].peer
      BY <1>1, <3>1, <3>2 DEF WorkInv
    <3>4. run'[s].at = "idle"
      BY <2>2, <3>1, <3>3, LoseFacts
    <3> QED
      BY <3>4 DEF SendsFor, Sending
  <2> QED
    BY <1>2, <2>1, <2>2
<1>6. Begins(s, i) \/ (Continues(s) /\ SendsFor(s, i) /\ run[s].of = "new")
  BY <1>1, WorkFacts DEF SendsFor, Continues, Begins
<1> QED
  BY <1>4, <1>5, <1>6

\* The steps keep all that is said of a piece.
LEMMA PieceStep == BaseInv /\ BaseInv' /\ PieceInv /\ [Next]_vars => PieceInv'
  BY LinkStep, MissingStep, ExclusiveStep, WorkStep, DeadSendsOldStep DEF PieceInv

-----------------------------------------------------------------------------
(* The steps keep what is said of a request. *)

\* The mark of a request goes with the request, with the answer, or when a
\* caller marks the block for another peer.
LEMMA OwnerFacts ==
    ASSUME BaseInv, LinkInv, MissingInv, [Next]_vars, NEW q \in Peers, NEW i \in Kept',
           NEW b \in Blocks, owner[i][b] = q, owner'[i][b] # q, <<i, b>> \in wire[q]
    PROVE  \/ <<i, b>> \notin wire'[q] \/ b \in received'[i]
           \/ \E r \in Runners : /\ SendsFor(r, i) /\ run[r].peer \in Peers \ {q}
                                 /\ b \in run[r].todo /\ run[r].at = "drain"
                                 /\ ~run[r].dead \/ r = Main
<1> DEFINE Marks(r) == /\ SendsFor(r, i) /\ run[r].peer \in Peers \ {q}
                       /\ b \in run[r].todo /\ run[r].at = "drain"
                       /\ ~run[r].dead \/ r = Main
           Goal == <<i, b>> \notin wire'[q] \/ b \in received'[i] \/ \E r \in Runners : Marks(r)
<1>t. /\ owner \in [Pieces -> [Blocks -> Peers \cup {NoPeer}]] /\ i \in Pieces
      /\ received \in [Pieces -> SUBSET Blocks] /\ q \in up /\ i \in Kept
      /\ wire \in [Peers -> SUBSET (Pieces \X Blocks)]
  BY KeptBefore DEF Kept, LinkInv, BaseInv, BlocksTyped, ConnsTyped
<1>1. owner' # owner
  OBVIOUS
<1>2. ASSUME NEW j, NEW c, NEW p, Mark(j, c, p) PROVE j = i /\ c = b /\ p # q
  BY <1>t, <1>2 DEF Mark
<1>3. ASSUME NEW r \in Runners, Drained(r) \/ \E taken \in BOOLEAN : DrainedDead(r, taken)
      PROVE  Marks(r)
  <2>1. /\ run[r].at = "drain"
        /\ ~run[r].dead \/ r = Main
        /\ run[r].peer \in Peers /\ NextBlock(r) \in run[r].todo
        /\ Mark(run[r].piece, NextBlock(r), run[r].peer)
    BY <1>1, <1>3, DrainedFacts, DrainedDeadFacts
  <2> QED
    BY <1>2, <2>1 DEF SendsFor, Sending
<1>4. ASSUME NEW p \in Peers, Choke(p) PROVE Goal
  <2>1. owner' = [j \in Pieces |-> Freed(p, j)] /\ wire' = [wire EXCEPT ![p] = {}]
    BY <1>4 DEF Choke, ClearPeerRequests
  <2>2. p = q
    BY <1>t, <2>1 DEF Freed
  <2> QED
    BY <1>t, <2>1, <2>2
<1>5. ~ \E p \in Peers : Cleanup(p)
  <2> SUFFICES ASSUME NEW p \in Peers, Cleanup(p) PROVE FALSE
    OBVIOUS
  <2>1. owner' = [j \in Pieces |-> Freed(p, j)] /\ p \notin up
    BY DEF Cleanup, ClearPeerRequests
  <2>2. p = q
    BY <1>t, <2>1 DEF Freed
  <2> QED
    BY <1>t, <2>1, <2>2
<1>6. ASSUME NEW p \in Peers, NEW j \in Pieces, NEW c \in Blocks, Deliver(p, j, c) PROVE Goal
  <2>1. /\ owner' = [owner EXCEPT ![j][c] = NoPeer]
        /\ received' = [received EXCEPT ![j] = @ \cup {c}]
    BY <1>1, <1>6 DEF Deliver
  <2>2. j = i /\ c = b
    BY <1>t, <2>1
  <2> QED
    BY <1>t, <2>1, <2>2
<1>7. ASSUME NEW j \in Pieces, StaleReset(j) PROVE Goal
  <2>1. owner' = [owner EXCEPT ![j] = [c \in Blocks |-> NoPeer]] /\ j \in letGo'.pieces
    BY <1>7 DEF StaleReset, Reset, BaseInv, RestTyped
  <2>2. j # i
    BY <2>1 DEF Kept
  <2> QED
    BY <1>t, <2>1, <2>2
<1>8. ASSUME NEW p \in Peers, Verified(p) PROVE Goal
  <2> DEFINE j == run[p].piece
  <2>1. /\ run[p].at = "verify" /\ j \in Pieces /\ p \in Runners
        /\ received[j] # Blocks /\ owner' = [owner EXCEPT ![j] = [c \in Blocks |-> NoPeer]]
    BY <1>1, <1>8, BaseFacts DEF Verified, Reset, RunFits, Runners
  <2>2. j # i
    BY <1>t, <2>1 DEF MissingInv
  <2> QED
    BY <1>t, <2>1, <2>2
<1>9. ASSUME NEW r \in Runners,
             \/ Own(r) \/ Send(r) \/ Sent(r) \/ NoneOpen(r)
             \/ \E j \in Pieces : New(r, j) \/ Fallback(r, j)
      PROVE  owner' = owner
  BY <1>9 DEF Own, Send, Sent, NoneOpen, New, Fallback, blockVars
<1>10. ASSUME NEW p \in Peers, Lose(p) \/ Ask(p) \/ Unstick(p) \/ Connect(p) \/ Unchoke(p)
       PROVE  owner' = owner
  BY <1>10 DEF Lose, Ask, Unstick, Connect, Unchoke, blockVars
<1>11. ASSUME NEW j \in Pieces, NEW c \in Blocks, BlockLate(j, c) PROVE owner' = owner
  BY <1>11 DEF BlockLate
<1>12. UNCHANGED vars => owner' = owner
  BY DEF vars, blockVars
<1> HIDE DEF Goal, Marks
<1>13. (\E r \in Runners : Marks(r)) => Goal
  BY DEF Goal
<1>14. Goal
  BY <1>1, <1>3, <1>4, <1>5, <1>6, <1>7, <1>8, <1>9, <1>10, <1>11, <1>12, <1>13, StepCases
  DEF CalmStep
<1> QED
  BY <1>14 DEF Goal, Marks

\* A suspended caller stays so until it marks its block, unless its peer is gone.
LEMMA MarkFacts ==
    ASSUME BaseInv, [Next]_vars, NEW r \in Runners, NEW q \in Peers, NEW i \in Pieces,
           NEW b \in Blocks, AboutToMark(r, q, i, b)
    PROVE  AboutToMark(r, q, i, b)' \/ owner'[i][b] = q \/ b \in received'[i] \/ wire'[q] = {}
<1> DEFINE Goal == AboutToMark(r, q, i, b)' \/ owner'[i][b] = q \/ b \in received'[i]
                   \/ wire'[q] = {}
<1>1. run[r].at = "drain" /\ ~run[r].dead /\ run[r].peer = q /\ run[r].piece = i
      /\ NextBlock(r) = b
  BY DEF AboutToMark, Works, SendsFor
<1>2. ASSUME run'[r] = run[r] PROVE Goal
  BY <1>1, <1>2 DEF AboutToMark, Works, SendsFor, Sending, NextBlock
<1>3. ASSUME NEW s \in Runners,
             \/ Own(s) \/ Send(s) \/ Drained(s) \/ Sent(s)
             \/ \E taken \in BOOLEAN : DrainedDead(s, taken)
             \/ \E j \in Pieces : New(s, j) \/ Fallback(s, j)
      PROVE  OthersSame(s) /\ (s = r => Drained(r))
  BY <1>1, <1>3, OwnFacts, SendFacts, DrainedFacts, SentFacts, DrainedDeadFacts, NewFacts,
     FallbackFacts DEF Starts, GoesOn, Leaves
<1>4. ASSUME Drained(r) PROVE Goal
  <2>1. Mark(i, b, q) /\ received' = received
    BY <1>1, <1>4, DrainedFacts
  <2>2. owner \in [Pieces -> [Blocks -> Peers \cup {NoPeer}]]
    BY DEF BaseInv, BlocksTyped
  <2> QED
    BY <2>1, <2>2 DEF Mark
<1>5. ASSUME NEW p \in Peers, Lose(p) PROVE Goal
  <2>1. CASE p = q
    BY <1>5, <2>1, LoseFacts DEF BaseInv, ConnsTyped
  <2>2. CASE p # q
    <3>1. r # p
      BY <1>1, <2>2, BaseFacts, RequestsAssumption DEF RunFits
    <3>2. /\ run'[r].at = run[r].at /\ run'[r].peer = run[r].peer
          /\ run'[r].piece = run[r].piece /\ run'[r].todo = run[r].todo /\ ~run'[r].dead
      BY <1>1, <1>5, <2>2, <3>1, LoseFacts
    <3> QED
      BY <1>1, <3>2 DEF AboutToMark, Works, SendsFor, Sending, NextBlock
  <2> QED
    BY <2>1, <2>2
<1>6. CalmStep => run'[r] = run[r]
  BY <1>1, CalmFacts
<1>7. UNCHANGED vars => run'[r] = run[r]
  BY DEF vars
<1>8. ASSUME NEW s \in Runners, s # r, OthersSame(s) PROVE run'[r] = run[r]
  BY <1>8 DEF OthersSame
<1> HIDE DEF Goal
<1>9. Goal
  BY <1>2, <1>3, <1>4, <1>5, <1>6, <1>7, <1>8, StepCases
<1> QED
  BY <1>9 DEF Goal

\* Step 3 is reached from a new piece.
LEMMA Step3Facts ==
    ASSUME BaseInv, [Next]_vars, NEW r \in Runners, run'[r].at = "fallback"
    PROVE  /\ run'[r].peer = run[r].peer
           /\ run[r].at = "fallback" \/ (Sending(r) /\ run[r].of = "new")
<1> DEFINE Goal == /\ run'[r].peer = run[r].peer
                   /\ run[r].at = "fallback" \/ (Sending(r) /\ run[r].of = "new")
<1>1. ASSUME run'[r] = run[r] PROVE Goal
  BY <1>1
<1>2. ASSUME NEW s \in Runners,
             \/ Own(s) \/ Send(s) \/ Drained(s)
             \/ \E taken \in BOOLEAN : DrainedDead(s, taken)
             \/ \E i \in Pieces : New(s, i) \/ Fallback(s, i)
      PROVE  OthersSame(s) /\ run'[s].at # "fallback"
  BY <1>2, OwnFacts, SendFacts, DrainedFacts, DrainedDeadFacts, NewFacts,
     FallbackFacts DEF Starts, GoesOn, Leaves
<1>3. ASSUME NEW s \in Runners, Sent(s), s # r PROVE run'[r] = run[r]
  BY <1>3, SentFacts DEF Leaves, OthersSame
<1>4. ASSUME Sent(r) PROVE Goal
  BY <1>4, SentFacts DEF Sending
<1>5. ASSUME NEW p \in Peers, Lose(p) PROVE Goal
  BY <1>5, LoseFacts
<1>6. CalmStep => run'[r] = run[r]
  BY CalmFacts
<1>7. UNCHANGED vars => run'[r] = run[r]
  BY DEF vars
<1>8. ASSUME NEW s \in Runners, OthersSame(s), run'[s].at # "fallback" PROVE run'[r] = run[r]
  BY <1>8 DEF OthersSame
<1> HIDE DEF Goal
<1>9. Goal
  BY <1>1, <1>2, <1>3, <1>4, <1>5, <1>6, <1>7, <1>8, StepCases
<1> QED
  BY <1>9 DEF Goal

\* A peer that is firmly assigned a kept piece stays so until the piece is complete.
LEMMA FirmFacts ==
    ASSUME BaseInv, BaseInv', MissingInv, [Next]_vars, NEW q \in up, NEW i \in Kept', Firm(q, i)
    PROVE  Firm(q, i)' \/ received'[i] = Blocks
<1>1. /\ i \in Kept /\ i \in Pieces /\ q \in Peers /\ i # NoPiece
      /\ received[i] = Blocks => received'[i] = Blocks
  <2>1. i \in Kept /\ received[i] \subseteq received'[i] /\ i \in Pieces
    BY KeptFacts DEF Kept
  <2>2. received'[i] \subseteq Blocks /\ q \in Peers
    BY <2>1 DEF BaseInv, BlocksTyped, ConnsTyped
  <2> QED
    BY <2>1, <2>2, RequestsAssumption
<1> SUFFICES ASSUME received[i] # Blocks PROVE Firm(q, i)'
  BY <1>1
<1>2. assigned'[q] = i
  <2>1. ASSUME NEW r \in Runners, New(r, assigned'[q]), run[r].peer = q PROVE FALSE
    BY <2>1 DEF New, At, Firm
  <2>2. ASSUME NEW r \in Runners, NEW j \in Pieces, Fallback(r, j), run[r].peer = q PROVE FALSE
    BY <2>2 DEF Fallback, AtStep3, At, Firm
  <2>3. ASSUME NEW r \in Runners, Sent(r), run[r].peer = q, received[run[r].piece] = Blocks
        PROVE  FALSE
    BY <2>3 DEF Sent, At, Firm, Sending
  <2> QED
    BY <1>1, <2>1, <2>2, <2>3, UnassignFacts DEF Firm
<1>3. ASSUME NEW r \in Runners, run'[r].peer = q
      PROVE  run'[r].at \notin {"new", "fallback"}
  <2>1. run'[r].at # "new"
    BY <1>1, <1>2, <1>3 DEF BaseInv, RunInv, RunFits
  <2>2. run'[r].at # "fallback"
    BY <1>3, Step3Facts DEF Firm
  <2> QED
    BY <2>1, <2>2
<1>4. ASSUME NEW r \in Runners, run'[r].peer = q, Sending(r)'
      PROVE  run'[r].piece = i /\ run'[r].of # "new"
  <2>1. CASE Continues(r)
    BY <1>4, <2>1 DEF Continues, Firm
  <2>2. ASSUME NEW j \in Pieces, Begins(r, j) PROVE run'[r].piece = i /\ run'[r].of # "new"
    <3>1. run[r].peer = q /\ run[r].at \notin {"new", "fallback"} /\ assigned[q] = i
      BY <1>4, <2>2 DEF Begins, Firm
    <3> QED
      BY <1>1, <2>2, <3>1 DEF Begins
  <2> QED
    BY <1>4, <2>1, <2>2, WorkFacts
<1> QED
  BY <1>2, <1>3, <1>4 DEF Firm

\* Whoever sends a request works for the peer, on a block it has left.
LEMMA SenderWorks ==
    ASSUME BaseInv, NEW r \in Runners, Send(r)
    PROVE  Works(r, run[r].peer, run[r].piece) /\ NextBlock(r) \in run[r].todo
  BY SendFacts DEF Works, SendsFor, Sending

\* A caller begins, and goes on, with blocks that are on no other wire.
LEMMA TodoStep ==
    ASSUME BaseInv, LinkInv, MissingInv, ExclusiveInv, WorkInv, WireInv, TodoInv, [Next]_vars
    PROVE  TodoInv'
<1> SUFFICES ASSUME NEW r \in Runners, NEW p \in Peers, NEW q \in Peers, NEW i \in Pieces,
                    NEW b \in Blocks, Certain(i, b)', p # q, Works(r, p, i)',
                    b \in run'[r].todo, <<i, b>> \in wire'[q]
             PROVE  FALSE
  BY DEF TodoInv
<1>1. Certain(i, b) /\ i \in Kept
  BY KeptBefore DEF Certain
<1>2. CASE Works(r, p, i) /\ Continues(r)
  <2>1. b \in run[r].todo
    BY <1>2 DEF Continues
  <2>2. <<i, b>> \notin wire[q]
    BY <1>1, <1>2, <2>1 DEF TodoInv
  <2>3. PICK s \in Runners : /\ Send(s) /\ run[s].peer = q
                             /\ <<i, b>> = <<run[s].piece, NextBlock(s)>>
    BY <2>2, WireFacts
  <2>4. Works(s, q, i)
    BY <2>3, SenderWorks
  <2> QED
    BY <1>1, <1>2, <2>4 DEF WorkInv
<1>3. CASE Begins(r, i) /\ run[r].peer = p
  <2>1. <<i, b>> \in wire[q]
    BY <1>3 DEF Begins
  <2>2. /\ \A s \in Runners : ~Works(s, q, i)
        /\ assigned[q] # i
    BY <1>1, <1>3, BeginsAlone
  <2>3. status[i] # "missing"
    BY <1>1, <2>1 DEF MissingInv
  <2>4. b \in Requestable(i)
    BY <1>3, <2>3 DEF Begins
  <2>5. b \notin received[i] /\ owner[i][b] = NoPeer
    BY <1>1, <2>4 DEF Requestable, Certain, LinkInv
  <2>6. owner[i][b] = q
    BY <1>1, <2>1, <2>2, <2>5 DEF WireInv, Firm, AboutToMark
  <2> QED
    BY <2>5, <2>6, RequestsAssumption
<1> QED
  BY <1>2, <1>3, WorksFacts

\* What a dead caller may still mark does no harm.
LEMMA DeadStep ==
    ASSUME BaseInv, BaseInv', LinkInv, MissingInv, WorkInv, DeadSendsOld, TodoInv, DeadInv,
           [Next]_vars
    PROVE  DeadInv'
<1> SUFFICES ASSUME NEW p \in Peers, NEW q \in Peers, NEW i \in Pieces, NEW b \in Blocks,
                    Certain(i, b)', p # q, <<i, b>> \in wire'[q], MainIsDead',
                    run'[Main].peer = p, run'[Main].piece = i, b \in run'[Main].todo
             PROVE  b \in received'[i] \/ Firm(q, i)'
  BY DEF DeadInv
<1>1. /\ Certain(i, b) /\ i \in Kept /\ i \in Kept' /\ Main \in Runners
      /\ received[i] \subseteq received'[i]
  BY KeptBefore, KeptFacts DEF Certain, Runners
<1>2. /\ run[Main].at = "drain" /\ run[Main].peer = p /\ run[Main].piece = i
      /\ b \in run[Main].todo /\ (MainIsDead \/ Lose(p))
  BY DeadFacts
<1>3. CASE ~MainIsDead /\ Lose(p)
  <2>1. Works(Main, p, i)
    BY <1>2, <1>3 DEF Works, SendsFor, Sending, MainIsDead
  <2>2. <<i, b>> \notin wire[q]
    BY <1>1, <1>2, <2>1 DEF TodoInv
  <2>3. wire'[q] = wire[q]
    BY <1>3 DEF Lose, BaseInv, ConnsTyped
  <2> QED
    BY <2>2, <2>3
<1>4. CASE MainIsDead /\ <<i, b>> \in wire[q]
  <2>1. b \in received[i] \/ Firm(q, i)
    BY <1>1, <1>2, <1>4 DEF DeadInv
  <2>2. q \in up
    BY <1>4 DEF LinkInv
  <2> QED
    BY <1>1, <2>1, <2>2, FirmFacts
<1>5. CASE MainIsDead /\ <<i, b>> \notin wire[q]
  <2>1. PICK s \in Runners : /\ Send(s) /\ run[s].peer = q
                             /\ <<i, b>> = <<run[s].piece, NextBlock(s)>>
    BY <1>5, WireFacts
  <2>2. /\ Works(s, q, i) /\ run[s].at = "sending" /\ assigned' = assigned
        /\ GoesOn(s, "drain", run[s].todo)
    BY <2>1, SenderWorks, SendFacts
  <2>3. s # Main /\ s \in Peers /\ s = q
    BY <1>2, <2>1, <2>2, BaseFacts DEF Runners, RunFits
  <2>4. run[s].of # "new"
    BY <1>1, <1>2, <1>5, <2>2, <2>3 DEF DeadSendsOld, Works
  <2>5. CASE received[i] = Blocks
    BY <1>1, <2>5
  <2>6. CASE assigned[q] = i
    <3>1. ASSUME NEW r \in Runners, run'[r].peer = q, r # s
          PROVE  run'[r].at \in {"idle", "verify"}
      BY <1>1, <2>3, <3>1 DEF BaseInv, RunInv, RunFits
    <3>2. run'[s].at = "drain" /\ run'[s].piece = i /\ run'[s].of # "new"
      BY <2>2, <2>4 DEF GoesOn, Works, SendsFor
    <3>3. assigned'[q] = i
      BY <2>2, <2>6
    <3>4. ASSUME NEW r \in Runners, run'[r].peer = q
          PROVE  /\ run'[r].at \notin {"new", "fallback"}
                 /\ Sending(r)' => run'[r].piece = i /\ run'[r].of # "new"
      BY <3>1, <3>2, <3>4 DEF Sending
    <3> QED
      BY <3>3, <3>4 DEF Firm
  <2> QED
    BY <1>1, <2>2, <2>5, <2>6 DEF WorkInv
<1> QED
  BY <1>2, <1>3, <1>4, <1>5

\* A request on the wire stays accounted for.
LEMMA WireStep ==
    ASSUME BaseInv, BaseInv', LinkInv, MissingInv, WireInv, TodoInv, DeadInv, [Next]_vars
    PROVE  WireInv'
<1> SUFFICES ASSUME NEW q \in Peers, NEW i \in Pieces, NEW b \in Blocks, Certain(i, b)',
                    <<i, b>> \in wire'[q]
             PROVE  \/ b \in received'[i] \/ owner'[i][b] = q \/ Firm(q, i)'
                    \/ \E r \in Runners : AboutToMark(r, q, i, b)'
  BY DEF WireInv
<1>1. /\ Certain(i, b) /\ i \in Kept /\ i \in Kept' /\ received[i] \subseteq received'[i]
  BY KeptBefore, KeptFacts DEF Certain
<1>2. CASE <<i, b>> \notin wire[q]
  <2>1. PICK r \in Runners : /\ Send(r) /\ run[r].peer = q
                             /\ <<i, b>> = <<run[r].piece, NextBlock(r)>>
    BY <1>2, WireFacts
  <2>2. GoesOn(r, "drain", run[r].todo) /\ ~run[r].dead
    BY <2>1, SendFacts
  <2>3. NextBlock(r)' = NextBlock(r)
    BY <2>2 DEF GoesOn, NextBlock
  <2>4. AboutToMark(r, q, i, b)'
    BY <2>1, <2>2, <2>3 DEF GoesOn, AboutToMark, Works, SendsFor, Sending
  <2> QED
    BY <2>4
<1>3. CASE <<i, b>> \in wire[q]
  <2>1. q \in up
    BY <1>3 DEF LinkInv
  <2>2. CASE b \in received[i]
    BY <1>1, <2>2
  <2>3. CASE Firm(q, i)
    BY <1>1, <2>1, <2>3, FirmFacts
  <2>4. ASSUME NEW r \in Runners, AboutToMark(r, q, i, b)
        PROVE  AboutToMark(r, q, i, b)' \/ owner'[i][b] = q \/ b \in received'[i]
    BY <2>4, MarkFacts
  <2>5. CASE owner[i][b] = q /\ owner'[i][b] # q /\ b \notin received'[i]
    <3>1. PICK r \in Runners : /\ SendsFor(r, i) /\ run[r].peer \in Peers \ {q}
                               /\ b \in run[r].todo /\ run[r].at = "drain"
                               /\ ~run[r].dead \/ r = Main
      BY <1>1, <1>3, <2>5, OwnerFacts
    <3>2. CASE ~run[r].dead
      BY <1>1, <1>3, <3>1, <3>2 DEF TodoInv, Works
    <3>3. CASE run[r].dead
      <4>1. MainIsDead /\ r = Main
        BY <3>1, <3>3 DEF MainIsDead
      <4>2. b \in received[i] \/ Firm(q, i)
        BY <1>1, <1>3, <3>1, <4>1 DEF DeadInv, SendsFor
      <4> QED
        BY <2>2, <2>3, <4>2
    <3> QED
      BY <3>2, <3>3
  <2> QED
    BY <1>1, <1>3, <2>2, <2>3, <2>4, <2>5 DEF WireInv
<1> QED
  BY <1>2, <1>3

\* No request is doubled: what is sent was on no other wire.
LEMMA DoubleStep ==
    ASSUME BaseInv, WorkInv, TodoInv, NoDoubleRequest, [Next]_vars
    PROVE  NoDoubleRequest'
<1> SUFFICES ASSUME NEW p \in Peers, NEW q \in Peers, NEW x \in wire'[p] \cap wire'[q], p # q,
                    x \notin letGo'.blocks, x[1] \notin letGo'.pieces
             PROVE  FALSE
  BY DEF NoDoubleRequest
<1>1. PICK i \in Pieces, b \in Blocks : x = <<i, b>>
  <2>1. wire' \in [Peers -> SUBSET (Pieces \X Blocks)]
    BY BaseStep DEF BaseInv, ConnsTyped
  <2> QED
    BY <2>1
<1>2. i \in Kept' /\ Certain(i, b) /\ i \in Kept
  <2>1. Certain(i, b)' /\ i \in Kept'
    BY <1>1 DEF Kept, Certain
  <2> QED
    BY <2>1, KeptBefore
<1>3. ASSUME NEW v \in Peers, NEW w \in Peers, v # w, x \in wire'[v], x \in wire'[w],
             x \notin wire[v]
      PROVE  FALSE
  <2>1. PICK r \in Runners : Send(r) /\ run[r].peer = v /\ x = <<run[r].piece, NextBlock(r)>>
    BY <1>3, WireFacts
  <2>2. Works(r, v, i) /\ b \in run[r].todo
    BY <1>1, <2>1, SenderWorks
  <2>3. <<i, b>> \notin wire[w]
    BY <1>2, <1>3, <2>2 DEF TodoInv
  <2>4. PICK s \in Runners : Send(s) /\ run[s].peer = w /\ x = <<run[s].piece, NextBlock(s)>>
    BY <1>1, <1>3, <2>3, WireFacts
  <2>5. Works(s, w, i)
    BY <1>1, <2>4, SenderWorks
  <2> QED
    BY <1>2, <1>3, <2>2, <2>5 DEF WorkInv
<1>4. x \in wire[p] /\ x \in wire[q]
  BY <1>3
<1>5. x \notin letGo.blocks /\ x[1] \notin letGo.pieces
  BY LetGoGrows
<1> QED
  BY <1>4, <1>5 DEF NoDoubleRequest

\* The steps keep all that is said of a request.
LEMMA AskStep == BaseInv /\ BaseInv' /\ PieceInv /\ AskInv /\ [Next]_vars => AskInv'
  BY TodoStep, DeadStep, WireStep, DoubleStep DEF PieceInv, AskInv

\* At the start nobody works on anything.
LEMMA SafetyInit == Init => PieceInv /\ AskInv
<1> SUFFICES ASSUME Init PROVE PieceInv /\ AskInv
  OBVIOUS
<1>1. \A r \in Runners : run[r].at = "idle"
  BY DEF Init, Idle
<1>2. \A p \in Peers : wire[p] = {} /\ assigned[p] = NoPiece
  BY DEF Init
<1>3. \A i \in Pieces : status[i] = "missing" /\ received[i] = {}
  BY DEF Init
<1>4. late = {} /\ Main \in Runners /\ NoPiece \notin Pieces /\ Kept \subseteq Pieces
  BY RequestsAssumption DEF Init, Runners, Kept
<1>5. PieceInv
  BY <1>1, <1>2, <1>3, <1>4
  DEF PieceInv, LinkInv, MissingInv, ExclusiveInv, WorkInv, DeadSendsOld, Works, SendsFor,
      Sending, MainIsDead
<1>6. AskInv
  BY <1>1, <1>2, <1>4
  DEF AskInv, WireInv, TodoInv, DeadInv, NoDoubleRequest, MainIsDead
<1> QED
  BY <1>5, <1>6

\* The inductive invariant always holds.
LEMMA SafetyAlways == Spec => [](PieceInv /\ AskInv)
  BY SafetyInit, PieceStep, AskStep, BaseAlways, PTL DEF Spec

\* Two peers have one piece assigned only after a timer or a caller of one of
\* them gave it up (_request_from_peer, steps 1 to 3, and whoever clears an
\* assignment).
THEOREM OnePeerPerPiece == Spec => []AssignmentIsExclusive
<1>1. BaseInv /\ PieceInv => AssignmentIsExclusive
  BY DEF PieceInv, ExclusiveInv, AssignmentIsExclusive, Kept, BaseInv, BlocksTyped
<1> QED
  BY <1>1, SafetyAlways, BaseAlways, PTL

\* One block is on the wires of two peers only if it, or its piece, was given
\* up while a request for it was under way.
THEOREM NoBlockIsAskedTwice == Spec => []NoDoubleRequest
<1>1. AskInv => NoDoubleRequest
  BY DEF AskInv
<1> QED
  BY <1>1, SafetyAlways, PTL

==============================================================================
