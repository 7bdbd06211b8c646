------------------------- MODULE BlockRequestsProofs -------------------------
(***************************************************************************)
(* What holds of BlockRequests whatever the peers, the pieces, the blocks  *)
(* of a piece and the limits are: the counter of a connection is bounded   *)
(* and covers what is on the wire, two peers are given one piece, or asked *)
(* for one block, only after a timer or a caller let it go.                *)
(***************************************************************************)
EXTENDS BlockRequests, FiniteSetTheorems, WellFoundedInduction, TLAPS

(***************************************************************************)
(* The callers.                                                            *)
(***************************************************************************)

\* Where a caller has the event loop.
InTurn == {"own", "new", "fallback", "sending"}

\* A caller runs only in its turn, works for a peer, its own if it is a
\* message loop's, and has what its point of the code needs; only the main
\* loop waits on a connection that is gone.
RunFits(r) ==
    /\ run[r].at \in InTurn <=> turn = r
    /\ run[r].at \notin {"idle", "verify"} => run[r].peer \in Peers
    /\ r # Main /\ run[r].at \notin {"idle", "verify"} => run[r].peer = r
    /\ run[r].at \in {"sending", "drain", "verify"} => run[r].piece \in Pieces
    /\ run[r].at = "drain" => run[r].todo # {} /\ run[r].left > 0
    /\ run[r].at = "new" => assigned[run[r].peer] = NoPiece
    /\ run[r].dead => r = Main
    /\ run[r].at \notin {"idle", "verify"} /\ ~run[r].dead => run[r].peer \in up
    /\ run[r].at = "verify" => r \in up

RunInv == \A r \in Runners : RunFits(r)

\* A step of one caller, in its turn or beginning it.
LEMMA OneRuns ==
    ASSUME RunInv, NEW r \in Runners, turn \in {r, NoRunner}, turn' \in {r, NoRunner},
           \A q \in Runners : q # r => run'[q] = run[q],
           up' = up, RunFits(r)'
    PROVE  RunInv'
<1> SUFFICES ASSUME NEW q \in Runners, q # r PROVE RunFits(q)'
  BY DEF RunInv
<1>1. run'[q] = run[q] /\ RunFits(q)
  BY DEF RunInv
<1>2. q # NoRunner
  BY RequestsAssumption DEF Runners
<1>3. run[q].at \notin InTurn
  BY <1>1, <1>2 DEF RunFits
<1> QED
  BY <1>1, <1>2, <1>3 DEF RunFits, InTurn

\* A step between turns that leaves the callers alone.
LEMMA NobodyRuns ==
    ASSUME RunInv, Free, UNCHANGED <<run, turn>>, up \subseteq up'
    PROVE  RunInv'
<1> SUFFICES ASSUME NEW q \in Runners PROVE RunFits(q)'
  BY DEF RunInv
<1>1. RunFits(q) /\ q # NoRunner
  BY RequestsAssumption DEF RunInv, Runners
<1>2. run[q].at \notin InTurn
  BY <1>1 DEF RunFits, Free
<1> QED
  BY <1>1, <1>2 DEF RunFits, InTurn

\* The block a caller comes to next is one of those it has left.
LEMMA NextBlockIs ==
    ASSUME NEW r \in Runners, run[r].todo \in SUBSET Blocks, run[r].todo # {}
    PROVE  NextBlock(r) \in run[r].todo /\ NextBlock(r) \in Blocks
<1>1. run[r].todo \subseteq Nat
  BY RequestsAssumption DEF Blocks
<1>2. PICK b \in run[r].todo : \A c \in run[r].todo : <<c, b>> \notin OpToRel(<, Nat)
  BY <1>1, WFMin, NatLessThanWellFounded
<1>3. \A c \in run[r].todo : c \in Nat /\ b \in Nat => ~ (c < b)
  BY <1>2, Zenon DEF OpToRel
<1>4. \A c \in run[r].todo : b <= c
  BY <1>1, <1>3
<1> QED
  BY <1>4 DEF NextBlock

\* The variables by what they are about.
BlocksTyped ==
    /\ status \in [Pieces -> {"missing", "in_progress", "completed"}]
    /\ received \in [Pieces -> SUBSET Blocks]
    /\ owner \in [Pieces -> [Blocks -> Peers \cup {NoPeer}]]
    /\ late \subseteq Pieces \X Blocks
    /\ assigned \in [Peers -> Pieces \cup {NoPiece}]

ConnsTyped ==
    /\ up \subseteq pool /\ pool \subseteq Peers
    /\ choking \subseteq Peers
    /\ pending \in [Peers -> Nat]
    /\ wire \in [Peers -> SUBSET (Pieces \X Blocks)]

RestTyped ==
    /\ turn \in Runners \cup {NoRunner}
    /\ faults \in 0 .. MaxFaults
    /\ letGo \in [blocks : SUBSET (Pieces \X Blocks), pieces : SUBSET Pieces,
                     peers : SUBSET Peers]

RunsTyped == run \in [Runners -> Runs]

BaseInv == BlocksTyped /\ ConnsTyped /\ RestTyped /\ RunsTyped /\ RunInv

\* What BaseInv says of the parts of the state the steps use.
LEMMA BaseFacts ==
    ASSUME BaseInv
    PROVE  /\ \A r \in Runners : RunFits(r) /\ run[r] \in Runs
           /\ \A r \in Runners : /\ run[r].todo \in SUBSET Blocks
                                 /\ run[r].left \in 0 .. MaxPending
                                 /\ run[r].dead \in BOOLEAN
                                 /\ run[r].peer \in Peers \cup {NoPeer}
                                 /\ run[r].piece \in Pieces \cup {NoPiece}
           /\ TypeOK
  BY DEF BaseInv, RunInv, RunsTyped, Runs, BlocksTyped, ConnsTyped, RestTyped, TypeOK

-----------------------------------------------------------------------------
(* How a caller begins, goes on and ends. *)

\* A call of _request_from_peer for a peer that is up.
LEMMA EnterRuns ==
    ASSUME BaseInv, NEW r \in Runners, NEW p \in up, NEW capacity \in 0 .. MaxPending,
           turn = NoRunner, r # Main => p = r, up' = up, Enter(r, p, capacity)
    PROVE  RunsTyped' /\ RunInv'
<1>1. p \in Peers
  BY DEF BaseInv, ConnsTyped
<1>2. [Idle EXCEPT !.at = "own", !.peer = p, !.left = capacity] \in Runs
  BY <1>1, RequestsAssumption DEF Idle, Runs
<1>3. /\ run' = [run EXCEPT ![r] = [Idle EXCEPT !.at = "own", !.peer = p, !.left = capacity]]
      /\ turn' = r
  BY DEF Enter
<1>4. RunsTyped'
  BY <1>2, <1>3 DEF BaseInv, RunsTyped
<1>5. RunFits(r)'
  <2>1. run'[r] = [Idle EXCEPT !.at = "own", !.peer = p, !.left = capacity]
    BY <1>3 DEF BaseInv, RunsTyped
  <2>2. run'[r].at = "own" /\ run'[r].peer = p /\ ~run'[r].dead
    BY <2>1 DEF Idle
  <2> QED
    BY <1>1, <1>3, <2>2 DEF RunFits, InTurn
<1>6. \A q \in Runners : q # r => run'[q] = run[q]
  BY <1>3 DEF BaseInv, RunsTyped
<1> QED
  BY <1>3, <1>4, <1>5, <1>6, OneRuns DEF BaseInv

\* A caller becomes idle.
LEMMA IdleRuns ==
    ASSUME BaseInv, NEW r \in Runners, turn \in {r, NoRunner}, turn' = NoRunner, up' = up,
           run' = [run EXCEPT ![r] = Idle]
    PROVE  RunsTyped' /\ RunInv'
<1>1. Idle \in Runs
  BY RequestsAssumption DEF Idle, Runs
<1>2. run'[r] = Idle /\ r # NoRunner /\ \A q \in Runners : q # r => run'[q] = run[q]
  BY RequestsAssumption DEF BaseInv, RunsTyped, Runners
<1>3. RunsTyped'
  BY <1>1 DEF BaseInv, RunsTyped
<1>4. run'[r].at = "idle" /\ ~run'[r].dead
  BY <1>2 DEF Idle
<1>5. RunFits(r)'
  BY <1>2, <1>4 DEF RunFits, InTurn
<1> QED
  BY <1>2, <1>3, <1>5, OneRuns DEF BaseInv

\* A fault is one of those the bound allows.
LEMMA FaultCounts == RestTyped /\ Fault => faults' \in 0 .. MaxFaults
  BY RequestsAssumption DEF RestTyped, Fault

-----------------------------------------------------------------------------
(* What one caller's steps do. *)

\* Step 1.
LEMMA OwnBase == ASSUME BaseInv, NEW r \in Runners, Own(r) PROVE BaseInv'
<1> DEFINE p == run[r].peer
           i == assigned[p]
<1>1. run[r].at = "own" /\ turn = r /\ p \in Peers /\ RunFits(r) /\ run[r] \in Runs
  BY BaseFacts DEF Own, At, RunFits
<1>2. i \in Pieces \cup {NoPiece} /\ UNCHANGED <<blockVars, connVars, faults, letGo>>
  BY <1>1 DEF Own, BaseInv, BlocksTyped
<1>3. CASE i # NoPiece /\ StartSending(r, i, "own", Requestable(i)) /\ UNCHANGED assigned
  <2>1. RunsTyped' /\ turn' = r /\ \A q \in Runners : q # r => run'[q] = run[q]
    BY <1>1, <1>2, <1>3 DEF StartSending, BaseInv, RunsTyped, Runs, Requestable
  <2>2. RunFits(r)'
    BY <1>1, <1>2, <1>3 DEF StartSending, BaseInv, RunsTyped, RunFits, InTurn, connVars
  <2> QED
    BY <1>1, <1>2, <1>3, <2>1, <2>2, OneRuns
    DEF BaseInv, BlocksTyped, ConnsTyped, RestTyped, blockVars, connVars
<1>4. CASE Return(r) /\ UNCHANGED assigned
  <2>1. RunsTyped' /\ turn' = NoRunner /\ \A q \in Runners : q # r => run'[q] = run[q]
    BY <1>1, <1>2, <1>4, RequestsAssumption DEF Return, BaseInv, RunsTyped, Runs, Idle
  <2>2. RunFits(r)'
    BY <1>1, <1>4, RequestsAssumption
    DEF Return, BaseInv, RunsTyped, RunFits, InTurn, Idle, Runners
  <2> QED
    BY <1>1, <1>2, <1>4, <2>1, <2>2, OneRuns
    DEF BaseInv, BlocksTyped, ConnsTyped, RestTyped, blockVars, connVars
<1>5. CASE assigned' = [assigned EXCEPT ![p] = NoPiece] /\ Goto(r, "new")
  <2>1. RunsTyped' /\ turn' = r /\ \A q \in Runners : q # r => run'[q] = run[q]
    BY <1>1, <1>2, <1>5 DEF Goto, BaseInv, RunsTyped, Runs
  <2>2. RunFits(r)'
    BY <1>1, <1>2, <1>5 DEF Goto, BaseInv, RunsTyped, RunFits, InTurn, connVars, BlocksTyped
  <2> QED
    BY <1>1, <1>2, <1>5, <2>1, <2>2, OneRuns
    DEF BaseInv, BlocksTyped, ConnsTyped, RestTyped, blockVars, connVars
<1> QED
  BY <1>3, <1>4, <1>5 DEF Own

\* Step 2 starts a piece.
LEMMA NewBase == ASSUME BaseInv, NEW r \in Runners, NEW i \in Pieces, New(r, i) PROVE BaseInv'
<1>1. run[r].at = "new" /\ turn = r /\ run[r].peer \in Peers /\ RunFits(r) /\ run[r] \in Runs
  BY BaseFacts DEF New, At, RunFits
<1>2. RunsTyped' /\ turn' \in {r, NoRunner} /\ \A q \in Runners : q # r => run'[q] = run[q]
  BY <1>1, RequestsAssumption DEF New, StartSending, BaseInv, RunsTyped, Runs
<1>3. RunFits(r)'
  BY <1>1, RequestsAssumption
  DEF New, StartSending, BaseInv, RunsTyped, RunFits, InTurn, Runners, connVars
<1>4. BlocksTyped' /\ ConnsTyped' /\ RestTyped' /\ up' = up
  BY <1>1
  DEF New, StartSending, BaseInv, BlocksTyped, ConnsTyped, RestTyped, blockVars, connVars
<1> QED
  BY <1>1, <1>2, <1>3, <1>4, OneRuns DEF BaseInv

\* Step 3 takes a piece over.
LEMMA FallbackBase ==
    ASSUME BaseInv, NEW r \in Runners, NEW i \in Pieces, Fallback(r, i)
    PROVE  BaseInv'
<1>1. /\ run[r].at \in {"new", "fallback"} /\ turn = r /\ run[r].peer \in Peers
      /\ RunFits(r) /\ run[r] \in Runs /\ BeingAsked(run[r].peer) \subseteq Pieces
  BY BaseFacts DEF Fallback, AtStep3, At, RunFits, BeingAsked, Drains
<1>2. RunsTyped' /\ turn' \in {r, NoRunner} /\ \A q \in Runners : q # r => run'[q] = run[q]
  BY <1>1, RequestsAssumption DEF Fallback, StartSending, Requestable, BaseInv, RunsTyped, Runs
<1>3. RunFits(r)'
  BY <1>1, RequestsAssumption
  DEF Fallback, StartSending, BaseInv, RunsTyped, RunFits, InTurn, Runners, connVars
<1>4. BlocksTyped' /\ ConnsTyped' /\ RestTyped' /\ up' = up
  BY <1>1
  DEF Fallback, StartSending, BaseInv, BlocksTyped, ConnsTyped, RestTyped, blockVars, connVars
<1> QED
  BY <1>1, <1>2, <1>3, <1>4, OneRuns DEF BaseInv

\* Step 3 finds nothing.
LEMMA NoneOpenBase == ASSUME BaseInv, NEW r \in Runners, NoneOpen(r) PROVE BaseInv'
<1>1. run[r].at \in {"new", "fallback"} /\ turn = r /\ RunFits(r)
  BY BaseFacts DEF NoneOpen, AtStep3, At, RunFits
<1>2. RunsTyped' /\ turn' \in {r, NoRunner} /\ \A q \in Runners : q # r => run'[q] = run[q]
  BY <1>1, RequestsAssumption DEF NoneOpen, Return, Idle, BaseInv, RunsTyped, Runs
<1>3. RunFits(r)'
  BY <1>1, RequestsAssumption
  DEF NoneOpen, Return, Idle, BaseInv, RunsTyped, RunFits, InTurn, Runners, connVars
<1>4. BlocksTyped' /\ ConnsTyped' /\ RestTyped' /\ up' = up
  BY <1>1 DEF NoneOpen, Return, BaseInv, BlocksTyped, ConnsTyped, RestTyped, blockVars, connVars
<1> QED
  BY <1>1, <1>2, <1>3, <1>4, OneRuns DEF BaseInv

\* A request is written.
LEMMA SendBase == ASSUME BaseInv, NEW r \in Runners, Send(r) PROVE BaseInv'
<1>1. /\ run[r].at = "sending" /\ turn = r /\ run[r].peer \in Peers /\ run[r].piece \in Pieces
      /\ run[r].todo \in SUBSET Blocks /\ run[r].todo # {} /\ RunFits(r)
  BY BaseFacts DEF Send, At, RunFits
<1>2. RunsTyped' /\ turn' \in {r, NoRunner} /\ \A q \in Runners : q # r => run'[q] = run[q]
  BY <1>1, RequestsAssumption DEF Send, BaseInv, RunsTyped, Runs
<1>3. RunFits(r)'
  BY <1>1, RequestsAssumption DEF Send, BaseInv, RunsTyped, RunFits, InTurn, Runners, connVars
<1>a. NextBlock(r) \in Blocks
  BY <1>1, NextBlockIs
<1>4. BlocksTyped' /\ ConnsTyped' /\ RestTyped' /\ up' = up
  BY <1>1, <1>a DEF Send, BaseInv, BlocksTyped, ConnsTyped, RestTyped, blockVars, connVars
<1> QED
  BY <1>1, <1>2, <1>3, <1>4, OneRuns DEF BaseInv

\* Its drain is over.
LEMMA DrainedBase == ASSUME BaseInv, NEW r \in Runners, Drained(r) PROVE BaseInv'
<1> DEFINE b == NextBlock(r)
           left == run[r].left - 1
<1>1. /\ run[r].at = "drain" /\ turn = NoRunner
      /\ run[r].peer \in Peers /\ run[r].piece \in Pieces
      /\ run[r].todo \in SUBSET Blocks /\ run[r].todo # {} /\ RunFits(r) /\ run[r] \in Runs
      /\ run[r].left \in 0 .. MaxPending /\ run[r].left > 0 /\ ~run[r].dead
  BY BaseFacts DEF Drained, Free, RunFits
<1>2. b \in Blocks /\ left \in 0 .. MaxPending
  BY <1>1, NextBlockIs, RequestsAssumption
<1>3. /\ run' = [run EXCEPT ![r] = [run[r] EXCEPT !.at = "sending", !.todo = run[r].todo \ {b},
                                                  !.left = left]]
      /\ turn' = r
      /\ UNCHANGED <<status, received, assigned, pool, up, choking, wire, faults, letGo>>
      /\ pending' = [pending EXCEPT ![run[r].peer] = @ + 1]
      /\ Mark(run[r].piece, b, run[r].peer)
  BY <1>1 DEF Drained, BaseInv, RunsTyped, Runs
<1> HIDE DEF b, left
<1>4. RunsTyped' /\ \A q \in Runners : q # r => run'[q] = run[q]
  BY <1>1, <1>2, <1>3 DEF BaseInv, RunsTyped, Runs
<1>5. /\ run'[r].at = "sending" /\ run'[r].peer = run[r].peer /\ run'[r].piece = run[r].piece
      /\ run'[r].dead = run[r].dead
  BY <1>1, <1>3 DEF BaseInv, RunsTyped, Runs
<1>6. RunFits(r)'
  BY <1>1, <1>3, <1>5 DEF RunFits, InTurn
<1>7. BlocksTyped' /\ ConnsTyped' /\ RestTyped' /\ up' = up
  <2>1. BlocksTyped'
    BY <1>1, <1>2, <1>3 DEF Mark, BaseInv, BlocksTyped
  <2> QED
    BY <1>1, <1>3, <2>1 DEF BaseInv, ConnsTyped, RestTyped
<1> QED
  BY <1>1, <1>3, <1>4, <1>6, <1>7, OneRuns DEF BaseInv

\* Its drain is over, and so is the connection.
LEMMA DrainedDeadBase ==
    ASSUME BaseInv, NEW r \in Runners, NEW taken \in BOOLEAN, DrainedDead(r, taken)
    PROVE  BaseInv'
<1> DEFINE b == NextBlock(r)
           left == IF taken THEN run[r].left - 1 ELSE run[r].left
<1>1. /\ run[r].at = "drain" /\ turn = NoRunner
      /\ run[r].peer \in Peers /\ run[r].piece \in Pieces
      /\ run[r].todo \in SUBSET Blocks /\ run[r].todo # {} /\ RunFits(r) /\ run[r] \in Runs
      /\ run[r].left \in 0 .. MaxPending /\ run[r].left > 0 /\ run[r].dead
  BY BaseFacts DEF DrainedDead, Free, RunFits
<1>2. b \in Blocks /\ left \in 0 .. MaxPending
  BY <1>1, NextBlockIs, RequestsAssumption
<1>3. /\ run' = [run EXCEPT ![r] = [run[r] EXCEPT !.at = "sending", !.todo = {}, !.left = left]]
      /\ turn' = r /\ UNCHANGED <<status, received, assigned, connVars, faults, letGo>>
      /\ Mark(run[r].piece, b, run[r].peer) \/ UNCHANGED <<owner, late>>
  BY <1>1 DEF DrainedDead, BaseInv, RunsTyped, Runs
<1> HIDE DEF b, left
<1>4. RunsTyped' /\ \A q \in Runners : q # r => run'[q] = run[q]
  BY <1>1, <1>2, <1>3 DEF BaseInv, RunsTyped, Runs
<1>5. /\ run'[r].at = "sending" /\ run'[r].peer = run[r].peer /\ run'[r].piece = run[r].piece
      /\ run'[r].dead = run[r].dead
  BY <1>1, <1>3 DEF BaseInv, RunsTyped, Runs
<1>6. RunFits(r)'
  BY <1>1, <1>3, <1>5 DEF RunFits, InTurn
<1>7. BlocksTyped' /\ ConnsTyped' /\ RestTyped' /\ up' = up
  <2>1. BlocksTyped'
    BY SMTT(40), <1>1, <1>2, <1>3 DEF Mark, BaseInv, BlocksTyped
  <2> QED
    BY <1>1, <1>3, <2>1 DEF BaseInv, ConnsTyped, RestTyped, connVars
<1> QED
  BY <1>1, <1>3, <1>4, <1>6, <1>7, OneRuns DEF BaseInv

\* The loop ends.
LEMMA SentBase == ASSUME BaseInv, NEW r \in Runners, Sent(r) PROVE BaseInv'
<1> DEFINE p == run[r].peer
<1>1. /\ run[r].at = "sending" /\ turn = r /\ p \in Peers /\ RunFits(r) /\ run[r] \in Runs
      /\ BeingAsked(p) \subseteq Pieces
  BY BaseFacts DEF Sent, At, RunFits, BeingAsked, Drains
<1>2. UNCHANGED <<blockVars, connVars, faults>>
  BY DEF Sent
<1>3. CASE Return(r) /\ UNCHANGED <<assigned, letGo>>
  <2>1. RunsTyped' /\ RunInv'
    BY <1>1, <1>2, <1>3, IdleRuns DEF Return, connVars
  <2> QED
    BY <1>2, <1>3, <2>1, RequestsAssumption
    DEF Return, BaseInv, BlocksTyped, ConnsTyped, RestTyped, blockVars, connVars
<1>4. ASSUME NEW at \in {"new", "fallback"}, Goto(r, at),
             at = "new" => assigned' = [assigned EXCEPT ![p] = NoPiece]
                           /\ letGo' = [letGo EXCEPT !.pieces = @ \cup BeingAsked(p)],
             at = "fallback" => UNCHANGED <<assigned, letGo>>
      PROVE  BaseInv'
  <2>1. run' = [run EXCEPT ![r] = [run[r] EXCEPT !.at = at]] /\ turn' = r
    BY <1>1, <1>4 DEF Goto, BaseInv, RunsTyped
  <2>2. RunsTyped' /\ \A q \in Runners : q # r => run'[q] = run[q]
    BY <1>1, <1>4, <2>1 DEF BaseInv, RunsTyped, Runs
  <2>3. run'[r].at = at /\ run'[r].peer = p /\ run'[r].dead = run[r].dead
    BY <1>1, <2>1 DEF BaseInv, RunsTyped, Runs
  <2>4. assigned' \in [Peers -> Pieces \cup {NoPiece}] /\ (at = "new" => assigned'[p] = NoPiece)
    BY <1>1, <1>4 DEF BaseInv, BlocksTyped
  <2>5. RunFits(r)'
    BY <1>1, <1>2, <1>4, <2>1, <2>3, <2>4 DEF RunFits, InTurn, connVars
  <2>6. BlocksTyped' /\ ConnsTyped' /\ RestTyped' /\ up' = up
    <3>1. letGo' \in [blocks : SUBSET (Pieces \X Blocks), pieces : SUBSET Pieces,
                      peers : SUBSET Peers]
      BY <1>1, <1>4 DEF BaseInv, RestTyped
    <3> QED
      BY <1>2, <2>1, <2>4, <3>1
      DEF BaseInv, BlocksTyped, ConnsTyped, RestTyped, blockVars, connVars
  <2> QED
    BY <1>1, <2>1, <2>2, <2>5, <2>6, OneRuns DEF BaseInv
<1> QED
  BY <1>3, <1>4 DEF Sent

\* The main loop comes to a peer.
LEMMA AskBase == ASSUME BaseInv, NEW p \in Peers, Ask(p) PROVE BaseInv'
<1>1. pending[p] \in Nat /\ MaxPending - pending[p] \in 0 .. MaxPending /\ p \in up
  BY RequestsAssumption DEF Ask, BaseInv, ConnsTyped
<1>2. RunsTyped' /\ RunInv'
  BY <1>1, EnterRuns DEF Ask, Free, Runners, connVars
<1> QED
  BY <1>2
  DEF Ask, Enter, Runners, BaseInv, BlocksTyped, ConnsTyped, RestTyped, blockVars, connVars

\* The main loop comes to a peer whose counter it takes for stuck.
LEMMA UnstickBase == ASSUME BaseInv, NEW p \in Peers, Unstick(p) PROVE BaseInv'
<1>1. MaxPending \in 0 .. MaxPending /\ p \in up
  BY RequestsAssumption DEF Unstick
<1>2. RunsTyped' /\ RunInv'
  BY <1>1, EnterRuns DEF Unstick, Free, Runners
<1>3. ConnsTyped'
  BY DEF Unstick, BaseInv, ConnsTyped
<1> QED
  BY <1>2, <1>3 DEF Unstick, Enter, Runners, BaseInv, BlocksTyped, RestTyped, blockVars

\* A peer unchokes us, and is asked in the handler.
LEMMA UnchokeBase == ASSUME BaseInv, NEW p \in Peers, Unchoke(p) PROVE BaseInv'
<1>1. p \in up /\ turn = NoRunner /\ up' = up /\ p \in Runners
  BY DEF Unchoke, Reads, Free, Runners
<1>2. RunsTyped' /\ RunInv' /\ turn' \in Runners \cup {NoRunner}
  <2>1. CASE pending[p] < MaxPending
    <3>1. MaxPending - pending[p] \in 0 .. MaxPending
      BY <2>1, RequestsAssumption DEF BaseInv, ConnsTyped
    <3> QED
      BY <1>1, <2>1, <3>1, EnterRuns DEF Unchoke, Enter
  <2>2. CASE ~(pending[p] < MaxPending)
    BY <1>1, <2>2, NobodyRuns DEF Unchoke, Free, BaseInv, RunsTyped
  <2> QED
    BY <2>1, <2>2
<1> QED
  BY <1>2 DEF Unchoke, BaseInv, BlocksTyped, ConnsTyped, RestTyped, blockVars

\* A block arrives.
LEMMA DeliverBase ==
    ASSUME BaseInv, NEW p \in Peers, NEW i \in Pieces, NEW b \in Blocks, Deliver(p, i, b)
    PROVE  BaseInv'
<1>1. /\ p \in up /\ turn = NoRunner /\ up' = up /\ turn' = turn /\ p \in Runners
      /\ run[p].at = "idle" /\ p # Main /\ p # NoRunner
  BY RequestsAssumption DEF Deliver, Reads, Free, Runners
<1>0. [Idle EXCEPT !.at = "verify", !.piece = i] \in Runs
  <2>1. Idle \in Runs
    BY RequestsAssumption DEF Idle, Runs
  <2> QED
    BY <2>1 DEF Runs
<1>2. RunsTyped' /\ RunInv'
  <2>1. CASE run' = run
    BY <1>1, <2>1, NobodyRuns DEF Free, BaseInv, RunsTyped
  <2>2. CASE run' = [run EXCEPT ![p] = [Idle EXCEPT !.at = "verify", !.piece = i]]
    <3>2. RunsTyped' /\ \A q \in Runners : q # p => run'[q] = run[q]
      BY <1>0, <2>2 DEF BaseInv, RunsTyped
    <3>3. run'[p].at = "verify" /\ run'[p].piece = i /\ ~run'[p].dead
      BY <1>1, <2>2 DEF Idle, BaseInv, RunsTyped
    <3>4. RunFits(p)'
      BY <1>1, <3>3 DEF RunFits, InTurn
    <3> QED
      BY <1>1, <3>2, <3>4, OneRuns DEF BaseInv
  <2> QED
    BY <2>1, <2>2 DEF Deliver
<1>3. BlocksTyped'
  <2> USE DEF BaseInv, BlocksTyped
  <2>1. CASE status[i] = "completed"
    BY <2>1 DEF Deliver
  <2>2. CASE status[i] # "completed"
    <3>1. /\ owner' = [owner EXCEPT ![i][b] = NoPeer]
          /\ late' = late \ {<<i, b>>}
          /\ received' = [received EXCEPT ![i] = @ \cup {b}]
          /\ UNCHANGED <<status, assigned>>
      BY <2>2 DEF Deliver
    <3> QED
      BY <3>1
  <2> QED
    BY <2>1, <2>2
<1>4. ConnsTyped'
  <2>1. pending' \in [Peers -> Nat]
    BY DEF Deliver, Counted, BaseInv, ConnsTyped
  <2> QED
    BY <2>1 DEF Deliver, BaseInv, ConnsTyped
<1> QED
  BY <1>2, <1>3, <1>4 DEF Deliver, BaseInv, RestTyped

\* A verification is over.
LEMMA VerifiedBase == ASSUME BaseInv, NEW p \in Peers, Verified(p) PROVE BaseInv'
<1>1. /\ p \in up /\ turn = NoRunner /\ up' = up /\ p \in Runners
      /\ run[p].at = "verify" /\ run[p].piece \in Pieces
  BY BaseFacts DEF Verified, Free, Runners, RunFits, connVars
<1>2. RunsTyped' /\ RunInv' /\ turn' \in Runners \cup {NoRunner}
  <2>1. CASE Enter(p, p, MaxPending - pending[p]) /\ pending[p] < MaxPending
    <3>1. MaxPending - pending[p] \in 0 .. MaxPending
      BY <2>1, RequestsAssumption DEF BaseInv, ConnsTyped
    <3> QED
      BY <1>1, <2>1, <3>1, EnterRuns DEF Enter
  <2>2. CASE run' = [run EXCEPT ![p] = Idle] /\ UNCHANGED turn
    BY <1>1, <2>2, IdleRuns
  <2> QED
    BY <2>1, <2>2 DEF Verified
<1>3. BlocksTyped'
  <2> USE DEF BaseInv, BlocksTyped
  <2>1. assigned' \in [Peers -> Pieces \cup {NoPiece}]
    BY DEF Verified, Release
  <2>2. CASE Reset(run[p].piece)
    BY <1>1, <2>1, <2>2 DEF Reset
  <2>3. CASE status' = [status EXCEPT ![run[p].piece] = "completed"]
             /\ UNCHANGED <<received, owner, late>>
    BY <1>1, <2>1, <2>3
  <2> QED
    BY <2>2, <2>3 DEF Verified
<1> QED
  BY <1>2, <1>3 DEF Verified, BaseInv, ConnsTyped, RestTyped, connVars

\* A piece is reset by its timer.
LEMMA StaleResetBase == ASSUME BaseInv, NEW i \in Pieces, StaleReset(i) PROVE BaseInv'
<1>1. RunInv'
  BY NobodyRuns DEF StaleReset, BaseInv, connVars, Reads
<1>2. BlocksTyped' /\ RunsTyped'
  BY DEF StaleReset, Reset, BaseInv, BlocksTyped, RunsTyped, connVars
<1>3. ConnsTyped'
  BY DEF StaleReset, BaseInv, ConnsTyped, connVars
<1>4. faults' \in 0 .. MaxFaults
  BY FaultCounts DEF StaleReset, BaseInv, RestTyped
<1>5. RestTyped'
  BY <1>4 DEF StaleReset, BaseInv, RestTyped
<1> QED
  BY <1>1, <1>2, <1>3, <1>5 DEF BaseInv

\* The timer of a block runs out.
LEMMA BlockLateBase ==
    ASSUME BaseInv, NEW i \in Pieces, NEW b \in Blocks, BlockLate(i, b)
    PROVE  BaseInv'
<1>1. RunInv'
  BY NobodyRuns DEF BlockLate, BaseInv, connVars, Reads
<1>2. BlocksTyped' /\ RunsTyped'
  BY DEF BlockLate, BaseInv, BlocksTyped, RunsTyped, connVars
<1>3. ConnsTyped'
  BY DEF BlockLate, BaseInv, ConnsTyped, connVars
<1>4. faults' \in 0 .. MaxFaults
  BY FaultCounts DEF BlockLate, BaseInv, RestTyped
<1>5. RestTyped'
  BY <1>4 DEF BlockLate, BaseInv, RestTyped
<1> QED
  BY <1>1, <1>2, <1>3, <1>5 DEF BaseInv

\* A connection comes up.
LEMMA ConnectBase == ASSUME BaseInv, NEW p \in Peers, Connect(p) PROVE BaseInv'
<1>1. RunInv'
  BY NobodyRuns DEF Connect, BaseInv, connVars, Reads
<1>2. BlocksTyped' /\ ConnsTyped' /\ RestTyped' /\ RunsTyped'
  BY DEF Connect, blockVars, BaseInv, BlocksTyped, ConnsTyped, RestTyped, RunsTyped, connVars
<1> QED
  BY <1>1, <1>2 DEF BaseInv

\* A peer that is gone is cleaned up.
LEMMA CleanupBase == ASSUME BaseInv, NEW p \in Peers, Cleanup(p) PROVE BaseInv'
<1>1. RunInv'
  BY NobodyRuns DEF Cleanup, BaseInv, connVars, Reads
<1>2. BlocksTyped' /\ ConnsTyped' /\ RestTyped' /\ RunsTyped'
  BY
  DEF Cleanup, ClearPeerRequests, Freed, BaseInv, BlocksTyped, ConnsTyped, RestTyped,
      RunsTyped, connVars
<1> QED
  BY <1>1, <1>2 DEF BaseInv

\* A peer chokes us.
LEMMA ChokeBase == ASSUME BaseInv, NEW p \in Peers, Choke(p) PROVE BaseInv'
<1>1. RunInv'
  BY NobodyRuns DEF Choke, BaseInv, connVars, Reads
<1>2. BlocksTyped' /\ RunsTyped'
  BY DEF Choke, ClearPeerRequests, Freed, BaseInv, BlocksTyped, RunsTyped, connVars
<1>3. ConnsTyped'
  BY DEF Choke, BaseInv, ConnsTyped, connVars
<1>4. faults' \in 0 .. MaxFaults
  BY FaultCounts DEF Choke, BaseInv, RestTyped
<1>5. RestTyped'
  BY <1>4 DEF Choke, BaseInv, RestTyped
<1> QED
  BY <1>1, <1>2, <1>3, <1>5 DEF BaseInv

\* A connection ends, under the main loop or not.
LEMMA LoseBase == ASSUME BaseInv, NEW p \in Peers, Lose(p) PROVE BaseInv'
<1>1. BlocksTyped' /\ ConnsTyped' /\ RestTyped'
  BY FaultCounts DEF Lose, blockVars, BaseInv, BlocksTyped, ConnsTyped, RestTyped
<1>2. RunsTyped'
  <2>1. Idle \in Runs
    BY RequestsAssumption DEF Idle, Runs
  <2>2. ASSUME NEW r \in Runners
        PROVE  [run[r] EXCEPT !.dead = @ \/ (run[r].at = "drain" /\ run[r].peer = p)] \in Runs
    BY DEF BaseInv, RunsTyped, Runs
  <2> QED
    BY <2>1, <2>2 DEF Lose, RunsTyped
<1>3. RunInv'
  <2> SUFFICES ASSUME NEW r \in Runners PROVE RunFits(r)'
    BY DEF RunInv
  <2>1. RunFits(r) /\ r # NoRunner /\ turn = NoRunner /\ turn' = turn /\ assigned' = assigned
        /\ up' = up \ {p} /\ run[r] \in Runs
    BY BaseFacts, RequestsAssumption DEF Runners, Lose, Free
  <2>2. CASE r = p
    BY <2>1, <2>2 DEF Lose, RunFits, InTurn, Idle
  <2>3. CASE r # p
    <3>1. run'[r] = [run[r] EXCEPT !.dead = @ \/ (run[r].at = "drain" /\ run[r].peer = p)]
      BY <2>3 DEF Lose
    <3>2. /\ run'[r].at = run[r].at /\ run'[r].peer = run[r].peer /\ run'[r].piece = run[r].piece
          /\ run'[r].todo = run[r].todo /\ run'[r].left = run[r].left
      BY <2>1, <3>1 DEF Runs
    <3>3. run'[r].dead <=> run[r].dead \/ (run[r].at = "drain" /\ run[r].peer = p)
      BY <2>1, <3>1, Zenon DEF Runs
    <3>4. run[r].at = "drain" /\ run[r].peer = p => r = Main
      BY <2>1, <2>3 DEF RunFits
    <3>5. /\ run[r].at \notin InTurn
          /\ r # Main /\ run[r].at # "verify" => r = run[r].peer \/ run[r].at = "idle"
      BY <2>1 DEF RunFits
    <3>6. /\ run'[r].dead => r = Main
          /\ run'[r].at \notin {"idle", "verify"} /\ ~run'[r].dead => run'[r].peer \in up'
      <4>1. /\ run[r].dead => r = Main
            /\ run[r].at \notin {"idle", "verify"} /\ ~run[r].dead => run[r].peer \in up
            /\ run[r].at \in {"idle", "drain", "verify"}
        BY <2>1, <3>5 DEF RunFits, InTurn, Runs
      <4>2. run[r].at \notin {"idle", "verify"} /\ run[r].peer = p => run'[r].dead
        BY <3>3, <4>1
      <4>3. ~run'[r].dead => ~run[r].dead
        BY <3>3
      <4> QED
        BY <2>1, <3>2, <3>3, <3>4, <4>1, <4>2, <4>3
    <3> HIDE DEF InTurn
    <3> QED
      BY <2>1, <2>3, <3>2, <3>5, <3>6 DEF RunFits
  <2> QED
    BY <2>2, <2>3
<1> QED
  BY <1>1, <1>2, <1>3 DEF BaseInv

\* Every step keeps the types and what the callers need.
LEMMA BaseStep == BaseInv /\ [Next]_vars => BaseInv'
<1> SUFFICES ASSUME BaseInv, [Next]_vars PROVE BaseInv'
  OBVIOUS
<1>1. CASE UNCHANGED vars
  BY <1>1 DEF vars, blockVars, connVars, BaseInv, BlocksTyped, ConnsTyped, RestTyped,
              RunsTyped, RunInv, RunFits
<1>2. ASSUME NEW r \in Runners, RunStep(r) PROVE BaseInv'
  BY <1>2, OwnBase, NewBase, FallbackBase, NoneOpenBase, SendBase, DrainedBase,
     DrainedDeadBase, SentBase DEF RunStep
<1>3. ASSUME NEW p \in Peers,
             \/ Ask(p) \/ Unstick(p) \/ Connect(p) \/ Lose(p) \/ Cleanup(p)
             \/ Choke(p) \/ Unchoke(p) \/ Verified(p)
      PROVE  BaseInv'
  BY <1>3, AskBase, UnstickBase, ConnectBase, LoseBase, CleanupBase, ChokeBase, UnchokeBase,
     VerifiedBase
<1> QED
  BY <1>1, <1>2, <1>3, StaleResetBase, BlockLateBase, DeliverBase DEF Next

\* At the start nobody calls.
LEMMA BaseInit == Init => BaseInv
<1> SUFFICES ASSUME Init PROVE BaseInv
  OBVIOUS
<1>1. Idle \in Runs
  BY RequestsAssumption DEF Idle, Runs
<1>2. RunsTyped
  BY <1>1 DEF Init, RunsTyped
<1>3. \A r \in Runners : run[r].at = "idle" /\ ~run[r].dead /\ r # NoRunner
  BY RequestsAssumption DEF Init, Idle, Runners
<1>4. RunInv
  BY <1>3 DEF RunInv, RunFits, InTurn, Init
<1>5. BlocksTyped /\ ConnsTyped /\ RestTyped
  BY RequestsAssumption DEF Init, BlocksTyped, ConnsTyped, RestTyped
<1> QED
  BY <1>2, <1>4, <1>5 DEF BaseInv

\* The types, and what the callers need, always hold.
LEMMA BaseAlways == Spec => []BaseInv
  BY BaseInit, BaseStep, PTL DEF Spec

\* The variables keep their types, whatever the limits are.
THEOREM RequestsAreTyped == Spec => []TypeOK
<1>1. BaseInv => TypeOK
  BY BaseFacts
<1> QED
  BY <1>1, BaseAlways, PTL

-----------------------------------------------------------------------------
(***************************************************************************)
(* What each step does to the callers that are in, or suspended in, the    *)
(* loop of _send_block_requests.                                           *)
(***************************************************************************)
Sending(r) == run[r].at \in {"sending", "drain"}

OthersSame(r) == \A q \in Runners : q # r => run'[q] = run[q]

\* Caller r goes into the loop for piece i.
Starts(r, i, step, blocks) ==
    /\ OthersSame(r)
    /\ run'[r].at = "sending" /\ run'[r].of = step /\ run'[r].piece = i
    /\ run'[r].todo = blocks
    /\ run'[r].peer = run[r].peer /\ run'[r].dead = run[r].dead

\* Caller r stays in the loop, with the rest of what it had.
GoesOn(r, at, blocks) ==
    /\ OthersSame(r)
    /\ run'[r].at = at /\ run'[r].todo = blocks
    /\ run'[r].peer = run[r].peer /\ run'[r].dead = run[r].dead
    /\ run'[r].piece = run[r].piece /\ run'[r].of = run[r].of

\* Caller r leaves the loop, or was not in it and is not.
Leaves(r) == OthersSame(r) /\ run'[r].at \in {"idle", "own", "new", "fallback", "verify"}

\* Step 1 goes on with a piece, waits, or lets go of one that needs nothing.
LEMMA OwnFacts ==
    ASSUME BaseInv, NEW r \in Runners, Own(r)
    PROVE  LET p == run[r].peer
               i == assigned[p]
           IN  /\ turn = r /\ run[r].at = "own" /\ p \in Peers
               /\ UNCHANGED <<blockVars, connVars, letGo>>
               /\ \/ /\ i \in Pieces /\ status[i] = "in_progress" /\ Requestable(i) # {}
                     /\ Starts(r, i, "own", Requestable(i)) /\ assigned' = assigned
                  \/ Leaves(r) /\ run'[r].at = "idle" /\ assigned' = assigned
                  \/ /\ (i \in Pieces /\ status[i] = "in_progress") => received[i] = Blocks
                     /\ Leaves(r) /\ run'[r].at = "new" /\ run'[r].peer = p
                     /\ assigned' = [assigned EXCEPT ![p] = NoPiece]
<1> DEFINE p == run[r].peer
           i == assigned[p]
<1> USE DEF BaseInv, RunsTyped
<1>1. turn = r /\ run[r].at = "own" /\ p \in Peers /\ run[r] \in Runs
  BY BaseFacts DEF Own, At, RunFits
<1>2. UNCHANGED <<blockVars, connVars, letGo>> /\ i \in Pieces \cup {NoPiece}
  BY <1>1 DEF Own, BlocksTyped
<1>3. CASE i # NoPiece /\ status[i] = "in_progress" /\ Requestable(i) # {}
  <2>1. StartSending(r, i, "own", Requestable(i)) /\ assigned' = assigned /\ i \in Pieces
    BY <1>2, <1>3 DEF Own
  <2>2. Starts(r, i, "own", Requestable(i))
    BY <1>1, <2>1 DEF StartSending, Starts, OthersSame, Runs
  <2> QED
    BY <1>1, <1>2, <1>3, <2>1, <2>2
<1>4. CASE ~(i # NoPiece /\ status[i] = "in_progress" /\ Requestable(i) # {})
           /\ i # NoPiece /\ status[i] = "in_progress" /\ received[i] # Blocks
  BY <1>1, <1>2, <1>4 DEF Own, Return, Leaves, OthersSame, Runs, Idle
<1>5. CASE ~(i # NoPiece /\ status[i] = "in_progress" /\ Requestable(i) # {})
           /\ ~(i # NoPiece /\ status[i] = "in_progress" /\ received[i] # Blocks)
  <2>1. assigned' = [assigned EXCEPT ![p] = NoPiece] /\ Goto(r, "new")
    BY <1>5 DEF Own
  <2>2. Leaves(r) /\ run'[r].at = "new" /\ run'[r].peer = p
    BY <1>1, <2>1 DEF Goto, Leaves, OthersSame, Runs
  <2>3. i \in Pieces /\ status[i] = "in_progress" => received[i] = Blocks
    BY <1>5, RequestsAssumption
  <2> QED
    BY <1>1, <1>2, <2>1, <2>2, <2>3
<1> QED
  BY <1>3, <1>4, <1>5

\* Step 2 begins with a piece nobody has begun with.
LEMMA NewFacts ==
    ASSUME BaseInv, NEW r \in Runners, NEW i \in Pieces, New(r, i)
    PROVE  /\ turn = r /\ run[r].at = "new" /\ run[r].peer \in Peers
           /\ assigned[run[r].peer] = NoPiece
           /\ status[i] = "missing" /\ status' = [status EXCEPT ![i] = "in_progress"]
           /\ assigned' = [assigned EXCEPT ![run[r].peer] = i]
           /\ Starts(r, i, "new", Blocks \ received[i])
           /\ UNCHANGED <<received, owner, late, connVars, letGo>>
<1>1. turn = r /\ run[r].at = "new" /\ run[r].peer \in Peers /\ run[r] \in Runs
      /\ assigned[run[r].peer] = NoPiece
  BY BaseFacts DEF New, At, RunFits
<1> QED
  BY <1>1 DEF New, StartSending, Starts, OthersSame, Runs, BaseInv, RunsTyped

\* Step 3 begins with an open piece.
LEMMA FallbackFacts ==
    ASSUME BaseInv, NEW r \in Runners, NEW i \in Pieces, Fallback(r, i)
    PROVE  /\ turn = r /\ run[r].at \in {"new", "fallback"} /\ run[r].peer \in Peers
           /\ i \in Open
           /\ assigned' = [assigned EXCEPT ![run[r].peer] = i]
           /\ letGo' = [letGo EXCEPT !.pieces = @ \cup BeingAsked(run[r].peer)]
           /\ Starts(r, i, "fallback", Requestable(i))
           /\ UNCHANGED <<blockVars, connVars>>
<1>1. turn = r /\ run[r].at \in {"new", "fallback"} /\ run[r].peer \in Peers /\ run[r] \in Runs
  BY BaseFacts DEF Fallback, AtStep3, At, RunFits
<1> QED
  BY <1>1 DEF Fallback, StartSending, Starts, OthersSame, Runs, BaseInv, RunsTyped

\* A request goes on the wire of a peer that is up, and its caller waits.
LEMMA SendFacts ==
    ASSUME BaseInv, NEW r \in Runners, Send(r)
    PROVE  /\ run[r].at = "sending" /\ ~run[r].dead
           /\ run[r].peer \in Peers /\ run[r].piece \in Pieces
           /\ run[r].peer \in up /\ pending[run[r].peer] < MaxPending
           /\ NextBlock(r) \in run[r].todo /\ NextBlock(r) \in Blocks
           /\ GoesOn(r, "drain", run[r].todo)
           /\ wire' = [wire EXCEPT ![run[r].peer] = @ \cup {<<run[r].piece, NextBlock(r)>>}]
           /\ UNCHANGED <<blockVars, assigned, up, pending, letGo>>
<1>1. run[r].at = "sending" /\ run[r].peer \in Peers /\ run[r].piece \in Pieces
      /\ run[r] \in Runs /\ run[r].todo \in SUBSET Blocks
  BY BaseFacts DEF Send, At, RunFits
<1>2. NextBlock(r) \in run[r].todo /\ NextBlock(r) \in Blocks
  BY <1>1, NextBlockIs DEF Send
<1> QED
  BY <1>1, <1>2 DEF Send, Accepts, GoesOn, OthersSame, Runs, BaseInv, RunsTyped

\* The caller goes on, and the request is counted and marked.
LEMMA DrainedFacts ==
    ASSUME BaseInv, NEW r \in Runners, Drained(r)
    PROVE  /\ run[r].at = "drain" /\ ~run[r].dead
           /\ run[r].peer \in Peers /\ run[r].piece \in Pieces
           /\ NextBlock(r) \in run[r].todo /\ NextBlock(r) \in Blocks
           /\ GoesOn(r, "sending", run[r].todo \ {NextBlock(r)})
           /\ pending' = [pending EXCEPT ![run[r].peer] = @ + 1]
           /\ Mark(run[r].piece, NextBlock(r), run[r].peer)
           /\ UNCHANGED <<status, received, assigned, up, wire, letGo>>
<1>1. run[r].at = "drain" /\ run[r].peer \in Peers /\ run[r].piece \in Pieces
      /\ run[r] \in Runs /\ run[r].todo \in SUBSET Blocks /\ run[r].todo # {}
  BY BaseFacts DEF Drained, RunFits
<1>2. NextBlock(r) \in run[r].todo /\ NextBlock(r) \in Blocks
  BY <1>1, NextBlockIs
<1>3. GoesOn(r, "sending", run[r].todo \ {NextBlock(r)})
  BY <1>1 DEF Drained, GoesOn, OthersSame, Runs, BaseInv, RunsTyped
<1> QED
  BY <1>1, <1>2, <1>3 DEF Drained

\* Only the main loop comes back to a connection that is gone.
LEMMA DrainedDeadFacts ==
    ASSUME BaseInv, NEW r \in Runners, NEW taken \in BOOLEAN, DrainedDead(r, taken)
    PROVE  /\ run[r].at = "drain" /\ run[r].dead /\ r = Main
           /\ run[r].peer \in Peers /\ run[r].piece \in Pieces
           /\ NextBlock(r) \in run[r].todo /\ NextBlock(r) \in Blocks
           /\ GoesOn(r, "sending", {})
           /\ Mark(run[r].piece, NextBlock(r), run[r].peer) \/ UNCHANGED <<owner, late>>
           /\ UNCHANGED <<status, received, assigned, connVars, letGo>>
<1>1. run[r].at = "drain" /\ run[r].dead /\ r = Main /\ run[r].peer \in Peers
      /\ run[r].piece \in Pieces /\ run[r] \in Runs /\ run[r].todo \in SUBSET Blocks
      /\ run[r].todo # {}
  BY BaseFacts DEF DrainedDead, RunFits
<1>2. NextBlock(r) \in run[r].todo /\ NextBlock(r) \in Blocks
  BY <1>1, NextBlockIs
<1>3. GoesOn(r, "sending", {})
  BY <1>1 DEF DrainedDead, GoesOn, OthersSame, Runs, BaseInv, RunsTyped
<1> QED
  BY <1>1, <1>2, <1>3 DEF DrainedDead

\* The loop ends; step 1 may let go of a piece that has become complete.
LEMMA SentFacts ==
    ASSUME BaseInv, NEW r \in Runners, Sent(r)
    PROVE  LET p == run[r].peer
           IN  /\ turn = r /\ run[r].at = "sending" /\ p \in Peers /\ run[r].piece \in Pieces
               /\ Leaves(r) /\ UNCHANGED <<blockVars, connVars>>
               /\ \/ run'[r].at = "idle" /\ UNCHANGED <<assigned, letGo>>
                  \/ /\ run[r].of = "new" /\ run'[r].at = "fallback" /\ run'[r].peer = p
                     /\ UNCHANGED <<assigned, letGo>>
                  \/ /\ run[r].of = "own" /\ received[run[r].piece] = Blocks
                     /\ run'[r].at = "new" /\ run'[r].peer = p
                     /\ assigned' = [assigned EXCEPT ![p] = NoPiece]
                     /\ letGo' = [letGo EXCEPT !.pieces = @ \cup BeingAsked(p)]
<1> DEFINE p == run[r].peer
<1>1. turn = r /\ run[r].at = "sending" /\ p \in Peers /\ run[r].piece \in Pieces
      /\ run[r] \in Runs /\ run[r].of \in {"own", "new", "fallback"}
  BY BaseFacts DEF Sent, At, RunFits, Runs
<1>2. UNCHANGED <<blockVars, connVars>>
  BY DEF Sent
<1>3. CASE Return(r) /\ UNCHANGED <<assigned, letGo>>
  BY <1>1, <1>2, <1>3 DEF Return, Leaves, OthersSame, Idle, BaseInv, RunsTyped
<1>4. CASE run[r].of = "new" /\ Goto(r, "fallback") /\ UNCHANGED <<assigned, letGo>>
  BY <1>1, <1>2, <1>4 DEF Goto, Leaves, OthersSame, Runs, BaseInv, RunsTyped
<1>5. CASE /\ run[r].of = "own" /\ received[run[r].piece] = Blocks
           /\ assigned' = [assigned EXCEPT ![p] = NoPiece]
           /\ letGo' = [letGo EXCEPT !.pieces = @ \cup BeingAsked(p)]
           /\ Goto(r, "new")
  <2>1. Leaves(r) /\ run'[r].at = "new" /\ run'[r].peer = p
    BY <1>1, <1>5 DEF Goto, Leaves, OthersSame, Runs, BaseInv, RunsTyped
  <2> QED
    BY <1>1, <1>2, <1>5, <2>1
<1> QED
  BY <1>1, <1>3, <1>4, <1>5 DEF Sent

\* The message loop of the connection is gone, a caller that waits on it is dead.
LEMMA LoseFacts ==
    ASSUME BaseInv, NEW p \in Peers, Lose(p)
    PROVE  /\ turn = NoRunner
           /\ up' = up \ {p} /\ pending' = [pending EXCEPT ![p] = 0]
           /\ wire' = [wire EXCEPT ![p] = {}]
           /\ UNCHANGED <<blockVars, assigned, letGo>>
           /\ run'[p].at = "idle"
           /\ \A r \in Runners : r # p =>
                 /\ run'[r].at = run[r].at /\ run'[r].peer = run[r].peer
                 /\ run'[r].piece = run[r].piece /\ run'[r].todo = run[r].todo
                 /\ run'[r].of = run[r].of
                 /\ run'[r].dead <=> run[r].dead \/ (run[r].at = "drain" /\ run[r].peer = p)
<1>1. p \in Runners
  BY DEF Runners
<1>2. run'[p] = Idle
  BY <1>1 DEF Lose
<1>3. ASSUME NEW r \in Runners, r # p
      PROVE  /\ run'[r].at = run[r].at /\ run'[r].peer = run[r].peer
             /\ run'[r].piece = run[r].piece /\ run'[r].todo = run[r].todo
             /\ run'[r].of = run[r].of
             /\ run'[r].dead <=> run[r].dead \/ (run[r].at = "drain" /\ run[r].peer = p)
  <2>1. run'[r] = [run[r] EXCEPT !.dead = @ \/ (run[r].at = "drain" /\ run[r].peer = p)]
    BY <1>3 DEF Lose
  <2>2. run[r] \in Runs
    BY BaseFacts
  <2>3. /\ run'[r].at = run[r].at /\ run'[r].peer = run[r].peer
        /\ run'[r].piece = run[r].piece /\ run'[r].todo = run[r].todo
        /\ run'[r].of = run[r].of
    BY <2>1, <2>2 DEF Runs
  <2>4. run'[r].dead <=> run[r].dead \/ (run[r].at = "drain" /\ run[r].peer = p)
    BY <2>1, <2>2, Zenon DEF Runs
  <2> QED
    BY <2>3, <2>4
<1>4. run'[p].at = "idle"
  BY <1>2 DEF Idle
<1> QED
  BY <1>3, <1>4 DEF Lose, Free

\* The other steps: the callers in the loop stay as they are, and nobody
\* comes to it.
CalmStep ==
    \/ \E p \in Peers : \/ Ask(p) \/ Unstick(p) \/ Connect(p) \/ Cleanup(p)
                        \/ Choke(p) \/ Unchoke(p) \/ Verified(p)
    \/ \E i \in Pieces : StaleReset(i)
    \/ \E i \in Pieces, b \in Blocks : BlockLate(i, b)
    \/ \E p \in Peers, i \in Pieces, b \in Blocks : Deliver(p, i, b)
    \/ \E r \in Runners : NoneOpen(r)

\* They leave who is in the loop, and who is suspended in it, alone.
LEMMA CalmFacts ==
    ASSUME BaseInv, CalmStep
    PROVE  \A r \in Runners :
             \/ run'[r] = run[r]
             \/ run[r].at \in {"idle", "verify", "new", "fallback"}
                /\ run'[r].at \in {"idle", "own", "verify"}
<1> DEFINE Calm == \A r \in Runners :
                     \/ run'[r] = run[r]
                     \/ run[r].at \in {"idle", "verify", "new", "fallback"}
                        /\ run'[r].at \in {"idle", "own", "verify"}
<1> USE DEF BaseInv, RunsTyped, Idle
<1>1. Peers \subseteq Runners /\ Main \in Runners
  BY DEF Runners
<1>2. ASSUME NEW p \in Peers, Ask(p) \/ Unstick(p) PROVE Calm
  BY <1>1, <1>2 DEF Ask, Unstick, Enter
<1>3. ASSUME UNCHANGED run PROVE Calm
  BY <1>3
<1>4. ASSUME NEW p \in Peers, Unchoke(p) PROVE Calm
  BY <1>1, <1>4 DEF Unchoke, Reads, Enter
<1>5. ASSUME NEW p \in Peers, Verified(p) PROVE Calm
  <2>1. run[p].at = "verify" /\ (run' = [run EXCEPT ![p] = Idle]
                                  \/ Enter(p, p, MaxPending - pending[p]))
    BY <1>5 DEF Verified
  <2>2. \A r \in Runners : r # p => run'[r] = run[r]
    BY <2>1 DEF Enter
  <2>3. run'[p].at \in {"idle", "own"}
    <3>1. CASE run' = [run EXCEPT ![p] = Idle]
      BY <1>1, <3>1
    <3>2. CASE Enter(p, p, MaxPending - pending[p])
      <4> DEFINE capacity == MaxPending - pending[p]
      <4>1. run' = [run EXCEPT ![p] = [Idle EXCEPT !.at = "own", !.peer = p, !.left = capacity]]
        BY <3>2 DEF Enter
      <4> HIDE DEF capacity
      <4> QED
        BY <1>1, <4>1
    <3> QED
      BY <2>1, <3>1, <3>2
  <2> QED
    BY <2>1, <2>2, <2>3
<1>6. ASSUME NEW p \in Peers, NEW i \in Pieces, NEW b \in Blocks, Deliver(p, i, b) PROVE Calm
  BY <1>1, <1>6 DEF Deliver, Reads
<1>7. ASSUME NEW r \in Runners, NoneOpen(r) PROVE Calm
  BY <1>7 DEF NoneOpen, AtStep3, At, Return
<1>8. ASSUME NEW p \in Peers, Connect(p) \/ Cleanup(p) \/ Choke(p) PROVE UNCHANGED run
  BY <1>8 DEF Connect, Cleanup, Choke
<1>9. ASSUME NEW i \in Pieces, StaleReset(i) PROVE UNCHANGED run
  BY <1>9 DEF StaleReset
<1>10. ASSUME NEW i \in Pieces, NEW b \in Blocks, BlockLate(i, b) PROVE UNCHANGED run
  BY <1>10 DEF BlockLate
<1> HIDE DEF Calm
<1>11. Calm
  BY <1>2, <1>3, <1>4, <1>5, <1>6, <1>7, <1>8, <1>9, <1>10 DEF CalmStep
<1> QED
  BY <1>11 DEF Calm

-----------------------------------------------------------------------------
(***************************************************************************)
(* The counter of a connection and what is on its wire.                    *)
(***************************************************************************)

\* What was given up is never taken back.
LEMMA LetGoGrows ==
    ASSUME BaseInv, [Next]_vars
    PROVE  /\ letGo.peers \subseteq letGo'.peers /\ letGo.pieces \subseteq letGo'.pieces
           /\ letGo.blocks \subseteq letGo'.blocks
<1>1. letGo \in [blocks : SUBSET (Pieces \X Blocks), pieces : SUBSET Pieces,
                 peers : SUBSET Peers]
  BY DEF BaseInv, RestTyped
<1>2. CASE UNCHANGED letGo
  BY <1>2
<1>3. ASSUME NEW S, letGo' = [letGo EXCEPT !.pieces = @ \cup S]
      PROVE  /\ letGo.peers \subseteq letGo'.peers /\ letGo.pieces \subseteq letGo'.pieces
             /\ letGo.blocks \subseteq letGo'.blocks
  BY <1>1, <1>3
<1>4. ASSUME NEW S, letGo' = [letGo EXCEPT !.blocks = @ \cup S]
      PROVE  /\ letGo.peers \subseteq letGo'.peers /\ letGo.pieces \subseteq letGo'.pieces
             /\ letGo.blocks \subseteq letGo'.blocks
  BY <1>1, <1>4
<1>5. ASSUME NEW S, letGo' = [letGo EXCEPT !.peers = @ \cup S]
      PROVE  /\ letGo.peers \subseteq letGo'.peers /\ letGo.pieces \subseteq letGo'.pieces
             /\ letGo.blocks \subseteq letGo'.blocks
  BY <1>1, <1>5
<1>6. ASSUME NEW r \in Runners, RunStep(r)
      PROVE  UNCHANGED letGo \/ \E S : letGo' = [letGo EXCEPT !.pieces = @ \cup S]
  BY <1>6 DEF RunStep, Own, NoneOpen, Send, Drained, Sent, DrainedDead, New, Fallback
<1>7. ASSUME NEW p \in Peers,
             \/ Ask(p) \/ Unstick(p) \/ Connect(p) \/ Lose(p) \/ Cleanup(p)
             \/ Choke(p) \/ Unchoke(p) \/ Verified(p)
      PROVE  UNCHANGED letGo \/ \E S : letGo' = [letGo EXCEPT !.peers = @ \cup S]
  BY <1>7 DEF Ask, Unstick, Connect, Lose, Cleanup, Choke, Unchoke, Verified
<1>8. ASSUME NEW p \in Peers, NEW i \in Pieces, NEW b \in Blocks, Deliver(p, i, b)
      PROVE  UNCHANGED letGo
  BY <1>8 DEF Deliver
<1>9. ASSUME NEW i \in Pieces, StaleReset(i)
      PROVE  \E S : letGo' = [letGo EXCEPT !.pieces = @ \cup S]
  BY <1>9 DEF StaleReset
<1>10. ASSUME NEW i \in Pieces, NEW b \in Blocks, BlockLate(i, b)
       PROVE  \E S : letGo' = [letGo EXCEPT !.blocks = @ \cup S]
  BY <1>10 DEF BlockLate
<1> QED
  BY <1>2, <1>3, <1>4, <1>5, <1>6, <1>7, <1>8, <1>9, <1>10 DEF Next, vars

\* Only the message loop of a connection and the main loop wait for it.
LEMMA DrainsAreTwo ==
    ASSUME BaseInv, NEW p \in Peers
    PROVE  /\ IsFiniteSet(Drains(p)) /\ Cardinality(Drains(p)) \in 0 .. 2
           /\ IsFiniteSet(wire[p]) /\ Cardinality(wire[p]) \in Nat
<1>1. Drains(p) \subseteq {p, Main}
  BY BaseFacts DEF Drains, RunFits
<1>2. IsFiniteSet({}) /\ Cardinality({}) = 0
  BY FS_EmptySet
<1>3. IsFiniteSet({p}) /\ Cardinality({p}) = 1
  BY FS_Singleton
<1>4. p # Main
  BY RequestsAssumption
<1>5. IsFiniteSet({p} \cup {Main}) /\ Cardinality({p} \cup {Main}) = 2
  BY <1>3, <1>4, FS_AddElement
<1>6. {p, Main} = {p} \cup {Main}
  OBVIOUS
<1>7. IsFiniteSet(Drains(p)) /\ Cardinality(Drains(p)) <= 2
  BY <1>1, <1>5, <1>6, FS_Subset
<1>8. IsFiniteSet(Pieces \X Blocks)
  <2>1. IsFiniteSet(Blocks)
    BY FS_Interval, RequestsAssumption DEF Blocks
  <2> QED
    BY <2>1, FS_Product, RequestsAssumption
<1>9. wire[p] \subseteq Pieces \X Blocks
  BY DEF BaseInv, ConnsTyped
<1>10. IsFiniteSet(wire[p])
  BY <1>8, <1>9, FS_Subset
<1> QED
  BY <1>7, <1>10, FS_CardinalityType

\* Both properties, for one connection.
CountFits(p) ==
    /\ pending[p] + Cardinality(Drains(p)) <= MaxPending + 1
    /\ p \notin letGo.peers => Cardinality(wire[p]) <= pending[p] + Cardinality(Drains(p))

CountInv == \A p \in Peers : CountFits(p)

\* The callers that wait change only with who is suspended in the loop.
LEMMA SameDrains ==
    ASSUME NEW p \in Peers,
           \A r \in Runners : \/ run'[r] = run[r]
                              \/ run[r].at # "drain" /\ run'[r].at # "drain"
                              \/ run[r].dead /\ run'[r].dead
    PROVE  Drains(p)' = Drains(p)
  BY DEF Drains

\* Nothing of a connection changes.
LEMMA SameCount ==
    ASSUME NEW p \in Peers, CountFits(p), Drains(p)' = Drains(p), pending'[p] = pending[p],
           wire'[p] = wire[p], letGo.peers \subseteq letGo'.peers
    PROVE  CountFits(p)'
  BY DEF CountFits

\* A request is counted when it is on the wire, before its drain is over.
LEMMA SendCounts ==
    ASSUME BaseInv, BaseInv', CountInv, NEW r \in Runners, Send(r)
    PROVE  CountInv'
<1>0. PICK q \in Peers : q = run[r].peer
  BY SendFacts
<1> DEFINE x == <<run[r].piece, NextBlock(r)>>
<1>1. /\ run[r].at = "sending" /\ ~run[r].dead /\ q = run[r].peer /\ pending[q] < MaxPending
      /\ GoesOn(r, "drain", run[r].todo) /\ wire' = [wire EXCEPT ![q] = @ \cup {x}]
      /\ UNCHANGED <<pending, letGo>>
  BY <1>0, SendFacts
<1> HIDE DEF x
<1>2. ASSUME NEW p \in Peers, p # q PROVE CountFits(p)'
  <2>1. Drains(p)' = Drains(p)
    BY <1>1, <1>2 DEF Drains, GoesOn, OthersSame
  <2>2. wire'[p] = wire[p]
    BY <1>1, <1>2 DEF BaseInv, ConnsTyped
  <2> QED
    BY <1>1, <2>1, <2>2, SameCount DEF CountInv
<1>3. CountFits(q)'
  <2>1. Drains(q)' = Drains(q) \cup {r} /\ r \notin Drains(q)
    BY <1>1 DEF Drains, GoesOn, OthersSame
  <2>2. IsFiniteSet(Drains(q)) /\ Cardinality(Drains(q)) \in 0 .. 2
    BY <1>1, DrainsAreTwo
  <2>3. IsFiniteSet(wire[q]) /\ Cardinality(wire[q]) \in Nat
    BY <1>1, DrainsAreTwo
  <2>4. Cardinality(Drains(q)') = Cardinality(Drains(q)) + 1
    BY <2>1, <2>2, FS_AddElement
  <2>5. wire'[q] = wire[q] \cup {x}
    BY <1>1 DEF BaseInv, ConnsTyped
  <2>6. Cardinality(wire'[q]) <= Cardinality(wire[q]) + 1 /\ Cardinality(wire'[q]) \in Nat
    <3>1. /\ IsFiniteSet(wire[q] \cup {x})
          /\ Cardinality(wire[q] \cup {x}) =
                IF x \in wire[q] THEN Cardinality(wire[q]) ELSE Cardinality(wire[q]) + 1
      BY <2>3, FS_AddElement, Zenon
    <3> QED
      BY <2>3, <2>5, <3>1
  <2>7. Cardinality(Drains(q)') <= 2
    <3>1. Drains(q)' \subseteq {q, Main} /\ q # Main
      <4>1. \A s \in Runners : s # Main /\ run'[s].at = "drain" => run'[s].peer = s
        BY DEF BaseInv, RunInv, RunFits
      <4> QED
        BY <1>1, <4>1, RequestsAssumption DEF Drains
    <3>2. IsFiniteSet({q}) /\ Cardinality({q}) = 1
      BY FS_Singleton
    <3>5. q # Main
      BY <3>1
    <3>3. IsFiniteSet({q} \cup {Main}) /\ Cardinality({q} \cup {Main}) = 2
      BY <3>2, <3>5, FS_AddElement
    <3>4. {q, Main} = {q} \cup {Main}
      OBVIOUS
    <3> QED
      BY <3>1, <3>3, <3>4, FS_Subset
  <2>8. pending'[q] = pending[q] /\ pending[q] \in Nat /\ letGo' = letGo
    BY <1>1 DEF BaseInv, ConnsTyped
  <2>9. CountFits(q)
    BY <1>1 DEF CountInv
  <2> QED
    BY <1>1, <2>2, <2>3, <2>4, <2>6, <2>7, <2>8, <2>9, RequestsAssumption DEF CountFits
<1> QED
  BY <1>2, <1>3 DEF CountInv

\* The drain is over: what waited is counted.
LEMMA DrainedCounts ==
    ASSUME BaseInv, BaseInv', CountInv, NEW r \in Runners, Drained(r)
    PROVE  CountInv'
<1>0. PICK q \in Peers : q = run[r].peer
  BY DrainedFacts
<1>1. /\ run[r].at = "drain" /\ ~run[r].dead /\ q = run[r].peer
      /\ GoesOn(r, "sending", run[r].todo \ {NextBlock(r)})
      /\ pending' = [pending EXCEPT ![q] = @ + 1]
      /\ UNCHANGED <<wire, letGo>>
  BY <1>0, DrainedFacts
<1>2. ASSUME NEW p \in Peers, p # q PROVE CountFits(p)'
  <2>1. Drains(p)' = Drains(p)
    BY <1>1, <1>2 DEF Drains, GoesOn, OthersSame
  <2>2. pending'[p] = pending[p]
    BY <1>1, <1>2 DEF BaseInv, ConnsTyped
  <2> QED
    BY <1>1, <2>1, <2>2, SameCount DEF CountInv
<1>3. CountFits(q)'
  <2>1. Drains(q)' = Drains(q) \ {r} /\ r \in Drains(q)
    BY <1>1 DEF Drains, GoesOn, OthersSame
  <2>2. IsFiniteSet(Drains(q)) /\ Cardinality(Drains(q)) \in 0 .. 2
    BY <1>1, DrainsAreTwo
  <2>3. Cardinality(wire[q]) \in Nat
    BY <1>1, DrainsAreTwo
  <2>4. Cardinality(Drains(q)') = Cardinality(Drains(q)) - 1
    BY <2>1, <2>2, FS_RemoveElement
  <2>5. pending'[q] = pending[q] + 1 /\ pending[q] \in Nat
    BY <1>1 DEF BaseInv, ConnsTyped
  <2>6. CountFits(q) /\ wire' = wire /\ letGo' = letGo
    BY <1>1 DEF CountInv
  <2> QED
    BY <2>2, <2>3, <2>4, <2>5, <2>6, RequestsAssumption DEF CountFits
<1> QED
  BY <1>2, <1>3 DEF CountInv

\* A connection that ends takes its counter and its wire along.
LEMMA LoseCounts ==
    ASSUME BaseInv, CountInv, NEW q \in Peers, Lose(q)
    PROVE  CountInv'
<1>1. /\ pending' = [pending EXCEPT ![q] = 0] /\ wire' = [wire EXCEPT ![q] = {}]
      /\ UNCHANGED letGo /\ run'[q].at = "idle"
      /\ \A r \in Runners : r # q =>
            /\ run'[r].at = run[r].at /\ run'[r].peer = run[r].peer
            /\ run'[r].dead <=> run[r].dead \/ (run[r].at = "drain" /\ run[r].peer = q)
  BY LoseFacts
<1>2. ASSUME NEW p \in Peers, p # q PROVE CountFits(p)'
  <2>1. run[q].at = "drain" => run[q].peer = q
    BY BaseFacts, RequestsAssumption DEF RunFits, Runners
  <2>2. Drains(p)' = Drains(p)
    BY <1>1, <1>2, <2>1 DEF Drains
  <2>3. pending'[p] = pending[p] /\ wire'[p] = wire[p]
    BY <1>1, <1>2 DEF BaseInv, ConnsTyped
  <2> QED
    BY <1>1, <2>2, <2>3, SameCount DEF CountInv
<1>3. CountFits(q)'
  <2>1. Drains(q)' = {}
    BY <1>1 DEF Drains
  <2>2. pending'[q] = 0 /\ wire'[q] = {}
    BY <1>1 DEF BaseInv, ConnsTyped
  <2>3. Cardinality({}) = 0
    BY FS_EmptySet
  <2> QED
    BY <2>1, <2>2, <2>3, RequestsAssumption DEF CountFits
<1> QED
  BY <1>2, <1>3 DEF CountInv

\* A request is answered: one less on the wire, one less counted.
LEMMA DeliverCounts ==
    ASSUME BaseInv, CountInv, NEW q \in Peers, NEW i \in Pieces, NEW b \in Blocks,
           Deliver(q, i, b), \A p \in Peers : Drains(p)' = Drains(p)
    PROVE  CountInv'
<1>1. /\ <<i, b>> \in wire[q] /\ wire' = [wire EXCEPT ![q] = @ \ {<<i, b>>}]
      /\ pending' = [pending EXCEPT ![q] = IF @ > 0 THEN @ - 1 ELSE 0] /\ UNCHANGED letGo
  BY DEF Deliver, Counted
<1>2. ASSUME NEW p \in Peers, p # q PROVE CountFits(p)'
  <2>1. pending'[p] = pending[p] /\ wire'[p] = wire[p]
    BY <1>1, <1>2 DEF BaseInv, ConnsTyped
  <2> QED
    BY <1>1, <2>1, SameCount DEF CountInv
<1>3. CountFits(q)'
  <2>1. Cardinality(Drains(q)) \in 0 .. 2 /\ IsFiniteSet(wire[q]) /\ Cardinality(wire[q]) \in Nat
    BY DrainsAreTwo
  <2>2. wire'[q] = wire[q] \ {<<i, b>>}
    BY <1>1 DEF BaseInv, ConnsTyped
  <2>3. Cardinality(wire'[q]) = Cardinality(wire[q]) - 1
    BY <1>1, <2>1, <2>2, FS_RemoveElement
  <2>4. pending[q] \in Nat /\ pending'[q] = IF pending[q] > 0 THEN pending[q] - 1 ELSE 0
    BY <1>1 DEF BaseInv, ConnsTyped
  <2>5. CountFits(q) /\ letGo' = letGo /\ Drains(q)' = Drains(q)
    BY <1>1 DEF CountInv
  <2> QED
    BY <2>1, <2>3, <2>4, <2>5, RequestsAssumption DEF CountFits
<1> QED
  BY <1>2, <1>3 DEF CountInv

\* The counter starts again, with nothing on the wire or taken for stuck.
LEMMA ZeroCounts ==
    ASSUME BaseInv, CountInv, NEW q \in Peers,
           \/ Unstick(q)
           \/ Choke(q),
           \A p \in Peers : Drains(p)' = Drains(p)
    PROVE  CountInv'
<1>1. pending' = [pending EXCEPT ![q] = 0]
  BY DEF Unstick, Choke
<1>2. CASE wire' = wire /\ letGo' = [letGo EXCEPT !.peers = @ \cup {q}]
  <2>1. q \in letGo'.peers /\ letGo.peers \subseteq letGo'.peers
    BY <1>2 DEF BaseInv, RestTyped
  <2>2. ASSUME NEW p \in Peers PROVE CountFits(p)'
    <3>1. p # q => pending'[p] = pending[p]
      BY <1>1 DEF BaseInv, ConnsTyped
    <3>2. pending'[q] = 0 /\ Cardinality(Drains(q)) \in 0 .. 2
      BY <1>1, DrainsAreTwo DEF BaseInv, ConnsTyped
    <3>3. CASE p # q
      BY <1>2, <2>1, <3>1, <3>3, SameCount DEF CountInv
    <3>4. CASE p = q
      BY <1>2, <2>1, <3>2, <3>4, RequestsAssumption DEF CountFits
    <3> QED
      BY <3>3, <3>4
  <2> QED
    BY <2>2 DEF CountInv
<1>3. CASE wire' = [wire EXCEPT ![q] = {}] /\ letGo' = letGo
  <2>1. ASSUME NEW p \in Peers PROVE CountFits(p)'
    <3>1. p # q => pending'[p] = pending[p] /\ wire'[p] = wire[p]
      BY <1>1, <1>3 DEF BaseInv, ConnsTyped
    <3>2. pending'[q] = 0 /\ wire'[q] = {} /\ Cardinality(Drains(q)) \in 0 .. 2
      BY <1>1, <1>3, DrainsAreTwo DEF BaseInv, ConnsTyped
    <3>3. CASE p # q
      BY <1>3, <3>1, <3>3, SameCount DEF CountInv
    <3>4. CASE p = q
      BY <1>3, <3>2, <3>4, FS_EmptySet, RequestsAssumption DEF CountFits
    <3> QED
      BY <3>3, <3>4
  <2> QED
    BY <2>1 DEF CountInv
<1> QED
  BY <1>2, <1>3 DEF Unstick, Choke

\* Every step keeps the count.
LEMMA CountStep == BaseInv /\ BaseInv' /\ CountInv /\ [Next]_vars => CountInv'
<1> SUFFICES ASSUME BaseInv, BaseInv', CountInv, [Next]_vars PROVE CountInv'
  OBVIOUS
<1>1. ASSUME \A p \in Peers : Drains(p)' = Drains(p), UNCHANGED <<pending, wire>>
      PROVE  CountInv'
  BY <1>1, LetGoGrows, SameCount DEF CountInv
<1>2. CASE UNCHANGED vars
  BY <1>1, <1>2 DEF vars, connVars, Drains
<1>3. ASSUME NEW r \in Runners, RunStep(r) PROVE CountInv'
  <2>1. CASE Own(r)
    <3>1. /\ run[r].at = "own" /\ OthersSame(r) /\ run'[r].at # "drain"
          /\ UNCHANGED <<pending, wire>>
      BY <2>1, OwnFacts DEF Starts, Leaves, connVars
    <3> QED
      BY <1>1, <3>1, SameDrains DEF OthersSame
  <2>2. ASSUME NEW i \in Pieces, New(r, i) PROVE CountInv'
    <3>1. /\ run[r].at = "new" /\ OthersSame(r) /\ run'[r].at # "drain"
          /\ UNCHANGED <<pending, wire>>
      BY <2>2, NewFacts DEF Starts, connVars
    <3> QED
      BY <1>1, <3>1, SameDrains DEF OthersSame
  <2>3. ASSUME NEW i \in Pieces, Fallback(r, i) PROVE CountInv'
    <3>1. /\ run[r].at # "drain" /\ OthersSame(r) /\ run'[r].at # "drain"
          /\ UNCHANGED <<pending, wire>>
      BY <2>3, FallbackFacts DEF Starts, connVars
    <3> QED
      BY <1>1, <3>1, SameDrains DEF OthersSame
  <2>4. CASE NoneOpen(r)
    <3>1. /\ run[r].at # "drain" /\ OthersSame(r) /\ run'[r].at # "drain"
          /\ UNCHANGED <<pending, wire>>
      BY <2>4 DEF NoneOpen, AtStep3, At, Return, Idle, OthersSame, BaseInv, RunsTyped, connVars
    <3> QED
      BY <1>1, <3>1, SameDrains DEF OthersSame
  <2>5. CASE Sent(r)
    <3>1. /\ run[r].at # "drain" /\ OthersSame(r) /\ run'[r].at # "drain"
          /\ UNCHANGED <<pending, wire>>
      BY <2>5, SentFacts DEF Leaves, connVars
    <3> QED
      BY <1>1, <3>1, SameDrains DEF OthersSame
  <2>6. ASSUME NEW taken \in BOOLEAN, DrainedDead(r, taken) PROVE CountInv'
    <3>1. /\ run[r].dead /\ OthersSame(r) /\ run'[r].at = "sending"
          /\ run'[r].dead = run[r].dead /\ UNCHANGED <<pending, wire>>
      BY <2>6, DrainedDeadFacts DEF GoesOn, connVars
    <3> QED
      BY <1>1, <3>1, SameDrains DEF OthersSame
  <2> QED
    BY <1>3, <2>1, <2>2, <2>3, <2>4, <2>5, <2>6, SendCounts, DrainedCounts DEF RunStep
<1>4. CASE CalmStep
  <2>1. \A q \in Peers : Drains(q)' = Drains(q)
    <3>1. \A r \in Runners : \/ run'[r] = run[r]
                             \/ run[r].at # "drain" /\ run'[r].at # "drain"
      BY <1>4, CalmFacts
    <3> QED
      BY <3>1, SameDrains
  <2>2. ASSUME NEW p \in Peers, Ask(p) \/ Connect(p) \/ Cleanup(p) \/ Unchoke(p) \/ Verified(p)
        PROVE  UNCHANGED <<pending, wire>>
    BY <2>2 DEF Ask, Connect, Cleanup, Unchoke, Verified, connVars
  <2>3. ASSUME NEW i \in Pieces, NEW b \in Blocks, StaleReset(i) \/ BlockLate(i, b)
        PROVE  UNCHANGED <<pending, wire>>
    BY <2>3 DEF StaleReset, BlockLate, connVars
  <2>4. ASSUME NEW r \in Runners, NoneOpen(r) PROVE UNCHANGED <<pending, wire>>
    BY <2>4 DEF NoneOpen, connVars
  <2>5. ASSUME NEW i \in Pieces, StaleReset(i) PROVE UNCHANGED <<pending, wire>>
    BY <2>5 DEF StaleReset, connVars
  <2> QED
    BY <1>1, <1>4, <2>1, <2>2, <2>3, <2>4, <2>5, DeliverCounts, ZeroCounts DEF CalmStep
<1> QED
  BY <1>2, <1>3, <1>4, LoseCounts DEF Next, CalmStep

\* At the start nothing is counted.
LEMMA CountInit == Init => CountInv
<1> SUFFICES ASSUME Init, NEW p \in Peers PROVE CountFits(p)
  BY DEF CountInv
<1>1. Drains(p) = {}
  BY DEF Init, Drains, Idle
<1>2. pending[p] = 0 /\ wire[p] = {} /\ Cardinality({}) = 0
  BY FS_EmptySet DEF Init
<1> QED
  BY <1>1, <1>2, RequestsAssumption DEF CountFits

\* The count always holds.
LEMMA CountAlways == Spec => []CountInv
  BY CountInit, CountStep, BaseAlways, PTL DEF Spec

\* Whoever shares a connection, its limit is passed by one request at most.
THEOREM LimitIsPassedByOne == Spec => []PendingIsBounded
<1>1. CountInv => PendingIsBounded
  BY DEF CountInv, CountFits, PendingIsBounded
<1> QED
  BY <1>1, CountAlways, PTL

\* A peer was asked for no more than its counter and the suspended callers
\* account for, unless the counter was taken for stuck.
THEOREM CounterCoversWire == Spec => []WireIsCounted
<1>1. CountInv => WireIsCounted
  BY DEF CountInv, CountFits, WireIsCounted
<1> QED
  BY <1>1, CountAlways, PTL

==============================================================================
