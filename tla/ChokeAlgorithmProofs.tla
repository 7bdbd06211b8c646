------------------------- MODULE ChokeAlgorithmProofs -------------------------
(***************************************************************************)
(* What holds of the choke loop for any number of peers and slots: its     *)
(* state is typed, a round that was not broken off leaves no more peers    *)
(* unchoked than there are slots, and tit-for-tat leaves at most one       *)
(* contributor behind a peer that had uploaded less.                       *)
(***************************************************************************)
EXTENDS ChokeAlgorithm, FiniteSetTheorems, TLAPS

\* Someone was asked in a round that is under way.
RoundHasPeers == round.phase \in {"walking", "rotating"} => DOMAIN round.asked # {}

\* Those asked and not lost since are connected.
AskedAreUp == DOMAIN round.asked \ round.lost \subseteq up

\* So is the peer a message is being sent to, unless that connection was cut.
SendingIsUp == round.sending # NoPeer /\ ~ round.cut => round.sending \in up

\* The choke loop ends for a while only by a pause.
PausedIsOver == state = "Paused" => round.phase \in {"ended", "dead"} /\ unchoked = {}

\* A message is on its way during a round, and then only.
BusyIsSending == round.phase \in {"walking", "rotating"} <=> round.sending # NoPeer

TypeInv == TypeOK /\ RoundHasPeers /\ AskedAreUp /\ SendingIsUp /\ PausedIsOver /\ BusyIsSending

\* Sets of peers are finite.
LEMMA PeersFinite ==
    ASSUME NEW S \in SUBSET Peers
    PROVE  /\ IsFiniteSet(S) /\ Cardinality(S) \in Nat
           /\ Cardinality(S) <= Cardinality(Peers)
           /\ (S # {} => Cardinality(S) # 0)
<1>1. IsFiniteSet(Peers)
  BY ChokeAssumption
<1>2. IsFiniteSet(S) /\ Cardinality(S) <= Cardinality(Peers)
  BY <1>1, FS_Subset
<1>3. Cardinality(S) \in Nat
  BY <1>2, FS_CardinalityType
<1>4. S # {} => Cardinality(S) # 0
  BY <1>2, FS_EmptySet
<1> QED
  BY <1>2, <1>3, <1>4

\* A place in the list of those interested is a number.
LEMMA PlacesType ==
    ASSUME TypeOK
    PROVE  /\ Places(Candidates) \in [Candidates -> 0..Cardinality(Peers)]
           /\ Candidates \in SUBSET Peers
<1>1. Candidates \in SUBSET Peers
  BY DEF Candidates, TypeOK
<1>2. ASSUME NEW p \in Candidates
      PROVE  Cardinality({q \in Candidates : <<q, p>> \in older}) \in 0..Cardinality(Peers)
  <2> DEFINE B == {q \in Candidates : <<q, p>> \in older}
  <2>1. B \in SUBSET Peers
    BY <1>1
  <2>2. Cardinality(B) \in Nat /\ Cardinality(B) <= Cardinality(Peers)
    BY <2>1, PeersFinite
  <2>3. Cardinality(Peers) \in Nat
    BY PeersFinite
  <2> QED
    BY <2>2, <2>3
<1> QED
  BY <1>1, <1>2 DEF Places

\* The index of the rotation is a place among those asked.
LEMMA TurnType ==
    ASSUME TypeOK, NEW r \in Rounds, DOMAIN r.asked # {}
    PROVE  /\ Turn(r) \in Nat /\ Turn(r) < Cardinality(Peers)
           /\ (Turn(r) + 1) % Cardinality(DOMAIN r.asked) \in Nat
           /\ (Turn(r) + 1) % Cardinality(DOMAIN r.asked) < Cardinality(Peers)
<1> DEFINE n == Cardinality(DOMAIN r.asked)
<1>1. DOMAIN r.asked \in SUBSET Peers
  BY DEF Rounds
<1>2. n \in Nat /\ n # 0 /\ n <= Cardinality(Peers)
  BY <1>1, PeersFinite
<1>3. Cardinality(Peers) \in Nat
  BY PeersFinite
<1>4. rrIndex \in Nat
  BY DEF TypeOK
<1> HIDE DEF n
<1>5. rrIndex % n \in Nat /\ rrIndex % n < n
  BY <1>2, <1>4
<1>6. ((rrIndex % n) + 1) % n \in Nat /\ ((rrIndex % n) + 1) % n < n
  BY <1>2, <1>5
<1> QED
  BY <1>2, <1>3, <1>5, <1>6 DEF n, Turn

\* The round between rounds, and the one that is over, are rounds.
LEMMA AsleepType ==
    ASSUME NEW f \in {"asleep", "dead", "ended"}
    PROVE  [Asleep EXCEPT !.phase = f] \in Rounds /\ Asleep \in Rounds /\ Dead \in Rounds
<1>1. [p \in {} |-> 0] \in [{} -> 0..Cardinality(Peers)]
  OBVIOUS
<1>2. [p \in {} |-> 0] \in UNION {[S -> 0..Cardinality(Peers)] : S \in SUBSET Peers}
  BY <1>1
<1>3. [p \in Peers |-> 0] \in [Peers -> 0..MaxBytes]
  BY ChokeAssumption
<1> QED
  BY <1>2, <1>3 DEF Asleep, Dead, Rounds

(***************************************************************************)
(* What the loop does from one send to the next.  The for of round r stands *)
(* between two entries, with un unchoked.                                   *)
(***************************************************************************)
Between(r, un) ==
    /\ r \in Rounds /\ r.phase = "walking" /\ r.sending = NoPeer
    /\ DOMAIN r.asked # {} /\ DOMAIN r.asked \ r.lost \subseteq up
    /\ un \subseteq up

\* The first of the peers due is sent its message.
SendsFirst(r, un) ==
    \E p \in Due(r, un) :
        /\ \A q \in Due(r, un) : <<q, p>> \notin older
        /\ Cardinality(Before(r, p)) < r.left
        /\ SendTo(r, p)

\* The for breaks, stops at the first peer with a message due, or is through.
LEMMA AdvanceCases ==
    ASSUME NEW r, NEW un, Advance(r, un)
    PROVE  \/ Breaks
           \/ SendsFirst(r, un)
           \/ Due(r, un) = {} /\ WalkEnds(r)
  BY DEF Advance, SendsFirst

\* The round a send leaves behind.
LEMMA SendToRound ==
    ASSUME TypeOK, NEW r, NEW un, Between(r, un), SendsFirst(r, un)
    PROVE  /\ round' \in Rounds /\ round'.phase = "walking"
           /\ round'.asked = r.asked /\ round'.lost = r.lost
           /\ round'.chosen = r.chosen /\ round'.rates = r.rates
           /\ round'.sending \in up /\ round'.cut = FALSE
           /\ rrIndex' = rrIndex
<1>1. PICK p \in Due(r, un) : Cardinality(Before(r, p)) < r.left /\ SendTo(r, p)
  BY DEF SendsFirst
<1>2. r \in Rounds /\ r.phase = "walking"
  BY DEF Between
<1>3. p \in up /\ p \in Peers /\ keys \subseteq Peers
  BY DEF Due, Todo, MessageDue, TypeOK
<1> DEFINE v == r.visited \cup Before(r, p) \cup {p}
           l == r.left - Cardinality(Before(r, p)) - 1
<1>4. Before(r, p) \in SUBSET Peers
  BY <1>3 DEF Before, Todo
<1>5. Cardinality(Before(r, p)) \in Nat /\ r.left \in Nat
  BY <1>2, <1>4, PeersFinite DEF Rounds
<1>6. l \in Nat
  BY <1>1, <1>5
<1>7. v \in SUBSET Peers
  BY <1>2, <1>3, <1>4 DEF Rounds
<1>8. /\ round' = [r EXCEPT !.visited = v, !.left = l, !.sending = p, !.cut = FALSE]
      /\ rrIndex' = rrIndex
  BY <1>1 DEF SendTo
<1> HIDE DEF v, l
<1> QED
  BY <1>2, <1>3, <1>6, <1>7, <1>8 DEF Rounds

\* The round the end of the for leaves behind, and the turn of the rotation.
LEMMA WalkEndsRound ==
    ASSUME TypeOK, NEW r, NEW un, Between(r, un), WalkEnds(r)
    PROVE  /\ \/ round' = Asleep /\ algorithm = "tit_for_tat"
              \/ round' = Dead
              \/ /\ round' \in Rounds /\ round'.phase = "rotating"
                 /\ round'.asked = r.asked /\ round'.lost = r.lost
                 /\ round'.sending \in up /\ round'.cut = FALSE
                 /\ algorithm = "round_robin"
           /\ rrIndex' \in Nat /\ rrIndex' < Cardinality(Peers)
<1>0. r \in Rounds /\ DOMAIN r.asked # {} /\ DOMAIN r.asked \ r.lost \subseteq up
      /\ up \subseteq Peers
  BY DEF Between, TypeOK
<1>1. CASE algorithm = "tit_for_tat"
  BY <1>1 DEF WalkEnds, TypeOK
<1>2. CASE algorithm # "tit_for_tat"
  <2>1. algorithm = "round_robin" /\ Rotate(r)
    BY <1>2 DEF WalkEnds, TypeOK
  <2>2. rrIndex' \in Nat /\ rrIndex' < Cardinality(Peers)
    BY <1>0, <2>1, TurnType DEF Rotate
  <2>3. PICK p \in DOMAIN r.asked :
          round' = IF p \in r.lost THEN Dead
                   ELSE [r EXCEPT !.phase = "rotating", !.sending = p, !.cut = FALSE]
    BY <2>1 DEF Rotate
  <2>4. CASE p \in r.lost
    BY <2>2, <2>3, <2>4
  <2>5. CASE p \notin r.lost
    <3>1. p \in up /\ p \in Peers
      BY <1>0, <2>5
    <3> QED
      BY <1>0, <2>1, <2>2, <2>3, <2>5, <3>1 DEF Rounds
  <2> QED
    BY <2>4, <2>5
<1> QED
  BY <1>1, <1>2

\* So the loop that goes on leaves a round behind whose message is on its way to
\* a connected peer, or one without a message.
LEMMA AdvanceRound ==
    ASSUME TypeOK, NEW r, NEW un, Between(r, un), Advance(r, un)
    PROVE  /\ round' \in Rounds
           /\ rrIndex' \in Nat /\ rrIndex' < Cardinality(Peers)
           /\ \/ /\ round'.phase \in {"walking", "rotating"}
                 /\ round'.asked = r.asked /\ round'.lost = r.lost
                 /\ round'.sending \in up /\ round'.cut = FALSE
              \/ round' = Dead
              \/ round' = Asleep /\ algorithm = "tit_for_tat"
<1>1. Asleep \in Rounds /\ Dead \in Rounds
  BY AsleepType
<1>2. CASE Breaks
  BY <1>1, <1>2 DEF Breaks, TypeOK
<1>3. CASE SendsFirst(r, un)
  <2>1. rrIndex \in Nat /\ rrIndex < Cardinality(Peers)
    BY DEF TypeOK
  <2> QED
    BY <1>3, <2>1, SendToRound
<1>4. CASE WalkEnds(r)
  BY <1>1, <1>4, WalkEndsRound
<1> QED
  BY <1>2, <1>3, <1>4, AdvanceCases

\* It begins with the peers asked, all of them connected,
LEMMA BegunIsBetween ==
    ASSUME TypeOK, NEW S \in SUBSET Peers, StartRound(S)
    PROVE  /\ Between(Begun(S), unchoked)
           /\ Begun(S).asked = Places(Candidates) /\ Begun(S).chosen = S
           /\ Begun(S).rates = bytes /\ Begun(S).visited = {} /\ Begun(S).lost = {}
<1>1. /\ Places(Candidates) \in [Candidates -> 0..Cardinality(Peers)]
      /\ Candidates \in SUBSET Peers
  BY PlacesType
<1>2. Places(Candidates) \in UNION {[A -> 0..Cardinality(Peers)] : A \in SUBSET Peers}
  BY <1>1
<1>3. Cardinality(keys) \in Nat
  BY PeersFinite DEF TypeOK
<1>4. bytes \in [Peers -> 0..MaxBytes] /\ unchoked \subseteq up
  BY DEF TypeOK
<1>5. /\ Begun(S) \in Rounds /\ Begun(S).phase = "walking" /\ Begun(S).sending = NoPeer
      /\ Begun(S).asked = Places(Candidates) /\ Begun(S).chosen = S
      /\ Begun(S).rates = bytes /\ Begun(S).visited = {} /\ Begun(S).lost = {}
  BY <1>2, <1>3, <1>4 DEF Begun, Asleep, Rounds
<1>6. DOMAIN Places(Candidates) = Candidates /\ Candidates # {} /\ Candidates \subseteq up
  BY DEF Places, Candidates, StartRound
<1> HIDE DEF Begun
<1> QED
  BY <1>4, <1>5, <1>6 DEF Between

\* and goes on from each send with the message delivered.
LEMMA SentIsBetween ==
    ASSUME TypeInv, Sent
    PROVE  /\ Between([round EXCEPT !.sending = NoPeer], Told)
           /\ \A f \in {"asked", "chosen", "rates", "visited", "lost"} :
                 [round EXCEPT !.sending = NoPeer][f] = round[f]
<1> DEFINE r == [round EXCEPT !.sending = NoPeer]
<1>0. round \in Rounds /\ round.phase = "walking"
  BY DEF TypeInv, TypeOK, Sent
<1>1. /\ r \in Rounds /\ r.phase = "walking" /\ r.sending = NoPeer
      /\ r.asked = round.asked /\ r.chosen = round.chosen /\ r.rates = round.rates
      /\ r.visited = round.visited /\ r.lost = round.lost
  BY <1>0 DEF Rounds
<1> HIDE DEF r
<1>2. DOMAIN round.asked # {} /\ DOMAIN round.asked \ round.lost \subseteq up
  BY <1>0 DEF TypeInv, RoundHasPeers, AskedAreUp
<1>3. Told \subseteq up
  BY <1>0 DEF Told, TypeInv, TypeOK, SendingIsUp, BusyIsSending
<1>4. Between(r, Told)
  BY <1>1, <1>2, <1>3 DEF Between
<1> QED
  BY <1>1, <1>4 DEF r

\* The part of the type invariant about the connections.
PeersTyped ==
    /\ keys \subseteq Peers /\ up \subseteq keys
    /\ older \subseteq keys \X keys
    /\ \A p, q \in keys : p = q <=> <<p, q>> \notin older /\ <<q, p>> \notin older
    /\ \A p, q, r \in keys : <<p, q>> \in older /\ <<q, r>> \in older => <<p, r>> \in older
    /\ interested \subseteq up /\ unchoked \subseteq up
    /\ bytes \in [Peers -> 0..MaxBytes]

\* A new connection is the youngest.
LEMMA JoinType ==
    ASSUME TypeOK, NEW p \in Peers, Join(p)
    PROVE  PeersTyped'
<1> USE DEF TypeOK, Join
<1>1. (/\ keys \subseteq Peers /\ up \subseteq keys
       /\ interested \subseteq up /\ unchoked \subseteq up)'
  OBVIOUS
<1>2. (older \subseteq keys \X keys)'
  OBVIOUS
<1>3. \A q, r \in keys : <<q, r>> \in older' <=> <<q, r>> \in older
  OBVIOUS
<1>4. \A q \in keys : <<q, p>> \in older' /\ <<p, q>> \notin older' /\ <<p, p>> \notin older'
  OBVIOUS
<1> HIDE DEF TypeOK, Join
<1>5. keys' = keys \cup {p} /\ p \notin keys
  BY DEF Join
<1>6. \A q, r \in keys' : q = r <=> <<q, r>> \notin older' /\ <<r, q>> \notin older'
  <2>1. \A q, r \in keys : q = r <=> <<q, r>> \notin older /\ <<r, q>> \notin older
    BY DEF TypeOK
  <2>2. <<p, p>> \notin older'
    BY <1>5 DEF TypeOK, Join
  <2> QED
    BY <2>1, <2>2, <1>3, <1>4, <1>5
<1>7. \A q, r, s \in keys' : <<q, r>> \in older' /\ <<r, s>> \in older' => <<q, s>> \in older'
  <2>1. \A q, r, s \in keys : <<q, r>> \in older /\ <<r, s>> \in older => <<q, s>> \in older
    BY DEF TypeOK
  <2>2. \A q \in keys' : <<p, q>> \notin older'
    BY <1>5 DEF TypeOK, Join
  <2> QED
    BY <2>1, <2>2, <1>3, <1>4, <1>5
<1>8. bytes' \in [Peers -> 0..MaxBytes]
  BY ChokeAssumption DEF TypeOK, Join
<1> QED
  BY <1>1, <1>2, <1>6, <1>7, <1>8 DEF PeersTyped

\* What is left after a clean-up is in the order it was in.
LEMMA CleanupType ==
    ASSUME TypeOK, Cleanup
    PROVE  PeersTyped'
<1>1. keys' = up /\ up' = up /\ up \subseteq keys
  BY DEF TypeOK, Cleanup
<1>2. \A q, r \in up : <<q, r>> \in older' <=> <<q, r>> \in older
  BY DEF Cleanup
<1>3. \A q, r \in keys' : q = r <=> <<q, r>> \notin older' /\ <<r, q>> \notin older'
  BY <1>1, <1>2 DEF TypeOK
<1>4. \A q, r, s \in keys' : <<q, r>> \in older' /\ <<r, s>> \in older' => <<q, s>> \in older'
  BY <1>1, <1>2 DEF TypeOK
<1>5. (older \subseteq keys \X keys)'
  BY <1>1 DEF Cleanup
<1> QED
  BY <1>1, <1>3, <1>4, <1>5 DEF PeersTyped, TypeOK, Cleanup

\* Only joins and clean-ups change the table.
LEMMA PeersTypeStep ==
    ASSUME TypeInv, [Next]_vars
    PROVE  PeersTyped'
<1> USE DEF TypeInv
<1> DEFINE Same == UNCHANGED <<keys, older>>
<1>1. ASSUME Same, up' \subseteq up, interested' \subseteq up', unchoked' \subseteq up',
             bytes' \in [Peers -> 0..MaxBytes]
      PROVE  PeersTyped'
  BY <1>1 DEF PeersTyped, TypeOK
<1>2. ASSUME Same, UNCHANGED <<up, interested, bytes>>, unchoked' \subseteq up
      PROVE  PeersTyped'
  BY <1>2, <1>1 DEF TypeOK
<1>3. CASE \/ \E S \in SUBSET Peers : StartRound(S)
           \/ SendFails \/ LoopEnds \/ Resume \/ Complete \/ UNCHANGED vars
  <2>1. UNCHANGED peerVars
    BY <1>3 DEF StartRound, SendFails, LoopEnds, Resume, Complete, vars
  <2> QED
    BY <2>1, <1>2 DEF peerVars, TypeOK
<1>4. CASE Sent \/ Rotated
  <2>1. unchoked' \subseteq up
    <3>1. CASE Sent
      BY <3>1, SentIsBetween DEF Sent, Between
    <3>2. CASE Rotated
      BY <3>2 DEF Rotated, TypeOK, SendingIsUp, BusyIsSending
    <3> QED
      BY <1>4, <3>1, <3>2
  <2> QED
    BY <2>1, <1>4, <1>2 DEF Sent, Rotated
<1>5. CASE \E p \in Peers : Join(p)
  BY <1>5, JoinType
<1>6. CASE Cleanup
  BY <1>6, CleanupType
<1>7. CASE \E p \in Peers : Leave(p)
  BY <1>7, <1>1 DEF Leave, Lose, TypeOK
<1>8. CASE Pause
  BY <1>8, <1>1 DEF Pause, Lose, TypeOK
<1>9. CASE \E p \in Peers : ChangeMind(p)
  BY <1>9, <1>1 DEF ChangeMind, TypeOK
<1>10. CASE \E p \in Peers : Contribute(p)
  <2>1. PICK p \in Peers : Contribute(p)
    BY <1>10
  <2>2. MaxBytes \in Nat /\ bytes[p] \in 0..MaxBytes /\ bytes[p] < MaxBytes
    BY <2>1, ChokeAssumption DEF Contribute, TypeOK
  <2>3. bytes[p] + 1 \in 0..MaxBytes
    BY <2>2
  <2>4. bytes' \in [Peers -> 0..MaxBytes]
    BY <2>1, <2>3 DEF Contribute, TypeOK
  <2> QED
    BY <2>1, <2>4, <1>1 DEF Contribute, TypeOK
<1> QED
  BY <1>3, <1>4, <1>5, <1>6, <1>7, <1>8, <1>9, <1>10 DEF Next, RoundStep

\* Where the loop is stays a round.
LEMMA RoundTypeStep ==
    ASSUME TypeInv, [Next]_vars
    PROVE  round' \in Rounds
<1> USE DEF TypeInv
<1>0. round \in Rounds
  BY DEF TypeOK
<1>1. CASE \E S \in SUBSET Peers : StartRound(S)
  BY <1>1, BegunIsBetween, AdvanceRound DEF StartRound
<1>2. CASE SendFails \/ LoopEnds \/ Rotated \/ Pause \/ Resume
  BY <1>2, AsleepType DEF SendFails, Breaks, LoopEnds, Rotated, Pause, Resume
<1>3. CASE Sent
  BY <1>3, SentIsBetween, AdvanceRound DEF Sent
<1>7. CASE \E p \in Peers : Leave(p)
  <2>1. PICK p \in Peers : Leave(p)
    BY <1>7
  <2> DEFINE l == round.lost \cup ({p} \cap DOMAIN round.asked)
             c == (round.cut \/ round.sending = p)
  <2>2. l \in SUBSET Peers
    BY <1>0 DEF Rounds
  <2>3. c \in BOOLEAN
    BY Zenon
  <2>4. round' = [round EXCEPT !.lost = l, !.cut = c]
    BY <2>1 DEF Leave
  <2> HIDE DEF l, c
  <2> QED
    BY <1>0, <2>2, <2>3, <2>4 DEF Rounds
<1>8. CASE Cleanup
  BY <1>0, <1>8 DEF Cleanup, Rounds
<1>9. CASE (\E p \in Peers : Join(p) \/ ChangeMind(p) \/ Contribute(p)) \/ Complete \/ UNCHANGED vars
  BY <1>0, <1>9 DEF Join, ChangeMind, Contribute, Complete, vars
<1> QED
  BY <1>1, <1>2, <1>3, <1>7, <1>8, <1>9 DEF Next, RoundStep

\* A download keeps its algorithm.
LEMMA AlgorithmStays ==
    ASSUME [Next]_vars
    PROVE  algorithm' = algorithm
  BY DEF Next, RoundStep, StartRound, Sent, Rotated, SendFails, LoopEnds, Join, Leave, ChangeMind, Contribute, Cleanup, Pause, Resume, Complete, vars

\* The rest of the state.
LEMMA RestTypeStep ==
    ASSUME TypeInv, [Next]_vars
    PROVE  /\ (algorithm \in {"tit_for_tat", "round_robin"})'
           /\ (state \in {"Running", "Paused", "Completed"})'
           /\ (rrIndex \in Nat /\ rrIndex < Cardinality(Peers))'
           /\ (churn \in 0..MaxChurn)'
<1> USE DEF TypeInv
<1>1. algorithm' = algorithm
  BY AlgorithmStays
<1>2. state' = state \/ state' \in {"Running", "Paused", "Completed"}
  BY DEF Next, RoundStep, StartRound, Sent, Rotated, SendFails, LoopEnds, Join, Leave, ChangeMind, Contribute, Cleanup, Pause, Resume, Complete, vars
<1>3. CASE (\E S \in SUBSET Peers : StartRound(S)) \/ Sent
  <2>1. rrIndex' \in Nat /\ rrIndex' < Cardinality(Peers)
    BY <1>3, BegunIsBetween, SentIsBetween, AdvanceRound DEF StartRound, Sent
  <2> QED
    BY <1>1, <1>2, <1>3, <2>1 DEF StartRound, Sent, TypeOK
<1>4. CASE Rotated
  <2>1. DOMAIN round.asked # {} /\ UNCHANGED churn /\ round \in Rounds
    BY <1>4 DEF Rotated, RoundHasPeers, TypeOK
  <2> QED
    BY <1>1, <1>2, <1>4, <2>1, TurnType DEF Rotated, NextTurn, TypeOK
<1>5. CASE Pause \/ SendFails \/ \E p \in Peers : Leave(p) \/ ChangeMind(p)
  <2>1. churn' = churn \/ (churn < MaxChurn /\ churn' = churn + 1)
    BY <1>5 DEF Pause, SendFails, Leave, ChangeMind, Spend
  <2>2. rrIndex' = rrIndex
    BY <1>5 DEF Pause, SendFails, Breaks, Leave, ChangeMind
  <2> QED
    BY <1>1, <1>2, <2>1, <2>2, ChokeAssumption DEF TypeOK
<1>6. CASE \/ \E p \in Peers : Join(p) \/ Contribute(p)
           \/ LoopEnds \/ Cleanup \/ Resume \/ Complete \/ UNCHANGED vars
  <2>1. UNCHANGED <<rrIndex, churn>>
    BY <1>6 DEF LoopEnds, Join, Contribute, Cleanup, Resume, Complete, vars, peerVars
  <2> QED
    BY <1>1, <1>2, <2>1 DEF TypeOK
<1> QED
  BY <1>3, <1>4, <1>5, <1>6 DEF Next, RoundStep

\* The facts about where the loop is and who is connected.
LEMMA LinkStep ==
    ASSUME TypeInv, [Next]_vars
    PROVE  /\ RoundHasPeers' /\ AskedAreUp' /\ SendingIsUp'
           /\ PausedIsOver' /\ BusyIsSending'
<1> DEFINE Goal == /\ RoundHasPeers' /\ AskedAreUp' /\ SendingIsUp'
                   /\ PausedIsOver' /\ BusyIsSending'
<1> USE DEF TypeInv, RoundHasPeers, AskedAreUp, SendingIsUp, PausedIsOver, BusyIsSending
<1>0. round \in Rounds /\ NoPeer \notin Peers
  BY ChokeAssumption DEF TypeOK
<1>1. CASE (\E S \in SUBSET Peers : StartRound(S)) \/ Sent
  <2>1. PICK r, un : Between(r, un) /\ Advance(r, un) /\ unchoked' = un
    BY <1>1, BegunIsBetween, SentIsBetween DEF StartRound, Sent, peerVars
  <2>2. DOMAIN r.asked # {} /\ DOMAIN r.asked \ r.lost \subseteq up /\ up \subseteq Peers
    BY <2>1 DEF Between, TypeOK
  <2>3. UNCHANGED <<state, up>> /\ state # "Paused"
    BY <1>1 DEF StartRound, Sent, peerVars
  <2>4. CASE /\ round'.phase \in {"walking", "rotating"}
             /\ round'.asked = r.asked /\ round'.lost = r.lost
             /\ round'.sending \in up /\ round'.cut = FALSE
    BY <1>0, <2>2, <2>3, <2>4
  <2>5. CASE round' = Dead \/ round' = Asleep
    BY <2>3, <2>5 DEF Dead, Asleep
  <2> QED
    BY <2>1, <2>4, <2>5, AdvanceRound
<1>2. CASE SendFails \/ LoopEnds \/ Rotated \/ Pause \/ Resume
  <2>1. /\ round'.phase \in {"asleep", "dead", "ended"} /\ DOMAIN round'.asked = {}
        /\ round'.sending = NoPeer
    BY <1>2 DEF SendFails, Breaks, LoopEnds, Rotated, Pause, Resume, Asleep, Dead
  <2>2. PausedIsOver'
    BY <1>2 DEF SendFails, Breaks, LoopEnds, Rotated, Pause, Resume, Asleep, Dead, Lose,
                peerVars, TypeOK
  <2> QED
    BY <2>1, <2>2
<1>7. CASE \E p \in Peers : Leave(p)
  <2>1. PICK p \in Peers : Leave(p)
    BY <1>7
  <2>2. /\ round'.phase = round.phase /\ round'.asked = round.asked
        /\ round'.lost = round.lost \cup ({p} \cap DOMAIN round.asked)
        /\ round'.sending = round.sending /\ (round'.cut <=> round.cut \/ round.sending = p)
    BY <1>0, <2>1 DEF Leave, Rounds
  <2>3. up' = up \ {p} /\ unchoked' = unchoked \ {p} /\ state' = state
    BY <2>1 DEF Leave, Lose
  <2> QED
    BY <2>2, <2>3
<1>8. CASE Cleanup
  <2>1. /\ round'.phase = round.phase /\ round'.asked = round.asked /\ round'.lost = round.lost
        /\ round'.sending = round.sending /\ round'.cut = round.cut
    BY <1>0, <1>8 DEF Cleanup, Rounds
  <2> QED
    BY <1>8, <2>1 DEF Cleanup
<1>9. CASE \/ \E p \in Peers : Join(p) \/ ChangeMind(p) \/ Contribute(p)
           \/ Complete \/ UNCHANGED vars
  <2>1. /\ UNCHANGED <<round, unchoked>> /\ up \subseteq up'
        /\ (state' = "Paused" => state = "Paused")
    BY <1>9 DEF Join, ChangeMind, Contribute, Complete, vars, peerVars
  <2> QED
    BY <2>1
<1> QED
  BY <1>1, <1>2, <1>7, <1>8, <1>9 DEF Next, RoundStep

\* The type invariant is inductive.
LEMMA TypeInvHolds ==
    Spec => []TypeInv
<1>1. Init => TypeInv
  <2> SUFFICES ASSUME Init
               PROVE  TypeInv
    OBVIOUS
  <2>1. Cardinality(Peers) \in Nat /\ 0 < Cardinality(Peers)
    BY PeersFinite, ChokeAssumption
  <2>2. TypeOK
    BY <2>1, AsleepType, ChokeAssumption DEF Init, TypeOK
  <2> QED
    BY <2>2 DEF Init, TypeInv, RoundHasPeers, AskedAreUp, SendingIsUp, PausedIsOver,
                BusyIsSending, Asleep
<1>2. TypeInv /\ [Next]_vars => TypeInv'
  <2> SUFFICES ASSUME TypeInv, [Next]_vars
               PROVE  TypeInv'
    OBVIOUS
  <2>1. TypeOK'
    BY PeersTypeStep, RoundTypeStep, RestTypeStep DEF PeersTyped, TypeOK
  <2> QED
    BY <2>1, LinkStep DEF TypeInv
<1> QED
  BY <1>1, <1>2, PTL DEF Spec

\* Whatever comes, goes and changes its mind, the state is typed: the index of
\* the rotation stays below the number of peers (download_manager.py, _rr_index),
\* and only connected peers are unchoked or interested.
THEOREM ChokingIsTyped ==
    Spec => []TypeOK
<1>1. TypeInv => TypeOK
  BY DEF TypeInv
<1> QED
  BY <1>1, TypeInvHolds, PTL

-----------------------------------------------------------------------------
(* The choice. *)

\* The sorted list is a strict order of those interested.
LEMMA AheadIsOrder ==
    ASSUME TypeOK
    PROVE  /\ \A p \in keys : ~ Ahead(p, p)
           /\ \A p, q \in keys : p # q => Ahead(p, q) \/ Ahead(q, p)
           /\ \A p, q, r \in keys : Ahead(p, q) /\ Ahead(q, r) => Ahead(p, r)
<1>1. \A p \in keys : bytes[p] \in Int
  BY ChokeAssumption DEF TypeOK
<1>2. /\ \A p, q \in keys : p = q <=> <<p, q>> \notin older /\ <<q, p>> \notin older
      /\ \A p, q, r \in keys : <<p, q>> \in older /\ <<q, r>> \in older => <<p, r>> \in older
  BY DEF TypeOK
<1>3. \A p \in keys : <<p, p>> \notin older
  BY <1>2
<1>4. ASSUME NEW p \in keys
      PROVE  ~ Ahead(p, p)
  <2>1. ~ (bytes[p] > bytes[p])
    BY <1>1
  <2> QED
    BY <2>1, <1>3 DEF Ahead
<1>5. ASSUME NEW p \in keys, NEW q \in keys, p # q
      PROVE  Ahead(p, q) \/ Ahead(q, p)
  <2>1. <<p, q>> \in older \/ <<q, p>> \in older
    BY <1>2, <1>5
  <2>2. bytes[p] \in Int /\ bytes[q] \in Int
    BY <1>1
  <2>3. bytes[p] > bytes[q] \/ bytes[q] > bytes[p] \/ (bytes[p] = bytes[q] /\ bytes[q] = bytes[p])
    BY <2>2
  <2> QED
    BY <2>1, <2>3 DEF Ahead
<1>6. ASSUME NEW p \in keys, NEW q \in keys, NEW r \in keys, Ahead(p, q), Ahead(q, r)
      PROVE  Ahead(p, r)
  <2>1. bytes[p] \in Int /\ bytes[q] \in Int /\ bytes[r] \in Int
    BY <1>1
  <2>2. CASE bytes[p] > bytes[q] \/ bytes[q] > bytes[r]
    BY <1>6, <2>1, <2>2 DEF Ahead
  <2>3. CASE ~ (bytes[p] > bytes[q] \/ bytes[q] > bytes[r])
    <3>1. bytes[p] = bytes[q] /\ bytes[q] = bytes[r] /\ <<p, q>> \in older /\ <<q, r>> \in older
      BY <1>6, <2>3 DEF Ahead
    <3> QED
      BY <3>1, <1>2 DEF Ahead
  <2> QED
    BY <2>2, <2>3
<1> QED
  BY <1>4, <1>5, <1>6

\* The top K are at most K: of two of them the one ahead has a smaller rank.
LEMMA TopKIsBounded ==
    ASSUME TypeOK, NEW S \in SUBSET keys
    PROVE  Cardinality(TopK(S)) <= MaxUnchoked
<1> DEFINE Better(p) == {q \in S : Ahead(q, p)}
           rank == [p \in TopK(S) |-> Cardinality(Better(p))]
<1>0. MaxUnchoked \in Nat /\ MaxUnchoked # 0
  BY ChokeAssumption
<1>1. ASSUME NEW p \in S
      PROVE  Better(p) \in SUBSET Peers /\ IsFiniteSet(Better(p)) /\ Cardinality(Better(p)) \in Nat
  <2>1. Better(p) \in SUBSET Peers
    BY DEF TypeOK
  <2> QED
    BY <2>1, PeersFinite
<1>2. ASSUME NEW p \in TopK(S)
      PROVE  rank[p] \in 0..(MaxUnchoked - 1)
  <2>1. p \in S /\ Cardinality(Better(p)) < MaxUnchoked
    BY DEF TopK
  <2>2. Cardinality(Better(p)) \in Nat
    BY <1>1, <2>1
  <2> HIDE DEF Better
  <2> QED
    BY <1>0, <2>1, <2>2
<1>3. ASSUME NEW p \in S, NEW q \in S, Ahead(p, q)
      PROVE  Cardinality(Better(p)) < Cardinality(Better(q))
  <2>1. Better(p) \subseteq Better(q)
    BY <1>3, AheadIsOrder
  <2>2. p \in Better(q) /\ p \notin Better(p)
    BY <1>3, AheadIsOrder
  <2>3. /\ Cardinality(Better(p)) <= Cardinality(Better(q))
        /\ Cardinality(Better(p)) # Cardinality(Better(q))
    <3>1. Better(p) \in SUBSET Better(q)
      BY <2>1
    <3>2. IsFiniteSet(Better(q))
      BY <1>1
    <3>3. Better(p) # Better(q)
      BY <2>2
    <3> HIDE DEF Better
    <3> QED
      BY <3>1, <3>2, <3>3, FS_Subset
  <2>4. Cardinality(Better(p)) \in Nat /\ Cardinality(Better(q)) \in Nat
    BY <1>1
  <2> HIDE DEF Better
  <2> QED
    BY <2>3, <2>4
<1>4. ASSUME NEW p \in TopK(S), NEW q \in TopK(S), rank[p] = rank[q]
      PROVE  p = q
  <2>1. p \in S /\ q \in S /\ p \in keys /\ q \in keys
    BY DEF TopK
  <2>2. Cardinality(Better(p)) = Cardinality(Better(q))
    BY <1>4
  <2>3. Cardinality(Better(p)) \in Nat /\ Cardinality(Better(q)) \in Nat
    BY <1>1, <2>1
  <2>4. ~ Ahead(p, q) /\ ~ Ahead(q, p)
    <3> HIDE DEF Better
    <3> QED
      BY <1>3, <2>1, <2>2, <2>3
  <2> QED
    BY <2>1, <2>4, AheadIsOrder
<1>5. rank \in Injection(TopK(S), 0..(MaxUnchoked - 1))
  <2>1. rank \in [TopK(S) -> 0..(MaxUnchoked - 1)]
    BY <1>2
  <2> HIDE DEF rank
  <2> QED
    BY <2>1, <1>4 DEF Injection, IsInjective
<1>6. IsFiniteSet(0..(MaxUnchoked - 1)) /\ Cardinality(0..(MaxUnchoked - 1)) = MaxUnchoked
  <2>1. 0 \in Int /\ MaxUnchoked - 1 \in Int /\ ~ (0 > MaxUnchoked - 1)
        /\ MaxUnchoked - 1 - 0 + 1 = MaxUnchoked
    BY <1>0
  <2> QED
    BY <2>1, FS_Interval
<1> HIDE DEF rank
<1>7. Cardinality(TopK(S)) <= Cardinality(0..(MaxUnchoked - 1))
  BY <1>5, <1>6, FS_Injection
<1> QED
  BY <1>6, <1>7

\* Who uploaded more than one of the top K is one of them.
LEMMA TopKIsUpClosed ==
    ASSUME TypeOK, NEW S \in SUBSET keys, NEW q \in TopK(S), NEW p \in S, bytes[p] > bytes[q]
    PROVE  p \in TopK(S)
<1> DEFINE Better(r) == {x \in S : Ahead(x, r)}
<1>1. q \in S /\ Cardinality(Better(q)) < MaxUnchoked /\ Ahead(p, q)
  BY DEF TopK, Ahead
<1>2. Better(p) \in SUBSET Better(q)
  BY <1>1, AheadIsOrder
<1>3. Better(p) \in SUBSET Peers /\ Better(q) \in SUBSET Peers
  BY DEF TypeOK
<1>4. p \in TopK(S) <=> Cardinality(Better(p)) < MaxUnchoked
  BY DEF TopK
<1> HIDE DEF Better
<1>5. Cardinality(Better(p)) <= Cardinality(Better(q))
  BY <1>2, <1>3, PeersFinite, FS_Subset
<1>6. /\ Cardinality(Better(p)) \in Nat /\ Cardinality(Better(q)) \in Nat /\ MaxUnchoked \in Nat
  BY <1>3, PeersFinite, ChokeAssumption
<1> QED
  BY <1>1, <1>4, <1>5, <1>6

\* What tit-for-tat chooses fits the slots, and only the optimistic choice may
\* be behind somebody it leaves out.
LEMMA ChoiceFits ==
    ASSUME TypeOK, NEW S \in SUBSET keys, NEW chosen \in ToUnchoke(S)
    PROVE  /\ chosen \subseteq S
           /\ Cardinality(chosen) <= MaxUnchoked + 1
           /\ \E o : \A q \in chosen \ {o}, p \in S : bytes[p] > bytes[q] => p \in chosen
<1> DEFINE T == TopK(S)
<1>0. T \subseteq S /\ T \in SUBSET Peers
  BY DEF TopK, TypeOK
<1>1. Cardinality(T) <= MaxUnchoked /\ Cardinality(T) \in Nat /\ IsFiniteSet(T)
      /\ MaxUnchoked \in Nat
  BY <1>0, TopKIsBounded, PeersFinite, ChokeAssumption
<1>2. \A q \in T, p \in S : bytes[p] > bytes[q] => p \in T
  BY TopKIsUpClosed
<1>3. chosen = T \/ \E o \in S : chosen = T \cup {o}
  BY DEF ToUnchoke
<1> HIDE DEF T
<1>4. CASE chosen = T
  BY <1>0, <1>1, <1>2, <1>4
<1>5. ASSUME NEW o \in S, chosen = T \cup {o}
      PROVE  /\ chosen \subseteq S /\ Cardinality(chosen) <= MaxUnchoked + 1
             /\ \A q \in chosen \ {o}, p \in S : bytes[p] > bytes[q] => p \in chosen
  <2>1. Cardinality(T \cup {o}) = IF o \in T THEN Cardinality(T) ELSE Cardinality(T) + 1
    BY <1>1, FS_AddElement, Zenon
  <2>2. Cardinality(chosen) <= MaxUnchoked + 1
    BY <2>1, <1>1, <1>5
  <2> QED
    BY <2>2, <1>0, <1>2, <1>5
<1> QED
  BY <1>3, <1>4, <1>5

-----------------------------------------------------------------------------
(* A round. *)

\* The peers visited are as they were chosen to be, except the one a message is
\* on its way to; that one is among them unless its connection was cut.
VisitedAreSettled ==
    round.phase = "walking" =>
        /\ round.visited \subseteq keys
        /\ round.sending \in round.visited \cap up <=> ~ round.cut
        /\ \A p \in round.visited \cap up :
              p # round.sending => (p \in unchoked <=> p \in round.chosen)

\* The choice fits the slots, and is one of the best contributors and one more.
Fits(r) ==
    IF algorithm = "tit_for_tat" THEN Cardinality(r.chosen) <= MaxUnchoked + 1
    ELSE r.chosen = {}

Contributes(r) ==
    algorithm = "tit_for_tat" =>
        \E o : \A q \in r.chosen \ {o}, p \in DOMAIN r.asked :
                  r.rates[p] > r.rates[q] => p \in r.chosen

ChosenFit == round.phase = "walking" => Fits(round) /\ Contributes(round)

\* Round-robin has choked everybody before it unchokes one.
AllChoked ==
    round.phase = "rotating" => unchoked = {} /\ algorithm = "round_robin"

RoundInv == TypeInv /\ VisitedAreSettled /\ ChosenFit /\ AllChoked /\ SlotsAreBounded

\* Between two entries, everybody visited is as chosen.
Settled(r, un) ==
    /\ r.visited \subseteq keys
    /\ \A p \in r.visited \cap up : p \in un <=> p \in r.chosen

\* A for that stops at a peer has passed only peers that are as chosen.
LEMMA SendSettles ==
    ASSUME TypeOK, NEW r, NEW un, Between(r, un), Settled(r, un), SendsFirst(r, un),
           UNCHANGED <<keys, up>>, unchoked' = un
    PROVE  VisitedAreSettled'
<1>1. PICK p \in Due(r, un) : (\A q \in Due(r, un) : <<q, p>> \notin older) /\ SendTo(r, p)
  BY DEF SendsFirst
<1>2. p \in keys /\ p \in up
  BY <1>1 DEF Due, Todo, MessageDue
<1>3. /\ round'.visited = r.visited \cup Before(r, p) \cup {p}
      /\ round'.sending = p /\ round'.cut = FALSE /\ round'.chosen = r.chosen
  BY <1>1 DEF SendTo, Between, Rounds
<1>4. ASSUME NEW q \in Before(r, p)
      PROVE  q \in keys /\ (q \in up => (q \in un <=> q \in r.chosen))
  <2>1. q \in Todo(r) /\ <<q, p>> \in older
    BY DEF Before
  <2>2. ~ MessageDue(r, un, q)
    BY <1>1, <2>1 DEF Due
  <2> QED
    BY <2>1, <2>2 DEF Todo, MessageDue
<1>5. (r.visited \cup Before(r, p) \cup {p}) \subseteq keys
  BY <1>2, <1>4 DEF Settled
<1>6. ASSUME NEW q \in round'.visited \cap up, q # p
      PROVE  q \in un <=> q \in r.chosen
  BY <1>3, <1>4, <1>6 DEF Settled
<1> QED
  BY <1>2, <1>3, <1>5, <1>6 DEF VisitedAreSettled

\* A for that is through has left exactly the peers chosen unchoked.
LEMMA WalkSettles ==
    ASSUME TypeOK, NEW r, NEW un, Between(r, un), Settled(r, un), Due(r, un) = {}
    PROVE  un = r.chosen \cap up
<1>1. un \subseteq up /\ up \subseteq keys
  BY DEF Between, TypeOK
<1>2. ASSUME NEW p \in up
      PROVE  p \in un <=> p \in r.chosen
  <2>1. CASE p \in r.visited
    BY <2>1 DEF Settled
  <2>2. CASE p \notin r.visited
    BY <1>1, <2>2 DEF Due, Todo, MessageDue
  <2> QED
    BY <2>1, <2>2
<1> QED
  BY <1>1, <1>2

\* Each step of the loop that walks starts between two entries, with everybody
\* visited as chosen, and with a choice that fits.
LEMMA LoopGoesOn ==
    ASSUME RoundInv, (\E S \in SUBSET Peers : StartRound(S)) \/ Sent
    PROVE  \E r, un :
             /\ Between(r, un) /\ Settled(r, un) /\ Fits(r) /\ Contributes(r)
             /\ Advance(r, un)
             /\ unchoked' = un /\ UNCHANGED <<algorithm, keys, up>>
             /\ Sent => r.asked = round.asked /\ r.lost = round.lost /\ r.rates = round.rates
<1>0. TypeInv /\ TypeOK
  BY DEF RoundInv, TypeInv
<1>1. CASE \E S \in SUBSET Peers : StartRound(S)
  <2>1. PICK S \in SUBSET Peers : StartRound(S)
    BY <1>1
  <2> DEFINE r == Begun(S)
  <2>2. /\ Between(r, unchoked)
        /\ r.asked = Places(Candidates) /\ r.chosen = S /\ r.rates = bytes /\ r.visited = {}
    BY <1>0, <2>1, BegunIsBetween
  <2>3. DOMAIN Places(Candidates) = Candidates
    BY DEF Places
  <2>4. /\ Advance(r, unchoked)
        /\ UNCHANGED <<unchoked, algorithm, keys, up>> /\ ~ Sent
    BY <2>1 DEF StartRound, Sent, peerVars
  <2> HIDE DEF r
  <2>5. Settled(r, unchoked)
    BY <2>2 DEF Settled
  <2>6. Fits(r) /\ Contributes(r)
    <3>1. CASE algorithm = "tit_for_tat"
      <4>1. S \in ToUnchoke(Candidates) /\ Candidates \in SUBSET keys
        BY <2>1, <3>1 DEF StartRound, Candidates
      <4>2. /\ Cardinality(S) <= MaxUnchoked + 1
            /\ \E o : \A q \in S \ {o}, p \in Candidates : bytes[p] > bytes[q] => p \in S
        BY <1>0, <4>1, ChoiceFits
      <4> QED
        BY <2>2, <2>3, <3>1, <4>2 DEF Fits, Contributes
    <3>2. CASE algorithm # "tit_for_tat"
      BY <2>1, <2>2, <3>2 DEF StartRound, Fits, Contributes
    <3> QED
      BY <3>1, <3>2
  <2> QED
    BY <2>2, <2>4, <2>5, <2>6
<1>2. CASE Sent
  <2> DEFINE r == [round EXCEPT !.sending = NoPeer]
  <2>1. /\ Between(r, Told)
        /\ r.asked = round.asked /\ r.chosen = round.chosen /\ r.rates = round.rates
        /\ r.visited = round.visited /\ r.lost = round.lost
    BY <1>0, <1>2, SentIsBetween
  <2>2. /\ round.phase = "walking" /\ Advance(r, Told) /\ unchoked' = Told
        /\ UNCHANGED <<algorithm, keys, up>>
    BY <1>2 DEF Sent
  <2> HIDE DEF r
  <2>3. Settled(r, Told)
    <3>1. VisitedAreSettled
      BY DEF RoundInv
    <3> QED
      BY <2>1, <2>2, <3>1 DEF Settled, VisitedAreSettled, Told
  <2>4. Fits(r) /\ Contributes(r)
    BY <2>1, <2>2 DEF RoundInv, ChosenFit, Fits, Contributes
  <2> QED
    BY <2>1, <2>2, <2>3, <2>4
<1> QED
  BY <1>1, <1>2

\* What the loop leaves behind: a message on its way, everybody choked before
\* round-robin's UNCHOKE, or a round of tit-for-tat that is through.
LEMMA LoopOutcomes ==
    ASSUME RoundInv, (\E S \in SUBSET Peers : StartRound(S)) \/ Sent
    PROVE  \/ round' = Dead
           \/ round'.phase = "walking" /\ VisitedAreSettled' /\ ChosenFit'
           \/ round'.phase = "rotating" /\ AllChoked'
           \/ /\ round' = Asleep /\ algorithm = "tit_for_tat"
              /\ Cardinality(unchoked') <= MaxUnchoked + 1
<1>0. TypeOK
  BY DEF RoundInv, TypeInv
<1>1. PICK r, un :
        /\ Between(r, un) /\ Settled(r, un) /\ Fits(r) /\ Contributes(r)
        /\ Advance(r, un)
        /\ unchoked' = un /\ UNCHANGED <<algorithm, keys, up>>
  BY LoopGoesOn
<1>2. CASE Breaks
  BY <1>2 DEF Breaks
<1>3. CASE SendsFirst(r, un)
  <2>1. VisitedAreSettled'
    BY <1>0, <1>1, <1>3, SendSettles
  <2>2. /\ round'.phase = "walking" /\ round'.chosen = r.chosen /\ round'.asked = r.asked
        /\ round'.rates = r.rates
    BY <1>0, <1>1, <1>3, SendToRound
  <2>3. ChosenFit'
    BY <1>1, <2>2 DEF ChosenFit, Fits, Contributes
  <2> QED
    BY <2>1, <2>2, <2>3
<1>4. CASE Due(r, un) = {} /\ WalkEnds(r)
  <2>1. un = r.chosen \cap up
    BY <1>0, <1>1, <1>4, WalkSettles
  <2>2. CASE algorithm = "tit_for_tat"
    <3>1. round' = Asleep
      BY <1>4, <2>2 DEF WalkEnds
    <3>2. Cardinality(r.chosen) <= MaxUnchoked + 1 /\ r.chosen \in SUBSET Peers
      BY <1>1, <2>2 DEF Fits, Between, Rounds
    <3>3. un \in SUBSET r.chosen /\ un \in SUBSET Peers
      BY <2>1, <3>2
    <3>4. Cardinality(un) <= Cardinality(r.chosen)
      BY <3>2, <3>3, PeersFinite, FS_Subset
    <3>5. /\ Cardinality(un) \in Nat /\ Cardinality(r.chosen) \in Nat /\ MaxUnchoked \in Nat
      BY <3>2, <3>3, PeersFinite, ChokeAssumption
    <3>6. Cardinality(un) <= MaxUnchoked + 1
      BY <3>2, <3>4, <3>5
    <3> QED
      BY <1>1, <2>2, <3>1, <3>6
  <2>3. CASE algorithm # "tit_for_tat"
    <3>1. un = {} /\ algorithm = "round_robin"
      BY <1>0, <1>1, <2>1, <2>3 DEF Fits, TypeOK
    <3>2. \/ round' = Asleep /\ algorithm = "tit_for_tat"
          \/ round' = Dead \/ round'.phase = "rotating"
      BY <1>0, <1>1, <1>4, WalkEndsRound
    <3>3. AllChoked'
      BY <1>1, <3>1 DEF AllChoked
    <3> QED
      BY <2>3, <3>2, <3>3
  <2> QED
    BY <2>2, <2>3
<1> QED
  BY <1>1, <1>2, <1>3, <1>4, AdvanceCases

\* The walk goes on over what the others do.
LEMMA SettledStep ==
    ASSUME RoundInv, [Next]_vars
    PROVE  VisitedAreSettled' /\ ChosenFit'
<1> SUFFICES ASSUME round'.phase = "walking"
             PROVE  VisitedAreSettled' /\ ChosenFit'
  BY DEF VisitedAreSettled, ChosenFit
<1>0. round \in Rounds /\ NoPeer \notin Peers /\ unchoked \subseteq up /\ up \subseteq keys
      /\ keys \subseteq Peers /\ algorithm' = algorithm
  BY ChokeAssumption, AlgorithmStays DEF RoundInv, TypeInv, TypeOK
<1>1. CASE (\E S \in SUBSET Peers : StartRound(S)) \/ Sent
  <2>1. Dead.phase # "walking" /\ Asleep.phase # "walking"
    BY DEF Dead, Asleep
  <2> QED
    BY <1>1, <2>1, LoopOutcomes
<1>2. CASE ~ ((\E S \in SUBSET Peers : StartRound(S)) \/ Sent)
  <2>0. ~ (SendFails \/ LoopEnds \/ Rotated \/ Pause \/ Resume)
    BY DEF SendFails, Breaks, LoopEnds, Rotated, Pause, Resume, Asleep, Dead
  <2>1. /\ round.phase = "walking" /\ round'.chosen = round.chosen
        /\ round'.asked = round.asked /\ round'.rates = round.rates
    <3>1. CASE (\E p \in Peers : Leave(p)) \/ Cleanup
      BY <1>0, <3>1 DEF Leave, Cleanup, Rounds
    <3>2. CASE \/ \E p \in Peers : Join(p) \/ ChangeMind(p) \/ Contribute(p)
               \/ Complete \/ UNCHANGED vars
      BY <3>2 DEF Join, ChangeMind, Contribute, Complete, vars
    <3> QED
      BY <1>2, <2>0, <3>1, <3>2 DEF Next, RoundStep
  <2>2. ChosenFit'
    BY <1>0, <2>1 DEF RoundInv, ChosenFit, Fits, Contributes
  <2>3. /\ round.visited \subseteq keys
        /\ round.sending \in round.visited \cap up <=> ~ round.cut
        /\ \A p \in round.visited \cap up :
              p # round.sending => (p \in unchoked <=> p \in round.chosen)
    BY <2>1 DEF RoundInv, VisitedAreSettled
  <2>4. CASE \E p \in Peers : Leave(p)
    <3>1. PICK p \in Peers : Leave(p)
      BY <2>4
    <3>2. /\ round'.visited = round.visited /\ round'.sending = round.sending
          /\ (round'.cut <=> round.cut \/ round.sending = p)
      BY <1>0, <3>1 DEF Leave, Rounds
    <3>3. up' = up \ {p} /\ unchoked' = unchoked \ {p} /\ keys' = keys
      BY <3>1 DEF Leave, Lose
    <3> QED
      BY <1>0, <2>1, <2>2, <2>3, <3>2, <3>3 DEF VisitedAreSettled
  <2>5. CASE Cleanup
    <3>1. /\ round'.visited = round.visited \cap up /\ round'.sending = round.sending
          /\ round'.cut = round.cut
      BY <1>0, <2>5 DEF Cleanup, Rounds
    <3> QED
      BY <1>0, <2>1, <2>2, <2>3, <2>5, <3>1 DEF Cleanup, VisitedAreSettled
  <2>6. CASE \E p \in Peers : Join(p)
    BY <1>0, <2>1, <2>2, <2>3, <2>6 DEF Join, VisitedAreSettled
  <2>7. CASE (\E p \in Peers : ChangeMind(p) \/ Contribute(p)) \/ Complete \/ UNCHANGED vars
    BY <1>0, <2>1, <2>2, <2>3, <2>7 DEF ChangeMind, Contribute, Complete, vars, peerVars,
                                       VisitedAreSettled
  <2> QED
    BY <1>2, <2>0, <2>4, <2>5, <2>6, <2>7 DEF Next, RoundStep
<1> QED
  BY <1>1, <1>2

\* Between the choking of everybody and the one UNCHOKE nobody is unchoked.
LEMMA AllChokedStep ==
    ASSUME RoundInv, [Next]_vars
    PROVE  AllChoked'
<1> SUFFICES ASSUME round'.phase = "rotating"
             PROVE  AllChoked'
  BY DEF AllChoked
<1>0. round \in Rounds /\ unchoked \subseteq up /\ AllChoked
  BY DEF RoundInv, TypeInv, TypeOK
<1>1. CASE (\E S \in SUBSET Peers : StartRound(S)) \/ Sent
  <2>1. Dead.phase # "rotating" /\ Asleep.phase # "rotating"
    BY DEF Dead, Asleep
  <2> QED
    BY <1>1, <2>1, LoopOutcomes
<1>2. CASE (\E p \in Peers : Leave(p)) \/ Cleanup
  BY <1>0, <1>2 DEF Leave, Lose, Cleanup, Rounds, AllChoked
<1>3. CASE \/ \E p \in Peers : Join(p) \/ ChangeMind(p) \/ Contribute(p)
           \/ Complete \/ UNCHANGED vars
  BY <1>0, <1>3 DEF Join, ChangeMind, Contribute, Complete, vars, peerVars, AllChoked
<1>4. ~ (SendFails \/ LoopEnds \/ Rotated \/ Pause \/ Resume)
  BY DEF SendFails, Breaks, LoopEnds, Rotated, Pause, Resume, Asleep, Dead
<1> QED
  BY <1>1, <1>2, <1>3, <1>4 DEF Next, RoundStep

\* A round that is over left no more unchoked than there are slots, and between
\* rounds nobody is unchoked.
LEMMA SlotsStep ==
    ASSUME RoundInv, [Next]_vars
    PROVE  SlotsAreBounded'
<1> SUFFICES ASSUME round'.phase = "asleep"
             PROVE  Cardinality(unchoked') <= Slots'
  BY DEF SlotsAreBounded
<1>0. round \in Rounds /\ unchoked \in SUBSET Peers
  BY DEF RoundInv, TypeInv, TypeOK
<1>1. algorithm' = algorithm /\ Slots' = Slots /\ MaxUnchoked \in Nat
  BY ChokeAssumption, AlgorithmStays DEF Slots
<1>2. Slots \in Nat /\ 1 <= Slots
  BY <1>1 DEF Slots
<1>3. Cardinality({}) = 0
  BY FS_EmptySet
<1>4. CASE (\E S \in SUBSET Peers : StartRound(S)) \/ Sent
  <2>1. Dead.phase # "asleep"
    BY DEF Dead, Asleep
  <2>2. algorithm = "tit_for_tat" /\ Cardinality(unchoked') <= MaxUnchoked + 1
    BY <1>4, <2>1, LoopOutcomes
  <2> QED
    BY <1>1, <2>2 DEF Slots
<1>5. CASE Rotated
  <2>1. unchoked = {}
    BY <1>5 DEF Rotated, RoundInv, AllChoked
  <2>2. unchoked' = {} \/ unchoked' = {round.sending}
    BY <1>5, <2>1 DEF Rotated
  <2>3. Cardinality({round.sending}) = 1
    BY FS_Singleton
  <2> QED
    BY <1>1, <1>2, <1>3, <2>2, <2>3
<1>6. CASE Resume
  BY <1>1, <1>2, <1>3, <1>6 DEF Resume, peerVars, RoundInv, TypeInv, PausedIsOver
<1>7. ASSUME round.phase = "asleep", unchoked' \subseteq unchoked
      PROVE  Cardinality(unchoked') <= Slots'
  <2>1. Cardinality(unchoked) <= Slots
    BY <1>7 DEF RoundInv, SlotsAreBounded
  <2>2. Cardinality(unchoked') <= Cardinality(unchoked)
    BY <1>0, <1>7, PeersFinite, FS_Subset
  <2>3. Cardinality(unchoked) \in Nat /\ Cardinality(unchoked') \in Nat
    BY <1>0, <1>7, PeersFinite
  <2> QED
    BY <1>1, <1>2, <2>1, <2>2, <2>3
<1>8. CASE (\E p \in Peers : Leave(p)) \/ Cleanup
  BY <1>0, <1>7, <1>8 DEF Leave, Lose, Cleanup, Rounds
<1>9. CASE \/ \E p \in Peers : Join(p) \/ ChangeMind(p) \/ Contribute(p)
           \/ Complete \/ UNCHANGED vars
  BY <1>0, <1>7, <1>9 DEF Join, ChangeMind, Contribute, Complete, vars, peerVars
<1>10. ~ (SendFails \/ LoopEnds \/ Pause)
  BY DEF SendFails, Breaks, LoopEnds, Pause, Asleep, Dead
<1> QED
  BY <1>4, <1>5, <1>6, <1>8, <1>9, <1>10 DEF Next, RoundStep

\* The invariant of a round is inductive.
LEMMA RoundInvHolds ==
    Spec => []RoundInv
<1>1. Init /\ TypeInv => RoundInv
  <2> SUFFICES ASSUME Init, TypeInv
               PROVE  RoundInv
    OBVIOUS
  <2>1. round.phase = "asleep" /\ unchoked = {}
    BY DEF Init, Asleep
  <2>2. Slots \in Nat /\ Cardinality({}) = 0
    BY FS_EmptySet, ChokeAssumption DEF Slots
  <2> QED
    BY <2>1, <2>2 DEF RoundInv, VisitedAreSettled, ChosenFit, AllChoked, SlotsAreBounded
<1>2. RoundInv /\ TypeInv' /\ [Next]_vars => RoundInv'
  BY SettledStep, AllChokedStep, SlotsStep DEF RoundInv
<1> QED
  BY <1>1, <1>2, TypeInvHolds, PTL DEF Spec

\* The choke loop's promise: after a round that was not broken off no more peers
\* are unchoked than MAX_UNCHOKED_PEERS and the optimistic one, or the one of
\* round-robin, whoever came and went while its messages were sent.
THEOREM SlotsHold ==
    Spec => []SlotsAreBounded
<1>1. RoundInv => SlotsAreBounded
  BY DEF RoundInv
<1> QED
  BY <1>1, RoundInvHolds, PTL

\* When a round of tit-for-tat ends, at most one peer that was interested when it
\* began and is connected still, the optimistic choice, is unchoked while one
\* that had uploaded more is choked.
THEOREM ContributorsAreFirst ==
    Spec => ContributorsFirst
<1>1. ASSUME RoundInv, [Next]_vars, round.phase = "walking", round'.phase = "asleep"
      PROVE  LET Here == DOMAIN round.asked \ round.lost
             IN Cardinality({q \in Here \cap unchoked' :
                               \E p \in Here \ unchoked' : round.rates[p] > round.rates[q]}) <= 1
  <2> DEFINE Here == DOMAIN round.asked \ round.lost
             Left == {q \in Here \cap unchoked' :
                        \E p \in Here \ unchoked' : round.rates[p] > round.rates[q]}
  <2>0. round \in Rounds /\ TypeOK
    BY <1>1 DEF RoundInv, TypeInv, TypeOK
  <2>1. Sent
    BY <1>1, <2>0
    DEF RoundInv, TypeInv, PausedIsOver, Next, RoundStep, StartRound, Rotated, SendFails,
        Breaks, LoopEnds, Join, Leave, ChangeMind, Contribute, Cleanup, Pause, Resume,
        Complete, vars, Rounds, Asleep, Dead
  <2>2. PICK r, un :
          /\ Between(r, un) /\ Settled(r, un) /\ Contributes(r) /\ Advance(r, un)
          /\ unchoked' = un
          /\ r.asked = round.asked /\ r.lost = round.lost /\ r.rates = round.rates
    BY <1>1, <2>1, LoopGoesOn
  <2>3. Due(r, un) = {} /\ algorithm = "tit_for_tat"
    <3>1. ~ Breaks
      BY <1>1 DEF Breaks, Dead, Asleep
    <3>2. ~ SendsFirst(r, un)
      BY <1>1, <2>0, <2>2, SendToRound
    <3>3. Due(r, un) = {} /\ WalkEnds(r)
      BY <2>2, <3>1, <3>2, AdvanceCases
    <3> QED
      BY <1>1, <2>0, <2>2, <3>3, WalkEndsRound DEF Dead, Asleep
  <2>4. unchoked' = r.chosen \cap up
    BY <2>0, <2>2, <2>3, WalkSettles
  <2>5. PICK o : \A q \in r.chosen \ {o}, p \in DOMAIN round.asked :
                    round.rates[p] > round.rates[q] => p \in r.chosen
    BY <2>2, <2>3 DEF Contributes
  <2>6. Here \subseteq up
    BY <1>1 DEF RoundInv, TypeInv, AskedAreUp
  <2>7. Left \in SUBSET {o}
    BY <2>4, <2>5, <2>6
  <2>8. IsFiniteSet({o}) /\ Cardinality({o}) = 1
    BY FS_Singleton
  <2> HIDE DEF Left
  <2>9. Cardinality(Left) <= 1
    BY <2>7, <2>8, FS_Subset
  <2> QED
    BY <2>9 DEF Left
<1>2. RoundInv /\ [Next]_vars =>
        [LET Here == DOMAIN round.asked \ round.lost
         IN round.phase = "walking" /\ round'.phase = "asleep" =>
              Cardinality({q \in Here \cap unchoked' :
                             \E p \in Here \ unchoked' : round.rates[p] > round.rates[q]}) <= 1]_vars
  BY <1>1
<1> QED
  BY <1>2, RoundInvHolds, PTL DEF Spec, ContributorsFirst
===============================================================================
