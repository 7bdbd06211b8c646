---------------------------- MODULE ChokeAlgorithm ----------------------------
(***************************************************************************)
(* Whom a download uploads to: Download._choke_loop and its two            *)
(* algorithms, tit-for-tat and round-robin.  Every ten seconds a round     *)
(* chooses among the interested peers and then walks over _connections,    *)
(* sending CHOKE and UNCHOKE.  Each send is awaited, and the walk is over  *)
(* the live dict: peers come, go and change their mind during a send, and  *)
(* a dict that changed its size ends the walk with a RuntimeError, which   *)
(* nothing catches.  Between two awaits nothing else runs, so a step of    *)
(* the loop is all it does from one send to the next.  A connection is     *)
(* named by its peer; one replaced in place by a second dial of the peer   *)
(* is PeerPool's subject.                                                  *)
(***************************************************************************)
EXTENDS Integers, FiniteSets

CONSTANTS
    Peers,
    MaxUnchoked,    \* MAX_UNCHOKED_PEERS
    MaxBytes,       \* bound: uploads end when a peer uploaded so many blocks
    MaxChurn,       \* bound: departures, changes of interest, pauses, sends
                    \* that raise on a connection that is up
    NoPeer

ASSUME ChokeAssumption ==
    /\ IsFiniteSet(Peers) /\ Peers # {} /\ NoPeer \notin Peers
    /\ MaxUnchoked \in Nat \ {0} /\ MaxBytes \in Nat /\ MaxChurn \in Nat

VARIABLES
    algorithm,      \* peer_algorithm
    state,          \* the download's state
    keys,           \* the keys of _connections
    older,          \* their order: the pairs of one inserted before the other
    up,             \* peers whose connection is connected
    interested,     \* peer_interested
    unchoked,       \* peers with am_choking = False
    bytes,          \* PeerConnection.bytes_downloaded, in blocks
    rrIndex,        \* _rr_index
    round,          \* where the choke loop is
    churn           \* how much of MaxChurn is used up

peerVars == <<keys, older, up, interested, unchoked, bytes>>
vars == <<algorithm, state, peerVars, rrIndex, round, churn>>

(***************************************************************************)
(* "asleep": between rounds.  "walking": in a send of the for over         *)
(* _connections.items.  "rotating": in round-robin's send_unchoke after    *)
(* that for.  "dead": an exception ended the task.  "ended": cancelled, or *)
(* the download does not run any more.  asked gives the place of each peer *)
(* in the list of those interested; left and size are the dict iterator's  *)
(* len and di_used; lost are the peers asked whose connection is down; cut *)
(* says so of the connection a message is being sent on.                   *)
(***************************************************************************)
Asleep == [phase |-> "asleep", asked |-> [p \in {} |-> 0], chosen |-> {},
           rates |-> [p \in Peers |-> 0], visited |-> {}, left |-> 0, size |-> 0,
           sending |-> NoPeer, cut |-> FALSE, lost |-> {}]

Dead == [Asleep EXCEPT !.phase = "dead"]

Rounds == [phase : {"asleep", "walking", "rotating", "dead", "ended"},
           asked : UNION {[S -> 0..Cardinality(Peers)] : S \in SUBSET Peers},
           chosen : SUBSET Peers,
           rates : [Peers -> 0..MaxBytes], visited : SUBSET Peers, left : Nat, size : Nat,
           sending : Peers \cup {NoPeer}, cut : BOOLEAN, lost : SUBSET Peers]

TypeOK ==
    /\ algorithm \in {"tit_for_tat", "round_robin"}
    /\ state \in {"Running", "Paused", "Completed"}
    /\ keys \subseteq Peers /\ up \subseteq keys
    /\ older \subseteq keys \X keys
    /\ \A p, q \in keys : p = q <=> <<p, q>> \notin older /\ <<q, p>> \notin older
    /\ \A p, q, r \in keys : <<p, q>> \in older /\ <<q, r>> \in older => <<p, r>> \in older
    /\ interested \subseteq up /\ unchoked \subseteq up
    /\ bytes \in [Peers -> 0..MaxBytes]
    /\ rrIndex \in Nat /\ rrIndex < Cardinality(Peers)
    /\ round \in Rounds
    /\ churn \in 0..MaxChurn

Init ==
    /\ algorithm \in {"tit_for_tat", "round_robin"}
    /\ state = "Running"
    /\ keys = {} /\ older = {} /\ up = {} /\ interested = {} /\ unchoked = {}
    /\ bytes = [p \in Peers |-> 0]
    /\ rrIndex = 0
    /\ round = Asleep
    /\ churn = 0

-----------------------------------------------------------------------------
(* A round. *)

Candidates == {p \in keys : p \in up \cap interested}

\* The list of the peers in S, in the order of the dict: how many come before.
Places(S) == [p \in S |-> Cardinality({q \in S : <<q, p>> \in older})]

\* Mutation: the sort is ascending.
AheadReversed(q, p) ==
    \/ bytes[q] < bytes[p]
    \/ bytes[q] = bytes[p] /\ <<q, p>> \in older

\* q comes before p in the list sorted by bytes_downloaded, reverse=True; the
\* sort is stable.
Ahead(q, p) ==
    \/ bytes[q] > bytes[p]
    \/ bytes[q] = bytes[p] /\ <<q, p>> \in older

TopK(S) == {p \in S : Cardinality({q \in S : Ahead(q, p)}) < MaxUnchoked}

\* What tit-for-tat unchokes: the top K, and one more picked at random.
ToUnchoke(S) == IF S = TopK(S) THEN {S} ELSE {TopK(S) \cup {o} : o \in S \ TopK(S)}

\* The for over _connections.items() begins.  Round-robin chokes everybody.
Begun(chosen) ==
    [Asleep EXCEPT !.phase = "walking", !.asked = Places(Candidates), !.chosen = chosen,
                   !.rates = bytes, !.left = Cardinality(keys), !.size = Cardinality(keys)]

\* The entries the for of round r has not come to.
Todo(r) == keys \ r.visited

\* Mutation: only the peers chosen are looked at.
MessageDueChosen(r, un, p) == p \in up \cap (r.chosen \ un)

\* With un unchoked, round r has something to tell p: an UNCHOKE if it chose p,
\* a CHOKE if it did not.
MessageDue(r, un, p) == p \in up /\ (p \in r.chosen <=> p \notin un)

Due(r, un) == {p \in Todo(r) : MessageDue(r, un, p)}

\* The entries the for passes on its way to p.
Before(r, p) == {q \in Todo(r) : <<q, p>> \in older}

\* An exception nothing catches ends the task.
Breaks == round' = Dead /\ UNCHANGED rrIndex

\* The first peer with a message due: it is sent, and awaited.
SendTo(r, p) ==
    /\ round' = [r EXCEPT !.visited = @ \cup Before(r, p) \cup {p},
                          !.left = @ - Cardinality(Before(r, p)) - 1,
                          !.sending = p, !.cut = FALSE]
    /\ UNCHANGED rrIndex

Turn(r) == rrIndex % Cardinality(DOMAIN r.asked)

\* Round-robin unchokes the next of the list made before the walk.
Rotate(r) ==
    /\ \E p \in DOMAIN r.asked :
          /\ r.asked[p] = Turn(r)
          /\ round' = IF p \in r.lost THEN Dead
                      ELSE [r EXCEPT !.phase = "rotating", !.sending = p, !.cut = FALSE]
    /\ rrIndex' = Turn(r)

\* Everybody visited.  Tit-for-tat is done.
WalkEnds(r) ==
    IF algorithm = "tit_for_tat" THEN round' = Asleep /\ UNCHANGED rrIndex
    ELSE Rotate(r)

\* The for of round r goes on, with un unchoked, until the next await: the dict
\* iterator raises when the size is not what it was, or when there is one more
\* entry than there were (a deletion and an insertion).
Advance(r, un) ==
    \/ Cardinality(keys) # r.size /\ Breaks
    \/ /\ Cardinality(keys) = r.size /\ Due(r, un) = {}
       /\ IF Cardinality(Todo(r)) <= r.left THEN WalkEnds(r) ELSE Breaks
    \/ /\ Cardinality(keys) = r.size
       /\ \E p \in Due(r, un) :
            /\ \A q \in Due(r, un) : <<q, p>> \notin older
            /\ IF Cardinality(Before(r, p)) < r.left THEN SendTo(r, p) ELSE Breaks

\* The loop wakes up; if nobody is interested it goes back to sleep.
StartRound(chosen) ==
    /\ round.phase = "asleep" /\ state = "Running" /\ Candidates # {}
    /\ IF algorithm = "tit_for_tat" THEN chosen \in ToUnchoke(Candidates)
                                    ELSE chosen = {}
    /\ Advance(Begun(chosen), unchoked)
    /\ UNCHANGED <<algorithm, state, peerVars, churn>>

\* The loop wakes up in a download that does not run any more.
LoopEnds ==
    /\ round.phase = "asleep" /\ state # "Running"
    /\ round' = [Asleep EXCEPT !.phase = "ended"]
    /\ UNCHANGED <<algorithm, state, peerVars, rrIndex, churn>>

\* Who is unchoked once the message is sent and am_choking set; a connection that
\* went down meanwhile is not the one the table may hold now.
Told ==
    IF round.cut THEN unchoked
    ELSE IF round.sending \in round.chosen THEN unchoked \cup {round.sending}
    ELSE unchoked \ {round.sending}

\* send_message returns, and the for goes on.
Sent ==
    /\ round.phase = "walking"
    /\ unchoked' = Told
    /\ Advance([round EXCEPT !.sending = NoPeer], Told)
    /\ UNCHANGED <<algorithm, state, keys, older, up, interested, bytes, churn>>

\* Mutation: the index is not wrapped.
NextTurnOver == Turn(round) + 1

\* Mutation: the index stays where it is.
NextTurnSame == Turn(round)

NextTurn == (Turn(round) + 1) % Cardinality(DOMAIN round.asked)

\* Round-robin's send_unchoke returns.
Rotated ==
    /\ round.phase = "rotating"
    /\ unchoked' = IF round.cut THEN unchoked ELSE unchoked \cup {round.sending}
    /\ rrIndex' = NextTurn
    /\ round' = Asleep
    /\ UNCHANGED <<algorithm, state, keys, older, up, interested, bytes, churn>>

Spend == churn < MaxChurn /\ churn' = churn + 1

\* send_message raises PeerConnectionError.
SendFails ==
    /\ round.sending # NoPeer
    /\ Breaks
    /\ IF round.cut THEN UNCHANGED churn ELSE Spend
    /\ UNCHANGED <<algorithm, state, peerVars>>

-----------------------------------------------------------------------------
(* What happens while a send, or the sleep between rounds, is awaited. *)

Lose(S) ==
    /\ up' = up \ S
    /\ unchoked' = unchoked \ S
    /\ interested' = interested \ S

\* A new connection: choked, with an INTERESTED as its first message.
Join(p) ==
    /\ p \notin keys
    /\ keys' = keys \cup {p} /\ older' = older \cup (keys \X {p})
    /\ up' = up \cup {p}
    /\ interested' = interested \cup {p}
    /\ bytes' = [bytes EXCEPT ![p] = 0]
    /\ UNCHANGED <<algorithm, state, unchoked, rrIndex, round, churn>>

\* disconnect(); the entry stays until the next clean-up.
Leave(p) ==
    /\ p \in up
    /\ Spend
    /\ Lose({p})
    /\ round' = [round EXCEPT !.lost = @ \cup ({p} \cap DOMAIN round.asked),
                              !.cut = @ \/ round.sending = p]
    /\ UNCHANGED <<algorithm, state, keys, older, bytes, rrIndex>>

\* _cleanup_dead_peers
Cleanup ==
    /\ keys # up
    /\ keys' = up /\ older' = older \cap (up \X up)
    /\ round' = [round EXCEPT !.visited = @ \cap up]
    /\ UNCHANGED <<algorithm, state, up, interested, unchoked, bytes, rrIndex, churn>>

\* INTERESTED and NOT_INTERESTED
ChangeMind(p) ==
    /\ p \in up
    /\ Spend
    /\ interested' = IF p \in interested THEN interested \ {p} ELSE interested \cup {p}
    /\ UNCHANGED <<algorithm, state, keys, older, up, unchoked, bytes, rrIndex, round>>

\* A PIECE message.
Contribute(p) ==
    /\ p \in up /\ \A q \in Peers : bytes[q] < MaxBytes
    /\ bytes' = [bytes EXCEPT ![p] = @ + 1]
    /\ UNCHANGED <<algorithm, state, keys, older, up, interested, unchoked, rrIndex, round, churn>>

\* pause() cancels the task and disconnects everybody; resume() starts another.
Pause ==
    /\ state = "Running"
    /\ Spend
    /\ state' = "Paused"
    /\ Lose(up)
    /\ round' = [Asleep EXCEPT !.phase = IF round.phase = "dead" THEN "dead" ELSE "ended"]
    /\ UNCHANGED <<algorithm, keys, older, bytes, rrIndex>>

Resume ==
    /\ state = "Paused"
    /\ state' = "Running"
    /\ round' = Asleep
    /\ UNCHANGED <<algorithm, peerVars, rrIndex, churn>>

\* The PIECE handler sets the state to Completed.
Complete ==
    /\ state = "Running" /\ up # {}
    /\ state' = "Completed"
    /\ UNCHANGED <<algorithm, peerVars, rrIndex, round, churn>>

-----------------------------------------------------------------------------
RoundStep == Sent \/ Rotated

Next ==
    \/ \E S \in SUBSET Peers : StartRound(S)
    \/ RoundStep \/ SendFails \/ LoopEnds
    \/ \E p \in Peers : Join(p) \/ Leave(p) \/ ChangeMind(p) \/ Contribute(p)
    \/ Cleanup \/ Pause \/ Resume \/ Complete

Spec == Init /\ [][Next]_vars

(***************************************************************************)
(* Fairness: the timer fires and sends return; the optimistic choice is    *)
(* random, so one that is possible again and again is made some time.      *)
(***************************************************************************)
LoopStep == RoundStep \/ LoopEnds \/ \E S \in SUBSET Peers : StartRound(S)

Fairness ==
    /\ WF_vars(LoopStep)
    /\ \A p \in Peers : SF_vars(\E S \in SUBSET Peers : p \in S /\ StartRound(S))

FairSpec == Spec /\ Fairness

-----------------------------------------------------------------------------
Slots == IF algorithm = "tit_for_tat" THEN MaxUnchoked + 1 ELSE 1

\* "Choke all others": after a round that was not broken off, and whatever
\* came and went during its sends, no more peers are unchoked than there
\* are slots.
SlotsAreBounded == round.phase = "asleep" => Cardinality(unchoked) <= Slots

\* Tit-for-tat, when a round ends: of the peers that were interested when the
\* round began and are still connected, at most one, the optimistic choice, is
\* unchoked while another that had uploaded more is choked.
ContributorsFirst ==
    [][LET Here == DOMAIN round.asked \ round.lost
       IN round.phase = "walking" /\ round'.phase = "asleep" =>
            Cardinality({q \in Here \cap unchoked' :
                           \E p \in Here \ unchoked' : round.rates[p] > round.rates[q]}) <= 1]_vars

\* A peer that stays connected and interested is unchoked again and again, as
\* long as the choke loop lives: arrivals and departures shift the rotation,
\* they do not starve anybody once they stop.
EveryoneGetsATurn ==
    \A p \in Peers :
        \/ []<>(p \notin up \cap interested \/ p \in unchoked)
        \/ <>[](round.phase \in {"dead", "ended"})

\* "Periodically run choke/unchoke algorithm": as long as the download runs, so
\* does its choke loop.
ChokeLoopLives == state = "Running" => round.phase # "dead"
=============================================================================
