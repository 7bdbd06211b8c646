---------------------------- MODULE PeerPoolProofs ----------------------------
(***************************************************************************)
(* What holds of PieceAvailability and PeerPool whatever the peers, the    *)
(* pieces and the connection objects are: the running count is exact, the  *)
(* pool drives the availability tables only through their operations, and  *)
(* so the count is exact in the pool too; and which connections a pool     *)
(* has, and what it knows of its peers, however many calls overlap.         *)
(***************************************************************************)
EXTENDS PeerPool, FiniteSetTheorems, TLAPS

(***************************************************************************)
(* The running count.                                                      *)
(***************************************************************************)
ExactInv == AvailTypeOK /\ FrequencyIsExact

\* The announcers of a piece, counted or not, are finitely many.
LEMMA AnnouncedFinite ==
    ASSUME NEW i \in Pieces
    PROVE  IsFiniteSet(Announced(i)) /\ Cardinality(Announced(i)) \in Nat
<1>1. Announced(i) \in SUBSET Peers
  BY DEF Announced
<1> QED
  BY <1>1, FS_Subset, FS_CardinalityType, AvailabilityAssumption

\* The peers of D that announced i are counted by CountIn.
LEMMA CountInIs ==
    ASSUME NEW D \in SUBSET Peers, NEW i \in Pieces
    PROVE  /\ CountIn(D)[i] = Cardinality(Announced(i) \cap D)
           /\ Cardinality(Announced(i) \ D) = Cardinality(Announced(i)) - CountIn(D)[i]
           /\ CountIn(D)[i] \in Nat
           /\ CountIn(D)[i] <= Cardinality(Announced(i))
<1>1. {p \in D : i \in peerPieces[p]} = Announced(i) \cap D
  BY DEF Announced
<1>2. CountIn(D)[i] = Cardinality(Announced(i) \cap D)
  BY <1>1 DEF CountIn
<1>3. IsFiniteSet(Announced(i)) /\ Cardinality(Announced(i)) \in Nat
  BY AnnouncedFinite
<1>4. Cardinality(Announced(i) \ D) = Cardinality(Announced(i)) - Cardinality(Announced(i) \cap D)
  BY <1>3, FS_Difference
<1>5. /\ Cardinality(Announced(i) \cap D) <= Cardinality(Announced(i))
      /\ IsFiniteSet(Announced(i) \cap D)
  <2>1. Announced(i) \cap D \in SUBSET Announced(i)
    OBVIOUS
  <2> QED
    BY <1>3, <2>1, FS_Subset
<1>6. Cardinality(Announced(i) \cap D) \in Nat
  BY <1>5, FS_CardinalityType
<1> QED
  BY <1>2, <1>4, <1>5, <1>6

\* With an exact count, Less never meets its floor.
LEMMA LessIsExact ==
    ASSUME ExactInv, NEW D \in SUBSET Peers, NEW i \in Pieces
    PROVE  /\ Less(freq, CountIn(D))[i] = Cardinality(Announced(i) \ D)
           /\ Less(freq, CountIn(D))[i] \in Nat
<1>1. freq[i] = Cardinality(Announced(i)) /\ freq[i] \in Nat
  BY DEF ExactInv, AvailTypeOK, FrequencyIsExact
<1>2. ~ (CountIn(D)[i] > freq[i]) /\ CountIn(D)[i] \in Nat
  <2>1. CountIn(D)[i] \in Nat /\ CountIn(D)[i] <= Cardinality(Announced(i))
    BY CountInIs
  <2> QED
    BY <1>1, <2>1
<1>3. Less(freq, CountIn(D))[i] = freq[i] - CountIn(D)[i]
  BY <1>2 DEF Less
<1>4. freq[i] - CountIn(D)[i] \in Nat
  BY <1>1, <1>2
<1> QED
  BY <1>1, <1>3, <1>4, CountInIs

\* A bitfield leaves the count exact.
LEMMA UpdatePeerPiecesExact ==
    ASSUME ExactInv, NEW p \in Peers, NEW S \in SUBSET Pieces, UpdatePeerPieces(p, S)
    PROVE  ExactInv'
<1>1. peerPieces' = [peerPieces EXCEPT ![p] = S] /\ peerPieces \in [Peers -> SUBSET Pieces]
  BY DEF UpdatePeerPieces, ExactInv, AvailTypeOK
<1>2. ASSUME NEW i \in Pieces
      PROVE  freq'[i] \in Nat /\ freq'[i] = Cardinality(Announced(i)')
  <2> DEFINE others == Announced(i) \ {p}
  <2>1. IsFiniteSet(others) /\ Cardinality(others) \in Nat
    <3>1. others \in SUBSET Announced(i)
      OBVIOUS
    <3> QED
      BY <3>1, AnnouncedFinite, FS_Subset, FS_CardinalityType
  <2>2. Less(freq, CountIn({p}))[i] = Cardinality(others)
    BY LessIsExact
  <2>3. freq'[i] = Cardinality(others) + (IF i \in S THEN 1 ELSE 0)
    BY <2>2 DEF UpdatePeerPieces
  <2>4. Announced(i)' = IF i \in S THEN others \cup {p} ELSE others
    BY <1>1 DEF Announced
  <2>5. Cardinality(others \cup {p}) = Cardinality(others) + 1
    <3>1. p \notin others
      OBVIOUS
    <3> QED
      BY <2>1, <3>1, FS_AddElement
  <2> HIDE DEF others
  <2> QED
    BY <2>1, <2>3, <2>4, <2>5
<1>3. freq' \in [Pieces -> Nat]
  BY <1>2 DEF UpdatePeerPieces
<1>4. peerPieces' \in [Peers -> SUBSET Pieces] /\ status' = status
  BY <1>1 DEF UpdatePeerPieces
<1> QED
  BY <1>2, <1>3, <1>4 DEF ExactInv, AvailTypeOK, FrequencyIsExact

\* A HAVE leaves the count exact.
LEMMA UpdatePeerHaveExact ==
    ASSUME ExactInv, NEW p \in Peers, NEW j \in Pieces, UpdatePeerHave(p, j)
    PROVE  ExactInv'
<1>1. /\ peerPieces' = [peerPieces EXCEPT ![p] = @ \cup {j}]
      /\ freq' = [freq EXCEPT ![j] = IF j \in peerPieces[p] THEN @ ELSE @ + 1]
      /\ status' = status
  BY DEF UpdatePeerHave
<1>2. /\ peerPieces \in [Peers -> SUBSET Pieces] /\ freq \in [Pieces -> Nat]
      /\ status \in [Pieces -> {"missing", "in_progress", "completed"}]
  BY DEF ExactInv, AvailTypeOK
<1>3. ASSUME NEW i \in Pieces
      PROVE  freq'[i] = Cardinality(Announced(i)')
  <2>1. freq[i] = Cardinality(Announced(i))
    BY DEF ExactInv, FrequencyIsExact
  <2>2. CASE i # j
    <3>1. Announced(i)' = Announced(i)
      BY <1>1, <1>2, <2>2 DEF Announced
    <3> QED
      BY <1>1, <1>2, <2>1, <2>2, <3>1
  <2>3. CASE i = j
    <3>1. Announced(i)' = Announced(i) \cup {p}
      BY <1>1, <1>2, <2>3 DEF Announced
    <3>2. p \in Announced(i) <=> j \in peerPieces[p]
      BY <2>3 DEF Announced
    <3>3. Cardinality(Announced(i) \cup {p})
            = IF p \in Announced(i) THEN Cardinality(Announced(i))
              ELSE Cardinality(Announced(i)) + 1
      BY AnnouncedFinite, FS_AddElement
    <3>4. freq'[i] = IF j \in peerPieces[p] THEN freq[i] ELSE freq[i] + 1
      BY <1>1, <1>2, <2>3
    <3> QED
      BY <2>1, <3>1, <3>2, <3>3, <3>4
  <2> QED
    BY <2>2, <2>3
<1> QED
  BY <1>1, <1>2, <1>3 DEF ExactInv, AvailTypeOK, FrequencyIsExact

\* A clean-up leaves the count exact.
LEMMA RemovePeersExact ==
    ASSUME ExactInv, NEW D \in SUBSET Peers, RemovePeers(D)
    PROVE  ExactInv'
<1>1. ASSUME NEW i \in Pieces
      PROVE  freq'[i] \in Nat /\ freq'[i] = Cardinality(Announced(i)')
  <2>1. freq'[i] = Cardinality(Announced(i) \ D) /\ freq'[i] \in Nat
    BY LessIsExact DEF RemovePeers
  <2>2. Announced(i)' = Announced(i) \ D
    BY DEF RemovePeers, Announced
  <2> QED
    BY <2>1, <2>2
<1>2. freq' \in [Pieces -> Nat]
  BY <1>1 DEF RemovePeers, Less
<1>3. peerPieces' \in [Peers -> SUBSET Pieces] /\ status' = status
  BY DEF RemovePeers, ExactInv, AvailTypeOK
<1> QED
  BY <1>1, <1>2, <1>3 DEF ExactInv, AvailTypeOK, FrequencyIsExact

\* Every step of the availability tables leaves the count exact.
LEMMA ExactStep == ExactInv /\ [AvailNext]_availVars => ExactInv'
<1> SUFFICES ASSUME ExactInv, [AvailNext]_availVars PROVE ExactInv'
  OBVIOUS
<1>1. ASSUME NEW p \in Peers, NEW S \in SUBSET Pieces, UpdatePeerPieces(p, S) PROVE ExactInv'
  BY <1>1, UpdatePeerPiecesExact
<1>2. ASSUME NEW p \in Peers, NEW i \in Pieces, UpdatePeerHave(p, i) PROVE ExactInv'
  BY <1>2, UpdatePeerHaveExact
<1>3. ASSUME NEW D \in SUBSET Peers, RemovePeers(D) PROVE ExactInv'
  BY <1>3, RemovePeersExact
<1>4. ASSUME UNCHANGED <<freq, peerPieces>>,
             status' \in [Pieces -> {"missing", "in_progress", "completed"}]
      PROVE  ExactInv'
  BY <1>4 DEF ExactInv, AvailTypeOK, FrequencyIsExact, Announced
<1>5. ASSUME NEW S \in SUBSET Pieces, NEW i \in Pieces, StartPiece(S, i) PROVE ExactInv'
  BY <1>4, <1>5 DEF StartPiece, ExactInv, AvailTypeOK
<1>6. ASSUME NEW i \in Pieces, NEW s \in {"completed", "missing"}, Settle(i, s)
      PROVE  ExactInv'
  BY <1>4, <1>6 DEF Settle, ExactInv, AvailTypeOK
<1>7. CASE UNCHANGED availVars
  BY <1>4, <1>7 DEF availVars, ExactInv, AvailTypeOK
<1> QED
  BY <1>1, <1>2, <1>3, <1>5, <1>6, <1>7 DEF AvailNext

\* The running count of the piece manager is the number of peers that
\* announced a piece, after any sequence of its operations.
THEOREM CountIsExact == AvailSpec => []FrequencyIsExact
<1>1. AvailInit => ExactInv
  BY FS_EmptySet DEF AvailInit, ExactInv, AvailTypeOK, FrequencyIsExact, Announced
<1>2. ExactInv => FrequencyIsExact
  BY DEF ExactInv
<1> QED
  BY <1>1, <1>2, ExactStep, PTL DEF AvailSpec

-----------------------------------------------------------------------------
(***************************************************************************)
(* The pool.  Every step of it is one of the availability tables' steps,   *)
(* or leaves them alone, as long as a connection that is in use has a      *)
(* peer and its view, and what outlives it, is made of pieces.             *)
(***************************************************************************)
PoolInv ==
    /\ conns \in [Conns -> ConnRecords]
    /\ known \subseteq Peers
    /\ late \subseteq SUBSET Pieces
    /\ \A c \in Conns : conns[c].phase # "unused" => conns[c].peer \in Peers

\* What calls go on with is what a connection was told.
LEMMA OutlivesType ==
    ASSUME PoolInv, NEW c \in Conns, Outlives(c)
    PROVE  late' \subseteq SUBSET Pieces
<1>1. conns[c].view \subseteq Pieces
  BY DEF PoolInv, ConnRecords
<1> QED
  BY <1>1 DEF PoolInv, Outlives

\* No step leaves a connection in use without a peer.
LEMMA PoolStep == PoolInv /\ [Next]_vars => PoolInv'
<1> SUFFICES ASSUME PoolInv, [Next]_vars PROVE PoolInv'
  OBVIOUS
<1> USE DEF PoolInv, ConnRecords, Phases, Unused
<1>1. ASSUME NEW S \in SUBSET Peers, ConnectToPeers(S) PROVE PoolInv'
  <2>1. ToDial(S) \subseteq Peers
    BY DEF ToDial
  <2>2. PICK on \in [ToDial(S) -> {c \in Conns : conns[c].phase \in {"unused", "closed"}}] :
          conns' = [c \in Conns |->
              IF \E p \in ToDial(S) : on[p] = c
              THEN [phase |-> "dialing", peer |-> CHOOSE p \in ToDial(S) : on[p] = c,
                    view |-> {}]
              ELSE IF InTable(c) /\ ~Connected(c) THEN Unused ELSE conns[c]]
    BY <1>1 DEF ConnectToPeers
  <2>3. ASSUME NEW c \in Conns, \E p \in ToDial(S) : on[p] = c
        PROVE  (CHOOSE p \in ToDial(S) : on[p] = c) \in Peers
    BY <2>1, <2>3
  <2>4. ASSUME NEW c \in Conns
        PROVE  /\ conns'[c] \in ConnRecords
               /\ conns'[c].phase # "unused" => conns'[c].peer \in Peers
    <3>1. CASE \E p \in ToDial(S) : on[p] = c
      BY <2>2, <2>3, <3>1
    <3>2. CASE ~ \E p \in ToDial(S) : on[p] = c
      BY <2>2, <3>2
    <3> QED
      BY <3>1, <3>2
  <2>5. known' \subseteq Peers /\ late' = late
    BY <1>1 DEF ConnectToPeers
  <2>6. conns' \in [Conns -> ConnRecords]
    BY <2>2, <2>4
  <2> QED
    BY <2>4, <2>5, <2>6
<1>2. ASSUME NEW c \in Conns, DialFails(c) PROVE PoolInv'
  BY <1>2 DEF DialFails
<1>3. ASSUME NEW c \in Conns, DialSucceeds(c) PROVE PoolInv'
  BY <1>3 DEF DialSucceeds
<1>4. ASSUME NEW c \in Conns, Greeted(c) PROVE PoolInv'
  <2>1. conns' = [conns EXCEPT ![c] = [conns[c] EXCEPT !.phase = "reading"]]
    BY <1>4 DEF Greeted
  <2>2. [conns[c] EXCEPT !.phase = "reading"] \in ConnRecords /\ conns[c].peer \in Peers
    BY <1>4 DEF Greeted
  <2> QED
    BY <1>4, <2>1, <2>2 DEF Greeted
<1>5. ASSUME NEW c \in Conns, GreetingFails(c) PROVE PoolInv'
  <2>1. \/ conns' = [conns EXCEPT ![c] = [conns[c] EXCEPT !.phase = "mute"]]
        \/ conns' = [conns EXCEPT ![c] = Unused]
    BY <1>5 DEF GreetingFails
  <2>2. [conns[c] EXCEPT !.phase = "mute"] \in ConnRecords /\ conns[c].peer \in Peers
    BY <1>5 DEF GreetingFails
  <2> QED
    BY <1>5, <2>1, <2>2 DEF GreetingFails
<1>6. ASSUME NEW c \in Conns, LoopEnds(c) PROVE PoolInv'
  <2>1. late' \subseteq SUBSET Pieces
    BY <1>6, OutlivesType DEF LoopEnds
  <2> QED
    BY <1>6, <2>1 DEF LoopEnds, Closed
<1>7. ASSUME NEW c \in Conns, PauseDisconnects(c) PROVE PoolInv'
  <2>1. late' \subseteq SUBSET Pieces
    BY <1>7, OutlivesType DEF PauseDisconnects
  <2> QED
    BY <1>7, <2>1 DEF PauseDisconnects, Closed, Connected
<1>8. ASSUME NEW c \in Conns, BanPeer(c) PROVE PoolInv'
  <2>1. late' \subseteq SUBSET Pieces
    BY <1>8, OutlivesType DEF BanPeer
  <2> QED
    BY <1>8, <2>1 DEF BanPeer, Closed
<1>9. ASSUME NEW c \in Conns, NEW S \in SUBSET Pieces, Bitfield(c, S) PROVE PoolInv'
  BY <1>9 DEF Bitfield
<1>10. ASSUME NEW c \in Conns, NEW i \in Pieces, Have(c, i) PROVE PoolInv'
  BY <1>10 DEF Have
<1>11. ASSUME NEW c \in Conns, NEW i \in Pieces, Request(c, i) PROVE PoolInv'
  BY <1>11 DEF Request, poolVars
<1>12. ASSUME NEW i \in Pieces, NEW s \in {"completed", "missing"}, PieceSettles(i, s)
       PROVE  PoolInv'
  BY <1>12 DEF PieceSettles, poolVars
<1>13. ASSUME NEW S \in late, CallsEnd(S) PROVE PoolInv'
  BY <1>13 DEF CallsEnd
<1>14. ASSUME NEW S \in late, NEW i \in Pieces, RequestLate(S, i) PROVE PoolInv'
  BY <1>14 DEF RequestLate, poolVars
<1>15. CASE UNCHANGED vars
  BY <1>15 DEF vars, poolVars
<1> QED
  BY <1>1, <1>2, <1>3, <1>4, <1>5, <1>6, <1>7, <1>8, <1>9, <1>10, <1>11, <1>12, <1>13, <1>14, <1>15
  DEF Next, DialEnds

\* Every step of the pool is a step of the availability tables or none.
LEMMA PoolSimulates == PoolInv /\ [Next]_vars => [AvailNext]_availVars
<1> SUFFICES ASSUME PoolInv, [Next]_vars PROVE [AvailNext]_availVars
  OBVIOUS
<1> USE DEF PoolInv
<1>1. ASSUME NEW S \in SUBSET Peers, ConnectToPeers(S)
      PROVE  [AvailNext]_availVars
  BY <1>1 DEF ConnectToPeers, Dead, AvailNext
<1>2. ASSUME NEW c \in Conns, DialEnds(c) \/ LoopEnds(c) \/ PauseDisconnects(c) \/ BanPeer(c)
      PROVE  [AvailNext]_availVars
  BY <1>2 DEF DialEnds, DialFails, DialSucceeds, Greeted, GreetingFails, LoopEnds,
              PauseDisconnects, BanPeer, availVars
<1>3. ASSUME NEW c \in Conns, NEW S \in SUBSET Pieces, Bitfield(c, S)
      PROVE  [AvailNext]_availVars
  BY <1>3 DEF Bitfield, AvailNext
<1>4. ASSUME NEW c \in Conns, NEW i \in Pieces, Have(c, i)
      PROVE  [AvailNext]_availVars
  BY <1>4 DEF Have, AvailNext
<1>5. ASSUME NEW c \in Conns, NEW i \in Pieces, Request(c, i)
      PROVE  [AvailNext]_availVars
  <2>1. conns[c].view \in SUBSET Pieces
    BY DEF ConnRecords
  <2> QED
    BY <1>5, <2>1 DEF Request, AvailNext
<1>6. ASSUME NEW i \in Pieces, NEW s \in {"completed", "missing"}, PieceSettles(i, s)
      PROVE  [AvailNext]_availVars
  BY <1>6 DEF PieceSettles, AvailNext
<1>7. ASSUME NEW S \in late, CallsEnd(S) PROVE [AvailNext]_availVars
  BY <1>7 DEF CallsEnd
<1>8. ASSUME NEW S \in late, NEW i \in Pieces, RequestLate(S, i)
      PROVE  [AvailNext]_availVars
  BY <1>8 DEF RequestLate, AvailNext
<1>9. CASE UNCHANGED vars
  BY <1>9 DEF vars, availVars
<1> QED
  BY <1>1, <1>2, <1>3, <1>4, <1>5, <1>6, <1>7, <1>8, <1>9 DEF Next

\* The pool drives the availability tables only through their operations,
\* whatever is dialled twice, banned, lost or left behind.
THEOREM PoolImplementsAvailability == Spec => ImplementsAvailability
<1>1. Init => PoolInv /\ AvailInit
  BY DEF Init, PoolInv, ConnRecords, Phases, Unused
<1> QED
  BY <1>1, PoolStep, PoolSimulates, PTL DEF Spec, AvailSpec, ImplementsAvailability

\* So the count rarest-first relies on is exact in every state of the pool.
THEOREM PoolCountIsExact == Spec => []FrequencyIsExact
  BY PoolImplementsAvailability, CountIsExact, PTL DEF ImplementsAvailability

-----------------------------------------------------------------------------
(***************************************************************************)
(* The properties speak of peers and of connections that are up; what      *)
(* keeps them is what each phase of a connection says about the table.     *)
(***************************************************************************)

\* A connection object that is not in use holds nothing, and no message was
\* read on one before its message loop began.
PhasesFit ==
    \A c \in Conns :
        /\ conns[c].phase = "unused" => conns[c] = Unused
        /\ conns[c].phase # "unused" => conns[c].peer \in Peers
        /\ conns[c].phase \in {"dialing", "greeting"} => conns[c].view = {}

\* The table's entry for a peer is a connection to that peer, past its dial.
TableIsServed ==
    \A p \in Peers :
        table[p] # NoConn =>
            conns[table[p]].peer = p /\ conns[table[p]].phase \notin {"unused", "dialing"}

\* A connection that ended, or that nobody reads, is kept by the table only.
DeadAreInTable == \A c \in Conns : conns[c].phase \in {"mute", "closed"} => InTable(c)

\* Two connections of one peer were dialled at the same time.
OnePerPeer ==
    \A c, d \in Conns :
        c # d /\ conns[c].peer = conns[d].peer /\ conns[c].peer # NoPeer
            => conns[c].peer \in doubled

\* A connection that is up is in the table, unless its peer was dialled twice.
UpIsInTable == \A c \in Conns : Connected(c) /\ conns[c].peer \notin doubled => InTable(c)

TableInv == PhasesFit /\ TableIsServed /\ DeadAreInTable /\ OnePerPeer /\ UpIsInTable

SafetyInv == TypeOK /\ FrequencyIsExact /\ TableInv /\ BannedStayOut /\ AvailabilityFollowsPool


\* A call of _connect_to_peers gives each peer it dials a connection object of
\* its own, takes the dead ones out of use and leaves the others alone.
LEMMA ConnectFacts ==
    ASSUME NEW S \in SUBSET Peers, ConnectToPeers(S), TypeOK
    PROVE  /\ \A c \in Conns :
                \/ /\ conns[c].phase \in {"unused", "closed"}
                   /\ conns'[c].phase = "dialing" /\ conns'[c].view = {}
                   /\ conns'[c].peer \in ToDial(S)
                \/ InTable(c) /\ ~Connected(c) /\ conns'[c] = Unused
                \/ ~(InTable(c) /\ ~Connected(c)) /\ conns'[c] = conns[c]
           /\ \A c, d \in Conns :
                c # d /\ conns'[c].phase = "dialing" /\ conns[c].phase # "dialing"
                      /\ conns'[d].phase = "dialing" /\ conns[d].phase # "dialing"
                  => conns'[c].peer # conns'[d].peer
<1> DEFINE free == {c \in Conns : conns[c].phase \in {"unused", "closed"}}
<1>1. PICK on \in [ToDial(S) -> free] :
        /\ \A p, q \in ToDial(S) : on[p] = on[q] => p = q
        /\ conns' = [c \in Conns |->
              IF \E p \in ToDial(S) : on[p] = c
              THEN [phase |-> "dialing", peer |-> CHOOSE p \in ToDial(S) : on[p] = c,
                    view |-> {}]
              ELSE IF InTable(c) /\ ~Connected(c) THEN Unused ELSE conns[c]]
  BY DEF ConnectToPeers
<1> DEFINE chosen(c) == CHOOSE p \in ToDial(S) : on[p] = c
<1>2. ASSUME NEW c \in Conns, \E p \in ToDial(S) : on[p] = c
      PROVE  chosen(c) \in ToDial(S) /\ on[chosen(c)] = c
  BY <1>2
<1>3. ASSUME NEW c \in Conns, \E p \in ToDial(S) : on[p] = c
      PROVE  /\ conns[c].phase \in {"unused", "closed"}
             /\ conns'[c].phase = "dialing" /\ conns'[c].view = {}
             /\ conns'[c].peer = chosen(c)
             /\ chosen(c) \in ToDial(S) /\ on[chosen(c)] = c
  <2>1. conns'[c] = [phase |-> "dialing", peer |-> chosen(c), view |-> {}]
    BY <1>1, <1>3
  <2>2. conns[c].phase \in {"unused", "closed"} /\ chosen(c) \in ToDial(S) /\ on[chosen(c)] = c
    BY <1>2, <1>3
  <2> HIDE DEF chosen
  <2> QED
    BY <2>1, <2>2
<1>4. ASSUME NEW c \in Conns, ~ \E p \in ToDial(S) : on[p] = c
      PROVE  conns'[c] = IF InTable(c) /\ ~Connected(c) THEN Unused ELSE conns[c]
  BY <1>1, <1>4
<1> HIDE DEF chosen
<1>5. ASSUME NEW c \in Conns
      PROVE  \/ /\ conns[c].phase \in {"unused", "closed"}
                /\ conns'[c].phase = "dialing" /\ conns'[c].view = {}
                /\ conns'[c].peer \in ToDial(S)
             \/ InTable(c) /\ ~Connected(c) /\ conns'[c] = Unused
             \/ ~(InTable(c) /\ ~Connected(c)) /\ conns'[c] = conns[c]
  BY <1>3, <1>4
<1>6. ASSUME NEW c \in Conns, NEW d \in Conns, c # d,
             conns'[c].phase = "dialing", conns[c].phase # "dialing",
             conns'[d].phase = "dialing", conns[d].phase # "dialing"
      PROVE  conns'[c].peer # conns'[d].peer
  <2>1. (\E p \in ToDial(S) : on[p] = c) /\ (\E p \in ToDial(S) : on[p] = d)
    BY <1>4, <1>6 DEF Unused
  <2>2. conns'[c].peer = chosen(c) /\ conns'[d].peer = chosen(d)
    BY <1>3, <2>1
  <2>3. on[chosen(c)] = c /\ on[chosen(d)] = d
    BY <1>3, <2>1
  <2> QED
    BY <1>6, <2>2, <2>3
<1> QED
  BY <1>5, <1>6

(***************************************************************************)
(* What every other step does to the connections: one of them goes on or   *)
(* ends, or a dial succeeds and its connection is put in the table.        *)
(***************************************************************************)

\* Connection c is forgotten while out of the table, or goes on with its peer;
\* it stops being read only in the table.
Alters(c) ==
    /\ \A d \in Conns \ {c} : conns'[d] = conns[d]
    /\ \/ ~InTable(c) /\ conns'[c] = Unused
       \/ /\ Connected(c)
          /\ conns'[c].peer = conns[c].peer
          /\ conns'[c].phase \in {"reading", "mute", "closed"}
          /\ conns'[c].phase # "reading" => InTable(c)
    /\ table' = table
    /\ doubled' = doubled

\* Such a step keeps the table true to the connections.
LEMMA AltersTable ==
    ASSUME TypeOK, TableInv, conns' \in [Conns -> ConnRecords], NEW c \in Conns, Alters(c)
    PROVE  TableInv'
<1> USE PoolAssumption DEF TypeOK, TableInv, Connected, InTable
<1>1. PhasesFit'
  BY DEF Alters, PhasesFit, Unused
<1>2. TableIsServed'
  BY DEF Alters, TableIsServed, Unused
<1>3. DeadAreInTable'
  BY DEF Alters, DeadAreInTable, Unused
<1>4. OnePerPeer'
  BY DEF Alters, OnePerPeer, Unused
<1>5. UpIsInTable'
  BY DEF Alters, UpIsInTable, Unused
<1> QED
  BY <1>1, <1>2, <1>3, <1>4, <1>5

\* The steps of the connections that are one's end or its going on.
LEMMA AlteringSteps ==
    ASSUME TypeOK, TableInv, NEW c \in Conns,
           \/ DialFails(c) \/ Greeted(c) \/ GreetingFails(c) \/ LoopEnds(c)
           \/ PauseDisconnects(c) \/ BanPeer(c)
    PROVE  /\ Alters(c)
           /\ conns'[c] = Unused \/ conns'[c].view = conns[c].view
           /\ peerPieces' = peerPieces
<1> USE DEF TypeOK, ConnRecords
<1>1. CASE DialFails(c)
  <2>1. ~InTable(c)
    BY <1>1, PoolAssumption DEF DialFails, TableInv, TableIsServed, InTable, PhasesFit
  <2> QED
    BY <1>1, <2>1 DEF DialFails, Alters, availVars
<1>2. CASE Greeted(c)
  BY <1>2 DEF Greeted, Alters, availVars, Connected
<1>3. CASE GreetingFails(c)
  BY <1>3 DEF GreetingFails, Alters, availVars, Connected
<1>4. CASE LoopEnds(c)
  BY <1>4 DEF LoopEnds, Closed, Alters, availVars, Connected
<1>5. CASE PauseDisconnects(c)
  BY <1>5 DEF PauseDisconnects, Closed, Alters, availVars
<1>6. CASE BanPeer(c)
  BY <1>6 DEF BanPeer, Closed, Alters, availVars, Connected
<1> QED
  BY <1>1, <1>2, <1>3, <1>4, <1>5, <1>6

\* So do the messages read on a connection.
LEMMA MessageSteps ==
    ASSUME TypeOK, NEW c \in Conns,
           \/ \E S \in SUBSET Pieces : Bitfield(c, S)
           \/ \E i \in Pieces : Have(c, i)
    PROVE  /\ Alters(c)
           /\ conns[c].phase = "reading" /\ conns'[c].phase = "reading"
           /\ banned' = banned
           /\ \/ \E S \in SUBSET Pieces :
                   conns'[c].view = S /\ UpdatePeerPieces(conns[c].peer, S)
              \/ \E i \in Pieces :
                   conns'[c].view = conns[c].view \cup {i} /\ UpdatePeerHave(conns[c].peer, i)
<1> USE DEF TypeOK, ConnRecords
<1>1. ASSUME NEW S \in SUBSET Pieces, Bitfield(c, S)
      PROVE  /\ Alters(c)
             /\ conns[c].phase = "reading" /\ conns'[c].phase = "reading"
             /\ banned' = banned
             /\ conns'[c].view = S /\ UpdatePeerPieces(conns[c].peer, S)
  BY <1>1 DEF Bitfield, Alters, Connected
<1>2. ASSUME NEW i \in Pieces, Have(c, i)
      PROVE  /\ Alters(c)
             /\ conns[c].phase = "reading" /\ conns'[c].phase = "reading"
             /\ banned' = banned
             /\ conns'[c].view = conns[c].view \cup {i} /\ UpdatePeerHave(conns[c].peer, i)
  BY <1>2 DEF Have, Alters, Connected
<1> QED
  BY <1>1, <1>2

\* A dial that succeeds: c is its peer's entry, and whatever the entry held
\* before is another connection of the peer, which was dialled twice.
LEMMA DialFacts ==
    ASSUME TypeOK, TableInv, NEW c \in Conns, DialSucceeds(c)
    PROVE  LET p == conns[c].peer
           IN  /\ p \in Peers /\ conns[c].view = {} /\ ~InTable(c)
               /\ conns[c].phase = "dialing" /\ conns'[c].phase = "greeting"
               /\ conns'[c].peer = p /\ conns'[c].view = {}
               /\ table'[p] = c /\ \A q \in Peers \ {p} : table'[q] = table[q]
               /\ table[p] # NoConn => p \in doubled
               /\ \A d \in Conns \ {c} :
                     \/ conns'[d] = conns[d] /\ ~(table[p] = d /\ conns[d].phase \in {"mute", "closed"})
                     \/ conns'[d] = Unused /\ table[p] = d
               /\ doubled' = doubled /\ banned' = banned /\ peerPieces' = peerPieces
<1> DEFINE p == conns[c].peer
<1> USE DEF TypeOK, ConnRecords
<1>1. p \in Peers /\ conns[c].view = {} /\ conns[c].phase = "dialing"
  BY DEF DialSucceeds, TableInv, PhasesFit
<1>2. table[p] # c
  BY <1>1, PoolAssumption DEF TableInv, TableIsServed
<1>3. conns'[c] = [conns[c] EXCEPT !.phase = "greeting"]
  BY DEF DialSucceeds
<1>4. table[p] # NoConn => p \in doubled
  BY <1>1, <1>2, PoolAssumption DEF TableInv, TableIsServed, OnePerPeer
<1>5. conns'[c].phase = "greeting" /\ conns'[c].peer = p /\ conns'[c].view = {}
  BY <1>1, <1>3
<1>6. table'[p] = c /\ \A q \in Peers \ {p} : table'[q] = table[q]
  BY <1>1 DEF DialSucceeds
<1>7. \A d \in Conns \ {c} :
         \/ conns'[d] = conns[d] /\ ~(table[p] = d /\ conns[d].phase \in {"mute", "closed"})
         \/ conns'[d] = Unused /\ table[p] = d
  BY DEF DialSucceeds
<1>8. doubled' = doubled /\ banned' = banned /\ peerPieces' = peerPieces
  BY DEF DialSucceeds, availVars
<1> QED
  BY <1>1, <1>2, <1>4, <1>5, <1>6, <1>7, <1>8 DEF InTable

\* And it keeps the table true to the connections.
LEMMA DialTable ==
    ASSUME TypeOK, TableInv, conns' \in [Conns -> ConnRecords], NEW c \in Conns, DialSucceeds(c)
    PROVE  TableInv'
<1> USE PoolAssumption DEF TypeOK, TableInv, Connected, InTable
<1> DEFINE p == conns[c].peer
<1>0. /\ p \in Peers /\ conns[c].view = {} /\ ~InTable(c)
      /\ conns[c].phase = "dialing" /\ conns'[c].phase = "greeting"
      /\ conns'[c].peer = p /\ conns'[c].view = {}
      /\ table'[p] = c /\ \A q \in Peers \ {p} : table'[q] = table[q]
      /\ table[p] # NoConn => p \in doubled
      /\ \A d \in Conns \ {c} :
            \/ conns'[d] = conns[d] /\ ~(table[p] = d /\ conns[d].phase \in {"mute", "closed"})
            \/ conns'[d] = Unused /\ table[p] = d
      /\ doubled' = doubled
  BY DialFacts
<1>1. PhasesFit'
  BY <1>0 DEF PhasesFit, Unused
<1>2. TableIsServed'
  <2> SUFFICES ASSUME NEW q \in Peers, table'[q] # NoConn
               PROVE  conns'[table'[q]].peer = q /\ conns'[table'[q]].phase \notin {"unused", "dialing"}
    BY DEF TableIsServed
  <2>1. CASE q = p
    BY <1>0, <2>1
  <2>2. CASE q # p
    <3>1. /\ table'[q] = table[q] /\ table[q] \in Conns /\ conns[table[q]].peer = q
          /\ conns[table[q]].phase \notin {"unused", "dialing"}
      BY <1>0, <2>2 DEF TableIsServed
    <3>2. table[q] # c /\ table[p] # table[q]
      BY <1>0, <2>2, <3>1 DEF TableIsServed
    <3> QED
      BY <1>0, <3>1, <3>2
  <2> QED
    BY <2>1, <2>2
<1>3. DeadAreInTable'
  <2> SUFFICES ASSUME NEW d \in Conns, conns'[d].phase \in {"mute", "closed"} PROVE InTable(d)'
    BY DEF DeadAreInTable
  <2>1. d # c /\ conns'[d] = conns[d] /\ table[p] # d
    BY <1>0 DEF Unused
  <2>2. conns[d].peer # NoPeer /\ table[conns[d].peer] = d
    BY <2>1 DEF DeadAreInTable
  <2>3. conns[d].peer \in Peers /\ conns[d].peer # p
    BY <2>1, <2>2 DEF PhasesFit
  <2> QED
    BY <1>0, <2>1, <2>2, <2>3
<1>4. OnePerPeer'
  BY <1>0 DEF OnePerPeer, Unused
<1>5. UpIsInTable'
  <2> SUFFICES ASSUME NEW d \in Conns, Connected(d)', conns'[d].peer \notin doubled PROVE InTable(d)'
    BY <1>0 DEF UpIsInTable
  <2>1. CASE d = c
    BY <1>0, <2>1
  <2>2. CASE d # c
    <3>1. conns'[d] = conns[d] /\ Connected(d) /\ conns[d].peer \in Peers
      BY <1>0, <2>2 DEF Unused, PhasesFit
    <3>2. conns[d].peer # NoPeer /\ table[conns[d].peer] = d
      BY <3>1 DEF UpIsInTable
    <3>3. conns[d].peer # p
      BY <1>0, <3>1, <3>2
    <3> QED
      BY <1>0, <3>1, <3>2, <3>3
  <2> QED
    BY <2>1, <2>2
<1> QED
  BY <1>1, <1>2, <1>3, <1>4, <1>5

-----------------------------------------------------------------------------
\* A call of _connect_to_peers: what each conjunct needs of it.
LEMMA ConnectTable ==
    ASSUME NEW S \in SUBSET Peers, ConnectToPeers(S), TypeOK, TableInv
    PROVE  TableInv'
<1> USE PoolAssumption DEF TypeOK, TableInv
<1>1. \A c \in Conns :
         \/ /\ conns[c].phase \in {"unused", "closed"}
            /\ conns'[c].phase = "dialing" /\ conns'[c].view = {}
            /\ conns'[c].peer \in ToDial(S)
         \/ InTable(c) /\ ~Connected(c) /\ conns'[c] = Unused
         \/ ~(InTable(c) /\ ~Connected(c)) /\ conns'[c] = conns[c]
  BY ConnectFacts
<1>2. /\ table' = [p \in Peers |-> IF p \in Dead THEN NoConn ELSE table[p]]
      /\ doubled' = doubled \cup {p \in ToDial(S) : Dialing(p)}
      /\ \A p \in ToDial(S) : p \in Peers /\ (table[p] = NoConn \/ p \in Dead)
  BY DEF ConnectToPeers, ToDial
<1>3. \A p \in Peers : table'[p] # NoConn =>
         table'[p] = table[p] /\ Connected(table[p]) /\ table[p] \in Conns
  BY <1>2 DEF Dead
<1>4. \A c \in Conns : Connected(c) => conns'[c] = conns[c]
  BY <1>1 DEF Connected
<1>5. \A c \in Conns : InTable(c) /\ Connected(c) => InTable(c)'
  <2> SUFFICES ASSUME NEW c \in Conns, InTable(c), Connected(c) PROVE InTable(c)'
    OBVIOUS
  <2>1. conns'[c] = conns[c] /\ conns[c].peer \in Peers /\ table[conns[c].peer] = c
    BY <1>4 DEF InTable, PhasesFit, Connected
  <2>2. conns[c].peer \notin Dead
    BY <2>1 DEF Dead
  <2> QED
    BY <1>2, <2>1, <2>2 DEF InTable
<1>6. PhasesFit'
  <2> SUFFICES ASSUME NEW c \in Conns
               PROVE  /\ conns'[c].phase = "unused" => conns'[c] = Unused
                      /\ conns'[c].phase # "unused" => conns'[c].peer \in Peers
                      /\ conns'[c].phase \in {"dialing", "greeting"} => conns'[c].view = {}
    BY DEF PhasesFit
  <2>1. CASE conns'[c] = Unused
    BY <2>1 DEF Unused
  <2>2. CASE conns'[c] = conns[c]
    BY <2>2 DEF PhasesFit
  <2>3. CASE conns'[c].phase = "dialing" /\ conns'[c].view = {} /\ conns'[c].peer \in ToDial(S)
    BY <1>2, <2>3
  <2> QED
    BY <1>1, <2>1, <2>2, <2>3
<1>7. TableIsServed'
  BY <1>3, <1>4 DEF TableIsServed, Connected
<1>8. DeadAreInTable'
  <2> SUFFICES ASSUME NEW c \in Conns, conns'[c].phase \in {"mute", "closed"} PROVE InTable(c)'
    BY DEF DeadAreInTable
  <2>1. conns'[c] = conns[c] /\ ~(InTable(c) /\ ~Connected(c))
    BY <1>1 DEF Unused
  <2>2. InTable(c)
    BY <2>1 DEF DeadAreInTable
  <2> QED
    BY <1>5, <2>1, <2>2
<1>9. UpIsInTable'
  <2> SUFFICES ASSUME NEW c \in Conns, Connected(c)', conns'[c].peer \notin doubled' PROVE InTable(c)'
    BY DEF UpIsInTable
  <2>1. conns'[c] = conns[c]
    BY <1>1 DEF Connected, Unused
  <2>2. Connected(c) /\ conns[c].peer \notin doubled
    BY <1>2, <2>1 DEF Connected
  <2> QED
    BY <1>5, <2>2 DEF UpIsInTable
<1>10. OnePerPeer'
  <2> SUFFICES ASSUME NEW c \in Conns, NEW d \in Conns, c # d, conns'[c].peer = conns'[d].peer,
                      conns'[c].peer # NoPeer, conns'[c].peer \notin doubled'
               PROVE  FALSE
    BY DEF OnePerPeer
  <2> DEFINE Fresh(e) == /\ conns'[e].phase = "dialing" /\ conns[e].phase # "dialing"
                         /\ conns'[e].peer \in ToDial(S)
             Kept(e) == conns'[e] = conns[e] /\ ~(InTable(e) /\ ~Connected(e))
  <2>1. \A e \in Conns : Fresh(e) \/ Kept(e) \/ conns'[e] = Unused
    BY <1>1
  <2>2. (Fresh(c) \/ Kept(c)) /\ (Fresh(d) \/ Kept(d))
    BY <2>1 DEF Unused
  <2>3. ASSUME NEW e \in Conns, NEW f \in Conns, Fresh(e), Kept(f), conns'[e].peer = conns'[f].peer,
               conns'[e].peer \notin doubled'
        PROVE  FALSE
    <3>1. conns[f].phase # "dialing" /\ conns[f].phase # "unused" /\ conns[f].peer = conns'[e].peer
      BY <1>2, <2>3 DEF Dialing, PhasesFit, Unused
    <3>2. InTable(f)
      <4>1. CASE Connected(f)
        BY <1>2, <2>3, <3>1, <4>1 DEF UpIsInTable
      <4>2. CASE ~Connected(f)
        BY <3>1, <4>2 DEF DeadAreInTable, Connected, ConnRecords, Phases
      <4> QED
        BY <4>1, <4>2
    <3>3. conns[f].peer \in Dead
      BY <1>2, <2>3, <3>1, <3>2 DEF InTable
    <3>4. ~Connected(f)
      BY <3>2, <3>3 DEF Dead, InTable
    <3> QED
      BY <2>3, <3>2, <3>4
  <2>4. ~(Fresh(c) /\ Fresh(d))
    BY ConnectFacts
  <2>5. ~(Kept(c) /\ Kept(d))
    BY <1>2 DEF OnePerPeer
  <2> HIDE DEF Fresh, Kept
  <2> QED
    BY <2>2, <2>3, <2>4, <2>5
<1> QED
  BY <1>6, <1>7, <1>8, <1>9, <1>10

\* Every step keeps the table true to the connections.
LEMMA TableStep == TypeOK /\ TableInv /\ [Next]_vars => TableInv'
<1> SUFFICES ASSUME TypeOK, TableInv, [Next]_vars PROVE TableInv'
  OBVIOUS
<1>0. PoolInv /\ conns' \in [Conns -> ConnRecords]
  <2>1. PoolInv
    BY DEF TypeOK, TableInv, PhasesFit, PoolInv
  <2> QED
    BY <2>1, PoolStep DEF PoolInv
<1>1. ASSUME NEW S \in SUBSET Peers, ConnectToPeers(S) PROVE TableInv'
  BY <1>0, <1>1, ConnectTable
<1>2. ASSUME NEW c \in Conns, DialSucceeds(c) PROVE TableInv'
  BY <1>0, <1>2, DialTable
<1>3. ASSUME NEW c \in Conns,
             \/ DialFails(c) \/ Greeted(c) \/ GreetingFails(c) \/ LoopEnds(c)
             \/ PauseDisconnects(c) \/ BanPeer(c)
      PROVE  TableInv'
  BY <1>0, <1>3, AlteringSteps, AltersTable
<1>4. ASSUME NEW c \in Conns,
             \/ \E S \in SUBSET Pieces : Bitfield(c, S)
             \/ \E i \in Pieces : Have(c, i)
      PROVE  TableInv'
  BY <1>0, <1>4, MessageSteps, AltersTable
<1>5. CASE UNCHANGED <<conns, table, doubled>>
  BY <1>5 DEF TableInv, PhasesFit, TableIsServed, DeadAreInTable, OnePerPeer,
              UpIsInTable, Connected, InTable
<1> QED
  BY <1>1, <1>2, <1>3, <1>4, <1>5
  DEF Next, DialEnds, Request, RequestLate, CallsEnd, PieceSettles, vars, poolVars

\* Every step keeps the types and the exact count.
LEMMA TypeStep == TypeOK /\ FrequencyIsExact /\ PhasesFit /\ [Next]_vars
                    => TypeOK' /\ FrequencyIsExact'
<1> SUFFICES ASSUME TypeOK, FrequencyIsExact, PhasesFit, [Next]_vars
             PROVE  TypeOK' /\ FrequencyIsExact'
  OBVIOUS
<1>1. PoolInv /\ ExactInv
  BY DEF TypeOK, PhasesFit, PoolInv, ExactInv
<1>2. PoolInv' /\ ExactInv'
  BY <1>1, PoolStep, PoolSimulates, ExactStep
<1>3. /\ table' \in [Peers -> Conns \cup {NoConn}]
      /\ banned' \subseteq Peers
      /\ doubled' \subseteq Peers
  <2> USE DEF TypeOK
  <2>1. ASSUME NEW S \in SUBSET Peers, ConnectToPeers(S)
        PROVE  /\ table' \in [Peers -> Conns \cup {NoConn}]
               /\ banned' \subseteq Peers
               /\ doubled' \subseteq Peers
    BY <2>1 DEF ConnectToPeers, ToDial
  <2>2. ASSUME NEW c \in Conns, DialSucceeds(c)
        PROVE  /\ table' \in [Peers -> Conns \cup {NoConn}]
               /\ banned' \subseteq Peers
               /\ doubled' \subseteq Peers
    BY <2>2 DEF DialSucceeds
  <2>3. ASSUME NEW c \in Conns, BanPeer(c)
        PROVE  /\ table' \in [Peers -> Conns \cup {NoConn}]
               /\ banned' \subseteq Peers
               /\ doubled' \subseteq Peers
    BY <2>3 DEF BanPeer, PhasesFit
  <2>4. CASE UNCHANGED <<table, banned, doubled>>
    BY <2>4
  <2> QED
    BY <2>1, <2>2, <2>3, <2>4
    DEF Next, DialEnds, DialFails, Greeted, GreetingFails, LoopEnds, PauseDisconnects,
        Bitfield, Have, Request, RequestLate, CallsEnd, PieceSettles, vars, poolVars
<1> QED
  BY <1>2, <1>3 DEF PoolInv, ExactInv, TypeOK

-----------------------------------------------------------------------------
\* Every step keeps banned peers without a connection: a ban ends the only
\* connection there is, and no later call dials the peer.
LEMMA BannedStep ==
    TypeOK /\ TypeOK' /\ TableInv /\ BannedStayOut /\ [Next]_vars => BannedStayOut'
<1> SUFFICES ASSUME TypeOK, TypeOK', TableInv, BannedStayOut, [Next]_vars PROVE BannedStayOut'
  OBVIOUS
<1>0. NoPeer \notin banned'
  BY PoolAssumption DEF TypeOK
<1>1. ASSUME NEW S \in SUBSET Peers, ConnectToPeers(S)
      PROVE  BannedStayOut'
  <2>1. banned' = banned /\ doubled \subseteq doubled' /\ ToDial(S) \cap banned = {}
    BY <1>1 DEF ConnectToPeers, ToDial
  <2>2. \A c \in Conns : \/ conns'[c].peer \in ToDial(S)
                         \/ conns'[c] = Unused \/ conns'[c] = conns[c]
    BY <1>1, ConnectFacts
  <2> QED
    BY <1>0, <2>1, <2>2 DEF BannedStayOut, Unused
<1>2. ASSUME NEW c \in Conns, DialSucceeds(c) PROVE BannedStayOut'
  <2>1. /\ conns[c].phase = "dialing" /\ conns'[c].peer = conns[c].peer
        /\ \A d \in Conns \ {c} : conns'[d] = conns[d] \/ conns'[d] = Unused
        /\ doubled' = doubled /\ banned' = banned
    BY <1>2, DialFacts
  <2> QED
    BY <1>0, <2>1 DEF BannedStayOut, Unused
<1>3. ASSUME NEW c \in Conns, Alters(c), banned' = banned PROVE BannedStayOut'
  BY <1>0, <1>3 DEF Alters, BannedStayOut, Unused, Connected
<1>4. ASSUME NEW c \in Conns, BanPeer(c) PROVE BannedStayOut'
  <2>1. Alters(c) /\ banned' = banned \cup {conns[c].peer}
    BY <1>4, AlteringSteps DEF BanPeer
  <2>2. conns'[c] = Unused \/ conns'[c].phase = "closed"
    BY <1>4 DEF BanPeer, Closed, TypeOK, ConnRecords
  <2>3. conns[c].peer \in Peers /\ conns[c].peer # NoPeer
    BY <1>4, PoolAssumption DEF BanPeer, TableInv, PhasesFit
  <2> SUFFICES ASSUME NEW d \in Conns, conns'[d].peer \in banned' \ doubled'
               PROVE  conns'[d].phase = "closed"
    BY DEF BannedStayOut
  <2>4. CASE d = c
    BY <1>0, <2>2, <2>4 DEF Unused
  <2>5. CASE d # c
    <3>1. conns'[d] = conns[d] /\ doubled' = doubled
      BY <2>1, <2>5 DEF Alters
    <3>2. conns[d].peer # conns[c].peer
      BY <2>3, <2>5, <3>1 DEF TableInv, OnePerPeer
    <3> QED
      BY <2>1, <3>1, <3>2 DEF BannedStayOut
  <2> QED
    BY <2>4, <2>5
<1>5. ASSUME NEW c \in Conns,
             \/ DialFails(c) \/ Greeted(c) \/ GreetingFails(c) \/ LoopEnds(c)
             \/ PauseDisconnects(c)
      PROVE  BannedStayOut'
  <2>1. Alters(c)
    BY <1>5, AlteringSteps
  <2>2. banned' = banned
    BY <1>5 DEF DialFails, Greeted, GreetingFails, LoopEnds, PauseDisconnects
  <2> QED
    BY <1>3, <2>1, <2>2
<1>6. ASSUME NEW c \in Conns,
             \/ \E S \in SUBSET Pieces : Bitfield(c, S)
             \/ \E i \in Pieces : Have(c, i)
      PROVE  BannedStayOut'
  BY <1>3, <1>6, MessageSteps
<1>7. CASE UNCHANGED <<conns, banned, doubled>>
  BY <1>7 DEF BannedStayOut
<1> QED
  BY <1>1, <1>2, <1>4, <1>5, <1>6, <1>7
  DEF Next, DialEnds, Request, RequestLate, CallsEnd, PieceSettles, vars, poolVars

-----------------------------------------------------------------------------
\* Every step keeps the piece manager's record of a peer what its connection
\* was told: a message is read on the peer's entry of the table, a peer taken
\* out is forgotten, and one that enters has told nothing yet.
LEMMA AvailabilityStep ==
    TypeOK /\ TypeOK' /\ TableInv /\ AvailabilityFollowsPool /\ [Next]_vars
        => AvailabilityFollowsPool'
<1> SUFFICES ASSUME TypeOK, TypeOK', TableInv, AvailabilityFollowsPool, [Next]_vars,
                    NEW p \in Peers, p \notin doubled'
             PROVE  peerPieces'[p] = IF table'[p] = NoConn THEN {} ELSE conns'[table'[p]].view
  BY DEF AvailabilityFollowsPool
<1> USE DEF TypeOK
<1>1. ASSUME NEW S \in SUBSET Peers, ConnectToPeers(S)
      PROVE  peerPieces'[p] = IF table'[p] = NoConn THEN {} ELSE conns'[table'[p]].view
  <2>1. /\ table' = [q \in Peers |-> IF q \in Dead THEN NoConn ELSE table[q]]
        /\ peerPieces' = [q \in Peers |-> IF q \in Dead THEN {} ELSE peerPieces[q]]
        /\ doubled \subseteq doubled'
    BY <1>1 DEF ConnectToPeers, RemovePeers
  <2>2. CASE p \in Dead
    BY <2>1, <2>2
  <2>3. CASE p \notin Dead /\ table[p] # NoConn
    <3>1. table[p] \in Conns /\ Connected(table[p])
      BY <2>3 DEF Dead
    <3>2. conns'[table[p]] = conns[table[p]]
      BY <1>1, <3>1, ConnectFacts DEF Connected
    <3> QED
      BY <2>1, <2>3, <3>2 DEF AvailabilityFollowsPool
  <2>4. CASE p \notin Dead /\ table[p] = NoConn
    BY <2>1, <2>4 DEF AvailabilityFollowsPool
  <2> QED
    BY <2>2, <2>3, <2>4
<1>2. ASSUME NEW c \in Conns, DialSucceeds(c)
      PROVE  peerPieces'[p] = IF table'[p] = NoConn THEN {} ELSE conns'[table'[p]].view
  <2> DEFINE r == conns[c].peer
  <2>1. /\ r \in Peers /\ conns'[c].view = {} /\ ~InTable(c)
        /\ table'[r] = c /\ \A q \in Peers \ {r} : table'[q] = table[q]
        /\ table[r] # NoConn => r \in doubled
        /\ \A d \in Conns \ {c} : conns'[d] = conns[d] \/ table[r] = d
        /\ doubled' = doubled /\ peerPieces' = peerPieces
    BY <1>2, DialFacts
  <2>2. CASE p = r
    BY <2>1, <2>2, PoolAssumption DEF AvailabilityFollowsPool
  <2>3. CASE p # r /\ table[p] = NoConn
    BY <2>1, <2>3 DEF AvailabilityFollowsPool
  <2>4. CASE p # r /\ table[p] # NoConn
    <3>1. table[p] \in Conns /\ conns[table[p]].peer = p
      BY <2>4 DEF TableInv, TableIsServed
    <3>2. table[p] # c /\ table[p] # table[r]
      BY <2>1, <2>4, <3>1, PoolAssumption DEF TableInv, TableIsServed
    <3> QED
      BY <2>1, <2>4, <3>1, <3>2 DEF AvailabilityFollowsPool
  <2> QED
    BY <2>2, <2>3, <2>4
<1>3. ASSUME NEW c \in Conns,
             \/ DialFails(c) \/ Greeted(c) \/ GreetingFails(c) \/ LoopEnds(c)
             \/ PauseDisconnects(c) \/ BanPeer(c)
      PROVE  peerPieces'[p] = IF table'[p] = NoConn THEN {} ELSE conns'[table'[p]].view
  <2>1. Alters(c) /\ peerPieces' = peerPieces
        /\ (conns'[c] = Unused \/ conns'[c].view = conns[c].view)
    BY <1>3, AlteringSteps
  <2>2. table' = table /\ doubled' = doubled
    BY <2>1 DEF Alters
  <2>3. CASE table[p] = NoConn
    BY <2>1, <2>2, <2>3 DEF AvailabilityFollowsPool
  <2>4. CASE table[p] # NoConn
    <3>1. table[p] \in Conns /\ InTable(table[p])
      BY <2>4, PoolAssumption DEF TableInv, TableIsServed, InTable
    <3>2. conns'[table[p]].view = conns[table[p]].view
      <4>1. CASE table[p] = c
        BY <2>1, <3>1, <4>1 DEF Alters, TableInv, TableIsServed, Unused
      <4>2. CASE table[p] # c
        BY <2>1, <3>1, <4>2 DEF Alters
      <4> QED
        BY <4>1, <4>2
    <3> QED
      BY <2>1, <2>2, <2>4, <3>2 DEF AvailabilityFollowsPool
  <2> QED
    BY <2>3, <2>4
<1>4. ASSUME NEW c \in Conns,
             \/ \E S \in SUBSET Pieces : Bitfield(c, S)
             \/ \E i \in Pieces : Have(c, i)
      PROVE  peerPieces'[p] = IF table'[p] = NoConn THEN {} ELSE conns'[table'[p]].view
  <2> DEFINE r == conns[c].peer
  <2>1. /\ Alters(c) /\ conns[c].phase = "reading"
        /\ \/ \E S \in SUBSET Pieces : conns'[c].view = S /\ UpdatePeerPieces(r, S)
           \/ \E i \in Pieces : conns'[c].view = conns[c].view \cup {i} /\ UpdatePeerHave(r, i)
    BY <1>4, MessageSteps
  <2>2. table' = table /\ doubled' = doubled /\ \A d \in Conns \ {c} : conns'[d] = conns[d]
    BY <2>1 DEF Alters
  <2>3. r \in Peers
    BY <2>1 DEF TableInv, PhasesFit
  <2>4. CASE p = r
    <3>1. table[p] = c
      BY <2>1, <2>2, <2>4 DEF TableInv, UpIsInTable, Connected, InTable
    <3>2. peerPieces[p] = conns[c].view
      BY <2>2, <3>1, PoolAssumption DEF AvailabilityFollowsPool
    <3>3. peerPieces'[p] = conns'[c].view
      <4>1. ASSUME NEW S \in SUBSET Pieces, conns'[c].view = S, UpdatePeerPieces(r, S)
            PROVE  peerPieces'[p] = conns'[c].view
        BY <2>3, <2>4, <4>1 DEF UpdatePeerPieces, AvailTypeOK
      <4>2. ASSUME NEW i \in Pieces, conns'[c].view = conns[c].view \cup {i}, UpdatePeerHave(r, i)
            PROVE  peerPieces'[p] = conns'[c].view
        BY <2>3, <2>4, <3>2, <4>2 DEF UpdatePeerHave, AvailTypeOK
      <4> QED
        BY <2>1, <4>1, <4>2
    <3> QED
      BY <2>2, <3>1, <3>3, PoolAssumption
  <2>5. CASE p # r
    <3>1. peerPieces'[p] = peerPieces[p]
      BY <2>1, <2>3, <2>5 DEF UpdatePeerPieces, UpdatePeerHave, AvailTypeOK
    <3>2. table[p] # c
      BY <2>3, <2>5, PoolAssumption DEF TableInv, TableIsServed
    <3> QED
      BY <2>2, <3>1, <3>2 DEF AvailabilityFollowsPool
  <2> QED
    BY <2>4, <2>5
<1>5. CASE UNCHANGED <<conns, table, doubled, peerPieces>>
  BY <1>5 DEF AvailabilityFollowsPool
<1> QED
  BY <1>1, <1>2, <1>3, <1>4, <1>5
  DEF Next, DialEnds, Request, RequestLate, CallsEnd, StartPiece, PieceSettles, Settle,
      vars, availVars, poolVars

-----------------------------------------------------------------------------
\* The initial state, and every step.
LEMMA SafetyInit == Init => SafetyInv
<1> SUFFICES ASSUME Init PROVE SafetyInv
  OBVIOUS
<1> USE PoolAssumption DEF Init, Unused
<1>1. TypeOK
  BY DEF TypeOK, AvailInit, AvailTypeOK, ConnRecords, Phases
<1>2. FrequencyIsExact
  BY FS_EmptySet DEF AvailInit, FrequencyIsExact, Announced
<1>3. TableInv
  BY DEF TableInv, PhasesFit, TableIsServed, DeadAreInTable, OnePerPeer, UpIsInTable,
         Connected
<1>4. BannedStayOut
  BY DEF BannedStayOut
<1>5. AvailabilityFollowsPool
  BY DEF AvailabilityFollowsPool, AvailInit
<1> QED
  BY <1>1, <1>2, <1>3, <1>4, <1>5 DEF SafetyInv

\* Each step keeps the whole of it.
LEMMA SafetyStep == SafetyInv /\ [Next]_vars => SafetyInv'
<1> SUFFICES ASSUME SafetyInv, [Next]_vars PROVE SafetyInv'
  OBVIOUS
<1>1. TypeOK' /\ FrequencyIsExact'
  BY TypeStep DEF SafetyInv, TableInv
<1>2. TableInv'
  BY TableStep DEF SafetyInv
<1>3. BannedStayOut' /\ AvailabilityFollowsPool'
  BY <1>1, BannedStep, AvailabilityStep DEF SafetyInv
<1> QED
  BY <1>1, <1>2, <1>3 DEF SafetyInv

\* So it holds in every state.
LEMMA SafetyAlways == Spec => []SafetyInv
  BY SafetyInit, SafetyStep, PTL DEF Spec

\* The variables keep their types, whatever the pool's size and however many calls.
THEOREM PoolIsTyped == Spec => []TypeOK
<1>1. SafetyInv => TypeOK
  BY DEF SafetyInv
<1> QED
  BY <1>1, SafetyAlways, PTL

\* A peer has one connection, and one that is up is in the table, unless two
\* calls of _connect_to_peers dialled the peer at the same time.
THEOREM PoolIsExclusive == Spec => []OneConnectionPerPeer
<1>1. SafetyInv => OneConnectionPerPeer
  BY DEF SafetyInv, TableInv, OnePerPeer, UpIsInTable, OneConnectionPerPeer
<1> QED
  BY <1>1, SafetyAlways, PTL

\* After a ban the peer's connection is closed and no call dials it again.
THEOREM BansHold == Spec => []BannedStayOut
<1>1. SafetyInv => BannedStayOut
  BY DEF SafetyInv
<1> QED
  BY <1>1, SafetyAlways, PTL

\* The piece manager's record of a peer is what its connection announced.
THEOREM AvailabilityIsCurrent == Spec => []AvailabilityFollowsPool
<1>1. SafetyInv => AvailabilityFollowsPool
  BY DEF SafetyInv
<1> QED
  BY <1>1, SafetyAlways, PTL

-----------------------------------------------------------------------------
\* The running count is the number of the table's connections that have the
\* piece, so what rarest-first compares is what the connections say.
LEMMA FrequencyIsHolders ==
    ASSUME SafetyInv, doubled = {}, NEW i \in Pieces
    PROVE  freq[i] = Holders(i)
<1>1. \A p \in Peers : i \in peerPieces[p] <=> table[p] # NoConn /\ i \in conns[table[p]].view
  BY DEF SafetyInv, AvailabilityFollowsPool
<1>2. Announced(i) = {p \in Peers : table[p] # NoConn /\ i \in conns[table[p]].view}
  BY <1>1 DEF Announced
<1> QED
  BY <1>2 DEF SafetyInv, FrequencyIsExact, Holders

\* With rarest-first, a step starts only a piece that as few connections of
\* the table have as any other it could start for the same connection, also
\* when that connection ended, and left the table, during the call's awaits.
THEOREM RarestFirstHolds == Spec => RarestIsStarted
<1>1. ASSUME SafetyInv, [Next]_vars, RarestFirst, doubled = {}, NEW i \in Pieces,
             status[i] = "missing", status'[i] = "in_progress"
      PROVE  \E S \in Asked :
                i \in S /\ \A j \in Wanted(S) : Holders(i) <= Holders(j)
  <2>1. AvailTypeOK /\ conns \in [Conns -> ConnRecords] /\ late \subseteq SUBSET Pieces
    BY <1>1 DEF SafetyInv, TypeOK
  <2>2. \/ \E c \in Conns, r \in Pieces : Request(c, r)
        \/ \E S \in late, r \in Pieces : RequestLate(S, r)
    <3>1. ~ \E s \in {"completed", "missing"}, r \in Pieces : PieceSettles(r, s)
      BY <1>1, <2>1 DEF PieceSettles, Settle, AvailTypeOK
    <3> QED
      BY <1>1, <3>1
      DEF Next, ConnectToPeers, RemovePeers, DialEnds, DialFails, DialSucceeds, Greeted,
          GreetingFails, LoopEnds, PauseDisconnects, BanPeer, Bitfield, UpdatePeerPieces,
          Have, UpdatePeerHave, CallsEnd, vars, availVars
  <2>3. PICK S \in SUBSET Pieces, r \in Pieces : S \in Asked /\ StartPiece(S, r)
    <3>1. ASSUME NEW c \in Conns, NEW r \in Pieces, Request(c, r)
          PROVE  conns[c].view \in SUBSET Pieces /\ conns[c].view \in Asked
                 /\ StartPiece(conns[c].view, r)
      BY <2>1, <3>1 DEF Request, Asked, Connected, ConnRecords
    <3>2. ASSUME NEW S \in late, NEW r \in Pieces, RequestLate(S, r)
          PROVE  S \in SUBSET Pieces /\ S \in Asked /\ StartPiece(S, r)
      BY <2>1, <3>2 DEF RequestLate, Asked
    <3> QED
      BY <2>2, <3>1, <3>2
  <2>4. r = i
    BY <1>1, <2>1, <2>3 DEF StartPiece, AvailTypeOK
  <2>5. i \in Wanted(S) /\ \A j \in Wanted(S) : freq[i] <= freq[j]
    BY <1>1, <2>3, <2>4 DEF StartPiece, Selectable
  <2>6. \A j \in Wanted(S) : Holders(i) <= Holders(j)
    BY <1>1, <2>5, FrequencyIsHolders DEF Wanted
  <2> QED
    BY <2>3, <2>5, <2>6 DEF Wanted
<1>2. SafetyInv /\ [Next]_vars =>
        [RarestFirst /\ doubled = {} =>
           \A i \in Pieces :
              status[i] = "missing" /\ status'[i] = "in_progress" =>
                 \E S \in Asked :
                    /\ i \in S
                    /\ \A j \in Wanted(S) : Holders(i) <= Holders(j)]_vars
  BY <1>1
<1> QED
  BY <1>2, SafetyAlways, PTL DEF Spec, RarestIsStarted

==============================================================================
