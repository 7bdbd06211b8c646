--------------------------- MODULE PieceAvailability ---------------------------
(***************************************************************************)
(* What a download knows of who has which piece: the availability half of  *)
(* PieceManager.  _peer_pieces holds what each peer announced and          *)
(* _peer_frequency a running count of it per piece, kept up to date by     *)
(* three operations instead of being recounted; rarest-first trusts the    *)
(* running count.  PeerPool says when the operations are called.           *)
(***************************************************************************)
EXTENDS Integers, FiniteSets

CONSTANTS
    Peers,          \* remote peers, by "ip:port"
    Pieces,         \* pieces of the torrent
    RarestFirst     \* piece_algorithm is RAREST_FIRST, not RANDOM

ASSUME AvailabilityAssumption ==
    IsFiniteSet(Peers) /\ IsFiniteSet(Pieces) /\ RarestFirst \in BOOLEAN

VARIABLES
    freq,           \* _peer_frequency
    peerPieces,     \* _peer_pieces; {} also stands for a peer that has no entry
    status          \* Piece.status

availVars == <<freq, peerPieces, status>>

AvailTypeOK ==
    /\ freq \in [Pieces -> Nat]
    /\ peerPieces \in [Peers -> SUBSET Pieces]
    /\ status \in [Pieces -> {"missing", "in_progress", "completed"}]

AvailInit ==
    /\ freq = [i \in Pieces |-> 0]
    /\ peerPieces = [p \in Peers |-> {}]
    /\ status = [i \in Pieces |-> "missing"]

-----------------------------------------------------------------------------
\* The pieces of S are counted n times less, never below zero.
Less(f, n) == [i \in Pieces |-> IF n[i] > f[i] THEN 0 ELSE f[i] - n[i]]

\* How many of the peers in D announced each piece.
CountIn(D) == [i \in Pieces |-> Cardinality({p \in D : i \in peerPieces[p]})]

\* Mutation: the old bitfield of the peer stays counted.
UpdatePeerPiecesAdds(p, S) ==
    /\ freq' = [i \in Pieces |-> IF i \in S THEN freq[i] + 1 ELSE freq[i]]
    /\ peerPieces' = [peerPieces EXCEPT ![p] = S]
    /\ UNCHANGED status

\* update_peer_pieces: a bitfield replaces whatever the peer announced before.
UpdatePeerPieces(p, S) ==
    /\ freq' = [i \in Pieces |-> Less(freq, CountIn({p}))[i] + (IF i \in S THEN 1 ELSE 0)]
    /\ peerPieces' = [peerPieces EXCEPT ![p] = S]
    /\ UNCHANGED status

\* Mutation: a HAVE is counted whether or not the piece was known.
UpdatePeerHaveTwice(p, i) ==
    /\ freq' = [freq EXCEPT ![i] = @ + 1]
    /\ peerPieces' = [peerPieces EXCEPT ![p] = @ \cup {i}]
    /\ UNCHANGED status

\* update_peer_have: a HAVE for a piece already known changes nothing.
UpdatePeerHave(p, i) ==
    /\ freq' = [freq EXCEPT ![i] = IF i \in peerPieces[p] THEN @ ELSE @ + 1]
    /\ peerPieces' = [peerPieces EXCEPT ![p] = @ \cup {i}]
    /\ UNCHANGED status

\* Mutation: the peers are not taken out of the tables.
RemovePeersNot(D) == UNCHANGED availVars

\* Mutation: what a removed peer announced stays on record, to be subtracted
\* again by the next removal.
RemovePeersKeeps(D) ==
    /\ freq' = [i \in Pieces |-> freq[i] - CountIn(D)[i]]
    /\ UNCHANGED <<peerPieces, status>>

\* remove_peer, for every peer of D in one pass.
RemovePeers(D) ==
    /\ freq' = Less(freq, CountIn(D))
    /\ peerPieces' = [p \in Peers |-> IF p \in D THEN {} ELSE peerPieces[p]]
    /\ UNCHANGED status

\* The pieces a peer that has S could be asked for.
Wanted(S) == {i \in S : status[i] = "missing"}

\* What select_piece_rarest_first, or select_piece_random, may return.
Selectable(S) ==
    IF RarestFirst THEN {i \in Wanted(S) : \A j \in Wanted(S) : freq[i] <= freq[j]}
    ELSE Wanted(S)

\* _request_from_peer, step 2: the selected piece is started.
StartPiece(S, i) ==
    /\ i \in Selectable(S)
    /\ status' = [status EXCEPT ![i] = "in_progress"]
    /\ UNCHANGED <<freq, peerPieces>>

\* A piece in progress is verified, or reset by a failed verification or by
\* reset_stale_pieces.
Settle(i, s) ==
    /\ status[i] = "in_progress"
    /\ s \in {"completed", "missing"}
    /\ status' = [status EXCEPT ![i] = s]
    /\ UNCHANGED <<freq, peerPieces>>

AvailNext ==
    \/ \E p \in Peers, S \in SUBSET Pieces : UpdatePeerPieces(p, S)
    \/ \E p \in Peers, i \in Pieces : UpdatePeerHave(p, i)
    \/ \E D \in SUBSET Peers : RemovePeers(D)
    \/ \E S \in SUBSET Pieces, i \in Pieces : StartPiece(S, i)
    \/ \E i \in Pieces, s \in {"completed", "missing"} : Settle(i, s)

AvailSpec == AvailInit /\ [][AvailNext]_availVars

-----------------------------------------------------------------------------
\* The peers that announced piece i and have not been removed.
Announced(i) == {p \in Peers : i \in peerPieces[p]}

\* The running count is the number of peers that announced the piece, after
\* any order of bitfields, repeated HAVEs, removals and reconnections; were it
\* ever too low, max(0, ...) would hide it and rarest-first go astray.
FrequencyIsExact == \A i \in Pieces : freq[i] = Cardinality(Announced(i))
=============================================================================
