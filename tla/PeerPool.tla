------------------------------- MODULE PeerPool -------------------------------
(***************************************************************************)
(* The connections of one download: Download._connections, the calls of    *)
(* _connect_to_peers that fill it, _cleanup_dead_peers that empties it,    *)
(* and the announcements each connection feeds to PieceAvailability under  *)
(* the key "ip:port" of its peer.                                          *)
(*                                                                         *)
(* _connect_to_peers runs in the main loop every 15 s, in the tracker      *)
(* callback and once in a task of its own.  Each call dials every peer     *)
(* that is not in the table and awaits the dials, and a connection enters  *)
(* the table only when its handshake is over: two calls may dial the same  *)
(* peer.  A call of _request_from_peer looks at its connection once and    *)
(* picks a piece after the sends it awaits first, for a connection that    *)
(* may have ended by then.  All of this is the event loop's, so a step     *)
(* here is what runs between two awaits.                                   *)
(***************************************************************************)
EXTENDS PieceAvailability

CONSTANTS
    Conns,          \* PeerConnection objects alive at the same time (bound)
    MaxConnections, \* MAX_CONNECTIONS
    MaxStrays,      \* bound: peers dialled while a dial of them is going on and
                    \* ended connections that calls still ask for, together
    NoConn, NoPeer

ASSUME PoolAssumption ==
    /\ NoConn \notin Conns /\ NoPeer \notin Peers
    /\ MaxConnections \in Nat /\ MaxStrays \in Nat

VARIABLES
    conns,          \* the PeerConnection objects
    table,          \* _connections
    known,          \* _known_peers
    banned,         \* SecurityManager._banned_peers
    late,           \* peer_pieces of ended connections that a call of
                    \* _request_from_peer still holds
    doubled         \* history: peers dialled while a dial of them was going on

poolVars == <<conns, table, known, banned, late, doubled>>
vars == <<availVars, poolVars>>

(***************************************************************************)
(* "dialing": connect() has not returned.  "greeting": in the table,       *)
(* send_bitfield awaited.  "reading": the message loop runs.  "mute": the  *)
(* bitfield could not be sent, so no message loop was ever started.        *)
(* "closed": disconnect() ran.  A connection that is mute or closed is     *)
(* forgotten ("unused") once the table does not hold it.                   *)
(***************************************************************************)
Phases == {"unused", "dialing", "greeting", "reading", "mute", "closed"}

ConnRecords == [phase : Phases, peer : Peers \cup {NoPeer}, view : SUBSET Pieces]

Unused == [phase |-> "unused", peer |-> NoPeer, view |-> {}]

TypeOK ==
    /\ AvailTypeOK
    /\ conns \in [Conns -> ConnRecords]
    /\ table \in [Peers -> Conns \cup {NoConn}]
    /\ known \subseteq Peers
    /\ banned \subseteq Peers
    /\ late \subseteq SUBSET Pieces
    /\ doubled \subseteq Peers

Init ==
    /\ AvailInit
    /\ conns = [c \in Conns |-> Unused]
    /\ table = [p \in Peers |-> NoConn]
    /\ known = {}
    /\ banned = {}
    /\ late = {}
    /\ doubled = {}

-----------------------------------------------------------------------------
\* PeerConnection.connected
Connected(c) == conns[c].phase \in {"greeting", "reading", "mute"}

InTable(c) == conns[c].peer # NoPeer /\ table[conns[c].peer] = c

\* disconnect(): a connection the table does not hold is then forgotten.
Closed(c) == [conns EXCEPT ![c] = IF InTable(c) THEN [@ EXCEPT !.phase = "closed"]
                                  ELSE Unused]

\* A connection that ends while calls of _request_from_peer await a send on
\* it (main loop and handler both make them; how many is left open): they go
\* on with what its peer announced.  One nobody reads was never asked.
Outlives(c) ==
    \/ UNCHANGED late
    \/ /\ conns[c].phase = "reading"
       /\ conns[c].view # {}
       /\ Cardinality(doubled) + Cardinality(late \cup {conns[c].view}) <= MaxStrays
       /\ late' = late \cup {conns[c].view}

\* What _cleanup_dead_peers takes out of the table.
Dead == {p \in Peers : table[p] # NoConn /\ ~Connected(table[p])}

TableSize(D) == Cardinality({p \in Peers \ D : table[p] # NoConn})

\* Mutation: the ban is not looked up.
ToDialBanned(S) ==
    IF TableSize(Dead) >= MaxConnections THEN {}
    ELSE {p \in known \cup S : table[p] = NoConn \/ p \in Dead}

\* Mutation: the table is not looked up.
ToDialAgain(S) ==
    IF TableSize(Dead) >= MaxConnections THEN {} ELSE (known \cup S) \ banned

\* The peers _connect_to_peers dials, S being new ones: not in the table after
\* the clean-up, not banned; none at all if the table is full already.
ToDial(S) ==
    IF TableSize(Dead) >= MaxConnections THEN {}
    ELSE {p \in (known \cup S) \ banned : table[p] = NoConn \/ p \in Dead}

Dialing(p) == \E c \in Conns : conns[c].peer = p /\ conns[c].phase = "dialing"

\* _connect_to_peers up to its gather, S being what the tracker has just
\* answered (the first announce, or _on_tracker_response).  How many calls
\* overlap is left open.  "on" is the object each dialled peer gets.
ConnectToPeers(S) ==
    /\ known' = known \cup S
    /\ RemovePeers(Dead)
    /\ table' = [p \in Peers |-> IF p \in Dead THEN NoConn ELSE table[p]]
    /\ doubled' = doubled \cup {p \in ToDial(S) : Dialing(p)}
    /\ Cardinality(doubled') + Cardinality(late) <= MaxStrays
    /\ \E on \in [ToDial(S) -> {c \in Conns : conns[c].phase \in {"unused", "closed"}}] :
         /\ \A p, q \in ToDial(S) : on[p] = on[q] => p = q
         /\ conns' = [c \in Conns |->
              IF \E p \in ToDial(S) : on[p] = c
              THEN [phase |-> "dialing", peer |-> CHOOSE p \in ToDial(S) : on[p] = c,
                    view |-> {}]
              ELSE IF InTable(c) /\ ~Connected(c) THEN Unused ELSE conns[c]]
    /\ UNCHANGED <<banned, late>>

\* connect() raises: no TCP connection, no or a wrong handshake, a timeout.
DialFails(c) ==
    /\ conns[c].phase = "dialing"
    /\ conns' = [conns EXCEPT ![c] = Unused]
    /\ UNCHANGED <<availVars, table, known, banned, late, doubled>>

\* connect() returns: the table's entry for the peer is set, over whatever
\* connection it held.
DialSucceeds(c) ==
    /\ conns[c].phase = "dialing"
    /\ LET p == conns[c].peer
       IN /\ table' = [table EXCEPT ![p] = c]
          /\ conns' = [d \in Conns |->
               IF d = c THEN [conns[c] EXCEPT !.phase = "greeting"]
               ELSE IF table[p] = d /\ conns[d].phase \in {"mute", "closed"} THEN Unused
               ELSE conns[d]]
    /\ UNCHANGED <<availVars, known, banned, late, doubled>>

\* send_bitfield returned: the message loop is started.
Greeted(c) ==
    /\ conns[c].phase = "greeting"
    /\ conns' = [conns EXCEPT ![c].phase = "reading"]
    /\ UNCHANGED <<availVars, table, known, banned, late, doubled>>

\* send_bitfield raised: _connect_peer logs it and leaves the connection as
\* it is, in the table and connected.
GreetingFails(c) ==
    /\ conns[c].phase = "greeting"
    /\ conns' = [conns EXCEPT ![c] = IF InTable(c) THEN [@ EXCEPT !.phase = "mute"]
                                     ELSE Unused]
    /\ UNCHANGED <<availVars, table, known, banned, late, doubled>>

\* The message loop ends: end of stream, read timeout, an exception.
LoopEnds(c) ==
    /\ conns[c].phase = "reading"
    /\ conns' = Closed(c)
    /\ Outlives(c)
    /\ UNCHANGED <<availVars, table, known, banned, doubled>>

\* pause() or cancel() disconnects what the table holds.
PauseDisconnects(c) ==
    /\ InTable(c) /\ Connected(c)
    /\ conns' = Closed(c)
    /\ Outlives(c)
    /\ UNCHANGED <<availVars, table, known, banned, doubled>>

\* One hash failure too many of the peer: a ban, and the end of the
\* connection that delivered the piece.
BanPeer(c) ==
    /\ conns[c].phase = "reading"
    /\ banned' = banned \cup {conns[c].peer}
    /\ conns' = Closed(c)
    /\ Outlives(c)
    /\ UNCHANGED <<availVars, table, known, doubled>>

\* A BITFIELD message: _parse_bitfield, then the callback.
Bitfield(c, S) ==
    /\ conns[c].phase = "reading"
    /\ conns' = [conns EXCEPT ![c].view = S]
    /\ UpdatePeerPieces(conns[c].peer, S)
    /\ UNCHANGED <<table, known, banned, late, doubled>>

\* Mutation: the callback does not tell the piece manager.
HaveKept(c, i) ==
    /\ conns[c].phase = "reading"
    /\ conns' = [conns EXCEPT ![c].view = @ \cup {i}]
    /\ UNCHANGED <<availVars, table, known, banned, late, doubled>>

\* Mutation: the callback counts the piece and does not record whose it is.
HaveUncredited(c, i) ==
    /\ conns[c].phase = "reading"
    /\ conns' = [conns EXCEPT ![c].view = @ \cup {i}]
    /\ freq' = [freq EXCEPT ![i] = @ + 1]
    /\ UNCHANGED <<peerPieces, status, table, known, banned, late, doubled>>

\* A HAVE message.
Have(c, i) ==
    /\ conns[c].phase = "reading"
    /\ conns' = [conns EXCEPT ![c].view = @ \cup {i}]
    /\ UpdatePeerHave(conns[c].peer, i)
    /\ UNCHANGED <<table, known, banned, late, doubled>>

\* _request_from_peer picks a piece for a connection that still reads.
Request(c, i) ==
    /\ conns[c].phase = "reading"
    /\ StartPiece(conns[c].view, i)
    /\ UNCHANGED poolVars

\* A call picks a piece for a connection that ended during step 1's sends,
\* whether or not the clean-up has been there: connected is not looked at
\* again.  S is what the connection's peer had announced.
RequestLate(S, i) ==
    /\ S \in late
    /\ StartPiece(S, i)
    /\ UNCHANGED poolVars

\* The last of the calls about an ended connection returns.
CallsEnd(S) ==
    /\ S \in late
    /\ late' = late \ {S}
    /\ UNCHANGED <<availVars, conns, table, known, banned, doubled>>

\* What becomes of a piece in progress.
PieceSettles(i, s) == Settle(i, s) /\ UNCHANGED poolVars

-----------------------------------------------------------------------------
DialEnds(c) == DialFails(c) \/ DialSucceeds(c) \/ Greeted(c) \/ GreetingFails(c)

Next ==
    \/ \E S \in SUBSET (Peers \ known) : ConnectToPeers(S)
    \/ \E c \in Conns : DialEnds(c) \/ LoopEnds(c) \/ PauseDisconnects(c) \/ BanPeer(c)
    \/ \E c \in Conns, S \in SUBSET Pieces : Bitfield(c, S)
    \/ \E c \in Conns, i \in Pieces : Have(c, i) \/ Request(c, i)
    \/ \E S \in late : CallsEnd(S) \/ \E i \in Pieces : RequestLate(S, i)
    \/ \E i \in Pieces, s \in {"completed", "missing"} : PieceSettles(i, s)

Spec == Init /\ [][Next]_vars

(***************************************************************************)
(* Fairness: a dial ends within its 10 s timeouts and what follows it is   *)
(* run; every 15 s the main loop comes round to _connect_to_peers, with no  *)
(* new peers.                                                              *)
(***************************************************************************)
Fairness ==
    /\ WF_vars(\E c \in Conns : DialEnds(c))
    /\ WF_vars(ConnectToPeers({}))

FairSpec == Spec /\ Fairness

-----------------------------------------------------------------------------
\* A peer of the table has one connection, and a peer whose connection is up
\* is in the table: no connection escapes pause(), the clean-up or a ban,
\* unless two calls of _connect_to_peers dialled the peer at the same time.
OneConnectionPerPeer ==
    \A c, d \in Conns :
        /\ conns[c].peer # NoPeer /\ conns[c].peer \notin doubled /\ c # d
             => conns[d].peer # conns[c].peer
        /\ Connected(c) /\ conns[c].peer \notin doubled => InTable(c)

\* A banned peer has no connection and none is being made.
BannedStayOut ==
    \A c \in Conns : conns[c].peer \in banned \ doubled => conns[c].phase = "closed"

\* What the piece manager has on record for a peer is what the peer's
\* connection has been told; a peer out of the table has nothing on record.
AvailabilityFollowsPool ==
    \A p \in Peers \ doubled :
        peerPieces[p] = IF table[p] = NoConn THEN {} ELSE conns[table[p]].view

\* How many peers of the table have piece i, according to their connections.
Holders(i) == Cardinality({p \in Peers : table[p] # NoConn /\ i \in conns[table[p]].view})

\* What the calls of _request_from_peer that may start a piece have before
\* them: what a connection that is up, or was when they began, announced.
Asked == {conns[c].view : c \in {d \in Conns : Connected(d)}} \cup late

\* With rarest-first, the piece a step starts is one that as few peers of the
\* table have as of any missing piece it could start for the same connection:
\* the running count, kept across disconnections and for calls that outlive
\* their connection, never misleads the choice.
RarestIsStarted ==
    [][RarestFirst /\ doubled = {} =>
         \A i \in Pieces :
            status[i] = "missing" /\ status'[i] = "in_progress" =>
               \E S \in Asked :
                  /\ i \in S
                  /\ \A j \in Wanted(S) : Holders(i) <= Holders(j)]_vars

\* The pool drives the availability tables only through their operations.
ImplementsAvailability == AvailSpec

\* What a peer announced stops counting some time after its connection ended
\* (the bounds may stop ConnectToPeers once there are doubled peers).
DeadPeersAreForgotten ==
    \A p \in Peers :
        peerPieces[p] # {} /\ p \in Dead ~> peerPieces[p] = {} \/ doubled # {}
=============================================================================
