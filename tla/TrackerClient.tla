---------------------------- MODULE TrackerClient ----------------------------
(***************************************************************************)
(* The tracker clients of one download.  Every main loop makes a client of *)
(* its own; Download._tracker is the newest.  An announce, which may take  *)
(* thirty seconds, ends in one of three ways: a response, a TrackerError,  *)
(* or another exception (a timeout, a malformed answer).                   *)
(***************************************************************************)
EXTENDS Naturals

CONSTANTS MaxLoops      \* bound: main loops ever created

ASSUME LoopsAssumption == MaxLoops \in Nat

Loops == 1..MaxLoops

VARIABLES
    client,             \* the clients, each with its periodic tasks
    current             \* whose client Download._tracker is; 0: None

trackerVars == <<client, current>>

Outcomes == {"response", "TrackerError", "other"}

\* A client's _running, and its periodic tasks that did not end.  _announce_task
\* is the newest of them, and alive as long as _running is set.
TrackerTypeOK ==
    /\ client \in [Loops -> [running : BOOLEAN, tasks : 0..MaxLoops]]
    /\ current \in 0..MaxLoops

TrackerInit == client = [l \in Loops |-> [running |-> FALSE, tasks |-> 0]] /\ current = 0

\* __init__
NewClient(l) == current' = l /\ UNCHANGED client

\* start_periodic_announce: a task that is there already is forgotten.
StartPeriodicAnnounce ==
    /\ client' = [client EXCEPT ![current] = [running |-> TRUE, tasks |-> @.tasks + 1]]
    /\ UNCHANGED current

\* One task's sleep or announce is over.  It catches every exception, so it
\* goes on as long as the client runs.
Asked(l) ==
    /\ client[l].tasks > 0
    /\ client' = IF client[l].running THEN client ELSE [client EXCEPT ![l].tasks = @ - 1]
    /\ UNCHANGED current

\* stop(), up to its announce: the newest task is cancelled and awaited.
Stop ==
    /\ client' = [client EXCEPT ![current].running = FALSE,
                                ![current].tasks = IF client[current].running THEN @ - 1 ELSE @]
    /\ UNCHANGED current
=============================================================================
