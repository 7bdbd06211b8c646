----------------------------- MODULE RestApiProofs -----------------------------
(***************************************************************************)
(* What holds of the control of a download whatever the callers and the    *)
(* numbers of main loops and requests are.                                 *)
(***************************************************************************)
EXTENDS RestApi, FiniteSetTheorems, TLAPS

USE DEF vars, dlVars, apiVars, historyVars, trackerVars, loopVars, peerVars, reportVars

\* Before the first main loop nothing has happened but requests to start.
NotStarted ==
    main = 0 =>
        /\ state = "Queued" /\ ~complete /\ ~handled /\ reports = 0
        /\ links = "none" /\ ~dialing /\ last = "idle"
        /\ \A l \in Loops : client[l].tasks = 0
        /\ \A c \in Callers : /\ call[c] = "none"
                              /\ \/ thread[c].stage = "idle"
                                 \/ thread[c].op = "start" /\ thread[c].stage = "waiting"

Started == main # 0 => state # "Queued"

\* The loops beyond the newest are still to be created.
NewestIsMain == \A l \in Loops : l > main => loop[l] = "none" /\ l \notin cancelled

\* One thread starts the download, once.
StartsOnce ==
    /\ requests = 0 => main = 0 /\ \A c \in Callers : thread[c] = Idle
    /\ \A c, d \in Callers : thread[c].op = "start" /\ thread[d].op = "start" => c = d
    /\ \A c \in Callers :
          /\ thread[c].stage # "idle" => thread[c].op \in Operations
          /\ thread[c].op = "start" /\ thread[c].stage = "waiting" /\ call[c] = "none" => main = 0

\* One main loop completes the download, once, and it never runs again.
CompletesOnce ==
    /\ handled => complete /\ state \in {"Completed", "Cancelled", "Error"}
    /\ ~handled => reports = 0
    /\ last = "finishing" => complete
    /\ \A l \in Loops : loop[l] = "completing" => handled /\ reports = 0
    /\ \A l, m \in Loops : loop[l] = "completing" /\ loop[m] = "completing" => l = m

\* The main loops that started periodic announces, or might have.
Begun == {l \in Loops : loop[l] \notin {"none", "scheduled", "announcing"}}

\* A client's periodic tasks were each started by a loop of their own.
TasksAreStarted ==
    /\ \A l \in Loops : loop[l] \notin {"none", "scheduled", "done"} => current # 0
    /\ \A l \in Loops : client[l].running => client[l].tasks > 0
    /\ \A l \in Loops : client[l].tasks <= Cardinality(Begun)

\* Somebody is about to save the state.
SaveIsDue ==
    \/ \E c \in Callers : call[c] \in {"pausing", "cancelling", "stopping"}
    \/ \E l \in Loops : loop[l] \notin {"none", "done"} /\ (loop[l] = "scheduled" => l \notin cancelled)

SavedOrDue == saved \in {"none", "unknown", state} \/ "unsaved" \in lapses \/ SaveIsDue

ControlInv ==
    /\ NotStarted /\ Started /\ NewestIsMain /\ StartsOnce /\ CompletesOnce
    /\ RunningHasALoop /\ SavedOrDue /\ CompletedIsInHistory

IInv == TypeOK /\ TasksAreStarted /\ ControlInv

\* Sets of main loops are finite, and what is counted grows with them.
LEMMA LoopsCount ==
    ASSUME NEW S \in SUBSET Loops
    PROVE  /\ IsFiniteSet(S) /\ Cardinality(S) \in 0..MaxLoops
           /\ \A T \in SUBSET S : Cardinality(T) \in Nat /\ Cardinality(T) <= Cardinality(S)
           /\ \A l \in Loops \ S : Cardinality(S \cup {l}) = Cardinality(S) + 1
<1>1. IsFiniteSet(Loops) /\ Cardinality(Loops) = MaxLoops
  BY LoopsAssumption, FS_Interval DEF Loops
<1>2. IsFiniteSet(S) /\ Cardinality(S) <= MaxLoops /\ Cardinality(S) \in Nat
  BY <1>1, FS_Subset, FS_CardinalityType
<1>3. \A T \in SUBSET S : Cardinality(T) \in Nat /\ Cardinality(T) <= Cardinality(S)
  BY <1>2, FS_Subset, FS_CardinalityType
<1>4. \A l \in Loops \ S : Cardinality(S \cup {l}) = Cardinality(S) + 1
  BY <1>2, FS_AddElement
<1> QED
  BY <1>2, <1>3, <1>4, LoopsAssumption

\* What TrackersStep keeps.
TrackersInv == TrackerTypeOK /\ TasksAreStarted

\* A step keeps the tracker clients in order: a client whose periodic announces
\* run has a task for them, and has no more of them than main loops began, so a
\* resume that starts another set on the same client stays within that number.
LEMMA TrackersStep ==
    TypeOK /\ TrackersInv /\ NewestIsMain /\ StartsOnce /\ [Next]_vars => TrackersInv'
<1> SUFFICES ASSUME TypeOK, TrackersInv, NewestIsMain, StartsOnce, [Next]_vars
    PROVE  TrackersInv'
  OBVIOUS
<1> USE DEF TypeOK, LifecycleTypeOK, TrackerTypeOK, TasksAreStarted, TrackersInv,
            NewestIsMain, StartsOnce, Operations, Idle, Loops
<1>1. ASSUME NEW c \in Callers, NEW op \in Operations, Request(c, op) PROVE TrackersInv'
  <2>1. Begun' = Begun
    BY <1>1 DEF Request, Stage, Idle, Begun
  <2> QED
    BY <1>1, <2>1 DEF Request, Stage, Idle
<1>2. ASSUME NEW c \in Callers, Serve(c), thread[c].op = "start", Start(c) PROVE TrackersInv'
  <2>1. Begun \subseteq Begun' /\ Begun' \subseteq Loops
    BY <1>2, LoopsAssumption DEF Serve, Start, CreateLoop, Becomes, Stage, Begun
  <2>2. /\ Cardinality(Begun) <= Cardinality(Begun')
        /\ Cardinality(Begun) \in Nat
        /\ Cardinality(Begun') \in 0..MaxLoops
    BY <2>1, LoopsCount
  <2> QED
    BY <1>2, <2>2, LoopsAssumption DEF Serve, Start, CreateLoop, Becomes, Stage
<1>3. ASSUME NEW c \in Callers, Serve(c), PauseBegins(c) PROVE TrackersInv'
  <2>1. Begun' = Begun
    BY <1>3 DEF Serve, PauseBegins, ListConnections, Becomes, Stage, Begun
  <2> QED
    BY <1>3, <2>1 DEF Serve, PauseBegins, ListConnections, Becomes, Stage
<1>4. ASSUME NEW c \in Callers, Serve(c), thread[c].op = "resume", Resume(c) PROVE TrackersInv'
  <2>1. Begun \subseteq Begun' /\ Begun' \subseteq Loops
    BY <1>4, LoopsAssumption DEF Serve, Resume, MayResume, CreateLoop, Becomes, Stage, Begun
  <2>2. /\ Cardinality(Begun) <= Cardinality(Begun')
        /\ Cardinality(Begun) \in Nat
        /\ Cardinality(Begun') \in 0..MaxLoops
    BY <2>1, LoopsCount
  <2> QED
    BY <1>4, <2>2, LoopsAssumption DEF Serve, Resume, MayResume, CreateLoop, Becomes, Stage
<1>5. ASSUME NEW c \in Callers, Serve(c), NEW op \in Operations, thread[c].op = op, Refused(c, op)
      PROVE  TrackersInv'
  <2>1. Begun' = Begun
    BY <1>5 DEF Serve, Refused, Becomes, Stage, Begun
  <2> QED
    BY <1>5, <2>1 DEF Serve, Refused, Becomes, Stage
<1>6. ASSUME NEW c \in Callers, Serve(c), thread[c].op = "cancel", CancelBegins(c)
      PROVE  TrackersInv'
  <2>1. Begun' = Begun
    BY <1>6 DEF Serve, CancelBegins, ListConnections, Becomes, Stage, Begun
  <2> QED
    BY <1>6, <2>1 DEF Serve, CancelBegins, ListConnections, Becomes, Stage
<1>7. ASSUME NEW c \in Callers, PauseEnds(c), UNCHANGED apiVars PROVE TrackersInv'
  <2>1. Begun' = Begun
    BY <1>7 DEF PauseEnds, Disconnect, SaveAndReturn, Save, SaveFails, Saves, Becomes, Begun
  <2> QED
    BY <1>7, <2>1 DEF PauseEnds, Disconnect, SaveAndReturn, Save, SaveFails, Saves, Becomes
<1>8. ASSUME NEW c \in Callers, CancelDisconnects(c), UNCHANGED apiVars PROVE TrackersInv'
  <2>1. Begun' = Begun /\ loop' = loop /\ current' = current
    BY <1>8 DEF CancelDisconnects, Stop, Begun
  <2>2. CASE current = 0
    BY <1>8, <2>1, <2>2 DEF CancelDisconnects
  <2>3. CASE current # 0
    <3> DEFINE tasks == IF client[current].running THEN client[current].tasks - 1 ELSE client[current].tasks
    <3>1. current \in Loops /\ client[current] \in [running : BOOLEAN, tasks : 0..MaxLoops]
      BY <2>3, LoopsAssumption
    <3>2. tasks \in 0..MaxLoops /\ tasks <= client[current].tasks
      BY <3>1, LoopsAssumption
    <3>3. client' = [client EXCEPT ![current] = [running |-> FALSE, tasks |-> tasks]]
      BY <1>8, <2>3, <3>1 DEF CancelDisconnects, Stop
    <3>4. client' \in [Loops -> [running : BOOLEAN, tasks : 0..MaxLoops]]
      BY <3>1, <3>2, <3>3
    <3>5. /\ client'[current].running = FALSE /\ client'[current].tasks = tasks
          /\ \A l \in Loops \ {current} : client'[l] = client[l]
      BY <3>1, <3>3
    <3>6. TrackerTypeOK'
      BY <2>1, <3>4
    <3>7. \A l \in Loops : client'[l].running => client'[l].tasks > 0
      BY <3>5
    <3>8. Cardinality(Begun) \in Nat
      BY LoopsCount DEF Begun
    <3>9. \A l \in Loops : client'[l].tasks <= Cardinality(Begun)'
      BY <2>1, <3>1, <3>2, <3>5, <3>8
    <3> QED
      BY <2>1, <3>6, <3>7, <3>9
  <2> QED
    BY <2>2, <2>3
<1>9. ASSUME NEW c \in Callers, NEW o \in Outcomes, CancelEnds(c, o), UNCHANGED apiVars
      PROVE  TrackersInv'
  <2>1. Begun' = Begun
    BY <1>9 DEF CancelEnds, SaveAndReturn, Save, SaveFails, Saves, Becomes, Begun
  <2> QED
    BY <1>9, <2>1 DEF CancelEnds, SaveAndReturn, Save, SaveFails, Saves, Becomes
<1>10. ASSUME NEW c \in Callers, Answered(c) PROVE TrackersInv'
  <2>1. Begun' = Begun
    BY <1>10 DEF Answered, Enters, Becomes, Stage, Idle, Begun
  <2> QED
    BY <1>10, <2>1 DEF Answered, Enters, Becomes, Stage, Idle
<1>11. ASSUME NEW c \in Callers, Failed(c) PROVE TrackersInv'
  <2>1. Begun' = Begun
    BY <1>11 DEF Failed, Becomes, Stage, Idle, Begun
  <2> QED
    BY <1>11, <2>1 DEF Failed, Becomes, Stage, Idle
<1>12. ASSUME NEW c \in Callers, GivesUp(c) PROVE TrackersInv'
  <2>1. Begun' = Begun
    BY <1>12 DEF GivesUp, Enters, Stage, Begun
  <2> QED
    BY <1>12, <2>1 DEF GivesUp, Enters, Stage
<1>13. ASSUME NEW c \in Callers, Register(c) PROVE TrackersInv'
  <2>1. Begun' = Begun
    BY <1>13 DEF Register, OnComplete, Stage, Idle, Begun
  <2> QED
    BY <1>13, <2>1 DEF Register, OnComplete, Stage, Idle
<1>14. ASSUME NEW c \in Callers, SaveRow(c) PROVE TrackersInv'
  <2>1. Begun' = Begun
    BY <1>14 DEF SaveRow, SaveTorrent, Stage, Idle, Begun
  <2> QED
    BY <1>14, <2>1 DEF SaveRow, SaveTorrent, Stage, Idle
<1>15. ASSUME NEW l \in Loops, LoopBegins(l), UNCHANGED apiVars PROVE TrackersInv'
  <2>1. Begun \subseteq Begun' /\ Begun' \subseteq Loops
    BY <1>15 DEF LoopBegins, NewClient, At, Goto, Begun
  <2>2. /\ Cardinality(Begun) <= Cardinality(Begun')
        /\ Cardinality(Begun) \in Nat
        /\ Cardinality(Begun') \in 0..MaxLoops
    BY <2>1, LoopsCount
  <2> QED
    BY <1>15, <2>2, LoopsAssumption DEF LoopBegins, NewClient, At, Goto
<1>16. ASSUME NEW l \in Loops, LoopAnnounced(l), UNCHANGED apiVars PROVE TrackersInv'
  <2>1. /\ Begun' = Begun \cup {l}
        /\ l \notin Begun
        /\ Begun \subseteq Loops
        /\ Begun' \subseteq Loops
    BY <1>16 DEF LoopAnnounced, At, Goto, Begun
  <2>2. /\ Cardinality(Begun') = Cardinality(Begun) + 1
        /\ Cardinality(Begun) \in Nat /\ Cardinality(Begun') \in 0..MaxLoops
    BY <2>1, LoopsCount
  <2>3. current \in Loops /\ current' = current
    <3>1. loop[l] = "announcing" /\ current' = current
      BY <1>16 DEF LoopAnnounced, StartPeriodicAnnounce, At
    <3>2. current # 0
      BY <3>1
    <3>3. current \in 0..MaxLoops
      OBVIOUS
    <3> QED
      BY <3>1, <3>2, <3>3, LoopsAssumption DEF Loops
  <2>4. client' = [client EXCEPT ![current] = [running |-> TRUE, tasks |-> client[current].tasks + 1]]
    BY <1>16, <2>3 DEF LoopAnnounced, StartPeriodicAnnounce
  <2>5. /\ client[current].tasks \in 0..MaxLoops
        /\ client[current].tasks <= Cardinality(Begun)
        /\ client[current].tasks + 1 \in 1..MaxLoops
    BY <2>2, <2>3, LoopsAssumption
  <2>6. client' \in [Loops -> [running : BOOLEAN, tasks : 0..MaxLoops]]
    BY <2>3, <2>4, <2>5
  <2>7. /\ client'[current] = [running |-> TRUE, tasks |-> client[current].tasks + 1]
        /\ \A m \in Loops \ {current} : client'[m] = client[m]
    BY <2>3, <2>4
  <2>8. \A m \in Loops : client'[m].running => client'[m].tasks > 0
    BY <2>5, <2>7
  <2>9. \A m \in Loops : client'[m].tasks <= Cardinality(Begun')
    <3>1. \A m \in Loops \ {current} : client[m].tasks \in 0..MaxLoops
      OBVIOUS
    <3> QED
      BY SMTT(40), <2>2, <2>5, <2>7, <3>1, LoopsAssumption
  <2>10. \A m \in Loops : loop'[m] \notin {"none", "scheduled", "done"} => current' # 0
    BY <2>3
  <2> QED
    BY <2>3, <2>6, <2>8, <2>9, <2>10
<1>17. ASSUME NEW l \in Loops, LoopFails(l), UNCHANGED apiVars PROVE TrackersInv'
  <2>1. Begun \subseteq Begun' /\ Begun' \subseteq Loops
    BY <1>17 DEF LoopFails, Finish, Save, SaveFails, Saves, At, Goto, Begun
  <2>2. /\ Cardinality(Begun) <= Cardinality(Begun')
        /\ Cardinality(Begun) \in Nat
        /\ Cardinality(Begun') \in 0..MaxLoops
    BY <2>1, LoopsCount
  <2> QED
    BY <1>17, <2>2, LoopsAssumption DEF LoopFails, Finish, Save, SaveFails, Saves, At, Goto
<1>18. ASSUME NEW l \in Loops, LoopLeaves(l), UNCHANGED apiVars PROVE TrackersInv'
  <2>1. Begun \subseteq Begun' /\ Begun' \subseteq Loops
    BY <1>18 DEF LoopLeaves, Leaves, Finish, Save, SaveFails, Saves, At, Goto, Begun
  <2>2. /\ Cardinality(Begun) <= Cardinality(Begun')
        /\ Cardinality(Begun) \in Nat
        /\ Cardinality(Begun') \in 0..MaxLoops
    BY <2>1, LoopsCount
  <2> QED
    BY <1>18, <2>2, LoopsAssumption DEF LoopLeaves, Leaves, Finish, Save, SaveFails, Saves, At, Goto
<1>19. ASSUME NEW l \in Loops, LoopCompletes(l), UNCHANGED apiVars PROVE TrackersInv'
  <2>1. Begun \subseteq Begun' /\ Begun' \subseteq Loops
    BY <1>19 DEF LoopCompletes, Unhandled, At, Goto, Begun
  <2>2. /\ Cardinality(Begun) <= Cardinality(Begun')
        /\ Cardinality(Begun) \in Nat
        /\ Cardinality(Begun') \in 0..MaxLoops
    BY <2>1, LoopsCount
  <2> QED
    BY <1>19, <2>2, LoopsAssumption DEF LoopCompletes, Unhandled, At, Goto
<1>20. ASSUME NEW l \in Loops, LoopCancelled(l), UNCHANGED apiVars PROVE TrackersInv'
  <2>1. Begun \subseteq Begun' /\ Begun' \subseteq Loops
    BY <1>20 DEF LoopCancelled, Save, SaveFails, Saves, NoSave, Begun
  <2>2. /\ Cardinality(Begun) <= Cardinality(Begun')
        /\ Cardinality(Begun) \in Nat
        /\ Cardinality(Begun') \in 0..MaxLoops
    BY <2>1, LoopsCount
  <2> QED
    BY <1>20, <2>2, LoopsAssumption DEF LoopCancelled, Save, SaveFails, Saves, NoSave
<1>21. ASSUME NEW l \in Loops, LoopDialed(l), UNCHANGED apiVars PROVE TrackersInv'
  <2>1. Begun \subseteq Begun' /\ Begun' \subseteq Loops
    BY <1>21 DEF LoopDialed, At, Goto, Begun
  <2>2. /\ Cardinality(Begun) <= Cardinality(Begun')
        /\ Cardinality(Begun) \in Nat
        /\ Cardinality(Begun') \in 0..MaxLoops
    BY <2>1, LoopsCount
  <2> QED
    BY <1>21, <2>2, LoopsAssumption DEF LoopDialed, At, Goto
<1>22. ASSUME NEW l \in Loops, LoopDials(l), UNCHANGED apiVars PROVE TrackersInv'
  <2>1. Begun \subseteq Begun' /\ Begun' \subseteq Loops
    BY <1>22 DEF LoopDials, At, Goto, Begun
  <2>2. /\ Cardinality(Begun) <= Cardinality(Begun')
        /\ Cardinality(Begun) \in Nat
        /\ Cardinality(Begun') \in 0..MaxLoops
    BY <2>1, LoopsCount
  <2> QED
    BY <1>22, <2>2, LoopsAssumption DEF LoopDials, At, Goto
<1>23. ASSUME NEW l \in Loops, NEW o \in Outcomes, TrackerAsked(l, o), UNCHANGED apiVars
       PROVE  TrackersInv'
  <2>1. Begun' = Begun /\ loop' = loop /\ current' = current
    BY <1>23 DEF TrackerAsked, Asked, Begun
  <2>2. CASE client[l].running
    BY <1>23, <2>1, <2>2 DEF TrackerAsked, Asked
  <2>3. CASE ~client[l].running
    <3>1. /\ client[l].tasks - 1 \in 0..MaxLoops
          /\ client[l] \in [running : BOOLEAN, tasks : 0..MaxLoops]
      BY <1>23, LoopsAssumption DEF TrackerAsked, Asked
    <3>2. client' = [client EXCEPT ![l] = [client[l] EXCEPT !.tasks = client[l].tasks - 1]]
      BY <1>23, <2>3 DEF TrackerAsked, Asked
    <3>3. client[l].running = FALSE
      BY <2>3, <3>1
    <3>4. [client[l] EXCEPT !.tasks = client[l].tasks - 1] = [running |-> FALSE, tasks |-> client[l].tasks - 1]
      <4> DEFINE r == client[l]
      <4>1. r = [running |-> r.running, tasks |-> r.tasks]
        BY <3>1
      <4>2. r.running = FALSE
        BY <3>3
      <4> HIDE DEF r
      <4>3. [r EXCEPT !.tasks = r.tasks - 1] = [running |-> r.running, tasks |-> r.tasks - 1]
        BY <4>1
      <4> QED
        BY <4>2, <4>3 DEF r
    <3>5. client' = [client EXCEPT ![l] = [running |-> FALSE, tasks |-> client[l].tasks - 1]]
      BY <3>2, <3>4
    <3>6. client' \in [Loops -> [running : BOOLEAN, tasks : 0..MaxLoops]]
      BY <3>1, <3>5
    <3>7. /\ client'[l] = [running |-> FALSE, tasks |-> client[l].tasks - 1]
          /\ \A m \in Loops \ {l} : client'[m] = client[m]
      BY <3>5
    <3>8. \A m \in Loops : client'[m].running => client'[m].tasks > 0
      BY <3>7
    <3>9. Cardinality(Begun) \in Nat
      BY LoopsCount DEF Begun
    <3>10. \A m \in Loops : client'[m].tasks <= Cardinality(Begun)'
      BY <2>1, <3>1, <3>7, <3>9
    <3> QED
      BY <2>1, <3>6, <3>8, <3>10
  <2> QED
    BY <2>2, <2>3
<1>24. ASSUME NEW l \in Loops, Report(l) PROVE TrackersInv'
  <2>1. Begun \subseteq Begun' /\ Begun' \subseteq Loops
    BY <1>24 DEF Report, LoopReports, SaveTorrent, At, Goto, Begun
  <2>2. /\ Cardinality(Begun) <= Cardinality(Begun')
        /\ Cardinality(Begun) \in Nat
        /\ Cardinality(Begun') \in 0..MaxLoops
    BY <2>1, LoopsCount
  <2> QED
    BY <1>24, <2>2, LoopsAssumption DEF Report, LoopReports, SaveTorrent, At, Goto
<1>25. ASSUME NEW up \in BOOLEAN, DialEnds(up), UNCHANGED apiVars PROVE TrackersInv'
  <2>1. Begun' = Begun
    BY <1>25 DEF DialEnds, Begun
  <2> QED
    BY <1>25, <2>1 DEF DialEnds
<1>26. ASSUME LastBlock, UNCHANGED apiVars PROVE TrackersInv'
  <2>1. Begun' = Begun
    BY <1>26 DEF LastBlock, Begun
  <2> QED
    BY <1>26, <2>1 DEF LastBlock
<1>27. ASSUME LastVerified, UNCHANGED apiVars PROVE TrackersInv'
  <2>1. Begun' = Begun
    BY <1>27 DEF LastVerified, Begun
  <2> QED
    BY <1>27, <2>1 DEF LastVerified
<1>28. ASSUME LastFinished, UNCHANGED apiVars PROVE TrackersInv'
  <2>1. Begun' = Begun
    BY <1>28 DEF LastFinished, Begun
  <2> QED
    BY <1>28, <2>1 DEF LastFinished
<1>29. ASSUME LastFails, UNCHANGED apiVars PROVE TrackersInv'
  <2>1. Begun' = Begun
    BY <1>29 DEF LastFails, Begun
  <2> QED
    BY <1>29, <2>1 DEF LastFails
<1>30. ASSUME ClearHistory PROVE TrackersInv'
  <2>1. Begun' = Begun
    BY <1>30 DEF ClearHistory, Begun
  <2> QED
    BY <1>30, <2>1 DEF ClearHistory
<1>35. CASE UNCHANGED vars
  <2>1. Begun' = Begun
    BY <1>35 DEF Begun
  <2> QED
    BY <1>35, <2>1
<1>31. ASSUME NEW c \in Callers, Serve(c) PROVE TrackersInv'
  <2>1. Stage(c, "waiting") /\ thread[c].op \in Operations
    BY <1>31 DEF Serve, Stage
  <2>2. CASE thread[c].op = "start"
    BY <2>2, <1>31, <1>2 DEF Serve
  <2>3. CASE thread[c].op = "pause"
    BY <2>3, <1>31, <1>3, <1>5 DEF Serve
  <2>4. CASE thread[c].op = "resume"
    BY <2>4, <1>31, <1>4, <1>5 DEF Serve
  <2>5. CASE thread[c].op = "cancel"
    BY <2>5, <1>31, <1>6 DEF Serve
  <2> QED
    BY <2>1, <2>2, <2>3, <2>4, <2>5
<1>32. ASSUME NEW c \in Callers, ThreadNext(c) PROVE TrackersInv'
  BY <1>32, <1>7, <1>8, <1>9, <1>10, <1>11, <1>12, <1>13, <1>14, <1>31 DEF ThreadNext, Continue
<1>33. ASSUME NEW l \in Loops, LoopNext(l) PROVE TrackersInv'
  BY <1>33, <1>15, <1>16, <1>17, <1>18, <1>19, <1>20, <1>21, <1>22, <1>23, <1>24
     DEF LoopNext, LoopStep
<1>34. ASSUME PeerStep, UNCHANGED apiVars PROVE TrackersInv'
  BY <1>34, <1>25, <1>26, <1>27, <1>28, <1>29 DEF PeerStep
<1> QED
  BY <1>1, <1>30, <1>31, <1>32, <1>33, <1>34, <1>35 DEF Next

\* A step keeps every variable of the controller in its type; what the tracker
\* clients count is bounded by TrackersStep.
LEMMA TypeStep == TypeOK /\ TrackersInv' /\ ControlInv /\ [Next]_vars => TypeOK'
<1> SUFFICES ASSUME TypeOK, TrackersInv', ControlInv, [Next]_vars PROVE TypeOK'
  OBVIOUS
<1> USE DEF TypeOK, LifecycleTypeOK, TrackersInv, ControlInv, CompletesOnce, StartsOnce,
            Operations, Idle, States, Loops
<1>1. ASSUME NEW c \in Callers, NEW op \in Operations, Request(c, op) PROVE TypeOK'
  <2>1. thread' \in [Callers -> [op : Operations \cup {"none"},
                               stage : {"idle", "waiting", "registering", "saving", "gone"}]]
    BY <1>1 DEF Request
  <2>2. requests' \in 0..MaxRequests
    BY <1>1, RequestsAssumption DEF Request
  <2>3. LifecycleTypeOK' /\ row' \in States \cup {"none"} /\ cleared' \in BOOLEAN
    BY <1>1 DEF Request
  <2> QED
    BY <2>1, <2>2, <2>3
<1>2. ASSUME NEW c \in Callers, Serve(c), thread[c].op = "start", Start(c) PROVE TypeOK'
  <2>1. main + 1 \in Loops /\ main' = main + 1 /\ main' \in 0..MaxLoops
    BY <1>2, LoopsAssumption DEF Serve, Start, CreateLoop, Becomes, Stage
  <2>2. loop' = [loop EXCEPT ![main + 1] = "scheduled"]
    BY <1>2, <2>1 DEF Serve, Start, CreateLoop, Becomes, Stage
  <2>3. loop' \in [Loops -> {"none", "scheduled", "announcing", "requesting", "dialing",
                            "completing", "done"}]
    BY <2>1, <2>2
  <2>4. call' \in [Callers -> {"none", "pausing", "cancelling", "stopping", "over", "raised"}]
    BY <1>2 DEF Serve, Start, CreateLoop, Becomes, Stage
  <2> QED
    BY <1>2, <2>1, <2>3, <2>4 DEF Serve, Start, CreateLoop, Becomes, Stage
<1>3. ASSUME NEW c \in Callers, Serve(c), PauseBegins(c) PROVE TypeOK'
  BY <1>3 DEF Serve, PauseBegins, ListConnections, Becomes, Stage
<1>4. ASSUME NEW c \in Callers, Serve(c), thread[c].op = "resume", Resume(c) PROVE TypeOK'
  <2>1. main + 1 \in Loops /\ main' = main + 1 /\ main' \in 0..MaxLoops
    BY <1>4, LoopsAssumption DEF Serve, Resume, MayResume, CreateLoop, Becomes, Stage
  <2>2. loop' = [loop EXCEPT ![main + 1] = "scheduled"]
    BY <1>4, <2>1 DEF Serve, Resume, MayResume, CreateLoop, Becomes, Stage
  <2>3. loop' \in [Loops -> {"none", "scheduled", "announcing", "requesting", "dialing",
                            "completing", "done"}]
    BY <2>1, <2>2
  <2>4. call' \in [Callers -> {"none", "pausing", "cancelling", "stopping", "over", "raised"}]
    BY <1>4 DEF Serve, Resume, MayResume, CreateLoop, Becomes, Stage
  <2> QED
    BY <1>4, <2>1, <2>3, <2>4 DEF Serve, Resume, MayResume, CreateLoop, Becomes, Stage
<1>5. ASSUME NEW c \in Callers, Serve(c), NEW op \in Operations, thread[c].op = op, Refused(c, op)
      PROVE  TypeOK'
  BY <1>5 DEF Serve, Refused, Becomes, Stage
<1>6. ASSUME NEW c \in Callers, Serve(c), thread[c].op = "cancel", CancelBegins(c) PROVE TypeOK'
  BY <1>6 DEF Serve, CancelBegins, ListConnections, Becomes, Stage
<1>7. ASSUME NEW c \in Callers, PauseEnds(c), UNCHANGED apiVars PROVE TypeOK'
  BY <1>7 DEF PauseEnds, Disconnect, SaveAndReturn, Save, SaveFails, Saves, Becomes
<1>8. ASSUME NEW c \in Callers, CancelDisconnects(c), UNCHANGED apiVars PROVE TypeOK'
  BY <1>8 DEF CancelDisconnects, Disconnect, SaveAndReturn, Save, SaveFails, Saves, NoSave, Stop, Becomes
<1>9. ASSUME NEW c \in Callers, NEW o \in Outcomes, CancelEnds(c, o), UNCHANGED apiVars
      PROVE  TypeOK'
  <2>1. call' \in [Callers -> {"none", "pausing", "cancelling", "stopping", "over", "raised"}]
    BY <1>9 DEF CancelEnds, SaveAndReturn, Becomes
  <2>2. saved' \in States \cup {"none", "unknown"} /\ lapses' \subseteq {"unsaved", "unrecorded"}
    <3>1. CASE o = "other"
      BY <1>9, <3>1 DEF CancelEnds
    <3>2. CASE o # "other"
      BY <1>9, <3>2 DEF CancelEnds, SaveAndReturn, Save, SaveFails, Saves
    <3> QED
      BY <3>1, <3>2
  <2> QED
    BY <1>9, <2>1, <2>2 DEF CancelEnds
<1>10. ASSUME NEW c \in Callers, Answered(c) PROVE TypeOK'
  <2>1. thread' \in [Callers -> [op : Operations \cup {"none"},
                               stage : {"idle", "waiting", "registering", "saving", "gone"}]]
    <3>1. CASE thread[c].op = "start"
      BY <1>10, <3>1 DEF Answered, Enters
    <3>2. CASE thread[c].op = "resume"
      BY <1>10, <3>2 DEF Answered
    <3>3. CASE thread[c].op \notin {"start", "resume"}
      BY <1>10, <3>3 DEF Answered, Enters
    <3> QED
      BY <3>1, <3>2, <3>3
  <2>2. call' \in [Callers -> {"none", "pausing", "cancelling", "stopping", "over", "raised"}]
    BY <1>10 DEF Answered, Becomes
  <2> QED
    BY <1>10, <2>1, <2>2 DEF Answered
<1>11. ASSUME NEW c \in Callers, Failed(c) PROVE TypeOK'
  BY <1>11 DEF Failed, Becomes, Stage, Idle
<1>12. ASSUME NEW c \in Callers, GivesUp(c) PROVE TypeOK'
  BY <1>12 DEF GivesUp, Enters, Stage
<1>13. ASSUME NEW c \in Callers, Register(c) PROVE TypeOK'
  BY <1>13 DEF Register, OnComplete, Stage, Idle
<1>14. ASSUME NEW c \in Callers, SaveRow(c) PROVE TypeOK'
  BY <1>14 DEF SaveRow, SaveTorrent, Stage, Idle
<1>15. ASSUME NEW l \in Loops, LoopBegins(l), UNCHANGED apiVars PROVE TypeOK'
  BY <1>15 DEF LoopBegins, NewClient, At, Goto
<1>16. ASSUME NEW l \in Loops, LoopAnnounced(l), UNCHANGED apiVars PROVE TypeOK'
  BY <1>16 DEF LoopAnnounced, StartPeriodicAnnounce, At, Goto
<1>17. ASSUME NEW l \in Loops, LoopFails(l), UNCHANGED apiVars PROVE TypeOK'
  <2>1. state' \in States /\ lapses' \subseteq {"unsaved", "unrecorded"}
    BY <1>17 DEF LoopFails, Finish, Save, SaveFails, Saves, States
  <2>2. saved' \in States \cup {"none", "unknown"}
    BY <1>17, <2>1 DEF LoopFails, Finish, Save, SaveFails, Saves
  <2>3. loop' \in [Loops -> {"none", "scheduled", "announcing", "requesting", "dialing",
                            "completing", "done"}]
    BY <1>17 DEF LoopFails, Finish, Goto
  <2> QED
    BY <1>17, <2>1, <2>2, <2>3 DEF LoopFails, Finish, Goto
<1>18. ASSUME NEW l \in Loops, LoopLeaves(l), UNCHANGED apiVars PROVE TypeOK'
  <2>1. state' \in States /\ lapses' \subseteq {"unsaved", "unrecorded"}
    BY <1>18 DEF LoopLeaves, Leaves, Finish, Save, SaveFails, Saves, States
  <2>2. saved' \in States \cup {"none", "unknown"}
    BY <1>18, <2>1 DEF LoopLeaves, Leaves, Finish, Save, SaveFails, Saves
  <2>3. loop' \in [Loops -> {"none", "scheduled", "announcing", "requesting", "dialing",
                            "completing", "done"}]
    BY <1>18 DEF LoopLeaves, Leaves, Finish, Goto
  <2> QED
    BY <1>18, <2>1, <2>2, <2>3 DEF LoopLeaves, Leaves, Finish, Goto
<1>19. ASSUME NEW l \in Loops, LoopCompletes(l), UNCHANGED apiVars PROVE TypeOK'
  BY <1>19 DEF LoopCompletes, Unhandled, At, Goto
<1>20. ASSUME NEW l \in Loops, LoopCancelled(l), UNCHANGED apiVars PROVE TypeOK'
  <2>1. saved' \in States \cup {"none", "unknown"} /\ lapses' \subseteq {"unsaved", "unrecorded"}
    <3>1. CASE loop[l] = "scheduled"
      BY <1>20, <3>1 DEF LoopCancelled, NoSave
    <3>2. CASE loop[l] # "scheduled"
      BY <1>20, <3>2 DEF LoopCancelled, Save, SaveFails, Saves
    <3> QED
      BY <3>1, <3>2
  <2>2. loop' \in [Loops -> {"none", "scheduled", "announcing", "requesting", "dialing",
                            "completing", "done"}]
    BY <1>20 DEF LoopCancelled
  <2> QED
    BY <1>20, <2>1, <2>2 DEF LoopCancelled
<1>21. ASSUME NEW l \in Loops, LoopDialed(l), UNCHANGED apiVars PROVE TypeOK'
  BY <1>21 DEF LoopDialed, At, Goto
<1>22. ASSUME NEW l \in Loops, LoopDials(l), UNCHANGED apiVars PROVE TypeOK'
  BY <1>22 DEF LoopDials, At, Goto
<1>23. ASSUME NEW l \in Loops, NEW o \in Outcomes, TrackerAsked(l, o), UNCHANGED apiVars
       PROVE  TypeOK'
  BY <1>23 DEF TrackerAsked, Asked
<1>24. ASSUME NEW l \in Loops, Report(l) PROVE TypeOK'
  BY <1>24 DEF Report, LoopReports, SaveTorrent, At, Goto
<1>25. ASSUME NEW up \in BOOLEAN, DialEnds(up), UNCHANGED apiVars PROVE TypeOK'
  BY <1>25 DEF DialEnds
<1>26. ASSUME LastBlock, UNCHANGED apiVars PROVE TypeOK'
  BY <1>26 DEF LastBlock
<1>27. ASSUME LastVerified, UNCHANGED apiVars PROVE TypeOK'
  BY <1>27 DEF LastVerified
<1>28. ASSUME LastFinished, UNCHANGED apiVars PROVE TypeOK'
  BY <1>28 DEF LastFinished
<1>29. ASSUME LastFails, UNCHANGED apiVars PROVE TypeOK'
  BY <1>29 DEF LastFails
<1>30. ASSUME ClearHistory PROVE TypeOK'
  BY <1>30 DEF ClearHistory
<1>35. CASE UNCHANGED vars
  BY <1>35
<1>31. ASSUME NEW c \in Callers, Serve(c) PROVE TypeOK'
  <2>1. Stage(c, "waiting") /\ thread[c].op \in Operations
    BY <1>31 DEF Serve, Stage
  <2>2. CASE thread[c].op = "start"
    BY <2>2, <1>31, <1>2 DEF Serve
  <2>3. CASE thread[c].op = "pause"
    BY <2>3, <1>31, <1>3, <1>5 DEF Serve
  <2>4. CASE thread[c].op = "resume"
    BY <2>4, <1>31, <1>4, <1>5 DEF Serve
  <2>5. CASE thread[c].op = "cancel"
    BY <2>5, <1>31, <1>6 DEF Serve
  <2> QED
    BY <2>1, <2>2, <2>3, <2>4, <2>5
<1>32. ASSUME NEW c \in Callers, ThreadNext(c) PROVE TypeOK'
  BY <1>32, <1>7, <1>8, <1>9, <1>10, <1>11, <1>12, <1>13, <1>14, <1>31 DEF ThreadNext, Continue
<1>33. ASSUME NEW l \in Loops, LoopNext(l) PROVE TypeOK'
  BY <1>33, <1>15, <1>16, <1>17, <1>18, <1>19, <1>20, <1>21, <1>22, <1>23, <1>24
     DEF LoopNext, LoopStep
<1>34. ASSUME PeerStep, UNCHANGED apiVars PROVE TypeOK'
  BY <1>34, <1>25, <1>26, <1>27, <1>28, <1>29 DEF PeerStep
<1> QED
  BY <1>1, <1>30, <1>31, <1>32, <1>33, <1>34, <1>35 DEF Next

\* A step of a request, of a main loop, of a peer or of the tracker keeps what
\* the control of a download rests on.
LEMMA ControlStep == TypeOK /\ TasksAreStarted /\ ControlInv /\ [Next]_vars => ControlInv'
<1> SUFFICES ASSUME TypeOK, TasksAreStarted, ControlInv, [Next]_vars PROVE ControlInv'
  OBVIOUS
<1> USE DEF ControlInv, NotStarted, Started, NewestIsMain, StartsOnce, CompletesOnce,
            RunningHasALoop, SavedOrDue, SaveIsDue, CompletedIsInHistory, TypeOK,
            LifecycleTypeOK, TrackerTypeOK, Operations, Idle, States, Loops
<1>1. ASSUME NEW c \in Callers, NEW op \in Operations, Request(c, op) PROVE ControlInv'
  <2>1. StartsOnce'
    <3>1. /\ thread' = [thread EXCEPT ![c] = [op |-> op, stage |-> "waiting"]]
          /\ requests' = requests + 1
      BY <1>1 DEF Request
    <3>2. requests' # 0
      BY <3>1
    <3>3. CASE op = "start"
      <4>1. \A d \in Callers : thread[d] = Idle
        BY <1>1, <3>3 DEF Request
      <4>2. \A d \in Callers \ {c} : thread'[d].op = "none" /\ thread'[d].stage = "idle"
        BY <3>1, <4>1
      <4>3. thread'[c].op = "start"
        BY <3>1, <3>3
      <4>4. main' = 0
        BY <1>1, <3>3 DEF Request
      <4> QED
        BY <3>2, <4>2, <4>3, <4>4
    <3>4. CASE op # "start"
      <4>1. /\ thread'[c].op # "start" /\ thread'[c].op \in Operations
            /\ \A d \in Callers \ {c} : thread'[d] = thread[d]
            /\ call' = call /\ main' = main
        BY <1>1, <3>1, <3>4 DEF Request
      <4> QED
        BY <3>2, <4>1
    <3> QED
      BY <3>3, <3>4
  <2>2. /\ NotStarted'
        /\ Started'
        /\ NewestIsMain'
        /\ CompletesOnce'
        /\ RunningHasALoop'
        /\ SavedOrDue'
        /\ CompletedIsInHistory'
    BY <1>1 DEF Request, Stage, Idle
  <2> QED
    BY <2>1, <2>2
<1>2. ASSUME NEW c \in Callers, Serve(c), thread[c].op = "start", Start(c) PROVE ControlInv'
  <2>1. main + 1 \in Loops /\ loop[main + 1] = "none" /\ main + 1 \notin cancelled
    BY <1>2, LoopsAssumption DEF Serve, Start, CreateLoop, Becomes, Stage
  <2>2. /\ loop' = [loop EXCEPT ![main + 1] = "scheduled"] /\ cancelled' = cancelled
    BY <1>2 DEF Serve, Start, CreateLoop, Becomes, Stage
  <2>3. loop'[main + 1] = "scheduled" /\ main + 1 \notin cancelled'
    BY <2>1, <2>2
  <2>4. RunningHasALoop' /\ SavedOrDue'
    BY <2>1, <2>3
  <2>5. /\ NotStarted'
        /\ Started'
        /\ NewestIsMain'
        /\ StartsOnce'
        /\ CompletesOnce'
        /\ CompletedIsInHistory'
    BY <1>2 DEF Serve, Start, CreateLoop, Becomes, Stage
  <2> QED
    BY <2>4, <2>5
<1>3. ASSUME NEW c \in Callers, Serve(c), PauseBegins(c) PROVE ControlInv'
  BY <1>3 DEF Serve, PauseBegins, ListConnections, Becomes, Stage
<1>4. ASSUME NEW c \in Callers, Serve(c), thread[c].op = "resume", Resume(c) PROVE ControlInv'
  <2>1. main + 1 \in Loops /\ loop[main + 1] = "none" /\ main + 1 \notin cancelled
    BY <1>4, LoopsAssumption DEF Serve, Resume, MayResume, CreateLoop, Becomes, Stage
  <2>2. /\ loop' = [loop EXCEPT ![main + 1] = "scheduled"] /\ cancelled' = cancelled
    BY <1>4 DEF Serve, Resume, MayResume, CreateLoop, Becomes, Stage
  <2>3. loop'[main + 1] = "scheduled" /\ main + 1 \notin cancelled'
    BY <2>1, <2>2
  <2>4. RunningHasALoop' /\ SavedOrDue'
    BY <2>1, <2>3
  <2>5. /\ NotStarted'
        /\ Started'
        /\ NewestIsMain'
        /\ StartsOnce'
        /\ CompletesOnce'
        /\ CompletedIsInHistory'
    BY <1>4 DEF Serve, Resume, MayResume, CreateLoop, Becomes, Stage
  <2> QED
    BY <2>4, <2>5
<1>5. ASSUME NEW c \in Callers, Serve(c), NEW op \in Operations, thread[c].op = op, Refused(c, op)
      PROVE  ControlInv'
  BY <1>5 DEF Serve, Refused, Becomes, Stage
<1>6. ASSUME NEW c \in Callers, Serve(c), thread[c].op = "cancel", CancelBegins(c)
      PROVE  ControlInv'
  <2>0. main' = main
    BY <1>6 DEF Serve, CancelBegins, ListConnections, Becomes, Stage
  <2>1. main # 0
    BY <1>6 DEF Serve, Stage
  <2>2. NotStarted'
    BY <2>0, <2>1
  <2>3. /\ Started'
        /\ NewestIsMain'
        /\ StartsOnce'
        /\ CompletesOnce'
        /\ RunningHasALoop'
        /\ SavedOrDue'
        /\ CompletedIsInHistory'
    BY <1>6 DEF Serve, CancelBegins, ListConnections, Becomes, Stage
  <2> QED
    BY <2>2, <2>3
<1>7. ASSUME NEW c \in Callers, PauseEnds(c), UNCHANGED apiVars PROVE ControlInv'
  BY <1>7 DEF PauseEnds, Disconnect, SaveAndReturn, Save, SaveFails, Saves, Becomes
<1>8. ASSUME NEW c \in Callers, CancelDisconnects(c), UNCHANGED apiVars PROVE ControlInv'
  BY <1>8 DEF CancelDisconnects, Disconnect, SaveAndReturn, Save, SaveFails, Saves, NoSave, Stop, Becomes
<1>9. ASSUME NEW c \in Callers, NEW o \in Outcomes, CancelEnds(c, o), UNCHANGED apiVars
      PROVE  ControlInv'
  BY <1>9 DEF CancelEnds, SaveAndReturn, Save, SaveFails, Saves, Becomes
<1>10. ASSUME NEW c \in Callers, Answered(c) PROVE ControlInv'
  <2>1. NotStarted'
    BY <1>10 DEF Answered, Enters, Becomes, Stage, Idle
  <2>2. Started' /\ NewestIsMain' /\ RunningHasALoop' /\ CompletesOnce' /\ CompletedIsInHistory'
    BY <1>10 DEF Answered, Becomes, Stage
  <2>3. StartsOnce'
    BY <1>10 DEF Answered, Enters, Becomes, Stage, Idle
  <2>4. SavedOrDue'
    BY <1>10 DEF Answered, Becomes
  <2> QED
    BY <2>1, <2>2, <2>3, <2>4
<1>11. ASSUME NEW c \in Callers, Failed(c) PROVE ControlInv'
  BY <1>11 DEF Failed, Becomes, Stage, Idle
<1>12. ASSUME NEW c \in Callers, GivesUp(c) PROVE ControlInv'
  BY <1>12 DEF GivesUp, Enters, Stage
<1>13. ASSUME NEW c \in Callers, Register(c) PROVE ControlInv'
  BY <1>13 DEF Register, OnComplete, Stage, Idle
<1>14. ASSUME NEW c \in Callers, SaveRow(c) PROVE ControlInv'
  BY <1>14 DEF SaveRow, SaveTorrent, Stage, Idle
<1>15. ASSUME NEW l \in Loops, LoopBegins(l), UNCHANGED apiVars PROVE ControlInv'
  BY <1>15 DEF LoopBegins, NewClient, At, Goto
<1>16. ASSUME NEW l \in Loops, LoopAnnounced(l), UNCHANGED apiVars PROVE ControlInv'
  BY <1>16 DEF LoopAnnounced, StartPeriodicAnnounce, At, Goto
<1>17. ASSUME NEW l \in Loops, LoopFails(l), UNCHANGED apiVars PROVE ControlInv'
  BY <1>17 DEF LoopFails, Finish, Save, SaveFails, Saves, At, Goto
<1>18. ASSUME NEW l \in Loops, LoopLeaves(l), UNCHANGED apiVars PROVE ControlInv'
  BY <1>18 DEF LoopLeaves, Leaves, Finish, Save, SaveFails, Saves, At, Goto
<1>19. ASSUME NEW l \in Loops, LoopCompletes(l), UNCHANGED apiVars PROVE ControlInv'
  BY <1>19 DEF LoopCompletes, Unhandled, At, Goto
<1>20. ASSUME NEW l \in Loops, LoopCancelled(l), UNCHANGED apiVars PROVE ControlInv'
  BY <1>20 DEF LoopCancelled, Save, SaveFails, Saves, NoSave
<1>21. ASSUME NEW l \in Loops, LoopDialed(l), UNCHANGED apiVars PROVE ControlInv'
  BY <1>21 DEF LoopDialed, At, Goto
<1>22. ASSUME NEW l \in Loops, LoopDials(l), UNCHANGED apiVars PROVE ControlInv'
  BY <1>22 DEF LoopDials, At, Goto
<1>23. ASSUME NEW l \in Loops, NEW o \in Outcomes, TrackerAsked(l, o), UNCHANGED apiVars
       PROVE  ControlInv'
  BY <1>23 DEF TrackerAsked, Asked
<1>24. ASSUME NEW l \in Loops, Report(l) PROVE ControlInv'
  BY <1>24 DEF Report, LoopReports, SaveTorrent, At, Goto
<1>25. ASSUME NEW up \in BOOLEAN, DialEnds(up), UNCHANGED apiVars PROVE ControlInv'
  BY <1>25 DEF DialEnds
<1>26. ASSUME LastBlock, UNCHANGED apiVars PROVE ControlInv'
  BY <1>26 DEF LastBlock
<1>27. ASSUME LastVerified, UNCHANGED apiVars PROVE ControlInv'
  BY <1>27 DEF LastVerified
<1>28. ASSUME LastFinished, UNCHANGED apiVars PROVE ControlInv'
  BY <1>28 DEF LastFinished
<1>29. ASSUME LastFails, UNCHANGED apiVars PROVE ControlInv'
  BY <1>29 DEF LastFails
<1>30. ASSUME ClearHistory PROVE ControlInv'
  BY <1>30 DEF ClearHistory
<1>35. CASE UNCHANGED vars
  BY <1>35
<1>31. ASSUME NEW c \in Callers, Serve(c) PROVE ControlInv'
  <2>1. Stage(c, "waiting") /\ thread[c].op \in Operations
    BY <1>31 DEF Serve, Stage
  <2>2. CASE thread[c].op = "start"
    BY <2>2, <1>31, <1>2 DEF Serve
  <2>3. CASE thread[c].op = "pause"
    BY <2>3, <1>31, <1>3, <1>5 DEF Serve
  <2>4. CASE thread[c].op = "resume"
    BY <2>4, <1>31, <1>4, <1>5 DEF Serve
  <2>5. CASE thread[c].op = "cancel"
    BY <2>5, <1>31, <1>6 DEF Serve
  <2> QED
    BY <2>1, <2>2, <2>3, <2>4, <2>5
<1>32. ASSUME NEW c \in Callers, ThreadNext(c) PROVE ControlInv'
  BY <1>32, <1>7, <1>8, <1>9, <1>10, <1>11, <1>12, <1>13, <1>14, <1>31 DEF ThreadNext, Continue
<1>33. ASSUME NEW l \in Loops, LoopNext(l) PROVE ControlInv'
  BY <1>33, <1>15, <1>16, <1>17, <1>18, <1>19, <1>20, <1>21, <1>22, <1>23, <1>24
     DEF LoopNext, LoopStep
<1>34. ASSUME PeerStep, UNCHANGED apiVars PROVE ControlInv'
  BY <1>34, <1>25, <1>26, <1>27, <1>28, <1>29 DEF PeerStep
<1> QED
  BY <1>1, <1>30, <1>31, <1>32, <1>33, <1>34, <1>35 DEF Next

\* The invariant is inductive.
LEMMA InductiveStep == IInv /\ [Next]_vars => IInv'
<1> SUFFICES ASSUME IInv, [Next]_vars PROVE IInv'
  OBVIOUS
<1>1. TypeOK /\ TrackersInv /\ TasksAreStarted /\ ControlInv /\ NewestIsMain /\ StartsOnce
  BY DEF IInv, ControlInv, TypeOK, LifecycleTypeOK, TrackersInv
<1>2. TrackersInv'
  BY <1>1, TrackersStep
<1>3. TypeOK'
  BY <1>1, <1>2, TypeStep
<1>4. ControlInv'
  BY <1>1, ControlStep
<1> QED
  BY <1>2, <1>3, <1>4 DEF IInv, TrackersInv

\* A step of the controller is a step of the state chart, or leaves it alone.
LEMMA PromiseStep == IInv /\ [Next]_vars => [Promise!Next]_(Promise!vars)
<1> SUFFICES ASSUME IInv, [Next]_vars PROVE [Promise!Next]_(Promise!vars)
  OBVIOUS
<1> USE DEF IInv, TypeOK, LifecycleTypeOK, ControlInv, NotStarted, Started, CompletesOnce,
            Operations, Idle, States, Loops, Promise!Next, Promise!vars, Promise!Go,
            Promise!Pause, Promise!LastPiece, Promise!Complete, Promise!Cancel,
            Promise!Fail, Promise!Report, Promise!ReportFails
<1>1. ASSUME NEW c \in Callers, NEW op \in Operations, Request(c, op)
      PROVE  [Promise!Next]_(Promise!vars)
  BY <1>1 DEF Request, Stage, Idle
<1>2. ASSUME NEW c \in Callers, Serve(c), thread[c].op = "start", Start(c)
      PROVE  [Promise!Next]_(Promise!vars)
  <2>1. main = 0
    BY <1>2 DEF StartsOnce, Serve, Stage
  <2> QED
    BY <1>2, <2>1 DEF Start
<1>3. ASSUME NEW c \in Callers, Serve(c), PauseBegins(c) PROVE [Promise!Next]_(Promise!vars)
  BY <1>3 DEF Serve, PauseBegins, ListConnections, Becomes, Stage
<1>4. ASSUME NEW c \in Callers, Serve(c), thread[c].op = "resume", Resume(c)
      PROVE  [Promise!Next]_(Promise!vars)
  BY <1>4 DEF Serve, Resume, MayResume, CreateLoop, Becomes, Stage
<1>5. ASSUME NEW c \in Callers, Serve(c), NEW op \in Operations, thread[c].op = op, Refused(c, op)
      PROVE  [Promise!Next]_(Promise!vars)
  BY <1>5 DEF Serve, Refused, Becomes, Stage
<1>6. ASSUME NEW c \in Callers, Serve(c), thread[c].op = "cancel", CancelBegins(c)
      PROVE  [Promise!Next]_(Promise!vars)
  BY <1>6 DEF Serve, CancelBegins, ListConnections, Becomes, Stage
<1>7. ASSUME NEW c \in Callers, PauseEnds(c), UNCHANGED apiVars
      PROVE  [Promise!Next]_(Promise!vars)
  BY <1>7 DEF PauseEnds, Disconnect, SaveAndReturn, Save, SaveFails, Saves, Becomes
<1>8. ASSUME NEW c \in Callers, CancelDisconnects(c), UNCHANGED apiVars
      PROVE  [Promise!Next]_(Promise!vars)
  BY <1>8 DEF CancelDisconnects, Disconnect, SaveAndReturn, Save, SaveFails, Saves, NoSave, Stop, Becomes
<1>9. ASSUME NEW c \in Callers, NEW o \in Outcomes, CancelEnds(c, o), UNCHANGED apiVars
      PROVE  [Promise!Next]_(Promise!vars)
  BY <1>9 DEF CancelEnds, SaveAndReturn, Save, SaveFails, Saves, Becomes
<1>10. ASSUME NEW c \in Callers, Answered(c) PROVE [Promise!Next]_(Promise!vars)
  BY <1>10 DEF Answered, Enters, Becomes, Stage, Idle
<1>11. ASSUME NEW c \in Callers, Failed(c) PROVE [Promise!Next]_(Promise!vars)
  BY <1>11 DEF Failed, Becomes, Stage, Idle
<1>12. ASSUME NEW c \in Callers, GivesUp(c) PROVE [Promise!Next]_(Promise!vars)
  BY <1>12 DEF GivesUp, Enters, Stage
<1>13. ASSUME NEW c \in Callers, Register(c) PROVE [Promise!Next]_(Promise!vars)
  BY <1>13 DEF Register, OnComplete, Stage, Idle
<1>14. ASSUME NEW c \in Callers, SaveRow(c) PROVE [Promise!Next]_(Promise!vars)
  BY <1>14 DEF SaveRow, SaveTorrent, Stage, Idle
<1>15. ASSUME NEW l \in Loops, LoopBegins(l), UNCHANGED apiVars
       PROVE  [Promise!Next]_(Promise!vars)
  BY <1>15 DEF LoopBegins, NewClient, At, Goto
<1>16. ASSUME NEW l \in Loops, LoopAnnounced(l), UNCHANGED apiVars
       PROVE  [Promise!Next]_(Promise!vars)
  BY <1>16 DEF LoopAnnounced, StartPeriodicAnnounce, At, Goto
<1>17. ASSUME NEW l \in Loops, LoopFails(l), UNCHANGED apiVars
       PROVE  [Promise!Next]_(Promise!vars)
  <2>1. main # 0
    BY <1>17, LoopsAssumption DEF LoopFails, At, NewestIsMain
  <2> QED
    BY <1>17, <2>1 DEF LoopFails
<1>18. ASSUME NEW l \in Loops, LoopLeaves(l), UNCHANGED apiVars
       PROVE  [Promise!Next]_(Promise!vars)
  BY <1>18 DEF LoopLeaves, Leaves, Finish, Save, SaveFails, Saves, At, Goto
<1>19. ASSUME NEW l \in Loops, LoopCompletes(l), UNCHANGED apiVars
       PROVE  [Promise!Next]_(Promise!vars)
  BY <1>19 DEF LoopCompletes, Unhandled, At, Goto
<1>20. ASSUME NEW l \in Loops, LoopCancelled(l), UNCHANGED apiVars
       PROVE  [Promise!Next]_(Promise!vars)
  BY <1>20 DEF LoopCancelled, Save, SaveFails, Saves, NoSave
<1>21. ASSUME NEW l \in Loops, LoopDialed(l), UNCHANGED apiVars
       PROVE  [Promise!Next]_(Promise!vars)
  BY <1>21 DEF LoopDialed, At, Goto
<1>22. ASSUME NEW l \in Loops, LoopDials(l), UNCHANGED apiVars
       PROVE  [Promise!Next]_(Promise!vars)
  BY <1>22 DEF LoopDials, At, Goto
<1>23. ASSUME NEW l \in Loops, NEW o \in Outcomes, TrackerAsked(l, o), UNCHANGED apiVars
       PROVE  [Promise!Next]_(Promise!vars)
  BY <1>23 DEF TrackerAsked, Asked
<1>24. ASSUME NEW l \in Loops, Report(l) PROVE [Promise!Next]_(Promise!vars)
  BY <1>24 DEF Report, LoopReports, SaveTorrent, At, Goto
<1>25. ASSUME NEW up \in BOOLEAN, DialEnds(up), UNCHANGED apiVars
       PROVE  [Promise!Next]_(Promise!vars)
  BY <1>25 DEF DialEnds
<1>26. ASSUME LastBlock, UNCHANGED apiVars PROVE [Promise!Next]_(Promise!vars)
  BY <1>26 DEF LastBlock
<1>27. ASSUME LastVerified, UNCHANGED apiVars PROVE [Promise!Next]_(Promise!vars)
  BY <1>27 DEF LastVerified
<1>28. ASSUME LastFinished, UNCHANGED apiVars PROVE [Promise!Next]_(Promise!vars)
  BY <1>28 DEF LastFinished
<1>29. ASSUME LastFails, UNCHANGED apiVars PROVE [Promise!Next]_(Promise!vars)
  BY <1>29 DEF LastFails
<1>30. ASSUME ClearHistory PROVE [Promise!Next]_(Promise!vars)
  BY <1>30 DEF ClearHistory
<1>35. CASE UNCHANGED vars
  BY <1>35
<1>31. ASSUME NEW c \in Callers, Serve(c) PROVE [Promise!Next]_(Promise!vars)
  <2>1. Stage(c, "waiting") /\ thread[c].op \in Operations
    BY <1>31 DEF Serve, Stage, StartsOnce
  <2>2. CASE thread[c].op = "start"
    BY <2>2, <1>31, <1>2 DEF Serve
  <2>3. CASE thread[c].op = "pause"
    BY <2>3, <1>31, <1>3, <1>5 DEF Serve
  <2>4. CASE thread[c].op = "resume"
    BY <2>4, <1>31, <1>4, <1>5 DEF Serve
  <2>5. CASE thread[c].op = "cancel"
    BY <2>5, <1>31, <1>6 DEF Serve
  <2> QED
    BY <2>1, <2>2, <2>3, <2>4, <2>5
<1>32. ASSUME NEW c \in Callers, ThreadNext(c) PROVE [Promise!Next]_(Promise!vars)
  BY <1>32, <1>7, <1>8, <1>9, <1>10, <1>11, <1>12, <1>13, <1>14, <1>31 DEF ThreadNext, Continue
<1>33. ASSUME NEW l \in Loops, LoopNext(l) PROVE [Promise!Next]_(Promise!vars)
  BY <1>33, <1>15, <1>16, <1>17, <1>18, <1>19, <1>20, <1>21, <1>22, <1>23, <1>24
     DEF LoopNext, LoopStep
<1>34. ASSUME PeerStep, UNCHANGED apiVars PROVE [Promise!Next]_(Promise!vars)
  BY <1>34, <1>25, <1>26, <1>27, <1>28, <1>29 DEF PeerStep
<1> QED
  BY <1>1, <1>30, <1>31, <1>32, <1>33, <1>34, <1>35 DEF Next

\* Before the first request the invariant holds.
LEMMA IInvInit == Init => IInv
<1> SUFFICES ASSUME Init PROVE IInv
  OBVIOUS
<1> USE DEF Init, LifecycleInit, TrackerInit, Idle, Operations, States, Loops
<1>1. TypeOK
  <2>1. TrackerTypeOK
    BY LoopsAssumption DEF TrackerTypeOK
  <2>2. loop \in [Loops -> {"none", "scheduled", "announcing", "requesting", "dialing",
                           "completing", "done"}]
    OBVIOUS
  <2>3. /\ call \in [Callers -> {"none", "pausing", "cancelling", "stopping", "over", "raised"}]
        /\ cancelled \subseteq Loops /\ lapses \subseteq {"unsaved", "unrecorded"}
    OBVIOUS
  <2>6. /\ complete \in BOOLEAN /\ handled \in BOOLEAN /\ registered \in BOOLEAN
        /\ dialing \in BOOLEAN /\ cleared \in BOOLEAN
    OBVIOUS
  <2>7. /\ reports \in 0..1 /\ main \in 0..MaxLoops /\ requests \in 0..MaxRequests
        /\ state \in States /\ saved \in States \cup {"none", "unknown"}
        /\ row \in States \cup {"none"}
        /\ links \in {"none", "closing", "up"} /\ last \in {"idle", "verifying", "orphaned", "finishing"}
    BY LoopsAssumption, RequestsAssumption
  <2>5. thread \in [Callers -> [op : Operations \cup {"none"},
                               stage : {"idle", "waiting", "registering", "saving", "gone"}]]
    OBVIOUS
  <2> HIDE DEF Init, LifecycleInit, TrackerInit, Operations, States, Loops
  <2>4. LifecycleTypeOK
    BY <2>1, <2>2, <2>3, <2>6, <2>7 DEF LifecycleTypeOK
  <2> QED
    BY <2>4, <2>5, <2>6, <2>7 DEF TypeOK
<1>2. Begun = {} /\ Cardinality(Begun) = 0
  BY FS_EmptySet DEF Begun
<1>3. TasksAreStarted
  BY <1>2 DEF TasksAreStarted
<1>4. NotStarted /\ Started /\ NewestIsMain /\ StartsOnce /\ CompletesOnce
  BY DEF NotStarted, Started, NewestIsMain, StartsOnce, CompletesOnce
<1>5. RunningHasALoop /\ SavedOrDue /\ CompletedIsInHistory
  BY DEF RunningHasALoop, SavedOrDue, CompletedIsInHistory
<1> QED
  BY <1>1, <1>3, <1>4, <1>5 DEF IInv, ControlInv

\* The invariant holds of every behaviour, whatever the callers, the number of
\* main loops and the number of requests are.
THEOREM Invariance == Spec => []IInv
<1>1. Init => IInv
  BY IInvInit
<1>2. IInv /\ [Next]_vars => IInv'
  BY InductiveStep
<1> QED
  BY <1>1, <1>2, PTL DEF Spec

\* Every variable keeps its type; on_complete is called at most once.
THEOREM TypeCorrectness == Spec => []TypeOK
<1>1. IInv => TypeOK
  BY DEF IInv
<1> QED
  BY <1>1, Invariance, PTL

\* A download whose state is RUNNING has a main loop that was not cancelled,
\* whatever start, pause, resume and cancel are called in whatever order.
THEOREM RunningLoops == Spec => []RunningHasALoop
<1>1. IInv => RunningHasALoop
  BY DEF IInv, ControlInv
<1> QED
  BY <1>1, Invariance, PTL

\* Once no request and no main loop is under way, the state file holds the
\* download's state, but when its last write raised, and for the lapses of the
\* code that lapses records.
THEOREM StateFile == Spec => []StateFileIsCurrent
<1>1. IInv => StateFileIsCurrent
  <2> SUFFICES ASSUME IInv, Quiet, saved \notin {"none", "unknown"}
               PROVE  saved = state \/ "unsaved" \in lapses
    BY DEF StateFileIsCurrent
  <2>1. ~SaveIsDue
    BY DEF Quiet, SaveIsDue
  <2> QED
    BY <2>1 DEF IInv, ControlInv, SavedOrDue
<1> QED
  BY <1>1, Invariance, PTL

\* A download whose completion was reported without an error is in the history
\* database as completed, however Flask threads and the callback take turns.
THEOREM History == Spec => []CompletedIsInHistory
<1>1. IInv => CompletedIsInHistory
  BY DEF IInv, ControlInv
<1> QED
  BY <1>1, Invariance, PTL

\* The controller keeps the promise of DownloadStates: the state chart of a
\* download, and one report of its completion at most.
THEOREM ImplementsPromise == Spec => ImplementsStates
<1>1. Init => Promise!Init
  BY DEF Init, LifecycleInit, Promise!Init
<1>2. IInv /\ [Next]_vars => [Promise!Next]_(Promise!vars)
  BY PromiseStep
<1> QED
  BY <1>1, <1>2, Invariance, PTL DEF Spec, ImplementsStates, Promise!Spec

-----------------------------------------------------------------------------
(* What cancel() does achieve, and what it would need to stop everything.  *)

\* Once a cancel() began, the download does not run again, and the newest main
\* loop is over or about to be told.
CancelHit ==
    state = "Cancelled" \/ (\E c \in Callers : thread[c].op = "cancel" /\ call[c] # "none") =>
        /\ state \in {"Completed", "Cancelled", "Error"}
        /\ main # 0 /\ (loop[main] = "done" \/ main \in cancelled)

\* A thread that posted nothing has no coroutine.
CallsArePosted == \A c \in Callers : call[c] # "none" => Stage(c, "waiting") \/ Stage(c, "gone")

\* When cancel() is done, the main loops that go on are those that a later
\* start or resume has overtaken.
CancelStopsTheNewest ==
    state = "Cancelled" \/ (\E c \in Callers : thread[c].op = "cancel" /\ call[c] = "over") =>
        \A l \in Loops : loop[l] \in {"none", "done"} \/ l \in cancelled \/ l < main

\* Every step keeps the hold that cancel() has on the newest main loop.
LEMMA CancelStep ==
    IInv /\ CancelHit /\ CallsArePosted /\ [Next]_vars => CancelHit' /\ CallsArePosted'
<1> DEFINE Goal == CancelHit /\ CallsArePosted
<1> SUFFICES ASSUME IInv, CancelHit, CallsArePosted, [Next]_vars PROVE Goal'
  OBVIOUS
<1> USE DEF IInv, ControlInv, NotStarted, StartsOnce, CompletesOnce, CancelHit, CallsArePosted,
            Stage, TypeOK, LifecycleTypeOK, TrackerTypeOK, Operations, Idle, States, Loops
<1>1. ASSUME NEW c \in Callers, NEW op \in Operations, Request(c, op) PROVE Goal'
  BY <1>1 DEF Request
<1>2. ASSUME NEW c \in Callers, Serve(c), thread[c].op = "start", Start(c) PROVE Goal'
  BY <1>2 DEF Serve, Start, CreateLoop, Becomes, Stage
<1>3. ASSUME NEW c \in Callers, Serve(c), thread[c].op = "pause", PauseBegins(c) PROVE Goal'
  BY <1>3 DEF Serve, PauseBegins, ListConnections, Becomes, Stage
<1>4. ASSUME NEW c \in Callers, Serve(c), thread[c].op = "resume", Resume(c) PROVE Goal'
  BY <1>4 DEF Serve, Resume, MayResume, CreateLoop, Becomes, Stage
<1>5. ASSUME NEW c \in Callers, Serve(c), NEW op \in Operations, thread[c].op = op, Refused(c, op)
      PROVE  Goal'
  BY <1>5 DEF Serve, Refused, Becomes, Stage
<1>6. ASSUME NEW c \in Callers, Serve(c), thread[c].op = "cancel", CancelBegins(c)
      PROVE  Goal'
  BY <1>6 DEF Serve, CancelBegins, ListConnections, Becomes, Stage
<1>7. ASSUME NEW c \in Callers, PauseEnds(c), UNCHANGED apiVars PROVE Goal'
  BY <1>7 DEF PauseEnds, Disconnect, SaveAndReturn, Save, SaveFails, Saves, Becomes
<1>8. ASSUME NEW c \in Callers, CancelDisconnects(c), UNCHANGED apiVars PROVE Goal'
  BY <1>8 DEF CancelDisconnects, Disconnect, SaveAndReturn, Save, SaveFails, Saves, NoSave, Stop, Becomes
<1>9. ASSUME NEW c \in Callers, NEW o \in Outcomes, CancelEnds(c, o), UNCHANGED apiVars
      PROVE  Goal'
  BY <1>9 DEF CancelEnds, SaveAndReturn, Save, SaveFails, Saves, Becomes
<1>10. ASSUME NEW c \in Callers, Answered(c) PROVE Goal'
  BY <1>10 DEF Answered, Enters, Becomes, Stage, Idle
<1>11. ASSUME NEW c \in Callers, Failed(c) PROVE Goal'
  BY <1>11 DEF Failed, Becomes, Stage, Idle
<1>12. ASSUME NEW c \in Callers, GivesUp(c) PROVE Goal'
  BY <1>12 DEF GivesUp, Enters, Stage
<1>13. ASSUME NEW c \in Callers, Register(c) PROVE Goal'
  BY <1>13 DEF Register, OnComplete, Stage, Idle
<1>14. ASSUME NEW c \in Callers, SaveRow(c) PROVE Goal'
  BY <1>14 DEF SaveRow, SaveTorrent, Stage, Idle
<1>15. ASSUME NEW l \in Loops, LoopBegins(l), UNCHANGED apiVars PROVE Goal'
  BY <1>15 DEF LoopBegins, NewClient, At, Goto
<1>16. ASSUME NEW l \in Loops, LoopAnnounced(l), UNCHANGED apiVars PROVE Goal'
  BY <1>16 DEF LoopAnnounced, StartPeriodicAnnounce, At, Goto
<1>17. ASSUME NEW l \in Loops, LoopFails(l), UNCHANGED apiVars PROVE Goal'
  BY <1>17 DEF LoopFails, Finish, Save, SaveFails, Saves, At, Goto
<1>18. ASSUME NEW l \in Loops, LoopLeaves(l), UNCHANGED apiVars PROVE Goal'
  BY <1>18 DEF LoopLeaves, Leaves, Finish, Save, SaveFails, Saves, At, Goto
<1>19. ASSUME NEW l \in Loops, LoopCompletes(l), UNCHANGED apiVars PROVE Goal'
  BY <1>19 DEF LoopCompletes, Unhandled, At, Goto
<1>20. ASSUME NEW l \in Loops, LoopCancelled(l), UNCHANGED apiVars PROVE Goal'
  BY <1>20 DEF LoopCancelled, Save, SaveFails, Saves, NoSave
<1>21. ASSUME NEW l \in Loops, LoopDialed(l), UNCHANGED apiVars PROVE Goal'
  BY <1>21 DEF LoopDialed, At, Goto
<1>22. ASSUME NEW l \in Loops, LoopDials(l), UNCHANGED apiVars PROVE Goal'
  BY <1>22 DEF LoopDials, At, Goto
<1>23. ASSUME NEW l \in Loops, NEW o \in Outcomes, TrackerAsked(l, o), UNCHANGED apiVars
       PROVE  Goal'
  BY <1>23 DEF TrackerAsked, Asked
<1>24. ASSUME NEW l \in Loops, Report(l) PROVE Goal'
  BY <1>24 DEF Report, LoopReports, SaveTorrent, At, Goto
<1>25. ASSUME NEW up \in BOOLEAN, DialEnds(up), UNCHANGED apiVars PROVE Goal'
  BY <1>25 DEF DialEnds
<1>26. ASSUME LastBlock, UNCHANGED apiVars PROVE Goal'
  BY <1>26 DEF LastBlock
<1>27. ASSUME LastVerified, UNCHANGED apiVars PROVE Goal'
  BY <1>27 DEF LastVerified
<1>28. ASSUME LastFinished, UNCHANGED apiVars PROVE Goal'
  BY <1>28 DEF LastFinished
<1>29. ASSUME LastFails, UNCHANGED apiVars PROVE Goal'
  BY <1>29 DEF LastFails
<1>30. ASSUME ClearHistory PROVE Goal'
  BY <1>30 DEF ClearHistory
<1>35. CASE UNCHANGED vars
  BY <1>35
<1>31. ASSUME NEW c \in Callers, Serve(c) PROVE Goal'
  <2>1. Stage(c, "waiting") /\ thread[c].op \in Operations
    BY <1>31 DEF Serve, Stage
  <2>2. CASE thread[c].op = "start"
    BY <2>2, <1>31, <1>2 DEF Serve
  <2>3. CASE thread[c].op = "pause"
    BY <2>3, <1>31, <1>3, <1>5 DEF Serve
  <2>4. CASE thread[c].op = "resume"
    BY <2>4, <1>31, <1>4, <1>5 DEF Serve
  <2>5. CASE thread[c].op = "cancel"
    BY <2>5, <1>31, <1>6 DEF Serve
  <2> QED
    BY <2>1, <2>2, <2>3, <2>4, <2>5
<1>32. ASSUME NEW c \in Callers, ThreadNext(c) PROVE Goal'
  BY <1>32, <1>7, <1>8, <1>9, <1>10, <1>11, <1>12, <1>13, <1>14, <1>31 DEF ThreadNext, Continue
<1>33. ASSUME NEW l \in Loops, LoopNext(l) PROVE Goal'
  BY <1>33, <1>15, <1>16, <1>17, <1>18, <1>19, <1>20, <1>21, <1>22, <1>23, <1>24
     DEF LoopNext, LoopStep
<1>34. ASSUME PeerStep, UNCHANGED apiVars PROVE Goal'
  BY <1>34, <1>25, <1>26, <1>27, <1>28, <1>29 DEF PeerStep
<1> QED
  BY <1>1, <1>30, <1>31, <1>32, <1>33, <1>34, <1>35 DEF Next

\* After any cancel() the newest main loop is over or told to end, whoever
\* called what in between: what escapes is a main loop that was overtaken.
THEOREM CancelMissesOvertakenLoops == Spec => []CancelStopsTheNewest
<1>1. Init => CancelHit /\ CallsArePosted
  BY DEF Init, LifecycleInit, CancelHit, CallsArePosted, Idle
<1>2. IInv /\ CancelHit => CancelStopsTheNewest
  BY DEF IInv, ControlInv, NewestIsMain, CancelHit, CancelStopsTheNewest, TypeOK,
         LifecycleTypeOK, Loops
<1>3. Spec => [](CancelHit /\ CallsArePosted)
  BY <1>1, CancelStep, Invariance, PTL DEF Spec
<1> QED
  BY <1>2, <1>3, Invariance, PTL

\* So cancel() does stop everything when no overtaken main loop still goes: the
\* leak needs a start or resume beside a main loop that has not ended.
THEOREM CancelLeaksOvertakenLoops ==
    Spec => []((\A l \in Loops : l < main => loop[l] = "done") => CancelStopsEverything)
<1>1. CancelStopsTheNewest =>
        ((\A l \in Loops : l < main => loop[l] = "done") => CancelStopsEverything)
  BY DEF CancelStopsTheNewest, CancelStopsEverything
<1> QED
  BY <1>1, CancelMissesOvertakenLoops, PTL
================================================================================
