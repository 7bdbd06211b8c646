---------------------- MODULE PieceVerificationProofs ----------------------
(***************************************************************************)
(* The safety of PieceVerification for every number of peers, pieces,      *)
(* blocks and threads, and for every bound on the faults.                  *)
(*                                                                         *)
(* SettledIsOnDisk and HaveIsOnDisk are not inductive: they say nothing of *)
(* the pieces under way.  IInv adds who owns which job (WellFormed), what  *)
(* a handler or a job on a piece no race has hit knows (Known), and that a *)
(* COMPLETED piece not on disk is owed by a handler still to write it.     *)
(***************************************************************************)
EXTENDS PieceVerification, TLAPS

\* A handler with a job in the executor is connected and about one piece,
\* and queue and threads agree with it on what it awaits.
HandlersWellFormed ==
    \A p \in Peers :
        /\ p \in queue => handler[p] \in {"verify", "write"}
        /\ handler[p] # "reading" => cur[p] \in Pieces /\ p \in conn

JobsWellFormed ==
    /\ \A w \in Workers : job[w].stage # "idle" => job[w].piece \in Pieces
    /\ \A w \in Workers, p \in Peers :
         job[w].peer = p =>
            /\ job[w].stage # "idle" /\ cur[p] = job[w].piece /\ p \notin queue
            /\ handler[p] = IF job[w].stage \in {"hash", "conclude", "clear"}
                            THEN "verify" ELSE "write"
    /\ \A v, w \in Workers : job[v].peer = job[w].peer /\ job[v].peer # NoPeer => v = w

\* What is known of a piece no race has hit: a hash that matched still does,
\* a handler past the verification finds it COMPLETED, one past the write
\* finds it on disk, and a job without an owner is never about such a piece.
JobsKnow ==
    \A w \in Workers :
        job[w].stage # "idle" /\ job[w].piece \notin raced =>
            /\ job[w].peer # NoPeer
            /\ job[w].stage = "conclude" /\ job[w].ok => Right(job[w].piece)
            /\ job[w].stage \in {"exists", "create", "allocate", "flush"} => job[w].ok

HandlersKnow ==
    \A p \in Peers :
        cur[p] \notin raced =>
            /\ handler[p] \in {"verified", "write"} => status[cur[p]] = "completed"
            /\ handler[p] = "written" => disk[cur[p]] = "right"

\* A COMPLETED piece is on disk or a handler still has to write it.
SavedOrOwed ==
    \A i \in Pieces \ raced :
        status[i] = "completed" =>
            \/ disk[i] = "right"
            \/ \E p \in Peers : cur[p] = i /\ handler[p] \in {"verified", "write"}

IInv ==
    /\ TypeOK
    /\ HandlersWellFormed /\ JobsWellFormed
    /\ JobsKnow /\ HandlersKnow
    /\ VerifiedIsRight /\ SavedOrOwed /\ HaveIsOnDisk

-----------------------------------------------------------------------------
USE DEF resultVars, noteVars, pieceVars, peerVars, secVars, diskVars, loopVars

\* The initial state satisfies the inductive invariant.
LEMMA InitIInv == Init => IInv
<1> SUFFICES ASSUME Init PROVE IInv
  OBVIOUS
<1> USE SetsAssumption, BoundsAssumption DEF Init, Idle
<1>1. TypeOK
  BY DEF TypeOK, Jobs, Stages, HandlerPoints, FaultKinds
<1>2. HandlersWellFormed /\ JobsWellFormed
  BY DEF HandlersWellFormed, JobsWellFormed
<1>3. JobsKnow /\ HandlersKnow
  BY DEF JobsKnow, HandlersKnow
<1>4. VerifiedIsRight /\ SavedOrOwed /\ HaveIsOnDisk
  BY DEF VerifiedIsRight, SavedOrOwed, HaveIsOnDisk
<1> QED
  BY <1>1, <1>2, <1>3, <1>4 DEF IInv

\* The two fields of a job that its steps change.
LEMMA JobUpdate ==
    ASSUME NEW w \in Workers, job \in [Workers -> Jobs],
           NEW stage \in Stages, NEW ok \in BOOLEAN
    PROVE  /\ [job EXCEPT ![w].stage = stage] \in [Workers -> Jobs]
           /\ [job EXCEPT ![w].stage = stage, ![w].ok = ok] \in [Workers -> Jobs]
           /\ Idle \in Jobs
<1>1. [job[w] EXCEPT !.stage = stage] \in Jobs
  BY DEF Jobs
<1>2. [job[w] EXCEPT !.stage = stage, !.ok = ok] \in Jobs
  BY DEF Jobs
<1>3. [job EXCEPT ![w].stage = stage, ![w].ok = ok]
        = [job EXCEPT ![w] = [job[w] EXCEPT !.stage = stage, !.ok = ok]]
  BY DEF Jobs
<1>4. Idle \in Jobs
  BY DEF Idle, Jobs, Stages
<1> QED
  BY <1>1, <1>2, <1>3, <1>4

\* Handing an outcome to the owner of a job keeps the types.
LEMMA FinishType ==
    ASSUME TypeOK, NEW w \in Workers, NEW outcome \in HandlerPoints, Finish(w, outcome)
    PROVE  handler' \in [Peers -> HandlerPoints] /\ job' \in [Workers -> Jobs]
BY JobUpdate DEF TypeOK, Finish, Stages

\* Using up one unit of a bound keeps the counters natural numbers.
LEMMA SpendType ==
    ASSUME TypeOK, NEW k \in FaultKinds, NEW bound, Spend(k, bound)
    PROVE  faults' \in [FaultKinds -> Nat]
BY DEF TypeOK, Spend

\* Dropping a connection keeps the types of what it changes.
LEMMA DropType ==
    ASSUME TypeOK, NEW p \in Peers, Drop(p)
    PROVE  /\ conn' \subseteq Peers /\ queue' \subseteq Peers
           /\ asked' \in [Peers -> SUBSET (Pieces \X Blocks)]
           /\ handler' \in [Peers -> HandlerPoints]
           /\ cur' \in [Peers -> Pieces \cup {NoPiece}]
           /\ job' \in [Workers -> Jobs]
<1>1. \A w \in Workers : [job[w] EXCEPT !.peer = NoPeer] \in Jobs
  BY DEF TypeOK, Jobs
<1>2. job' \in [Workers -> Jobs]
  BY <1>1 DEF TypeOK, Drop
<1> QED
  BY <1>2 DEF TypeOK, Drop, HandlerPoints

\* Every step keeps the variables in their types.
LEMMA TypeStep ==
    TypeOK /\ HandlersWellFormed /\ JobsWellFormed /\ [Next]_vars => TypeOK'
<1> SUFFICES ASSUME TypeOK, HandlersWellFormed, JobsWellFormed, [Next]_vars PROVE TypeOK'
  OBVIOUS
<1> USE SetsAssumption, BoundsAssumption
    DEF TypeOK, Jobs, Stages, HandlerPoints, FaultKinds, Idle, Spend, Race
<1>1. ASSUME NEW p \in Peers, Connect(p) PROVE TypeOK'
  BY <1>1 DEF Connect
<1>2. ASSUME NEW p \in Peers, ConnLost(p) PROVE TypeOK'
  BY <1>2, DropType DEF ConnLost
<1>3. ASSUME NEW p \in Peers, HandlerVerified(p) PROVE TypeOK'
  BY <1>3 DEF HandlerVerified
<1>4. ASSUME NEW p \in Peers, HandlerFailed(p) PROVE TypeOK'
  BY <1>4, DropType DEF HandlerFailed, Ban
<1>5. ASSUME NEW p \in Peers, HandlerRaised(p) PROVE TypeOK'
  BY <1>5, DropType DEF HandlerRaised
<1>6. ASSUME NEW p \in Peers, PauseDisconnect(p) PROVE TypeOK'
  BY <1>6, DropType DEF PauseDisconnect, HandlersWellFormed
<1>7. ASSUME NEW p \in Peers, NEW i \in Pieces, StartPiece(p, i) PROVE TypeOK'
  BY <1>7 DEF StartPiece, AskFor
<1>8. ASSUME NEW p \in Peers, NEW i \in Pieces, AskAgain(p, i) PROVE TypeOK'
  BY <1>8 DEF AskAgain, AskFor
<1>9. ASSUME NEW p \in Peers, NEW i \in Pieces, NEW b \in Blocks, NEW right \in BOOLEAN,
             Deliver(p, i, b, right) PROVE TypeOK'
  <2>1. received' \in [Pieces -> SUBSET Blocks] /\ good' \in [Pieces -> SUBSET Blocks]
    BY <1>9 DEF Deliver, Store
  <2>2. faults' \in [FaultKinds -> Nat]
    BY <1>9, SpendType DEF Deliver
  <2>3. /\ handler' \in [Peers -> HandlerPoints] /\ cur' \in [Peers -> Pieces \cup {NoPiece}]
        /\ queue' \subseteq Peers
    <3>1. \/ UNCHANGED <<handler, cur, queue>>
          \/ /\ handler' = [handler EXCEPT ![p] = "verify"]
             /\ cur' = [cur EXCEPT ![p] = i]
             /\ queue' = queue \cup {p}
      BY <1>9 DEF Deliver
    <3> QED
      BY <3>1
  <2>5. raced' \subseteq Pieces
    BY <1>9 DEF Deliver
  <2>6. asked' \in [Peers -> SUBSET (Pieces \X Blocks)]
    BY <1>9 DEF Deliver
  <2>4. /\ UNCHANGED <<status, timers, conn, job, fileExists, disk, have, fails, banned>>
        /\ UNCHANGED <<dl, loops, completion, callbacks, leaving, stale>>
    BY <1>9 DEF Deliver
  <2> QED
    BY <2>1, <2>2, <2>3, <2>4, <2>5, <2>6
<1>10. ASSUME NEW w \in Workers, NEW p \in Peers, TakeJob(w, p) PROVE TypeOK'
  BY <1>10 DEF TakeJob
<1>11. ASSUME NEW w \in Workers, Hash(w) PROVE TypeOK'
  BY <1>11, JobUpdate DEF Hash, HashMatches, Right
<1>12. ASSUME NEW w \in Workers, VerifyPass(w) PROVE TypeOK'
  BY <1>12 DEF VerifyPass, Finish
<1>13. ASSUME NEW w \in Workers, VerifyFail(w) PROVE TypeOK'
  <2>1. job[w].piece \in Pieces
    BY <1>13 DEF VerifyFail, JobsWellFormed
  <2>2. job' \in [Workers -> Jobs]
    BY <1>13, JobUpdate DEF VerifyFail
  <2>3. raced' \subseteq Pieces /\ status' \in [Pieces -> {"missing", "in_progress", "completed"}]
    BY <1>13, <2>1 DEF VerifyFail, ResetRace
  <2> QED
    BY <1>13, <2>2, <2>3 DEF VerifyFail
<1>14. ASSUME NEW w \in Workers, VerifyClear(w) PROVE TypeOK'
  <2>1. job[w].piece \in Pieces
    BY <1>14 DEF VerifyClear, JobsWellFormed
  <2>2. job' \in [Workers -> Jobs] /\ handler' \in [Peers -> HandlerPoints]
    BY <1>14, FinishType DEF VerifyClear
  <2>3. raced' \subseteq Pieces
    BY <1>14, <2>1 DEF VerifyClear, ResetRace
  <2> QED
    BY <1>14, <2>2, <2>3 DEF VerifyClear, Forget
<1>15. ASSUME NEW w \in Workers, WriteRead(w) PROVE TypeOK'
  <2>1. job' \in [Workers -> Jobs] /\ handler' \in [Peers -> HandlerPoints]
    <3>1. CASE Readable(job[w].piece)
      <4>1. /\ job' = [job EXCEPT ![w].stage = "exists", ![w].ok = Right(job[w].piece)]
            /\ handler' = handler
        BY <1>15, <3>1 DEF WriteRead
      <4>2. Right(job[w].piece) \in BOOLEAN
        BY DEF Right
      <4> QED
        BY <4>1, <4>2, JobUpdate
    <3>2. CASE ~Readable(job[w].piece)
      BY <1>15, <3>2, FinishType DEF WriteRead
    <3> QED
      BY <3>1, <3>2
  <2> QED
    BY <1>15, <2>1 DEF WriteRead
<1>16. ASSUME NEW w \in Workers, WriteExists(w) PROVE TypeOK'
  BY SMTT(40), <1>16 DEF WriteExists
<1>17. ASSUME NEW w \in Workers, WriteCreate(w) PROVE TypeOK'
  <2>1. job' \in [Workers -> Jobs]
    BY <1>17, JobUpdate DEF WriteCreate
  <2>2. raced' \subseteq Pieces
    BY <1>17 DEF WriteCreate
  <2> QED
    BY <1>17, <2>1, <2>2 DEF WriteCreate
<1>31. ASSUME NEW w \in Workers, WriteAllocate(w) PROVE TypeOK'
  BY <1>31, JobUpdate DEF WriteAllocate
<1>18. ASSUME NEW w \in Workers, WriteFlush(w) PROVE TypeOK'
  BY <1>18 DEF WriteFlush, Content, Finish
<1>19. ASSUME NEW w \in Workers, WriteRaises(w) PROVE TypeOK'
  <2>1. job[w].piece \in Pieces
    BY <1>19 DEF WriteRaises, JobsWellFormed
  <2>2. job' \in [Workers -> Jobs] /\ handler' \in [Peers -> HandlerPoints]
    BY <1>19, FinishType DEF WriteRaises
  <2>3. faults' \in [FaultKinds -> Nat]
    BY <1>19, SpendType DEF WriteRaises
  <2>4. disk' \in [Pieces -> {"absent", "right", "wrong"}]
    <3>1. \/ disk' = disk
          \/ \E d \in {"absent", "right", "wrong"} : disk' = [disk EXCEPT ![job[w].piece] = d]
      BY <1>19, <2>1 DEF WriteRaises, Content
    <3> QED
      BY <3>1
  <2>5. raced' \subseteq Pieces
    BY <1>19, <2>1 DEF WriteRaises
  <2>6. UNCHANGED <<status, received, good, timers, conn, asked, cur, queue, fileExists,
                    have, fails, banned, dl, loops, completion, callbacks, leaving, stale>>
    BY <1>19 DEF WriteRaises, pieceVars, secVars, loopVars
  <2> QED
    BY <2>2, <2>3, <2>4, <2>5, <2>6
<1>20. ASSUME NEW S \in SUBSET Pieces, StaleCheck(S) PROVE TypeOK'
  <2>1. faults' \in [FaultKinds -> Nat]
    BY <1>20, SpendType DEF StaleCheck
  <2> QED
    BY <1>20, <2>1 DEF StaleCheck, Timed
<1>21. ASSUME NEW i \in Pieces, StaleReset(i) PROVE TypeOK'
  BY <1>21 DEF StaleReset, Forget
<1>22. CASE Pause
  BY <1>22 DEF Pause
<1>23. CASE Resume
  BY <1>23 DEF Resume
<1>24. CASE MainExit
  BY <1>24 DEF MainExit, LeavesWhile
<1>25. CASE OnComplete
  BY <1>25 DEF OnComplete
<1>26. CASE UNCHANGED vars
  BY <1>26 DEF vars
<1>27. ASSUME NEW p \in Peers, HandlerWritten(p) PROVE TypeOK'
  BY <1>27 DEF HandlerWritten, HandlersWellFormed
<1> HIDE DEF TypeOK, Jobs, Stages, HandlerPoints, FaultKinds, Idle, Spend, Race
<1>28. ASSUME NEW p \in Peers, HandlerStep(p) PROVE TypeOK'
  BY <1>28, <1>3, <1>4, <1>27, <1>5 DEF HandlerStep
<1>29. ASSUME NEW w \in Workers, JobStep(w) PROVE TypeOK'
  BY <1>29, <1>11, <1>12, <1>13, <1>14, <1>15, <1>16, <1>17, <1>18, <1>31 DEF JobStep
<1>30. ASSUME NEW w \in Workers, WorkerStep(w) PROVE TypeOK'
  BY <1>30, <1>10, <1>29 DEF WorkerStep
<1> QED
  BY <1>1, <1>2, <1>6, <1>7, <1>8, <1>9, <1>19, <1>20, <1>21, <1>22, <1>23, <1>24, <1>25,
     <1>26, <1>28, <1>30 DEF Next

WellFormed == HandlersWellFormed /\ JobsWellFormed

\* Every step keeps handlers, queue and threads in agreement.
LEMMA WellFormedStep == TypeOK /\ WellFormed /\ [Next]_vars => WellFormed'
<1> SUFFICES ASSUME TypeOK, WellFormed, [Next]_vars PROVE WellFormed'
  OBVIOUS
<1> USE SetsAssumption
    DEF TypeOK, Jobs, HandlerPoints, Idle, WellFormed, HandlersWellFormed, JobsWellFormed
<1>1. ASSUME NEW p \in Peers, Connect(p) PROVE WellFormed'
  BY <1>1 DEF Connect
<1>2. ASSUME NEW p \in Peers, ConnLost(p) PROVE WellFormed'
  BY <1>2 DEF ConnLost, Drop
<1>3. ASSUME NEW p \in Peers, HandlerVerified(p) PROVE WellFormed'
  BY <1>3 DEF HandlerVerified
<1>4. ASSUME NEW p \in Peers, HandlerFailed(p) PROVE WellFormed'
  BY <1>4 DEF HandlerFailed, Ban, Drop
<1>5. ASSUME NEW p \in Peers, HandlerWritten(p) PROVE WellFormed'
  BY <1>5 DEF HandlerWritten
<1>6. ASSUME NEW p \in Peers, HandlerRaised(p) PROVE WellFormed'
  BY <1>6 DEF HandlerRaised, Drop
<1>7. ASSUME NEW p \in Peers, PauseDisconnect(p) PROVE WellFormed'
  <2>1. CASE p \in conn
    BY SMTT(40), <1>7, <2>1 DEF PauseDisconnect, Drop
  <2>2. CASE p \notin conn
    BY <1>7, <2>2 DEF PauseDisconnect
  <2> QED
    BY <2>1, <2>2
<1>8. ASSUME NEW p \in Peers, NEW i \in Pieces, StartPiece(p, i) PROVE WellFormed'
  BY <1>8 DEF StartPiece, AskFor
<1>9. ASSUME NEW p \in Peers, NEW i \in Pieces, AskAgain(p, i) PROVE WellFormed'
  BY <1>9 DEF AskAgain, AskFor
<1>10. ASSUME NEW p \in Peers, NEW i \in Pieces, NEW b \in Blocks, NEW right \in BOOLEAN,
             Deliver(p, i, b, right) PROVE WellFormed'
  BY <1>10 DEF Deliver
<1>11. ASSUME NEW w \in Workers, NEW p \in Peers, TakeJob(w, p) PROVE WellFormed'
  BY <1>11 DEF TakeJob
<1>12. ASSUME NEW w \in Workers, Hash(w) PROVE WellFormed'
  BY <1>12 DEF Hash
<1>13. ASSUME NEW w \in Workers, VerifyPass(w) PROVE WellFormed'
  BY <1>13 DEF VerifyPass, Finish
<1>14. ASSUME NEW w \in Workers, VerifyFail(w) PROVE WellFormed'
  BY <1>14 DEF VerifyFail
<1>15. ASSUME NEW w \in Workers, VerifyClear(w) PROVE WellFormed'
  BY <1>15 DEF VerifyClear, Finish
<1>16. ASSUME NEW w \in Workers, WriteRead(w) PROVE WellFormed'
  <2>1. CASE Readable(job[w].piece)
    <3>1. job' = [job EXCEPT ![w].stage = "exists", ![w].ok = Right(job[w].piece)]
      BY <1>16, <2>1 DEF WriteRead
    <3>2. \A v \in Workers :
            /\ job'[v].peer = job[v].peer /\ job'[v].piece = job[v].piece
            /\ job'[v].stage = IF v = w THEN "exists" ELSE job[v].stage
      BY <3>1
    <3>3. UNCHANGED peerVars
      BY <1>16, <2>1 DEF WriteRead
    <3>4. job[w].stage = "read"
      BY <1>16 DEF WriteRead
    <3> QED
      BY <3>2, <3>3, <3>4
  <2>2. CASE ~Readable(job[w].piece)
    <3>1. Finish(w, "written") /\ UNCHANGED <<conn, cur, queue>> /\ job[w].stage = "read"
      BY <1>16, <2>2 DEF WriteRead
    <3> QED
      BY <3>1 DEF Finish
  <2> QED
    BY <2>1, <2>2
<1>17. ASSUME NEW w \in Workers, WriteExists(w) PROVE WellFormed'
  BY <1>17 DEF WriteExists
<1>18. ASSUME NEW w \in Workers, WriteCreate(w) PROVE WellFormed'
  BY <1>18 DEF WriteCreate
<1>31. ASSUME NEW w \in Workers, WriteAllocate(w) PROVE WellFormed'
  BY <1>31 DEF WriteAllocate
<1>19. ASSUME NEW w \in Workers, WriteFlush(w) PROVE WellFormed'
  BY <1>19 DEF WriteFlush, Content, Finish
<1>20. ASSUME NEW w \in Workers, WriteRaises(w) PROVE WellFormed'
  BY <1>20 DEF WriteRaises, Finish
<1>21. ASSUME NEW S \in SUBSET Pieces, StaleCheck(S) PROVE WellFormed'
  BY <1>21 DEF StaleCheck
<1>22. ASSUME NEW i \in Pieces, StaleReset(i) PROVE WellFormed'
  BY <1>22 DEF StaleReset
<1>23. CASE Pause
  BY <1>23 DEF Pause
<1>24. CASE Resume
  BY <1>24 DEF Resume
<1>25. CASE MainExit
  BY <1>25 DEF MainExit
<1>26. CASE OnComplete
  BY <1>26 DEF OnComplete
<1>27. CASE UNCHANGED vars
  BY <1>27 DEF vars
<1>28. ASSUME NEW p \in Peers, HandlerStep(p) PROVE WellFormed'
  BY <1>28, <1>3, <1>4, <1>5, <1>6 DEF HandlerStep
<1>29. ASSUME NEW w \in Workers, JobStep(w) PROVE WellFormed'
  BY <1>29, <1>12, <1>13, <1>14, <1>15, <1>16, <1>17, <1>18, <1>19, <1>31 DEF JobStep
<1>30. ASSUME NEW w \in Workers, WorkerStep(w) PROVE WellFormed'
  BY <1>30, <1>11, <1>29 DEF WorkerStep
<1> QED
  BY <1>1, <1>2, <1>7, <1>8, <1>9, <1>10, <1>20, <1>21, <1>22, <1>23, <1>24, <1>25,
     <1>26, <1>27, <1>28, <1>30 DEF Next

Known == JobsKnow /\ HandlersKnow /\ VerifiedIsRight /\ SavedOrOwed /\ HaveIsOnDisk

\* Every step keeps what is known of the pieces no race has hit.
LEMMA KnownStep == IInv /\ [Next]_vars => Known'
<1> SUFFICES ASSUME TypeOK, HandlersWellFormed, JobsWellFormed, JobsKnow, HandlersKnow,
                    VerifiedIsRight, SavedOrOwed, HaveIsOnDisk, [Next]_vars
             PROVE  Known'
  BY DEF IInv
<1> USE SetsAssumption
    DEF TypeOK, Jobs, HandlerPoints, Idle, Race, Right, Known, HandlersWellFormed,
        JobsWellFormed, JobsKnow, HandlersKnow, VerifiedIsRight, SavedOrOwed, HaveIsOnDisk
<1>1. ASSUME NEW p \in Peers, Connect(p) PROVE Known'
  BY <1>1 DEF Connect
<1>2. ASSUME NEW p \in Peers, NEW i \in Pieces, AskAgain(p, i) PROVE Known'
  BY <1>2 DEF AskAgain, AskFor
<1>3. ASSUME NEW S \in SUBSET Pieces, StaleCheck(S) PROVE Known'
  BY <1>3 DEF StaleCheck
<1>4. ASSUME NEW w \in Workers, NEW p \in Peers, TakeJob(w, p) PROVE Known'
  BY <1>4 DEF TakeJob
<1>5. ASSUME NEW p \in Peers, ConnLost(p) PROVE Known'
  <2>1. \A w \in Workers : job[w].peer # p
    BY <1>5 DEF ConnLost
  <2>2. job' = job /\ \A q \in Peers : q # p => handler'[q] = handler[q] /\ cur'[q] = cur[q]
    BY <1>5, <2>1 DEF ConnLost, Drop
  <2>3. handler[p] = "reading" /\ handler'[p] = "reading"
    BY <1>5 DEF ConnLost, Drop
  <2>4. UNCHANGED <<status, good, disk, have, raced>>
    BY <1>5 DEF ConnLost
  <2> QED
    BY <2>1, <2>2, <2>3, <2>4
<1>6. ASSUME NEW p \in Peers, HandlerVerified(p) PROVE Known'
  <2>1. JobsKnow'
    BY <1>6 DEF HandlerVerified
  <2>2. HandlersKnow'
    BY <1>6 DEF HandlerVerified
  <2>3. VerifiedIsRight'
    BY <1>6 DEF HandlerVerified
  <2>4. SavedOrOwed'
    BY <1>6 DEF HandlerVerified
  <2>5. HaveIsOnDisk'
    BY <1>6 DEF HandlerVerified
  <2> QED
    BY <2>1, <2>2, <2>3, <2>4, <2>5
<1>7. ASSUME NEW p \in Peers, HandlerFailed(p) PROVE Known'
  <2>1. JobsKnow'
    BY <1>7 DEF HandlerFailed, Ban, Drop
  <2>2. HandlersKnow'
    BY <1>7 DEF HandlerFailed, Ban, Drop
  <2>3. VerifiedIsRight'
    BY <1>7 DEF HandlerFailed, Ban, Drop
  <2>4. SavedOrOwed'
    BY <1>7 DEF HandlerFailed, Ban, Drop
  <2>5. HaveIsOnDisk'
    BY <1>7 DEF HandlerFailed, Ban, Drop
  <2> QED
    BY <2>1, <2>2, <2>3, <2>4, <2>5
<1>8. ASSUME NEW p \in Peers, HandlerWritten(p) PROVE Known'
  <2>1. JobsKnow'
    BY <1>8 DEF HandlerWritten
  <2>2. HandlersKnow'
    BY <1>8 DEF HandlerWritten
  <2>3. VerifiedIsRight'
    BY <1>8 DEF HandlerWritten
  <2>4. SavedOrOwed'
    BY <1>8 DEF HandlerWritten
  <2>5. HaveIsOnDisk'
    BY <1>8 DEF HandlerWritten
  <2> QED
    BY <2>1, <2>2, <2>3, <2>4, <2>5
<1>9. ASSUME NEW p \in Peers, HandlerRaised(p) PROVE Known'
  <2>1. JobsKnow'
    BY <1>9 DEF HandlerRaised, Drop
  <2>2. HandlersKnow'
    BY <1>9 DEF HandlerRaised, Drop
  <2>3. VerifiedIsRight'
    BY <1>9 DEF HandlerRaised, Drop
  <2>4. SavedOrOwed'
    BY <1>9 DEF HandlerRaised, Drop
  <2>5. HaveIsOnDisk'
    BY <1>9 DEF HandlerRaised, Drop
  <2> QED
    BY <2>1, <2>2, <2>3, <2>4, <2>5
<1>10. ASSUME NEW p \in Peers, PauseDisconnect(p) PROVE Known'
  <2>1. JobsKnow'
    BY <1>10 DEF PauseDisconnect, Drop
  <2>2. HandlersKnow'
    BY SMTT(40), <1>10 DEF PauseDisconnect, Drop
  <2>3. VerifiedIsRight'
    BY <1>10 DEF PauseDisconnect, Drop
  <2>4. SavedOrOwed'
    BY <1>10 DEF PauseDisconnect, Drop
  <2>5. HaveIsOnDisk'
    BY <1>10 DEF PauseDisconnect, Drop
  <2> QED
    BY <2>1, <2>2, <2>3, <2>4, <2>5
<1>11. ASSUME NEW p \in Peers, NEW i \in Pieces, StartPiece(p, i) PROVE Known'
  <2>1. JobsKnow'
    BY <1>11 DEF StartPiece, AskFor
  <2>2. HandlersKnow'
    BY <1>11 DEF StartPiece, AskFor
  <2>3. VerifiedIsRight'
    BY <1>11 DEF StartPiece, AskFor
  <2>4. SavedOrOwed'
    BY <1>11 DEF StartPiece, AskFor
  <2>5. HaveIsOnDisk'
    BY <1>11 DEF StartPiece, AskFor
  <2> QED
    BY <2>1, <2>2, <2>3, <2>4, <2>5
<1>12. ASSUME NEW p \in Peers, NEW i \in Pieces, NEW b \in Blocks, NEW right \in BOOLEAN,
             Deliver(p, i, b, right) PROVE Known'
  <2>1. JobsKnow'
    <3>1. job' = job /\ raced \subseteq raced'
      BY <1>12 DEF Deliver
    <3>2. SUFFICES ASSUME NEW w \in Workers, job[w].stage = "conclude", job[w].ok,
                          job[w].piece \notin raced'
                   PROVE  good'[job[w].piece] = Blocks
      BY <3>1
    <3>3. good[job[w].piece] = Blocks
      BY <3>1, <3>2
    <3>4. CASE job[w].piece # i \/ status[i] = "completed"
      BY <1>12, <3>2, <3>3, <3>4 DEF Deliver, Store
    <3>5. CASE job[w].piece = i /\ status[i] # "completed"
      <4>1. right
        BY <1>12, <3>2, <3>5 DEF Deliver, InFlight, JobsOn
      <4> QED
        <5>1. good' = [good EXCEPT ![i] = @ \cup {b}]
          BY <1>12, <3>5, <4>1 DEF Deliver, Store
        <5> QED
          BY <3>3, <3>5, <5>1
    <3> QED
      BY <3>4, <3>5
  <2>2. HandlersKnow'
    BY <1>12 DEF Deliver, Store, InFlight, HandlersOn, JobsOn
  <2>3. VerifiedIsRight'
    BY <1>12 DEF Deliver, Store, InFlight, HandlersOn, JobsOn
  <2>4. SavedOrOwed'
    BY <1>12 DEF Deliver, Store, InFlight, HandlersOn, JobsOn
  <2>5. HaveIsOnDisk'
    BY <1>12 DEF Deliver, Store, InFlight, HandlersOn, JobsOn
  <2> QED
    BY <2>1, <2>2, <2>3, <2>4, <2>5
<1>13. ASSUME NEW w \in Workers, Hash(w) PROVE Known'
  <2>1. JobsKnow'
    BY <1>13 DEF Hash, HashMatches
  <2>2. HandlersKnow'
    BY <1>13 DEF Hash, HashMatches
  <2>3. VerifiedIsRight'
    BY <1>13 DEF Hash, HashMatches
  <2>4. SavedOrOwed'
    BY <1>13 DEF Hash, HashMatches
  <2>5. HaveIsOnDisk'
    BY <1>13 DEF Hash, HashMatches
  <2> QED
    BY <2>1, <2>2, <2>3, <2>4, <2>5
<1>14. ASSUME NEW w \in Workers, VerifyPass(w) PROVE Known'
  <2>1. JobsKnow'
    BY <1>14 DEF VerifyPass, Finish
  <2>2. HandlersKnow'
    BY <1>14 DEF VerifyPass, Finish
  <2>3. VerifiedIsRight'
    BY <1>14 DEF VerifyPass, Finish
  <2>4. SavedOrOwed'
    BY <1>14 DEF VerifyPass, Finish
  <2>5. HaveIsOnDisk'
    BY <1>14 DEF VerifyPass, Finish
  <2> QED
    BY <2>1, <2>2, <2>3, <2>4, <2>5
<1>15. ASSUME NEW w \in Workers, VerifyFail(w) PROVE Known'
  <2>1. JobsKnow'
    BY <1>15 DEF VerifyFail, ResetRace, OthersOn, HandlersOn, JobsOn
  <2>2. HandlersKnow'
    BY <1>15 DEF VerifyFail, ResetRace, OthersOn, HandlersOn, JobsOn
  <2>3. VerifiedIsRight'
    BY <1>15 DEF VerifyFail, ResetRace, OthersOn, HandlersOn, JobsOn
  <2>4. SavedOrOwed'
    BY <1>15 DEF VerifyFail, ResetRace, OthersOn, HandlersOn, JobsOn
  <2>5. HaveIsOnDisk'
    BY <1>15 DEF VerifyFail, ResetRace, OthersOn, HandlersOn, JobsOn
  <2> QED
    BY <2>1, <2>2, <2>3, <2>4, <2>5
<1>16. ASSUME NEW w \in Workers, VerifyClear(w) PROVE Known'
  <2>1. JobsKnow'
    BY <1>16 DEF VerifyClear, Finish, Forget, ResetRace, OthersOn, HandlersOn, JobsOn
  <2>2. HandlersKnow'
    BY <1>16 DEF VerifyClear, Finish, Forget, ResetRace, OthersOn, HandlersOn, JobsOn
  <2>3. VerifiedIsRight'
    BY <1>16 DEF VerifyClear, Finish, Forget, ResetRace, OthersOn, HandlersOn, JobsOn
  <2>4. SavedOrOwed'
    BY <1>16 DEF VerifyClear, Finish, Forget, ResetRace, OthersOn, HandlersOn, JobsOn
  <2>5. HaveIsOnDisk'
    BY <1>16 DEF VerifyClear, Finish, Forget, ResetRace, OthersOn, HandlersOn, JobsOn
  <2> QED
    BY <2>1, <2>2, <2>3, <2>4, <2>5
<1>17. ASSUME NEW w \in Workers, WriteRead(w) PROVE Known'
  <2>1. JobsKnow'
    BY <1>17 DEF WriteRead, Readable, Finish
  <2>2. HandlersKnow'
    BY <1>17 DEF WriteRead, Readable, Finish
  <2>3. VerifiedIsRight'
    BY <1>17 DEF WriteRead, Readable, Finish
  <2>4. SavedOrOwed'
    BY <1>17 DEF WriteRead, Readable, Finish
  <2>5. HaveIsOnDisk'
    BY <1>17 DEF WriteRead, Readable, Finish
  <2> QED
    BY <2>1, <2>2, <2>3, <2>4, <2>5
<1>18. ASSUME NEW w \in Workers, WriteExists(w) PROVE Known'
  <2>1. JobsKnow'
    BY <1>18 DEF WriteExists
  <2>2. HandlersKnow'
    BY <1>18 DEF WriteExists
  <2>3. VerifiedIsRight'
    BY <1>18 DEF WriteExists
  <2>4. SavedOrOwed'
    BY <1>18 DEF WriteExists
  <2>5. HaveIsOnDisk'
    BY <1>18 DEF WriteExists
  <2> QED
    BY <2>1, <2>2, <2>3, <2>4, <2>5
<1>19. ASSUME NEW w \in Workers, WriteCreate(w) PROVE Known'
  <2>1. JobsKnow'
    BY <1>19 DEF WriteCreate
  <2>2. HandlersKnow'
    BY <1>19 DEF WriteCreate
  <2>3. VerifiedIsRight'
    BY <1>19 DEF WriteCreate
  <2>4. SavedOrOwed'
    BY <1>19 DEF WriteCreate
  <2>5. HaveIsOnDisk'
    BY <1>19 DEF WriteCreate
  <2> QED
    BY <2>1, <2>2, <2>3, <2>4, <2>5
<1>31. ASSUME NEW w \in Workers, WriteAllocate(w) PROVE Known'
  <2>1. JobsKnow'
    BY <1>31 DEF WriteAllocate
  <2>2. HandlersKnow'
    BY <1>31 DEF WriteAllocate
  <2>3. VerifiedIsRight'
    BY <1>31 DEF WriteAllocate
  <2>4. SavedOrOwed'
    BY <1>31 DEF WriteAllocate
  <2>5. HaveIsOnDisk'
    BY <1>31 DEF WriteAllocate
  <2> QED
    BY <2>1, <2>2, <2>3, <2>4, <2>5
<1>20. ASSUME NEW w \in Workers, WriteFlush(w) PROVE Known'
  <2>1. JobsKnow'
    BY <1>20 DEF WriteFlush, Content, Finish
  <2>2. HandlersKnow'
    BY <1>20 DEF WriteFlush, Content, Finish
  <2>3. VerifiedIsRight'
    BY <1>20 DEF WriteFlush, Content, Finish
  <2>4. SavedOrOwed'
    BY <1>20 DEF WriteFlush, Content, Finish
  <2>5. HaveIsOnDisk'
    BY <1>20 DEF WriteFlush, Content, Finish
  <2> QED
    BY <2>1, <2>2, <2>3, <2>4, <2>5
<1>21. ASSUME NEW w \in Workers, WriteRaises(w) PROVE Known'
  <2>1. JobsKnow'
    BY <1>21 DEF WriteRaises, Finish
  <2>2. HandlersKnow'
    BY <1>21 DEF WriteRaises, Finish
  <2>3. VerifiedIsRight'
    BY <1>21 DEF WriteRaises, Finish
  <2>4. SavedOrOwed'
    BY <1>21 DEF WriteRaises, Finish
  <2>5. HaveIsOnDisk'
    BY <1>21 DEF WriteRaises, Finish
  <2> QED
    BY <2>1, <2>2, <2>3, <2>4, <2>5
<1>22. ASSUME NEW i \in Pieces, StaleReset(i) PROVE Known'
  <2>1. JobsKnow'
    BY <1>22 DEF StaleReset, Forget, InFlight, HandlersOn, JobsOn
  <2>2. HandlersKnow'
    BY <1>22 DEF StaleReset, Forget, InFlight, HandlersOn, JobsOn
  <2>3. VerifiedIsRight'
    BY <1>22 DEF StaleReset, Forget, InFlight, HandlersOn, JobsOn
  <2>4. SavedOrOwed'
    BY <1>22 DEF StaleReset, Forget, InFlight, HandlersOn, JobsOn
  <2>5. HaveIsOnDisk'
    BY <1>22 DEF StaleReset, Forget, InFlight, HandlersOn, JobsOn
  <2> QED
    BY <2>1, <2>2, <2>3, <2>4, <2>5
<1>23. CASE Pause
  BY <1>23 DEF Pause
<1>24. CASE Resume
  BY <1>24 DEF Resume
<1>25. CASE MainExit
  BY <1>25 DEF MainExit
<1>26. CASE OnComplete
  BY <1>26 DEF OnComplete
<1>27. CASE UNCHANGED vars
  BY <1>27 DEF vars
<1>28. ASSUME NEW p \in Peers, HandlerStep(p) PROVE Known'
  BY <1>28, <1>6, <1>7, <1>8, <1>9 DEF HandlerStep
<1>29. ASSUME NEW w \in Workers, JobStep(w) PROVE Known'
  BY <1>29, <1>13, <1>14, <1>15, <1>16, <1>17, <1>18, <1>19, <1>20, <1>31 DEF JobStep
<1>30. ASSUME NEW w \in Workers, WorkerStep(w) PROVE Known'
  BY <1>30, <1>4, <1>29 DEF WorkerStep
<1> QED
  BY <1>1, <1>2, <1>3, <1>5, <1>10, <1>11, <1>12, <1>21, <1>22, <1>23, <1>24, <1>25,
     <1>26, <1>27, <1>28, <1>30 DEF Next

-----------------------------------------------------------------------------
\* The inductive invariant holds in every reachable state.
THEOREM Invariance == Spec => []IInv
<1>1. IInv /\ [Next]_vars => IInv'
  BY TypeStep, WellFormedStep, KnownStep DEF IInv, WellFormed, Known
<1> QED
  BY InitIInv, <1>1, PTL DEF Spec

\* The variables keep their types, whatever the threads and handlers do.
THEOREM TypeCorrectness == Spec => []TypeOK
<1>1. IInv => TypeOK
  BY DEF IInv
<1> QED
  BY Invariance, <1>1, PTL

\* A COMPLETED piece that no race has hit holds the torrent's bytes.
THEOREM VerifiedPiecesAreRight == Spec => []VerifiedIsRight
<1>1. IInv => VerifiedIsRight
  BY DEF IInv
<1> QED
  BY Invariance, <1>1, PTL

\* HAVE goes out only for pieces on disk, the named races apart.
THEOREM AnnouncedPiecesAreOnDisk == Spec => []HaveIsOnDisk
<1>1. IInv => HaveIsOnDisk
  BY DEF IInv
<1> QED
  BY Invariance, <1>1, PTL

\* A COMPLETED piece nobody is about any more is on disk, the named races apart.
THEOREM SettledPiecesAreOnDisk == Spec => []SettledIsOnDisk
<1>1. IInv => SettledIsOnDisk
  BY DEF IInv, SavedOrOwed, SettledIsOnDisk, InFlight, HandlersOn
<1> QED
  BY Invariance, <1>1, PTL
=============================================================================
