--------------------- MODULE VerificationControlProofs ---------------------
(***************************************************************************)
(* What PieceVerification keeps besides its pieces, for every value of the *)
(* constants: the timers the stale check relies on, bans, the blame for a  *)
(* hash failure, and the completion of the download.                       *)
(***************************************************************************)
EXTENDS PieceVerificationProofs

USE DEF resultVars, noteVars, pieceVars, peerVars, secVars, diskVars, loopVars

\* No step leaves a piece IN_PROGRESS without a start time.
LEMMA TimedStep == TypeOK /\ InProgressIsTimed /\ [Next]_vars => InProgressIsTimed'
<1> SUFFICES ASSUME TypeOK, InProgressIsTimed, [Next]_vars PROVE InProgressIsTimed'
  OBVIOUS
<1> USE DEF TypeOK, InProgressIsTimed
<1>1. ASSUME NEW p \in Peers, Connect(p) PROVE InProgressIsTimed'
  BY <1>1 DEF Connect
<1>2. ASSUME NEW p \in Peers, ConnLost(p) PROVE InProgressIsTimed'
  BY <1>2 DEF ConnLost, Drop
<1>3. ASSUME NEW p \in Peers, HandlerVerified(p) PROVE InProgressIsTimed'
  BY <1>3 DEF HandlerVerified
<1>4. ASSUME NEW p \in Peers, HandlerFailed(p) PROVE InProgressIsTimed'
  BY <1>4 DEF HandlerFailed, ShouldBan, Ban, Drop
<1>5. ASSUME NEW p \in Peers, HandlerWritten(p) PROVE InProgressIsTimed'
  BY <1>5 DEF HandlerWritten
<1>6. ASSUME NEW p \in Peers, HandlerRaised(p) PROVE InProgressIsTimed'
  BY <1>6 DEF HandlerRaised, Drop
<1>7. ASSUME NEW p \in Peers, PauseDisconnect(p) PROVE InProgressIsTimed'
  BY <1>7 DEF PauseDisconnect, Drop
<1>8. ASSUME NEW p \in Peers, NEW i \in Pieces, StartPiece(p, i) PROVE InProgressIsTimed'
  BY <1>8 DEF StartPiece, AskFor
<1>9. ASSUME NEW p \in Peers, NEW i \in Pieces, AskAgain(p, i) PROVE InProgressIsTimed'
  BY <1>9 DEF AskAgain, AskFor
<1>10. ASSUME NEW p \in Peers, NEW i \in Pieces, NEW b \in Blocks, NEW right \in BOOLEAN,
             Deliver(p, i, b, right) PROVE InProgressIsTimed'
  BY <1>10 DEF Deliver, Store
<1>11. ASSUME NEW w \in Workers, NEW p \in Peers, TakeJob(w, p) PROVE InProgressIsTimed'
  BY <1>11 DEF TakeJob
<1>12. ASSUME NEW w \in Workers, Hash(w) PROVE InProgressIsTimed'
  BY <1>12 DEF Hash, HashMatches
<1>13. ASSUME NEW w \in Workers, VerifyPass(w) PROVE InProgressIsTimed'
  BY <1>13 DEF VerifyPass, Finish
<1>14. ASSUME NEW w \in Workers, VerifyFail(w) PROVE InProgressIsTimed'
  BY <1>14 DEF VerifyFail, ResetRace
<1>15. ASSUME NEW w \in Workers, VerifyClear(w) PROVE InProgressIsTimed'
  BY <1>15 DEF VerifyClear, Forget, ResetRace, Finish
<1>16. ASSUME NEW w \in Workers, WriteRead(w) PROVE InProgressIsTimed'
  BY <1>16 DEF WriteRead, Finish
<1>17. ASSUME NEW w \in Workers, WriteExists(w) PROVE InProgressIsTimed'
  BY <1>17 DEF WriteExists
<1>18. ASSUME NEW w \in Workers, WriteCreate(w) PROVE InProgressIsTimed'
  BY <1>18 DEF WriteCreate
<1>31. ASSUME NEW w \in Workers, WriteAllocate(w) PROVE InProgressIsTimed'
  BY <1>31 DEF WriteAllocate
<1>19. ASSUME NEW w \in Workers, WriteFlush(w) PROVE InProgressIsTimed'
  BY <1>19 DEF WriteFlush, Finish
<1>20. ASSUME NEW w \in Workers, WriteRaises(w) PROVE InProgressIsTimed'
  BY <1>20 DEF WriteRaises, Finish
<1>21. ASSUME NEW S \in SUBSET Pieces, StaleCheck(S) PROVE InProgressIsTimed'
  BY <1>21 DEF StaleCheck
<1>22. ASSUME NEW i \in Pieces, StaleReset(i) PROVE InProgressIsTimed'
  BY <1>22 DEF StaleReset, Forget
<1>23. CASE Pause
  BY <1>23 DEF Pause
<1>24. CASE Resume
  BY <1>24 DEF Resume
<1>25. CASE MainExit
  BY <1>25 DEF MainExit
<1>26. CASE OnComplete
  BY <1>26 DEF OnComplete
<1>27. CASE UNCHANGED vars
  BY <1>27 DEF vars
<1>28. ASSUME NEW p \in Peers, HandlerStep(p) PROVE InProgressIsTimed'
  BY <1>28, <1>3, <1>4, <1>5, <1>6 DEF HandlerStep
<1>29. ASSUME NEW w \in Workers, JobStep(w) PROVE InProgressIsTimed'
  BY <1>29, <1>12, <1>13, <1>14, <1>15, <1>16, <1>17, <1>18, <1>19, <1>31 DEF JobStep
<1>30. ASSUME NEW w \in Workers, WorkerStep(w) PROVE InProgressIsTimed'
  BY <1>30, <1>11, <1>29 DEF WorkerStep
<1> QED
  BY <1>1, <1>2, <1>7, <1>8, <1>9, <1>10, <1>20, <1>21, <1>22, <1>23, <1>24, <1>25,
     <1>26, <1>27, <1>28, <1>30 DEF Next

\* The stale check can always find a piece that is IN_PROGRESS.
THEOREM InProgressPiecesAreTimed == Spec => []InProgressIsTimed
<1>1. Init => InProgressIsTimed
  BY DEF Init, InProgressIsTimed
<1>2. IInv /\ InProgressIsTimed /\ [Next]_vars => InProgressIsTimed'
  BY TimedStep DEF IInv
<1> QED
  BY Invariance, <1>1, <1>2, PTL DEF Spec

-----------------------------------------------------------------------------
\* No step connects, asks or charges a banned peer, nor bans one too early.
LEMMA BanStep == TypeOK /\ WellFormed /\ BanIsFinal /\ [Next]_vars => BanIsFinal'
<1> SUFFICES ASSUME TypeOK, WellFormed, BanIsFinal, [Next]_vars PROVE BanIsFinal'
  OBVIOUS
<1> USE BoundsAssumption, SetsAssumption
    DEF TypeOK, WellFormed, HandlersWellFormed, JobsWellFormed, BanIsFinal
<1>1. ASSUME NEW p \in Peers, Connect(p) PROVE BanIsFinal'
  BY <1>1 DEF Connect, MayConnect
<1>2. ASSUME NEW p \in Peers, ConnLost(p) PROVE BanIsFinal'
  BY <1>2 DEF ConnLost, Drop
<1>3. ASSUME NEW p \in Peers, HandlerVerified(p) PROVE BanIsFinal'
  BY <1>3 DEF HandlerVerified
<1>4. ASSUME NEW p \in Peers, HandlerFailed(p) PROVE BanIsFinal'
  BY <1>4 DEF HandlerFailed, ShouldBan, Ban, Drop
<1>5. ASSUME NEW p \in Peers, HandlerWritten(p) PROVE BanIsFinal'
  BY <1>5 DEF HandlerWritten
<1>6. ASSUME NEW p \in Peers, HandlerRaised(p) PROVE BanIsFinal'
  BY <1>6 DEF HandlerRaised, Drop
<1>7. ASSUME NEW p \in Peers, PauseDisconnect(p) PROVE BanIsFinal'
  BY <1>7 DEF PauseDisconnect, Drop
<1>8. ASSUME NEW p \in Peers, NEW i \in Pieces, StartPiece(p, i) PROVE BanIsFinal'
  BY <1>8 DEF StartPiece, AskFor
<1>9. ASSUME NEW p \in Peers, NEW i \in Pieces, AskAgain(p, i) PROVE BanIsFinal'
  BY <1>9 DEF AskAgain, AskFor
<1>10. ASSUME NEW p \in Peers, NEW i \in Pieces, NEW b \in Blocks, NEW right \in BOOLEAN,
             Deliver(p, i, b, right) PROVE BanIsFinal'
  BY <1>10 DEF Deliver, Store
<1>11. ASSUME NEW w \in Workers, NEW p \in Peers, TakeJob(w, p) PROVE BanIsFinal'
  BY <1>11 DEF TakeJob
<1>12. ASSUME NEW w \in Workers, Hash(w) PROVE BanIsFinal'
  BY <1>12 DEF Hash, HashMatches
<1>13. ASSUME NEW w \in Workers, VerifyPass(w) PROVE BanIsFinal'
  BY <1>13 DEF VerifyPass, Finish
<1>14. ASSUME NEW w \in Workers, VerifyFail(w) PROVE BanIsFinal'
  BY <1>14 DEF VerifyFail, ResetRace
<1>15. ASSUME NEW w \in Workers, VerifyClear(w) PROVE BanIsFinal'
  BY <1>15 DEF VerifyClear, Forget, ResetRace, Finish
<1>16. ASSUME NEW w \in Workers, WriteRead(w) PROVE BanIsFinal'
  BY <1>16 DEF WriteRead, Finish
<1>17. ASSUME NEW w \in Workers, WriteExists(w) PROVE BanIsFinal'
  BY <1>17 DEF WriteExists
<1>18. ASSUME NEW w \in Workers, WriteCreate(w) PROVE BanIsFinal'
  BY <1>18 DEF WriteCreate
<1>31. ASSUME NEW w \in Workers, WriteAllocate(w) PROVE BanIsFinal'
  BY <1>31 DEF WriteAllocate
<1>19. ASSUME NEW w \in Workers, WriteFlush(w) PROVE BanIsFinal'
  BY <1>19 DEF WriteFlush, Finish
<1>20. ASSUME NEW w \in Workers, WriteRaises(w) PROVE BanIsFinal'
  BY <1>20 DEF WriteRaises, Finish
<1>21. ASSUME NEW S \in SUBSET Pieces, StaleCheck(S) PROVE BanIsFinal'
  BY <1>21 DEF StaleCheck
<1>22. ASSUME NEW i \in Pieces, StaleReset(i) PROVE BanIsFinal'
  BY <1>22 DEF StaleReset, Forget
<1>23. CASE Pause
  BY <1>23 DEF Pause
<1>24. CASE Resume
  BY <1>24 DEF Resume
<1>25. CASE MainExit
  BY <1>25 DEF MainExit
<1>26. CASE OnComplete
  BY <1>26 DEF OnComplete
<1>27. CASE UNCHANGED vars
  BY <1>27 DEF vars
<1>28. ASSUME NEW p \in Peers, HandlerStep(p) PROVE BanIsFinal'
  BY <1>28, <1>3, <1>4, <1>5, <1>6 DEF HandlerStep
<1>29. ASSUME NEW w \in Workers, JobStep(w) PROVE BanIsFinal'
  BY <1>29, <1>12, <1>13, <1>14, <1>15, <1>16, <1>17, <1>18, <1>19, <1>31 DEF JobStep
<1>30. ASSUME NEW w \in Workers, WorkerStep(w) PROVE BanIsFinal'
  BY <1>30, <1>11, <1>29 DEF WorkerStep
<1> QED
  BY <1>1, <1>2, <1>7, <1>8, <1>9, <1>10, <1>20, <1>21, <1>22, <1>23, <1>24, <1>25,
     <1>26, <1>27, <1>28, <1>30 DEF Next

\* A peer that reached the limit is banned, disconnected and out for good.
THEOREM BansAreFinal == Spec => []BanIsFinal
<1>1. Init => BanIsFinal
  BY BoundsAssumption DEF Init, BanIsFinal
<1>2. IInv /\ BanIsFinal /\ [Next]_vars => BanIsFinal'
  BY BanStep DEF IInv, WellFormed
<1> QED
  BY Invariance, <1>1, <1>2, PTL DEF Spec

-----------------------------------------------------------------------------
\* The callback has run exactly when _complete_download is through.
CompletionInv ==
    /\ CompletionHandledOnce
    /\ completion # "handled" => callbacks = 0

\* No step runs the completion logic a second time or reopens the download.
LEMMA CompletionStep == TypeOK /\ CompletionInv /\ [Next]_vars => CompletionInv'
<1> SUFFICES ASSUME TypeOK, CompletionInv, [Next]_vars PROVE CompletionInv'
  OBVIOUS
<1> USE DEF TypeOK, CompletionInv, CompletionHandledOnce
<1>1. ASSUME NEW p \in Peers, Connect(p) PROVE CompletionInv'
  BY <1>1 DEF Connect
<1>2. ASSUME NEW p \in Peers, ConnLost(p) PROVE CompletionInv'
  BY <1>2 DEF ConnLost, Drop
<1>3. ASSUME NEW p \in Peers, HandlerVerified(p) PROVE CompletionInv'
  BY <1>3 DEF HandlerVerified
<1>4. ASSUME NEW p \in Peers, HandlerFailed(p) PROVE CompletionInv'
  BY <1>4 DEF HandlerFailed, ShouldBan, Ban, Drop
<1>5. ASSUME NEW p \in Peers, HandlerWritten(p) PROVE CompletionInv'
  BY <1>5 DEF HandlerWritten
<1>6. ASSUME NEW p \in Peers, HandlerRaised(p) PROVE CompletionInv'
  BY <1>6 DEF HandlerRaised, Drop
<1>7. ASSUME NEW p \in Peers, PauseDisconnect(p) PROVE CompletionInv'
  BY <1>7 DEF PauseDisconnect, Drop
<1>8. ASSUME NEW p \in Peers, NEW i \in Pieces, StartPiece(p, i) PROVE CompletionInv'
  BY <1>8 DEF StartPiece, AskFor
<1>9. ASSUME NEW p \in Peers, NEW i \in Pieces, AskAgain(p, i) PROVE CompletionInv'
  BY <1>9 DEF AskAgain, AskFor
<1>10. ASSUME NEW p \in Peers, NEW i \in Pieces, NEW b \in Blocks, NEW right \in BOOLEAN,
             Deliver(p, i, b, right) PROVE CompletionInv'
  BY <1>10 DEF Deliver, Store
<1>11. ASSUME NEW w \in Workers, NEW p \in Peers, TakeJob(w, p) PROVE CompletionInv'
  BY <1>11 DEF TakeJob
<1>12. ASSUME NEW w \in Workers, Hash(w) PROVE CompletionInv'
  BY <1>12 DEF Hash, HashMatches
<1>13. ASSUME NEW w \in Workers, VerifyPass(w) PROVE CompletionInv'
  BY <1>13 DEF VerifyPass, Finish
<1>14. ASSUME NEW w \in Workers, VerifyFail(w) PROVE CompletionInv'
  BY <1>14 DEF VerifyFail, ResetRace
<1>15. ASSUME NEW w \in Workers, VerifyClear(w) PROVE CompletionInv'
  BY <1>15 DEF VerifyClear, Forget, ResetRace, Finish
<1>16. ASSUME NEW w \in Workers, WriteRead(w) PROVE CompletionInv'
  BY <1>16 DEF WriteRead, Finish
<1>17. ASSUME NEW w \in Workers, WriteExists(w) PROVE CompletionInv'
  BY <1>17 DEF WriteExists
<1>18. ASSUME NEW w \in Workers, WriteCreate(w) PROVE CompletionInv'
  BY <1>18 DEF WriteCreate
<1>31. ASSUME NEW w \in Workers, WriteAllocate(w) PROVE CompletionInv'
  BY <1>31 DEF WriteAllocate
<1>19. ASSUME NEW w \in Workers, WriteFlush(w) PROVE CompletionInv'
  BY <1>19 DEF WriteFlush, Finish
<1>20. ASSUME NEW w \in Workers, WriteRaises(w) PROVE CompletionInv'
  BY <1>20 DEF WriteRaises, Finish
<1>21. ASSUME NEW S \in SUBSET Pieces, StaleCheck(S) PROVE CompletionInv'
  BY <1>21 DEF StaleCheck
<1>22. ASSUME NEW i \in Pieces, StaleReset(i) PROVE CompletionInv'
  BY <1>22 DEF StaleReset, Forget
<1>23. CASE Pause
  BY <1>23 DEF Pause, Pausable
<1>24. CASE Resume
  BY <1>24 DEF Resume
<1>25. CASE MainExit
  BY <1>25 DEF MainExit, Finishes
<1>26. CASE OnComplete
  BY <1>26 DEF OnComplete
<1>27. CASE UNCHANGED vars
  BY <1>27 DEF vars
<1>28. ASSUME NEW p \in Peers, HandlerStep(p) PROVE CompletionInv'
  BY <1>28, <1>3, <1>4, <1>5, <1>6 DEF HandlerStep
<1>29. ASSUME NEW w \in Workers, JobStep(w) PROVE CompletionInv'
  BY <1>29, <1>12, <1>13, <1>14, <1>15, <1>16, <1>17, <1>18, <1>19, <1>31 DEF JobStep
<1>30. ASSUME NEW w \in Workers, WorkerStep(w) PROVE CompletionInv'
  BY <1>30, <1>11, <1>29 DEF WorkerStep
<1> QED
  BY <1>1, <1>2, <1>7, <1>8, <1>9, <1>10, <1>20, <1>21, <1>22, <1>23, <1>24, <1>25,
     <1>26, <1>27, <1>28, <1>30 DEF Next

\* However many main loops there are, completion is handled once.
THEOREM CompletionIsHandledOnce == Spec => []CompletionHandledOnce
<1>1. Init => CompletionInv
  BY DEF Init, CompletionInv, CompletionHandledOnce
<1>2. IInv /\ CompletionInv /\ [Next]_vars => CompletionInv'
  BY CompletionStep DEF IInv
<1>3. CompletionInv => CompletionHandledOnce
  BY DEF CompletionInv
<1> QED
  BY Invariance, <1>1, <1>2, <1>3, PTL DEF Spec

\* Every step moves along the chart, changes nothing of it, or loses a piece.
LEMMA ChartStep ==
    TypeOK /\ CompletionInv /\ [Next]_vars => [Chart!Next \/ LosesAPiece]_(Chart!vars)
<1> DEFINE Goal == [Chart!Next \/ LosesAPiece]_(Chart!vars)
           Nothing == UNCHANGED <<status, dl, callbacks>>
<1> SUFFICES ASSUME TypeOK, CompletionInv, [Next]_vars PROVE Goal
  OBVIOUS
<1> USE DEF TypeOK
<1>1. ASSUME Nothing PROVE Goal
  BY <1>1 DEF Chart!vars, AllCompleted
<1>2. ASSUME NEW p \in Peers, Connect(p) PROVE Goal
  <2>1. Nothing
    BY <1>2 DEF Connect
  <2> QED
    BY <1>1, <2>1
<1>3. ASSUME NEW p \in Peers, ConnLost(p) PROVE Goal
  <2>1. Nothing
    BY <1>3 DEF ConnLost, Drop
  <2> QED
    BY <1>1, <2>1
<1>4. ASSUME NEW p \in Peers, HandlerVerified(p) PROVE Goal
  <2>1. Nothing
    BY <1>4 DEF HandlerVerified
  <2> QED
    BY <1>1, <2>1
<1>5. ASSUME NEW p \in Peers, HandlerFailed(p) PROVE Goal
  <2>1. Nothing
    BY <1>5 DEF HandlerFailed, ShouldBan, Ban, Drop
  <2> QED
    BY <1>1, <2>1
<1>6. ASSUME NEW p \in Peers, HandlerRaised(p) PROVE Goal
  <2>1. Nothing
    BY <1>6 DEF HandlerRaised, Drop
  <2> QED
    BY <1>1, <2>1
<1>7. ASSUME NEW p \in Peers, PauseDisconnect(p) PROVE Goal
  <2>1. Nothing
    BY <1>7 DEF PauseDisconnect, Drop
  <2> QED
    BY <1>1, <2>1
<1>8. ASSUME NEW p \in Peers, NEW i \in Pieces, AskAgain(p, i) PROVE Goal
  <2>1. Nothing
    BY <1>8 DEF AskAgain, AskFor
  <2> QED
    BY <1>1, <2>1
<1>9. ASSUME NEW p \in Peers, NEW i \in Pieces, NEW b \in Blocks, NEW right \in BOOLEAN,
             Deliver(p, i, b, right) PROVE Goal
  <2>1. Nothing
    BY <1>9 DEF Deliver, Store
  <2> QED
    BY <1>1, <2>1
<1>10. ASSUME NEW w \in Workers, NEW p \in Peers, TakeJob(w, p) PROVE Goal
  <2>1. Nothing
    BY <1>10 DEF TakeJob
  <2> QED
    BY <1>1, <2>1
<1>11. ASSUME NEW w \in Workers, Hash(w) PROVE Goal
  <2>1. Nothing
    BY <1>11 DEF Hash
  <2> QED
    BY <1>1, <2>1
<1>12. ASSUME NEW w \in Workers, VerifyClear(w) PROVE Goal
  <2>1. Nothing
    BY <1>12 DEF VerifyClear, Forget, Finish
  <2> QED
    BY <1>1, <2>1
<1>13. ASSUME NEW w \in Workers, WriteRead(w) PROVE Goal
  <2>1. Nothing
    BY <1>13 DEF WriteRead, Finish
  <2> QED
    BY <1>1, <2>1
<1>14. ASSUME NEW w \in Workers, WriteExists(w) PROVE Goal
  <2>1. Nothing
    BY <1>14 DEF WriteExists
  <2> QED
    BY <1>1, <2>1
<1>15. ASSUME NEW w \in Workers, WriteCreate(w) PROVE Goal
  <2>1. Nothing
    BY <1>15 DEF WriteCreate
  <2> QED
    BY <1>1, <2>1
<1>32. ASSUME NEW w \in Workers, WriteAllocate(w) PROVE Goal
  <2>1. Nothing
    BY <1>32 DEF WriteAllocate
  <2> QED
    BY <1>1, <2>1
<1>16. ASSUME NEW w \in Workers, WriteFlush(w) PROVE Goal
  <2>1. Nothing
    BY <1>16 DEF WriteFlush, Finish
  <2> QED
    BY <1>1, <2>1
<1>17. ASSUME NEW w \in Workers, WriteRaises(w) PROVE Goal
  <2>1. Nothing
    BY <1>17 DEF WriteRaises, Finish
  <2> QED
    BY <1>1, <2>1
<1>18. ASSUME NEW S \in SUBSET Pieces, StaleCheck(S) PROVE Goal
  <2>1. Nothing
    BY <1>18 DEF StaleCheck
  <2> QED
    BY <1>1, <2>1
<1>19. CASE UNCHANGED vars
  <2>1. Nothing
    BY <1>19 DEF vars
  <2> QED
    BY <1>1, <2>1
<1>20. ASSUME NEW p \in Peers, NEW i \in Pieces, StartPiece(p, i) PROVE Goal
  <2>1. ~AllCompleted /\ ~AllCompleted' /\ UNCHANGED <<dl, callbacks>>
    BY <1>20 DEF StartPiece, AllCompleted
  <2> QED
    BY <2>1 DEF Chart!vars
<1>21. ASSUME NEW p \in Peers, HandlerWritten(p) PROVE Goal
  <2>1. (AllCompleted' <=> AllCompleted) /\ UNCHANGED callbacks
    BY <1>21 DEF HandlerWritten, AllCompleted
  <2>2. CASE AllCompleted
    BY <1>21, <2>1, <2>2 DEF HandlerWritten, Chart!Next, Chart!Complete
  <2>3. CASE ~AllCompleted
    BY <1>21, <2>1, <2>3 DEF HandlerWritten, Chart!vars
  <2> QED
    BY <2>2, <2>3
<1>22. ASSUME NEW w \in Workers, VerifyPass(w) PROVE Goal
  <2>1. UNCHANGED <<dl, callbacks>> /\ (AllCompleted => AllCompleted')
    BY <1>22 DEF VerifyPass, AllCompleted
  <2>2. CASE AllCompleted' /\ ~AllCompleted /\ dl # "Completed"
    BY <2>1, <2>2 DEF Chart!Next, Chart!LastPiece
  <2>3. CASE ~ (AllCompleted' /\ ~AllCompleted /\ dl # "Completed")
    BY <2>1, <2>3 DEF Chart!vars
  <2> QED
    BY <2>2, <2>3
<1>23. ASSUME NEW w \in Workers, VerifyFail(w) PROVE Goal
  <2>1. UNCHANGED <<dl, callbacks>> /\ (AllCompleted' => AllCompleted)
    BY <1>23 DEF VerifyFail, AllCompleted
  <2>2. CASE AllCompleted /\ ~AllCompleted'
    BY <1>23, <2>1, <2>2 DEF VerifyFail, ResetRace, Race, AllCompleted, LosesAPiece
  <2>3. CASE AllCompleted <=> AllCompleted'
    BY <2>1, <2>3 DEF Chart!vars
  <2> QED
    BY <2>1, <2>2, <2>3
<1>24. ASSUME NEW i \in Pieces, StaleReset(i) PROVE Goal
  <2>1. UNCHANGED <<dl, callbacks>> /\ (AllCompleted' => AllCompleted)
    BY <1>24 DEF StaleReset, AllCompleted
  <2>2. CASE AllCompleted /\ ~AllCompleted'
    BY <1>24, <2>1, <2>2 DEF StaleReset, Race, AllCompleted, LosesAPiece
  <2>3. CASE AllCompleted <=> AllCompleted'
    BY <2>1, <2>3 DEF Chart!vars
  <2> QED
    BY <2>1, <2>2, <2>3
<1>25. CASE Pause
  BY <1>25 DEF Pause, Pausable, AllCompleted, Chart!Next, Chart!Pause
<1>26. CASE Resume
  BY <1>26 DEF Resume, AllCompleted, Chart!Next, Chart!Go
<1>27. CASE MainExit
  <2>1. (AllCompleted' <=> AllCompleted) /\ UNCHANGED callbacks
    BY <1>27 DEF MainExit, AllCompleted
  <2>2. CASE Finishes
    BY <1>27, <2>1, <2>2 DEF MainExit, Finishes, Chart!Next, Chart!Complete
  <2>3. CASE ~Finishes
    BY <1>27, <2>1, <2>3 DEF MainExit, Chart!vars
  <2> QED
    BY <2>2, <2>3
<1>28. CASE OnComplete
  BY <1>28 DEF OnComplete, CompletionInv, CompletionHandledOnce, AllCompleted, Chart!Next, Chart!Report
<1>29. ASSUME NEW p \in Peers, HandlerStep(p) PROVE Goal
  BY <1>29, <1>4, <1>5, <1>21, <1>6 DEF HandlerStep
<1>30. ASSUME NEW w \in Workers, JobStep(w) PROVE Goal
  BY <1>30, <1>11, <1>22, <1>23, <1>12, <1>13, <1>14, <1>15, <1>16, <1>32 DEF JobStep
<1>31. ASSUME NEW w \in Workers, WorkerStep(w) PROVE Goal
  BY <1>31, <1>10, <1>30 DEF WorkerStep
<1> QED
  BY <1>2, <1>3, <1>7, <1>8, <1>9, <1>17, <1>18, <1>19, <1>20, <1>24, <1>25, <1>26,
     <1>27, <1>28, <1>29, <1>31 DEF Next

\* Whatever its pieces go through, a download keeps to the chart of
\* DownloadStates.
THEOREM PiecesKeepToTheChart == Spec => KeepsToTheChart
<1>1. Init => CompletionInv
  BY DEF Init, CompletionInv, CompletionHandledOnce
<1>2. IInv /\ CompletionInv /\ [Next]_vars => CompletionInv'
  BY CompletionStep DEF IInv
<1>3. IInv /\ CompletionInv /\ [Next]_vars => [Chart!Next \/ LosesAPiece]_(Chart!vars)
  BY ChartStep DEF IInv
<1> QED
  BY Invariance, <1>1, <1>2, <1>3, PTL DEF Spec, KeepsToTheChart

-----------------------------------------------------------------------------
(***************************************************************************)
(* Blame.  While no block was wrong and no race happened, the bytes of a   *)
(* received block are right, a verification finds every block received,    *)
(* and so it never takes the branch that leads to a charge.                *)
(***************************************************************************)
Honest == faults["wrong"] = 0 /\ raced = {}

NothingLost ==
    /\ \A i \in Pieces : received[i] \subseteq good[i]
    /\ \A p \in Peers : /\ handler[p] = "verify" => received[cur[p]] = Blocks
                        /\ handler[p] # "failed" /\ fails[p] = 0
    /\ \A w \in Workers : /\ job[w].stage \in {"hash", "conclude"}
                               => received[job[w].piece] = Blocks
                          /\ job[w].stage = "conclude" => job[w].ok
                          /\ job[w].stage # "clear"

BlameInv == Honest => NothingLost

\* Two sets that contain each other are the same set.
LEMMA SubsetBothWays == ASSUME NEW S, NEW T, S \subseteq T, T \subseteq S PROVE S = T
  OBVIOUS

\* While nothing was wrong and nothing raced, no step loses a received block
\* of a piece that is being verified, and no verification fails.
LEMMA BlameStep == TypeOK /\ WellFormed /\ BlameInv /\ [Next]_vars => BlameInv'
<1> SUFFICES ASSUME TypeOK, WellFormed, BlameInv, [Next]_vars PROVE BlameInv'
  OBVIOUS
<1> USE SetsAssumption
    DEF TypeOK, Jobs, HandlerPoints, FaultKinds, Idle, Race, Spend, WellFormed,
        HandlersWellFormed, JobsWellFormed, BlameInv, Honest, NothingLost
<1>1. ASSUME NEW p \in Peers, Connect(p) PROVE BlameInv'
  BY <1>1 DEF Connect
<1>2. ASSUME NEW p \in Peers, ConnLost(p) PROVE BlameInv'
  BY <1>2 DEF ConnLost, Drop
<1>3. ASSUME NEW p \in Peers, HandlerVerified(p) PROVE BlameInv'
  BY <1>3 DEF HandlerVerified
<1>4. ASSUME NEW p \in Peers, HandlerFailed(p) PROVE BlameInv'
  BY <1>4 DEF HandlerFailed, ShouldBan, Ban, Drop
<1>5. ASSUME NEW p \in Peers, HandlerWritten(p) PROVE BlameInv'
  BY <1>5 DEF HandlerWritten
<1>6. ASSUME NEW p \in Peers, HandlerRaised(p) PROVE BlameInv'
  BY <1>6 DEF HandlerRaised, Drop
<1>7. ASSUME NEW p \in Peers, PauseDisconnect(p) PROVE BlameInv'
  <2>1. CASE p \in conn /\ handler[p] = "reading"
    <3>1. \A w \in Workers : job[w].peer # p
      BY <2>1
    <3>2. /\ UNCHANGED <<received, good, fails>>
          /\ faults' = faults /\ raced' = raced
          /\ Drop(p)
      BY <1>7, <2>1 DEF PauseDisconnect
    <3>3. \A w \in Workers : job'[w] = job[w]
      BY <3>1, <3>2 DEF Drop
    <3>4. \A q \in Peers : handler'[q] = handler[q] /\ (q # p => cur'[q] = cur[q])
      BY <2>1, <3>2 DEF Drop
    <3> QED
      BY <2>1, <3>2, <3>3, <3>4
  <2>2. CASE p \in conn /\ handler[p] # "reading"
    BY <1>7, <2>2 DEF PauseDisconnect
  <2>3. CASE p \notin conn
    BY <1>7, <2>3 DEF PauseDisconnect
  <2> QED
    BY <2>1, <2>2, <2>3
<1>8. ASSUME NEW p \in Peers, NEW i \in Pieces, StartPiece(p, i) PROVE BlameInv'
  BY <1>8 DEF StartPiece, AskFor
<1>9. ASSUME NEW p \in Peers, NEW i \in Pieces, AskAgain(p, i) PROVE BlameInv'
  BY <1>9 DEF AskAgain, AskFor
<1>10. ASSUME NEW p \in Peers, NEW i \in Pieces, NEW b \in Blocks, NEW right \in BOOLEAN,
             Deliver(p, i, b, right) PROVE BlameInv'
  <2> SUFFICES ASSUME Honest' PROVE NothingLost'
    OBVIOUS
  <2>1. right /\ faults' = faults /\ raced = {}
    BY <1>10 DEF Deliver
  <2>2. NothingLost
    BY <2>1
  <2>3. CASE status[i] = "completed"
    BY <1>10, <2>2, <2>3 DEF Deliver
  <2>4. CASE status[i] # "completed"
    <3>1. /\ received' = [received EXCEPT ![i] = @ \cup {b}]
          /\ good' = [good EXCEPT ![i] = @ \cup {b}]
      BY <1>10, <2>1, <2>4 DEF Deliver, Store
    <3>2. \A j \in Pieces : /\ received'[j] \subseteq good'[j]
                            /\ received[j] = Blocks => received'[j] = Blocks
      BY <2>2, <3>1
    <3>3. \A q \in Peers : \/ handler'[q] = handler[q] /\ cur'[q] = cur[q]
                           \/ handler'[q] = "verify" /\ received'[cur'[q]] = Blocks
      BY <1>10, <2>4 DEF Deliver
    <3>4. job' = job /\ fails' = fails
      BY <1>10 DEF Deliver
    <3> QED
      BY <2>2, <3>2, <3>3, <3>4
  <2> QED
    BY <2>3, <2>4
<1>11. ASSUME NEW w \in Workers, NEW p \in Peers, TakeJob(w, p) PROVE BlameInv'
  BY <1>11 DEF TakeJob
<1>12. ASSUME NEW w \in Workers, Hash(w) PROVE BlameInv'
  <2> SUFFICES ASSUME Honest' PROVE NothingLost'
    OBVIOUS
  <2>1. NothingLost /\ job[w].stage = "hash" /\ job[w].piece \in Pieces
    BY <1>12 DEF Hash
  <2>2. HashMatches(job[w].piece)
    <3>1. /\ received[job[w].piece] = Blocks
          /\ received[job[w].piece] \subseteq good[job[w].piece]
      BY <2>1
    <3>2. good[job[w].piece] \subseteq Blocks
      BY <2>1
    <3>3. Blocks \subseteq good[job[w].piece]
      BY <3>1
    <3> DEFINE held == good[job[w].piece]
    <3>4. held = Blocks
      <4>1. held \subseteq Blocks /\ Blocks \subseteq held
        BY <3>2, <3>3
      <4> HIDE DEF held
      <4> QED
        BY <4>1, SubsetBothWays
    <3> QED
      BY <3>4 DEF HashMatches, Right
  <2>3. job' = [job EXCEPT ![w].stage = "conclude", ![w].ok = TRUE]
    BY <1>12, <2>2 DEF Hash
  <2> QED
    BY <1>12, <2>1, <2>3 DEF Hash
<1>13. ASSUME NEW w \in Workers, VerifyPass(w) PROVE BlameInv'
  BY <1>13 DEF VerifyPass, Finish
<1>14. ASSUME NEW w \in Workers, VerifyFail(w) PROVE BlameInv'
  BY <1>14 DEF VerifyFail, ResetRace, OthersOn
<1>15. ASSUME NEW w \in Workers, VerifyClear(w) PROVE BlameInv'
  BY <1>15 DEF VerifyClear, Forget, ResetRace, Finish
<1>16. ASSUME NEW w \in Workers, WriteRead(w) PROVE BlameInv'
  <2>1. CASE Readable(job[w].piece)
    <3>1. job' = [job EXCEPT ![w].stage = "exists", ![w].ok = Right(job[w].piece)]
      BY <1>16, <2>1 DEF WriteRead
    <3>2. \A v \in Workers :
            \/ job'[v] = job[v]
            \/ job'[v].stage = "exists"
      BY <3>1
    <3> QED
      BY <1>16, <2>1, <3>2 DEF WriteRead
  <2>2. CASE ~Readable(job[w].piece)
    <3>1. Finish(w, "written")
      BY <1>16, <2>2 DEF WriteRead
    <3> QED
      BY <1>16, <3>1 DEF WriteRead, Finish
  <2> QED
    BY <2>1, <2>2
<1>17. ASSUME NEW w \in Workers, WriteExists(w) PROVE BlameInv'
  BY <1>17 DEF WriteExists
<1>18. ASSUME NEW w \in Workers, WriteCreate(w) PROVE BlameInv'
  BY <1>18 DEF WriteCreate
<1>31. ASSUME NEW w \in Workers, WriteAllocate(w) PROVE BlameInv'
  BY <1>31 DEF WriteAllocate
<1>19. ASSUME NEW w \in Workers, WriteFlush(w) PROVE BlameInv'
  BY <1>19 DEF WriteFlush, Finish
<1>20. ASSUME NEW w \in Workers, WriteRaises(w) PROVE BlameInv'
  BY <1>20 DEF WriteRaises, Finish
<1>21. ASSUME NEW S \in SUBSET Pieces, StaleCheck(S) PROVE BlameInv'
  BY <1>21 DEF StaleCheck
<1>22. ASSUME NEW i \in Pieces, StaleReset(i) PROVE BlameInv'
  <2> SUFFICES ASSUME Honest' PROVE NothingLost'
    OBVIOUS
  <2>1. NothingLost /\ ~InFlight(i)
    BY <1>22 DEF StaleReset
  <2>2. /\ \A q \in Peers : handler[q] = "verify" => cur[q] # i
        /\ \A w \in Workers : job[w].stage # "idle" => job[w].piece # i
    BY <2>1 DEF InFlight, HandlersOn, JobsOn
  <2>3. \A j \in Pieces : /\ j # i => received'[j] = received[j] /\ good'[j] = good[j]
                          /\ j = i => received'[j] = {}
    BY <1>22 DEF StaleReset, Forget
  <2>4. UNCHANGED <<handler, cur, job, fails>>
    BY <1>22 DEF StaleReset
  <2>5. \A j \in Pieces : received'[j] \subseteq good'[j]
    BY <2>1, <2>3
  <2>6. \A q \in Peers : handler[q] = "verify" => received'[cur[q]] = Blocks
    BY <2>1, <2>2, <2>3
  <2>7. \A w \in Workers : job[w].stage \in {"hash", "conclude"}
                              => received'[job[w].piece] = Blocks
    BY <2>1, <2>2, <2>3
  <2> QED
    BY <2>1, <2>4, <2>5, <2>6, <2>7
<1>23. CASE Pause
  BY <1>23 DEF Pause
<1>24. CASE Resume
  BY <1>24 DEF Resume
<1>25. CASE MainExit
  BY <1>25 DEF MainExit
<1>26. CASE OnComplete
  BY <1>26 DEF OnComplete
<1>27. CASE UNCHANGED vars
  BY <1>27 DEF vars
<1> HIDE DEF TypeOK, Jobs, HandlerPoints, FaultKinds, Idle, Race, Spend, WellFormed,
             HandlersWellFormed, JobsWellFormed, BlameInv, Honest, NothingLost
<1>28. ASSUME NEW p \in Peers, HandlerStep(p) PROVE BlameInv'
  BY <1>28, <1>3, <1>4, <1>5, <1>6 DEF HandlerStep
<1>29. ASSUME NEW w \in Workers, JobStep(w) PROVE BlameInv'
  BY <1>29, <1>12, <1>13, <1>14, <1>15, <1>16, <1>17, <1>18, <1>19, <1>31 DEF JobStep
<1>30. ASSUME NEW w \in Workers, WorkerStep(w) PROVE BlameInv'
  BY <1>30, <1>11, <1>29 DEF WorkerStep
<1> QED
  BY <1>1, <1>2, <1>7, <1>8, <1>9, <1>10, <1>20, <1>21, <1>22, <1>23, <1>24, <1>25,
     <1>26, <1>27, <1>28, <1>30 DEF Next

\* No peer is charged with a hash failure unless a block was wrong or a race
\* destroyed good bytes.
THEOREM BlameHasACause == Spec => []NoBlameWithoutCause
<1>1. Init => BlameInv
  BY SetsAssumption DEF Init, BlameInv, NothingLost, Idle
<1>2. IInv /\ BlameInv /\ [Next]_vars => BlameInv'
  BY BlameStep DEF IInv, WellFormed
<1>3. BlameInv => NoBlameWithoutCause
  BY DEF BlameInv, Honest, NothingLost, NoBlameWithoutCause
<1> QED
  BY Invariance, <1>1, <1>2, <1>3, PTL DEF Spec

-----------------------------------------------------------------------------
(***************************************************************************)
(* One thread.  That the file may be made over what another thread wrote   *)
(* takes two of them: what one thread found missing stays missing until it *)
(* makes it.                                                               *)
(***************************************************************************)
OneThread == \A v, w \in Workers : v = w

FileInv ==
    /\ ~fileExists => \A i \in Pieces : disk[i] = "absent"
    /\ \A w \in Workers : /\ job[w].stage \in {"allocate", "flush"} => fileExists
                          /\ job[w].stage = "create" => ~fileExists

\* A single thread makes the file only while there is none, and nothing else
\* takes from it.
LEMMA FileStep ==
    ASSUME OneThread, TypeOK, FileInv, [Next]_vars
    PROVE  FileInv' /\ \A i \in Pieces : disk[i] = "right" => disk'[i] # "absent"
<1> DEFINE Goal == FileInv' /\ \A i \in Pieces : disk[i] = "right" => disk'[i] # "absent"
<1> USE DEF TypeOK, Jobs, FileInv
<1>1. ASSUME NEW p \in Peers, Connect(p) PROVE Goal
  BY <1>1 DEF Connect
<1>2. ASSUME NEW p \in Peers, ConnLost(p) PROVE Goal
  BY <1>2 DEF ConnLost, Drop
<1>3. ASSUME NEW p \in Peers, HandlerVerified(p) PROVE Goal
  BY <1>3 DEF HandlerVerified
<1>4. ASSUME NEW p \in Peers, HandlerFailed(p) PROVE Goal
  BY SMTT(40), <1>4 DEF HandlerFailed, ShouldBan, Ban, Drop
<1>5. ASSUME NEW p \in Peers, HandlerWritten(p) PROVE Goal
  BY <1>5 DEF HandlerWritten
<1>6. ASSUME NEW p \in Peers, HandlerRaised(p) PROVE Goal
  BY <1>6 DEF HandlerRaised, Drop
<1>7. ASSUME NEW p \in Peers, PauseDisconnect(p) PROVE Goal
  BY <1>7 DEF PauseDisconnect, Drop
<1>8. ASSUME NEW p \in Peers, NEW i \in Pieces, StartPiece(p, i) PROVE Goal
  BY <1>8 DEF StartPiece, AskFor
<1>9. ASSUME NEW p \in Peers, NEW i \in Pieces, AskAgain(p, i) PROVE Goal
  BY <1>9 DEF AskAgain, AskFor
<1>10. ASSUME NEW p \in Peers, NEW i \in Pieces, NEW b \in Blocks, NEW right \in BOOLEAN,
             Deliver(p, i, b, right) PROVE Goal
  BY <1>10 DEF Deliver, Store
<1>11. ASSUME NEW w \in Workers, NEW p \in Peers, TakeJob(w, p) PROVE Goal
  BY <1>11 DEF TakeJob
<1>12. ASSUME NEW w \in Workers, Hash(w) PROVE Goal
  BY <1>12 DEF Hash
<1>13. ASSUME NEW w \in Workers, VerifyPass(w) PROVE Goal
  BY <1>13 DEF VerifyPass, Finish, Idle
<1>14. ASSUME NEW w \in Workers, VerifyFail(w) PROVE Goal
  BY <1>14 DEF VerifyFail
<1>15. ASSUME NEW w \in Workers, VerifyClear(w) PROVE Goal
  BY <1>15 DEF VerifyClear, Finish, Idle
<1>16. ASSUME NEW w \in Workers, WriteRead(w) PROVE Goal
  BY SMTT(40), <1>16 DEF WriteRead, Finish, Idle
<1>17. ASSUME NEW w \in Workers, WriteExists(w) PROVE Goal
  <2>1. \A v \in Workers : v = w
    BY DEF OneThread
  <2>3. job'[w].stage = IF fileExists THEN "flush" ELSE "create"
    BY <1>17 DEF WriteExists
  <2>2. UNCHANGED <<fileExists, disk>>
    BY <1>17 DEF WriteExists
  <2> QED
    BY <2>1, <2>2, <2>3
<1>18. ASSUME NEW w \in Workers, WriteCreate(w) PROVE Goal
  BY <1>18 DEF WriteCreate, OneThread
<1>31. ASSUME NEW w \in Workers, WriteAllocate(w) PROVE Goal
  BY <1>31 DEF WriteAllocate
<1>19. ASSUME NEW w \in Workers, WriteFlush(w) PROVE Goal
  BY <1>19 DEF WriteFlush, Content, Finish, Idle
<1>20. ASSUME NEW w \in Workers, WriteRaises(w) PROVE Goal
  BY <1>20 DEF WriteRaises, Content, Finish, Idle
<1>21. ASSUME NEW S \in SUBSET Pieces, StaleCheck(S) PROVE Goal
  BY <1>21 DEF StaleCheck
<1>22. ASSUME NEW i \in Pieces, StaleReset(i) PROVE Goal
  BY <1>22 DEF StaleReset
<1>23. CASE Pause
  BY <1>23 DEF Pause
<1>24. CASE Resume
  BY <1>24 DEF Resume
<1>25. CASE MainExit
  BY <1>25 DEF MainExit
<1>26. CASE OnComplete
  BY <1>26 DEF OnComplete
<1>27. CASE UNCHANGED vars
  BY <1>27 DEF vars
<1>28. ASSUME NEW p \in Peers, HandlerStep(p) PROVE Goal
  BY <1>28, <1>3, <1>4, <1>5, <1>6 DEF HandlerStep
<1>29. ASSUME NEW w \in Workers, JobStep(w) PROVE Goal
  BY <1>29, <1>12, <1>13, <1>14, <1>15, <1>16, <1>17, <1>18, <1>19, <1>31 DEF JobStep
<1>30. ASSUME NEW w \in Workers, WorkerStep(w) PROVE Goal
  BY <1>30, <1>11, <1>29 DEF WorkerStep
<1> QED
  BY <1>1, <1>2, <1>7, <1>8, <1>9, <1>10, <1>20, <1>21, <1>22, <1>23, <1>24, <1>25,
     <1>26, <1>27, <1>28, <1>30 DEF Next

\* With one executor thread nothing that was written is ever emptied: the
\* race for the missing file is the only way to lose it.
THEOREM OneThreadKeepsTheFile ==
    ASSUME OneThread
    PROVE  Spec => WrittenStaysWritten
<1>1. Init => FileInv
  BY DEF Init, FileInv, Idle
<1>2. IInv /\ FileInv /\ [Next]_vars => FileInv'
  BY FileStep DEF IInv
<1>3. IInv /\ FileInv /\ [Next]_vars
        => [\A i \in Pieces : disk[i] = "right" => disk'[i] # "absent"]_vars
  BY FileStep DEF IInv
<1> QED
  BY Invariance, <1>1, <1>2, <1>3, PTL DEF Spec, WrittenStaysWritten
=============================================================================
