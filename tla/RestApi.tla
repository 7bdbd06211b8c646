-------------------------------- MODULE RestApi --------------------------------
(***************************************************************************)
(* The REST server around one download: Flask threads that post coroutines *)
(* to the event loop, wait for them up to sixty seconds, and write the     *)
(* history database; the on_complete callback writes it from the loop.     *)
(* Every write holds _db_lock from the reading of the download's state to  *)
(* the commit, so it is one action.                                        *)
(***************************************************************************)
EXTENDS DownloadLifecycle

CONSTANTS MaxRequests       \* bound: requests

ASSUME RequestsAssumption == MaxRequests \in Nat

VARIABLES
    thread,         \* what each Flask thread is doing
    requests,       \* how many came
    row,            \* final_status in torrents; "none": no row
    cleared         \* the history was cleared

historyVars == <<row, cleared>>
apiVars == <<thread, requests, historyVars>>
vars == <<dlVars, trackerVars, apiVars>>

Operations == {"start", "pause", "resume", "cancel"}

Idle == [op |-> "none", stage |-> "idle"]

TypeOK ==
    /\ LifecycleTypeOK
    /\ thread \in [Callers -> [op : Operations \cup {"none"},
                               stage : {"idle", "waiting", "registering", "saving", "gone"}]]
    /\ requests \in 0..MaxRequests
    /\ row \in States \cup {"none"} /\ cleared \in BOOLEAN

Init ==
    /\ LifecycleInit
    /\ thread = [c \in Callers |-> Idle]
    /\ requests = 0
    /\ row = "none" /\ cleared = FALSE

-----------------------------------------------------------------------------
Enters(c, stage) == thread' = [thread EXCEPT ![c].stage = stage]

Stage(c, stage) == thread[c].stage = stage

\* A request arrives.  Only POST /torrents finds no download.
Request(c, op) ==
    /\ Stage(c, "idle") /\ requests < MaxRequests
    /\ IF op = "start" THEN requests = 0 ELSE main # 0
    /\ thread' = [thread EXCEPT ![c] = [op |-> op, stage |-> "waiting"]]
    /\ requests' = requests + 1
    /\ UNCHANGED <<dlVars, trackerVars, historyVars>>

\* The event loop takes the coroutine up, first come first served: the first
\* main loop was waiting before anybody could ask for more than a start.
Serve(c) ==
    /\ Stage(c, "waiting") /\ call[c] = "none"
    /\ thread[c].op # "start" => loop[1] # "scheduled"
    /\ CASE thread[c].op = "start"  -> Start(c)
         [] thread[c].op = "pause"  -> PauseBegins(c) \/ Refused(c, "pause")
         [] thread[c].op = "resume" -> Resume(c) \/ Refused(c, "resume")
         [] thread[c].op = "cancel" -> CancelBegins(c)
    /\ UNCHANGED apiVars

\* A coroutine goes on, also when nobody waits for it any more.
Continue(c) ==
    /\ PauseEnds(c) \/ CancelDisconnects(c) \/ \E o \in Outcomes : CancelEnds(c, o)
    /\ UNCHANGED apiVars

\* future.result() returns
Answered(c) ==
    /\ Stage(c, "waiting") /\ call[c] = "over"
    /\ CASE thread[c].op = "start"  -> Enters(c, "registering")
         [] thread[c].op = "resume" -> thread' = [thread EXCEPT ![c] = Idle]
         [] OTHER                   -> Enters(c, "saving")
    /\ Becomes(c, "none")
    /\ UNCHANGED <<trackerVars, state, complete, reportVars, saved, lapses, loopVars, peerVars, requests, historyVars>>

\* or raises what the coroutine raised; the answer is an error.
Failed(c) ==
    /\ Stage(c, "waiting") /\ call[c] = "raised"
    /\ thread' = [thread EXCEPT ![c] = Idle]
    /\ Becomes(c, "none")
    /\ UNCHANGED <<trackerVars, state, complete, reportVars, saved, lapses, loopVars, peerVars, requests, historyVars>>

\* Sixty seconds are over while connections close or the tracker is asked.
GivesUp(c) ==
    /\ Stage(c, "waiting") /\ call[c] \in {"pausing", "cancelling", "stopping"}
    /\ Enters(c, "gone")
    /\ UNCHANGED <<dlVars, trackerVars, requests, historyVars>>

\* start_download sets the callback only now.
Register(c) ==
    /\ Stage(c, "registering")
    /\ OnComplete
    /\ thread' = [thread EXCEPT ![c] = Idle]
    /\ UNCHANGED <<requests, historyVars>>

\* Mutation: the row of a download that has one is left.
SaveTorrentOnce == row' = IF row = "none" THEN state ELSE row

\* save_torrent_to_db: INSERT OR REPLACE.
SaveTorrent == row' = state

SaveRow(c) ==
    /\ Stage(c, "saving")
    /\ SaveTorrent \/ UNCHANGED row     \* the database raises
    /\ thread' = [thread EXCEPT ![c] = Idle]
    /\ UNCHANGED <<dlVars, trackerVars, requests, cleared>>

\* on_download_complete, called back in the event loop: the database may raise
\* before or after the row is written.
Report(l) ==
    /\ \E raises \in BOOLEAN :
          /\ LoopReports(l, raises)
          /\ \/ registered /\ SaveTorrent
             \/ (registered => raises) /\ UNCHANGED row
    /\ UNCHANGED <<thread, requests, cleared>>

\* clear_history
ClearHistory ==
    /\ ~cleared
    /\ row' = "none" /\ cleared' = TRUE
    /\ UNCHANGED <<dlVars, trackerVars, thread, requests>>

-----------------------------------------------------------------------------
LoopNext(l) ==
    \/ (LoopStep(l) \/ LoopDials(l)) /\ UNCHANGED apiVars
    \/ (\E o \in Outcomes : TrackerAsked(l, o)) /\ UNCHANGED apiVars
    \/ Report(l)

ThreadNext(c) ==
    \/ Serve(c) \/ Continue(c) \/ Answered(c) \/ Failed(c) \/ GivesUp(c)
    \/ Register(c) \/ SaveRow(c)

Next ==
    \/ \E c \in Callers, op \in Operations : Request(c, op)
    \/ \E c \in Callers : ThreadNext(c)
    \/ \E l \in Loops : LoopNext(l)
    \/ PeerStep /\ UNCHANGED apiVars
    \/ ClearHistory

Spec == Init /\ [][Next]_vars

\* The event loop runs what is ready, and announces end within thirty seconds.
Fairness == \A l \in Loops : WF_vars((LoopStep(l) /\ UNCHANGED apiVars) \/ Report(l))

FairSpec == Spec /\ Fairness

-----------------------------------------------------------------------------
\* A download that runs has a main loop that runs, whatever was called in
\* whatever order.
RunningHasALoop ==
    state = "Running" => \E l \in Loops : loop[l] \notin {"none", "done"} /\ l \notin cancelled

\* No request, main loop or handler is under way.
Quiet ==
    /\ \A c \in Callers : thread[c].stage \in {"idle", "gone"} /\ call[c] \in {"none", "over", "raised"}
    /\ \A l \in Loops : loop[l] \in {"none", "done"}
    /\ last = "idle"

\* When nothing is under way any more, the state file holds the download's
\* state, unless its last write raised, the PIECE handler set the state last or
\* the tracker's stop raised.
StateFileIsCurrent ==
    Quiet /\ saved \notin {"none", "unknown"} => saved = state \/ "unsaved" \in lapses

\* Once the callback was made without an error, a completed download is in the
\* history as such: the Flask threads that save it too read its state under
\* the lock, so none of them overwrites the row with an older state.  The
\* exception is a download that was cancelled or failed meanwhile and that the
\* PIECE handler then calls Completed, after the callback.
CompletedIsInHistory ==
    reports > 0 /\ state = "Completed" /\ "unrecorded" \notin lapses /\ ~cleared
        => row = "Completed"

Promise == INSTANCE DownloadStates WITH state <- state, complete <- complete, reports <- reports

\* The download keeps the promise of DownloadStates.
ImplementsStates == Promise!Spec

\* Once the download does not run any more, all of its main loops end.
LoopsEnd == <>[](state # "Running") => <>[](\A l \in Loops : loop[l] \in {"none", "done"})

\* "Cancel all tasks": when cancel() is done, no task of the download is left.
CancelStopsEverything ==
    (\E c \in Callers : call[c] = "over" /\ thread[c].op = "cancel") =>
        \A l \in Loops : loop[l] \in {"none", "done"} \/ l \in cancelled
=============================================================================
