-------------------------- MODULE DownloadLifecycle --------------------------
(***************************************************************************)
(* The control of one Download: start, pause, resume and cancel, called by *)
(* several callers at once, the main loops they create with their tracker  *)
(* clients, and the PIECE handler that sets the state by itself.  All of   *)
(* it runs in one event loop: an action is what happens between two awaits.*)
(* Pieces are PieceVerification's subject, connections PeerPool's, the     *)
(* choke task ChokeAlgorithm's; here the last piece stands for all.        *)
(***************************************************************************)
EXTENDS TrackerClient

CONSTANTS Callers

VARIABLES
    state,          \* Download.state
    complete,       \* piece_manager.is_complete
    handled,        \* _completion_handled
    registered,     \* on_complete was called: _on_complete is set
    reports,        \* calls of _on_complete
    saved,          \* "state" in the state file; "unknown": the last write raised
    loop,           \* the main loop's tasks
    main,           \* the newest of them, _main_task
    cancelled,      \* main loops whose cancel() is pending
    links,          \* connections: none, being closed, or up
    dialing,        \* a _connect_to_peers is under way
    last,           \* the handler of the last piece
    call,           \* where each caller's coroutine is
    lapses          \* history: what the code skipped, for the properties

loopVars == <<loop, main, cancelled>>
peerVars == <<links, dialing, last>>
reportVars == <<handled, registered, reports>>
dlVars == <<state, complete, reportVars, saved, lapses, loopVars, peerVars, call>>

States == {"Queued", "Running", "Paused", "Completed", "Cancelled", "Error"}

LifecycleTypeOK ==
    /\ TrackerTypeOK
    /\ state \in States /\ saved \in States \cup {"none", "unknown"}
    /\ complete \in BOOLEAN /\ handled \in BOOLEAN /\ registered \in BOOLEAN /\ reports \in 0..1
    /\ loop \in [Loops -> {"none", "scheduled", "announcing", "requesting", "dialing",
                         "completing", "done"}]
    /\ main \in 0..MaxLoops
    /\ cancelled \subseteq Loops
    /\ links \in {"none", "closing", "up"} /\ dialing \in BOOLEAN
    /\ last \in {"idle", "verifying", "orphaned", "finishing"}
    /\ call \in [Callers -> {"none", "pausing", "cancelling", "stopping", "over", "raised"}]
    /\ lapses \subseteq {"unsaved", "unrecorded"}

LifecycleInit ==
    /\ TrackerInit
    /\ state = "Queued" /\ saved = "none"
    /\ complete = FALSE /\ handled = FALSE /\ registered = FALSE /\ reports = 0
    /\ loop = [l \in Loops |-> "none"] /\ main = 0 /\ cancelled = {}
    /\ links = "none" /\ dialing = FALSE /\ last = "idle"
    /\ call = [c \in Callers |-> "none"]
    /\ lapses = {}

-----------------------------------------------------------------------------
(* The main loop, _download_loop. *)

CreateLoop ==
    /\ main < MaxLoops
    /\ main' = main + 1
    /\ loop' = [loop EXCEPT ![main'] = "scheduled"]
    /\ UNCHANGED cancelled

At(l, phase) == loop[l] = phase /\ l \notin cancelled

Goto(l, phase) == loop' = [loop EXCEPT ![l] = phase] /\ UNCHANGED <<main, cancelled>>

Saves(content) == saved' = content /\ lapses' = lapses \ {"unsaved"}

Save == Saves(state')

\* _save_state raises: the file has what it had, nothing or a part of the new.
SaveFails == Saves("unknown")

NoSave == UNCHANGED <<saved, lapses>>

\* Mutation: the state is not saved on the way out.
FinishUnsaved(l) == Goto(l, "done") /\ NoSave

\* The end of the task: finally, _save_state.  What it raises nobody sees.
Finish(l) == Goto(l, "done") /\ (Save \/ SaveFails)

\* The task runs for the first time, up to the announce of 'started'.
LoopBegins(l) ==
    /\ At(l, "scheduled")
    /\ Goto(l, "announcing")
    /\ NewClient(l)
    /\ UNCHANGED <<state, complete, reportVars, saved, lapses, peerVars, call>>

\* The announce returns: periodic announces, of the newest client, and dials
\* start, also if the download was paused or cancelled meanwhile.
LoopAnnounced(l) ==
    /\ At(l, "announcing")
    /\ Goto(l, "requesting")
    /\ StartPeriodicAnnounce
    /\ dialing' = TRUE
    /\ UNCHANGED <<state, complete, reportVars, saved, lapses, links, last, call>>

\* Mutation: the error is logged only.
LoopFailsQuietly(l) ==
    /\ At(l, "announcing")
    /\ UNCHANGED state
    /\ Finish(l)
    /\ UNCHANGED <<trackerVars, complete, reportVars, peerVars, call>>

\* The announce raises, TrackerError or anything else.
LoopFails(l) ==
    /\ At(l, "announcing")
    /\ state' = "Error"
    /\ Finish(l)
    /\ UNCHANGED <<trackerVars, complete, reportVars, peerVars, call>>

\* A turn of the while in which peers are dialled again, and waited for.
LoopDials(l) ==
    /\ At(l, "requesting") /\ ~complete /\ state = "Running"
    /\ Goto(l, "dialing")
    /\ dialing' = TRUE
    /\ UNCHANGED <<trackerVars, state, complete, reportVars, saved, lapses, links, last, call>>

LoopDialed(l) ==
    /\ At(l, "dialing")
    /\ Goto(l, "requesting")
    /\ UNCHANGED <<trackerVars, state, complete, reportVars, saved, lapses, peerVars, call>>

\* Mutation: the while does not look at the state.
LeavesWhenComplete == complete

Leaves == complete \/ state # "Running"

\* The while ends, and nothing is left to do.
LoopLeaves(l) ==
    /\ At(l, "requesting") /\ Leaves /\ (complete => handled)
    /\ UNCHANGED state
    /\ Finish(l)
    /\ UNCHANGED <<trackerVars, complete, reportVars, peerVars, call>>

\* Mutation: no guard against a second time.
UnhandledAlways == TRUE

Unhandled == ~handled

\* _complete_download, up to its announce.
LoopCompletes(l) ==
    /\ At(l, "requesting") /\ complete /\ Unhandled
    /\ handled' = TRUE
    /\ state' = "Completed"
    /\ Goto(l, "completing")
    /\ UNCHANGED <<trackerVars, complete, registered, reports, saved, lapses, peerVars, call>>

\* The announce is over, however it ended; the callback, if there is one, runs
\* and may raise.
LoopReports(l, raises) ==
    /\ At(l, "completing") /\ (raises => registered)
    /\ reports' = IF registered THEN reports + 1 ELSE reports
    /\ state' = IF raises THEN "Error" ELSE state
    /\ Goto(l, "done")
    /\ saved' \in {state', "unknown"}
    /\ lapses' = (lapses \ {"unsaved"}) \cup IF raises THEN {"unrecorded"} ELSE {}
    /\ UNCHANGED <<trackerVars, complete, handled, registered, peerVars, call>>

\* CancelledError, at the await the task is in.  A task that never ran does not
\* get to its finally.
LoopCancelled(l) ==
    /\ l \in cancelled
    /\ loop' = [loop EXCEPT ![l] = "done"]
    /\ cancelled' = cancelled \ {l}
    /\ UNCHANGED state
    /\ IF loop[l] = "scheduled" THEN NoSave ELSE Save \/ SaveFails
    /\ UNCHANGED <<trackerVars, complete, reportVars, main, peerVars, call>>

-----------------------------------------------------------------------------
(* Tracker and peers. *)

\* A periodic announce is over.  With a response comes _on_tracker_response,
\* which dials in any state; the errors are caught.
TrackerAsked(l, outcome) ==
    /\ Asked(l)
    /\ dialing' = (dialing \/ outcome = "response")
    /\ UNCHANGED <<state, complete, reportVars, saved, lapses, loopVars, links, last, call>>

\* A dial that began in any state ends in any state.
DialEnds(up) ==
    /\ dialing
    /\ dialing' \in BOOLEAN
    /\ links' = IF up THEN "up" ELSE links
    /\ UNCHANGED <<trackerVars, state, complete, reportVars, saved, lapses, loopVars, last, call>>

\* The last block arrives and goes to a thread.
LastBlock ==
    /\ links # "none" /\ ~complete /\ last = "idle"
    /\ last' = "verifying"
    /\ UNCHANGED <<trackerVars, state, complete, reportVars, saved, lapses, loopVars, links, dialing, call>>

\* The thread finds the piece right; its handler may be gone.
LastVerified ==
    /\ last \in {"verifying", "orphaned"}
    /\ complete' = TRUE
    /\ last' = IF last = "verifying" THEN "finishing" ELSE "idle"
    /\ UNCHANGED <<trackerVars, state, reportVars, saved, lapses, loopVars, links, dialing, call>>

\* The handler, after the write: the state is set whatever it was,
LastFinished ==
    /\ last = "finishing"
    /\ last' = "idle"
    /\ state' = "Completed"
    /\ lapses' = IF state = "Completed" THEN lapses
                 ELSE lapses \cup {"unsaved"} \cup IF reports > 0 THEN {"unrecorded"} ELSE {}
    /\ UNCHANGED <<trackerVars, complete, reportVars, saved, loopVars, links, dialing, call>>

\* or the write raises, and the handler is over.
LastFails ==
    /\ last = "finishing"
    /\ last' = "idle"
    /\ UNCHANGED <<trackerVars, state, complete, reportVars, saved, lapses, loopVars, links, dialing, call>>

\* disconnect() of the connections listed, and with them their handlers.
Disconnect ==
    /\ links' = IF links = "closing" THEN "none" ELSE links
    /\ last' = CASE links # "closing"    -> last
                 [] last = "verifying"   -> "orphaned"
                 [] last = "finishing"   -> "idle"
                 [] OTHER                -> last
    /\ UNCHANGED dialing

ListConnections == links' = (IF links = "up" THEN "closing" ELSE links) /\ UNCHANGED <<dialing, last>>

-----------------------------------------------------------------------------
(* The four operations. *)

Becomes(c, phase) == call' = [call EXCEPT ![c] = phase]

\* An operation ends with _save_state, and raises what that raises.
SaveAndReturn(c) ==
    \/ Save /\ Becomes(c, "over")
    \/ SaveFails /\ Becomes(c, "raised")

Start(c) ==
    /\ state # "Running"
    /\ state' = "Running"
    /\ CreateLoop
    /\ Becomes(c, "over")
    /\ UNCHANGED <<trackerVars, complete, reportVars, saved, lapses, peerVars>>

PauseBegins(c) ==
    /\ state = "Running"
    /\ state' = "Paused"
    /\ ListConnections
    /\ Becomes(c, "pausing")
    /\ UNCHANGED <<trackerVars, complete, reportVars, saved, lapses, loopVars>>

PauseEnds(c) ==
    /\ call[c] = "pausing"
    /\ Disconnect
    /\ UNCHANGED state
    /\ SaveAndReturn(c)
    /\ UNCHANGED <<trackerVars, complete, reportVars, loopVars>>

\* Mutation: a download that is not running resumes.
MayResumeAny == state # "Running"

MayResume == state = "Paused"

Resume(c) ==
    /\ MayResume
    /\ state' = "Running"
    /\ CreateLoop
    /\ Becomes(c, "over")
    /\ UNCHANGED <<trackerVars, complete, reportVars, saved, lapses, peerVars>>

\* pause() and resume() in another state return at once.
Refused(c, operation) ==
    /\ \/ operation = "pause" /\ state # "Running"
       \/ operation = "resume" /\ ~MayResume
    /\ Becomes(c, "over")
    /\ UNCHANGED <<trackerVars, state, complete, reportVars, saved, lapses, loopVars, peerVars>>

\* Only the newest main loop is cancelled.
CancelBegins(c) ==
    /\ state' = "Cancelled"
    /\ cancelled' = IF main # 0 /\ loop[main] # "done" THEN cancelled \cup {main} ELSE cancelled
    /\ ListConnections
    /\ Becomes(c, "cancelling")
    /\ UNCHANGED <<trackerVars, complete, reportVars, saved, lapses, loop, main>>

CancelDisconnects(c) ==
    /\ call[c] = "cancelling"
    /\ Disconnect
    /\ UNCHANGED state
    /\ IF current = 0 THEN SaveAndReturn(c) /\ UNCHANGED trackerVars
                      ELSE Becomes(c, "stopping") /\ Stop /\ NoSave
    /\ UNCHANGED <<complete, reportVars, loopVars>>

\* The announce of 'stopped' is over: only a TrackerError is caught.
CancelEnds(c, outcome) ==
    /\ call[c] = "stopping"
    /\ UNCHANGED state
    /\ IF outcome = "other"
       THEN Becomes(c, "raised") /\ UNCHANGED saved /\ lapses' = lapses \cup {"unsaved"}
       ELSE SaveAndReturn(c)
    /\ UNCHANGED <<trackerVars, complete, reportVars, loopVars, peerVars>>

\* on_complete, by a thread beside the event loop.
OnComplete ==
    /\ registered' = TRUE
    /\ UNCHANGED <<trackerVars, state, complete, handled, reports, saved, lapses, loopVars, peerVars, call>>

LoopStep(l) ==
    \/ LoopBegins(l) \/ LoopAnnounced(l) \/ LoopFails(l) \/ LoopDialed(l)
    \/ LoopLeaves(l) \/ LoopCompletes(l) \/ LoopCancelled(l)

PeerStep ==
    \/ LastBlock \/ LastVerified \/ LastFinished \/ LastFails
    \/ \E up \in BOOLEAN : DialEnds(up)
=============================================================================
