---------------------------- MODULE DownloadStates ----------------------------
(***************************************************************************)
(* What a user of a Download may rely on, whatever runs inside: the state  *)
(* chart, and that completion is reported once at most and never too early.*)
(***************************************************************************)
EXTENDS Naturals

VARIABLES
    state,          \* Download.state
    complete,       \* the piece manager has every piece
    reports         \* calls of the on_complete callback

vars == <<state, complete, reports>>

States == {"Queued", "Running", "Paused", "Completed", "Cancelled", "Error"}

Over == {"Completed", "Cancelled", "Error"}

Init == state = "Queued" /\ complete = FALSE /\ reports = 0

\* Only a queued download starts, only a paused one resumes, only a running one
\* pauses: what is over stays over.
Go    == state \in {"Queued", "Paused"} /\ state' = "Running" /\ UNCHANGED <<complete, reports>>
Pause == state = "Running" /\ state' = "Paused" /\ UNCHANGED <<complete, reports>>

\* The last piece was verified; nothing says so yet.
LastPiece == ~complete /\ complete' = TRUE /\ state # "Queued" /\ UNCHANGED <<state, reports>>

\* A download with every piece may be called complete in any state it got into,
Complete == complete /\ state # "Queued" /\ state' = "Completed" /\ UNCHANGED <<complete, reports>>

\* cancelled at any time,
Cancel == state' = "Cancelled" /\ UNCHANGED <<complete, reports>>

\* and fail at any time once it was started.
Fail == state # "Queued" /\ state' = "Error" /\ UNCHANGED <<complete, reports>>

Report == complete /\ reports = 0 /\ reports' = 1 /\ UNCHANGED <<state, complete>>

\* A callback that raises.
ReportFails == complete /\ reports = 0 /\ reports' = 1 /\ state' = "Error" /\ UNCHANGED complete

Next == Go \/ Pause \/ LastPiece \/ Complete \/ Cancel \/ Fail \/ Report \/ ReportFails

Spec == Init /\ [][Next]_vars
===============================================================================
