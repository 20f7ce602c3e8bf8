----------------------------- MODULE MediaStream -----------------------------
(***************************************************************************)
(* What a P2P session promises to the receiver of its livestream: the      *)
(* stream is reported as started at most once after it was asked for, and  *)
(* a stream that was reported as started is reported as stopped, or as     *)
(* broken, exactly once, for the same camera, before anything is said of   *)
(* another stream.  With one exception: the receiver is told of an error,  *)
(* too, when the session's other stream, a download, breaks.               *)
(***************************************************************************)
EXTENDS Sequences

CONSTANT Cameras

VARIABLES
    phase,    \* "closed", "requested", "open" or "broken"
    camera,   \* the camera whose stream was asked for; means nothing when closed
    reports,  \* what was reported so far
    downloadIsBroken

Report(what) == Append(reports, [event |-> what, channel |-> camera])

Init ==
    /\ phase = "closed"
    /\ reports = << >>

Request ==
    /\ phase = "closed"
    /\ phase' = "requested"
    /\ camera' \in Cameras
    /\ UNCHANGED reports

Open ==
    /\ phase = "requested"
    /\ phase' = "open"
    /\ reports' = Report("started")
    /\ UNCHANGED camera

Break ==
    /\ phase \in {"requested", "open"}
    /\ phase' = "broken"
    /\ reports' = Report("error")
    /\ UNCHANGED camera

Farewell == IF phase = "open" THEN Report("stopped") ELSE reports

Close ==
    /\ phase # "closed"
    /\ phase' = "closed"
    /\ reports' = Farewell

(* Another camera takes the place of the one that streams. *)
Switch ==
    /\ phase # "closed"
    /\ phase' = "requested"
    /\ camera' \in Cameras
    /\ reports' = Farewell

(* The exception: once for each download that breaks. *)
Misreport ==
    /\ ~downloadIsBroken /\ downloadIsBroken'
    /\ \E c \in Cameras : reports' = Append(reports, [event |-> "error", channel |-> c])
    /\ UNCHANGED <<phase, camera>>

Next == Request \/ Open \/ Break \/ Close \/ Switch \/ Misreport

Spec == Init /\ [][Next]_<<phase, camera, reports>>
=============================================================================
