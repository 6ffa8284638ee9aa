---------------------------- MODULE OneShotCall ----------------------------
(***************************************************************************)
(* What one unary call promises its awaiting coroutine, whatever races     *)
(* behind it: the call is resolved with one status, that status is never   *)
(* revised, and the coroutine is resumed once with a result derived from   *)
(* it.  UnaryCall is shown to implement this specification.                *)
(***************************************************************************)
EXTENDS Sequences

CONSTANTS
    Status,          \* the statuses a call can be resolved with
    Unresolved,      \* what `resolution` holds before the call is resolved
    Reported(_)      \* the results the typed layer may make of a status

VARIABLES resolution, delivered

oneShotVars == <<resolution, delivered>>

Init == resolution = Unresolved /\ delivered = <<>>

(* Some actor resolves the call: peer, deadline, cancellation, channel.    *)
Resolve ==
    /\ resolution = Unresolved
    /\ resolution' \in Status
    /\ UNCHANGED delivered

(* The coroutine resumes with a result made of the recorded status.        *)
Deliver ==
    /\ resolution # Unresolved
    /\ delivered = <<>>
    /\ \E r \in Reported(resolution) : delivered' = <<r>>
    /\ UNCHANGED resolution

Next == Resolve \/ Deliver

Spec == Init /\ [][Next]_oneShotVars
=============================================================================
