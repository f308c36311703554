------------------------------ MODULE Delivery ------------------------------
(***************************************************************************)
(* What the pipeline from the kernel to a profile promises for each event: *)
(* it is recorded at most once, and it is lost only if something failed.   *)
(* The specification that Collector implements.                            *)
(***************************************************************************)

VARIABLES
    status,   \* of the event
    faulted   \* something has failed that may lose events

vars == <<status, faulted>>

Init ==
    /\ status = "unborn"
    /\ faulted = FALSE

Create ==
    /\ status = "unborn"
    /\ status' = "pending"
    /\ UNCHANGED faulted

Record ==
    /\ status = "pending"
    /\ status' = "recorded"
    /\ UNCHANGED faulted

\* A loss follows a failure or is one.
Lose ==
    /\ status \in {"unborn", "pending"}
    /\ status' = "lost"
    /\ faulted' = TRUE

Fail ==
    /\ faulted' = TRUE
    /\ UNCHANGED status

Next == Create \/ Record \/ Lose \/ Fail

Spec == Init /\ [][Next]_vars
=============================================================================
