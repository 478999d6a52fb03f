------------------------------ MODULE TaskLife ------------------------------
(***************************************************************************)
(* What a caller of the A2A agent may rely on for one message it sends: a    *)
(* bare reply, or a task that is submitted, works, and then either completes *)
(* with one or two artifacts or fails with none.  Nothing follows the end.   *)
(***************************************************************************)
EXTENDS Naturals

VARIABLES state,      \* of the task, or of the exchange when there is no task
          artifacts   \* how many artifacts the task has

vars == <<state, artifacts>>

Init == state = "none" /\ artifacts = 0

Reply == state = "none" /\ state' = "replied" /\ UNCHANGED artifacts

Submit == state = "none" /\ state' = "submitted" /\ UNCHANGED artifacts

Work ==
    /\ state \in {"submitted", "working"} /\ artifacts = 0
    /\ state' = "working" /\ UNCHANGED artifacts

Produce ==
    /\ state = "working" /\ artifacts < 2
    /\ artifacts' = artifacts + 1 /\ UNCHANGED state

Complete ==
    /\ state = "working" /\ artifacts > 0
    /\ state' = "completed" /\ UNCHANGED artifacts

Fail ==
    /\ state = "working" /\ artifacts = 0
    /\ state' = "failed" /\ UNCHANGED artifacts

Next == Reply \/ Submit \/ Work \/ Produce \/ Complete \/ Fail

Spec == Init /\ [][Next]_vars
=============================================================================
