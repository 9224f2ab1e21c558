------------------------------- MODULE HostWork -------------------------------
(***************************************************************************)
(* What the ledger is promised of the host (IDrawCompletion): host work has *)
(* consecutive values, a value completes only when its own work and that of *)
(* every earlier value is done, and nothing completes after the end.        *)
(***************************************************************************)
EXTENDS Naturals

VARIABLES
    submitted, \* the newest value
    done,      \* values whose work is done
    completed, \* every value up to this one is completed
    ended      \* the host was closed

vars == <<submitted, done, completed, ended>>

Init == submitted = 0 /\ done = {} /\ completed = 0 /\ ended = FALSE

Submit ==
    /\ submitted' = submitted + 1
    /\ done' \in {done, done \cup {submitted + 1}}
    /\ UNCHANGED <<completed, ended>>

Finish ==
    /\ done' \in SUBSET (1 .. submitted) /\ done \subseteq done'
    /\ UNCHANGED <<submitted, completed, ended>>

Complete ==
    /\ ~ended
    /\ completed' \in completed + 1 .. submitted
    /\ completed + 1 .. completed' \subseteq done
    /\ UNCHANGED <<submitted, done, ended>>

End == ended' = TRUE /\ UNCHANGED <<submitted, done, completed>>

Next == Submit \/ Finish \/ Complete \/ End
Spec == Init /\ [][Next]_vars
=============================================================================
