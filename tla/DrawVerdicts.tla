----------------------------- MODULE DrawVerdicts -----------------------------
(***************************************************************************)
(* What the draw dispatch promises of the draws the guest threads enter     *)
(* (native_draw_dispatch.h): each gets its verdict once, after every earlier *)
(* draw of its thread has its own; a draw that is built on its guest thread  *)
(* is built in that order too; and a dispatcher is given back to its owner   *)
(* only when every draw that entered it has its verdict, and takes no other. *)
(***************************************************************************)
EXTENDS Naturals, Sequences

CONSTANTS Threads, Dispatchers

VARIABLES
    draws, \* the draws in entry order
    freed  \* dispatchers their owners may destroy

Init == draws = <<>> /\ freed = {}

Enter(t, d) ==
    /\ d \notin freed
    /\ draws' = Append(draws, [thread |-> t, owner |-> d,
                               built |-> FALSE, verdicts |-> 0])
    /\ UNCHANGED freed

Turn(i) ==
    \A j \in 1 .. i - 1 :
        draws[j].thread = draws[i].thread => draws[j].verdicts = 1

Build(i) ==
    /\ ~draws[i].built /\ draws[i].verdicts = 0 /\ Turn(i)
    /\ draws' = [draws EXCEPT ![i].built = TRUE]
    /\ UNCHANGED freed

Conclude(i) ==
    /\ draws[i].verdicts = 0 /\ Turn(i)
    /\ draws' = [draws EXCEPT ![i].verdicts = 1]
    /\ UNCHANGED freed

Free ==
    /\ freed' \in SUBSET Dispatchers /\ freed \subseteq freed'
    /\ \A i \in DOMAIN draws : draws[i].owner \in freed' => draws[i].verdicts = 1
    /\ UNCHANGED draws

Next ==
    \/ \E t \in Threads, d \in Dispatchers : Enter(t, d)
    \/ \E i \in DOMAIN draws : Build(i) \/ Conclude(i)
    \/ Free

Spec == Init /\ [][Next]_<<draws, freed>>

=============================================================================
