--------------------------- MODULE OutputOwnership ---------------------------
(***************************************************************************)
(* What the presentation promises of the renderer's output slots: a slot is *)
(* free, written by the renderer, ready for the consumer, read by it, or    *)
(* lost. The renderer writes only a slot that is free or ready; a slot being *)
(* read goes back only when the read is over, and a lost slot never does    *)
(* (the states of OutputLeaseState: "Retired and Cancelled return the       *)
(* source to its producer; Failed never does").                             *)
(***************************************************************************)
CONSTANT Slots
VARIABLE owner

Owners == {"free", "writing", "ready", "reading", "lost"}
Init == owner = [s \in Slots |-> "free"]

\* Several slots may change at once: a close ends every lease in one step.
Moves == {<<"free", "writing">>,
          <<"writing", "ready">>, <<"writing", "free">>,
          <<"ready", "free">>, <<"ready", "reading">>, <<"ready", "lost">>,
          <<"reading", "free">>, <<"reading", "lost">>}
Next ==
    /\ owner' \in [Slots -> Owners]
    /\ \A s \in Slots :
          owner'[s] = owner[s] \/ <<owner[s], owner'[s]>> \in Moves
Spec == Init /\ [][Next]_owner

=============================================================================
