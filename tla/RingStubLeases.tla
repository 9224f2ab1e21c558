---------------------------- MODULE RingStubLeases ----------------------------
(***************************************************************************)
(* The leases of the host ring stubs (ring_stubs.cpp): a guest thread that  *)
(* runs a ring helper on the host counts a lease and only then looks        *)
(* whether the stubs are active; a withdrawal clears `ringStubsActive' and  *)
(* only then looks whether leases are counted. No lock orders the two.      *)
(***************************************************************************)
CONSTANT GuestThreads

VARIABLE stubs  \* ringStubsActive, ringStubLeases as the threads it counts,
                \* and those whose AcquireRingStubLease returned true

StubStates == [active : BOOLEAN, counted : SUBSET GuestThreads,
               held : SUBSET GuestThreads]
StubsInit == stubs = [active |-> TRUE, counted |-> {}, held |-> {}]

CountLease(g) ==
    /\ g \notin stubs.counted
    /\ stubs' = [stubs EXCEPT !.counted = @ \cup {g}]

\* Mutant of CheckLease: a counted lease is taken for granted.
KeepLease(g) ==
    /\ g \in stubs.counted \ stubs.held
    /\ stubs' = [stubs EXCEPT !.held = @ \cup {g}]
CheckLease(g) ==
    /\ g \in stubs.counted \ stubs.held
    /\ stubs' = IF stubs.active
                THEN [stubs EXCEPT !.held = @ \cup {g}]
                ELSE [stubs EXCEPT !.counted = @ \ {g}]

ReleaseLease(g) ==
    /\ g \in stubs.held
    /\ stubs' = [stubs EXCEPT !.counted = @ \ {g}, !.held = @ \ {g}]

Deactivate == stubs' = [stubs EXCEPT !.active = FALSE]

\* DrainRingStubLeases: the loop's condition, for a caller without a lease.
LeasesDrained == stubs.counted = {}
=============================================================================
