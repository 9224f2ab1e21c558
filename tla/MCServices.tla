------------------------------ MODULE MCServices ------------------------------
(***************************************************************************)
(* The guest services on small instances: a behaviour has one workload,     *)
(* which says which calls the guest threads make.                           *)
(***************************************************************************)
EXTENDS GuestServices, TLC

CONSTANTS
    Workloads,
    MaxSets  \* bound: times the guest sets or removes its interrupt callback
VARIABLES work, sets
mcvars == <<vars, work, sets>>

\* "interrupts": callbacks, and the handler set and removed. "stubs": the ring
\* helpers of all threads. "calls": register accesses, registrations, swaps.
ASSUME Workloads \subseteq {"interrupts", "stubs", "calls"}

GuestCalls(g) ==
    \/ work = "interrupts" /\ RecordCallback(g)
    \/ work = "stubs" /\ g \in stubs.held /\ ledger.recorded = 0 /\ RecordCallback(g)
    \/ work = "stubs" /\ (Lease(g) \/ DisableRingStubs(g))
    \/ work = "calls" /\ (EnterMmio(g) \/ LeaveMmio(g) \/ RejectRegistration(g)
                              \/ Swap(g) \/ TellLedger(g))

MCInit == Init /\ work \in Workloads /\ sets = 0 /\ (work = "stubs" => service.handler)
MCNext ==
    /\ UNCHANGED work
    /\ \/ /\ UNCHANGED sets
          /\ \/ CompletionWorker \/ VblankRuns \/ HandlerReturns
             \/ \E g \in GuestThreads : GuestCalls(g)
             \/ StopProducers \/ Shutdown \/ Stops
       \/ /\ work = "interrupts" /\ sets < MaxSets /\ sets' = sets + 1
          /\ \E g \in GuestThreads : SetInterruptCallback(g)
MCSpec == MCInit /\ [][MCNext]_mcvars
MCLiveSpec == MCSpec /\ Fairness
=============================================================================
