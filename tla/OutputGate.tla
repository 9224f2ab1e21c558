------------------------------ MODULE OutputGate ------------------------------
(***************************************************************************)
(* Output leases and the gate that queues them (native_output_lease.h/.cpp, *)
(* offer_gate.h). A lease is one finished title frame the renderer offers   *)
(* to the presenter: it names the renderer's output slot and says who may   *)
(* still use it. The token of a lease is its index, as nextToken counts.    *)
(*                                                                          *)
(* Every lease method holds the lease's mutex and every gate method the     *)
(* gate's: each is one action here. Payloads, gamma generations, failure    *)
(* reasons and the counters nothing reads back are left out; a deadline is  *)
(* the freedom of every wait to give up.                                    *)
(***************************************************************************)
EXTENDS Integers, Sequences, FiniteSets, SequencesExt

CONSTANTS
    NumSlots,   \* output slots of the renderer (MaxPendingGpuOutputs)
    Capacity    \* offers the gate queues (capacity)

ASSUME GateConstants == NumSlots \in Nat \ {0} /\ Capacity \in Nat \ {0}

VARIABLES
    leases, \* every lease made, by token
    gate    \* the queue, its switches and the ledger of offers

gateVars == <<leases, gate>>

Slots == 1 .. NumSlots
LeaseStates == {"Published", "Claimed", "CopySubmitted",
                "Retired", "Cancelled", "Failed"}
IsTerminal(state) == state \in {"Retired", "Cancelled", "Failed"}
Lease == [slot : Slots, state : LeaseStates]
Tokens == DOMAIN leases
StateOf(t) == leases[t].state

GateType ==
    /\ leases \in Seq(Lease)
    /\ gate \in [queue : Seq(Nat), accepting : BOOLEAN, suspended : BOOLEAN,
                 lost : BOOLEAN, dropped : Nat, claimed : Nat, stale : Nat,
                 shown : Nat]

GateInit ==
    /\ leases = <<>>
    /\ gate = [queue |-> <<>>, accepting |-> TRUE, suspended |-> FALSE,
               lost |-> FALSE, dropped |-> 0, claimed |-> 0, stale |-> 0,
               shown |-> 0]

----------------------------------------------------------------------------
(* Leases *)

\* The lease's checked transition from one of a set of states.
Moved(t, from, to) ==
    /\ StateOf(t) \in from
    /\ leases' = [leases EXCEPT ![t].state = to]

\* Fail is refused, and changes nothing, unless a consumer owns the lease.
FailLease(t) ==
    leases' = IF StateOf(t) \in {"Claimed", "CopySubmitted"}
              THEN [leases EXCEPT ![t].state = "Failed"] ELSE leases

\* Cancel on each of a set of tokens: it takes only unclaimed leases.
CancelIn(ls, tokens) ==
    [t \in DOMAIN ls |->
        IF t \in tokens /\ ls[t].state = "Published"
        THEN [ls[t] EXCEPT !.state = "Cancelled"] ELSE ls[t]]

\* Terminate on every lease: unclaimed ones cancel, owned ones fail.
TerminateIn(ls) ==
    [t \in DOMAIN ls |->
        CASE ls[t].state = "Published" -> [ls[t] EXCEPT !.state = "Cancelled"]
          [] ls[t].state \in {"Claimed", "CopySubmitted"} ->
                [ls[t] EXCEPT !.state = "Failed"]
          [] OTHER -> ls[t]]

\* Mutant of DropCount: an offer its producer cancelled is not counted.
DropCountPublished(tokens) ==
    Cardinality({t \in tokens : StateOf(t) = "Published"})

\* Dropping a queued offer counts it when it is cancelled now or was before.
DropCount(tokens) ==
    Cardinality({t \in tokens : StateOf(t) \in {"Published", "Cancelled"}})

----------------------------------------------------------------------------
(* Gate operations *)

\* terminateLocked: no queued offer is counted as dropped.
TerminateAll(g) ==
    /\ leases' = TerminateIn(leases)
    /\ gate' = [g EXCEPT !.queue = <<>>]

\* Admission stops and every pending lease ends (terminateAdmission).
TerminateAdmission == TerminateAll([gate EXCEPT !.accepting = FALSE])

\* cancelQueuedLocked, after the caller changed the switches of g.
CancelQueued(g) ==
    LET queued == ToSet(gate.queue) IN
    /\ leases' = CancelIn(leases, queued)
    /\ gate' = [g EXCEPT !.queue = <<>>, !.dropped = @ + DropCount(queued)]

CloseGate == CancelQueued([gate EXCEPT !.accepting = FALSE])

SetSuspended(value) ==
    IF value THEN CancelQueued([gate EXCEPT !.suspended = TRUE])
    ELSE gate' = [gate EXCEPT !.suspended = FALSE] /\ UNCHANGED leases

\* offerLocked while the gate accepts. A suspended gate cancels the new
\* lease at once; otherwise it is queued and the oldest beyond the capacity
\* are dropped.
OfferAccepted(slot) ==
    LET t == Len(leases) + 1
        new == [slot |-> slot,
                state |-> IF gate.suspended THEN "Cancelled" ELSE "Published"]
        queue == Append(gate.queue, t)
        over == IF Len(queue) > Capacity THEN Len(queue) - Capacity ELSE 0
        evicted == {gate.queue[i] : i \in 1 .. over}
    IN  /\ gate.accepting
        /\ IF gate.suspended
           THEN /\ leases' = Append(leases, new)
                /\ gate' = [gate EXCEPT !.dropped = @ + 1]
           ELSE /\ leases' = CancelIn(Append(leases, new), evicted)
                /\ gate' = [gate EXCEPT
                              !.queue = SubSeq(queue, over + 1, Len(queue)),
                              !.dropped = @ + DropCount(evicted)]

\* An offer that names a removed device closes the gate and is refused.
OfferLost ==
    TerminateAll([gate EXCEPT !.lost = TRUE, !.accepting = FALSE])

\* claimNewest: the newest offer still published is claimed. Of the others,
\* those cancelled now or before are dropped, the rest are stale.
Claimable == {t \in ToSet(gate.queue) : StateOf(t) = "Published"}

\* Mutant of ClaimNewest: the offers the newest one replaces stay queued.
ClaimAndKeep(t) ==
    /\ t \in Claimable
    /\ \A u \in Claimable : u <= t
    /\ leases' = [leases EXCEPT ![t].state = "Claimed"]
    /\ gate' = [gate EXCEPT !.queue = SelectSeq(@, LAMBDA u : u # t),
                  !.claimed = @ + 1]

ClaimNewest(t) ==
    LET rest == ToSet(gate.queue) \ {t} IN
    /\ t \in Claimable
    /\ \A u \in Claimable : u <= t
    /\ leases' = [CancelIn(leases, rest) EXCEPT ![t].state = "Claimed"]
    /\ gate' = [gate EXCEPT !.queue = <<>>, !.claimed = @ + 1,
                  !.dropped = @ + DropCount(rest),
                  !.stale = @ + Cardinality(rest) - DropCount(rest)]

ClaimNone ==
    LET all == ToSet(gate.queue) IN
    /\ Claimable = {}
    /\ gate' = [gate EXCEPT !.queue = <<>>, !.dropped = @ + DropCount(all),
                  !.stale = @ + Cardinality(all) - DropCount(all)]
    /\ UNCHANGED leases

\* The ledger's OnPresent on success: the shown frame is the last presented.
OnPresented(t) == gate' = [gate EXCEPT !.shown = t]

=============================================================================
