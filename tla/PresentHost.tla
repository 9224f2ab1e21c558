----------------------------- MODULE PresentHost -----------------------------
(***************************************************************************)
(* The presenter's side of the device (plume_host.cpp): three work slots,   *)
(* the copy of a title frame and two draws, a marker that follows the       *)
(* presents, and the health a failure leaves behind. Only the presenter     *)
(* thread calls it, so an operation and all its waits are one step; the GPU *)
(* and the device's removal interleave with those steps.                    *)
(*                                                                          *)
(* Every wait may end early: its result is chosen, and only a success needs *)
(* the work to be done. A status the driver reports is no proof: a device   *)
(* reported lost may still run.                                             *)
(***************************************************************************)
EXTENDS TitleProducer

VARIABLES
    host, \* health, slots whose fence was not proved, a present not retired
    gpu   \* work the GPU has not finished, and the slot its copy reads

hostVars == <<host, gpu>>

WorkSlots == {"copy", "draw1", "draw2"}
GpuWork == WorkSlots \cup {"present"}
Health == {"Healthy", "Failed", "Unproved", "DeviceLost"}

HostType ==
    /\ host \in [health : Health, inFlight : SUBSET (WorkSlots \cup {"marker"}),
                 presents : BOOLEAN, draw : {"draw1", "draw2"}]
    /\ gpu \in [busy : SUBSET GpuWork, source : 0 .. NumSlots]

HostInit ==
    /\ host = [health |-> "Healthy", inFlight |-> {}, presents |-> FALSE,
               draw |-> "draw1"]
    /\ gpu = [busy |-> {}, source |-> 0]

HealthRank ==
    [h \in Health |-> CASE h = "Healthy" -> 0 [] h = "Failed" -> 1
                        [] h = "Unproved" -> 2 [] OTHER -> 3]

\* raise: the health only gets worse.
Raised(old, new) == IF HealthRank[new] > HealthRank[old] THEN new ELSE old
Healthy == host.health = "Healthy"

\* What observe may raise after a wait or a submit, and after a present: a
\* failed present leaves no work unaccounted for, a failed wait or submit does.
WaitFaults == {"Unproved", "DeviceLost"}
PresentFaults == {"Failed", "DeviceLost"}

\* An operation that fails raises the health and ends nothing else.
Fault(faults) ==
    \E h \in faults : host' = [host EXCEPT !.health = Raised(@, h)]

\* waitSlot proves the fence of a slot only when the GPU is done with it.
Proved(s) == s \notin host.inFlight \/ s \notin gpu.busy
Idle(s) == [host EXCEPT !.inFlight = @ \ {s}]

----------------------------------------------------------------------------
(* Drain: every slot in flight, then the presents behind a marker *)

\* Mutant of DrainProved: the presents behind the slots are not awaited.
SlotsProved == \A s \in host.inFlight \cap WorkSlots : s \notin gpu.busy

\* A marker is submitted only while a present is pending and the device lives.
DrainProved ==
    /\ \A s \in host.inFlight \cap WorkSlots : s \notin gpu.busy
    /\ (host.presents /\ ~removed) => "present" \notin gpu.busy

Drained(h) ==
    [h EXCEPT !.inFlight = IF h.presents /\ ~removed THEN {} ELSE @ \ WorkSlots,
              !.presents = @ /\ removed]

\* Some wait or the marker failed: the slots proved before and after it are
\* idle, those still busy stay in flight.
LeftInFlight ==
    {l \in SUBSET (host.inFlight \cup {"marker"}) :
        /\ l # {}
        /\ host.inFlight \cap gpu.busy \subseteq l
        /\ "marker" \in l \ host.inFlight => host.presents /\ ~removed}
FailedDrain(h, left) ==
    [host EXCEPT !.health = Raised(@, h), !.inFlight = left]
FailedDrains ==
    {FailedDrain(h, left) : h \in WaitFaults, left \in LeftInFlight}
DrainFailed == host' \in FailedDrains

----------------------------------------------------------------------------
(* Submits and presents *)

\* The GPU has work, unless the device is gone. A copy reads a source slot.
Issued(s, source) ==
    gpu' = IF removed THEN gpu
           ELSE [busy |-> gpu.busy \cup {s},
                 source |-> IF s = "copy" THEN source ELSE gpu.source]

\* SubmitSlot: the work runs, and its fence is pending.
SubmitOk(s, source) ==
    /\ host' = [host EXCEPT !.inFlight = @ \cup {s}]
    /\ Issued(s, source)

\* A refused submit may still have issued the work; its fence stays pending.
SubmitFailed(s, source) ==
    /\ \E h \in WaitFaults :
          host' = [host EXCEPT !.inFlight = @ \cup {s},
                     !.health = Raised(@, h)]
    /\ \/ UNCHANGED gpu
       \/ Issued(s, source)

\* Present queues work behind the draw that no slot's fence covers.
PresentQueued(health) ==
    /\ host' = [host EXCEPT !.presents = TRUE, !.health = Raised(@, health)]
    /\ Issued("present", 0)

OtherDraw == IF host.draw = "draw1" THEN "draw2" ELSE "draw1"

----------------------------------------------------------------------------
(* The end of the host *)

\* FinalizeDrain: only the removal of the device, not a reported loss, frees
\* owners whose work was not drained.
Retains(h) == h = "Unproved" \/ (h = "DeviceLost" /\ ~removed)
FinalHealth(drained, h) ==
    IF removed THEN "DeviceLost"
    ELSE IF ~drained \/ Retains(h) THEN "Unproved" ELSE h

FinishWork ==
    \E s \in gpu.busy :
        /\ gpu' = [gpu EXCEPT !.busy = @ \ {s},
                     !.source = IF s = "copy" THEN 0 ELSE @]
        /\ UNCHANGED <<gateVars, producerVars, host>>

RemoveDevice ==
    /\ ~removed /\ removed' = TRUE
    /\ gpu' = [busy |-> {}, source |-> 0]
    /\ UNCHANGED <<gateVars, slots, producer, host>>

=============================================================================
