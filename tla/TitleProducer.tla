---------------------------- MODULE TitleProducer ----------------------------
(***************************************************************************)
(* The renderer thread of the title draw stream, as the presenter sees it   *)
(* (native_renderer_d3d12.cpp): it takes the output slots in turn, waits    *)
(* until the consumer returned the slot's last lease, lets the GPU write    *)
(* the slot, and publishes the frames whose fence completed in order. Any   *)
(* failure ends the stream for good; the thread then drains and leaves.     *)
(* What a frame draws is not modelled here.                                 *)
(***************************************************************************)
EXTENDS OutputGate

VARIABLES
    slots,    \* per output slot: its lease (0 for none) and the GPU's write
    producer, \* where the thread is, its queue of submitted frames
    removed   \* the device was removed

producerVars == <<slots, producer, removed>>

ProducerPhases == {"run", "reuse", "drain", "slots", "stopped"}

ProducerType ==
    /\ slots \in [Slots -> [lease : Nat, gpu : {"idle", "drawing", "done"}]]
    /\ producer \in [pc : ProducerPhases, submitted : Seq(Slots), next : Slots,
                     stop : BOOLEAN, awaited : SUBSET Slots,
                     abandoned : SUBSET Slots]
    /\ removed \in BOOLEAN

ProducerInit ==
    /\ slots = [s \in Slots |-> [lease |-> 0, gpu |-> "idle"]]
    /\ producer = [pc |-> "run", submitted |-> <<>>, next |-> 1,
                   stop |-> FALSE, awaited |-> {}, abandoned |-> {}]
    /\ removed = FALSE

----------------------------------------------------------------------------
(* The stream runs *)

\* A queued frame is taken and asks for the next output slot.
BeginFrame ==
    /\ producer.pc = "run" /\ ~producer.stop
    /\ producer' = [producer EXCEPT !.pc = "reuse"]
    /\ UNCHANGED <<gateVars, slots, removed>>

NextLease == slots[producer.next].lease
NextSubmitted == producer.next \in ToSet(producer.submitted)

\* Mutant of Returned: a failed lease returns its slot too.
ReturnedWhenEnded(t) == t # 0 => IsTerminal(StateOf(t))

\* Retired and Cancelled return the slot to its producer; Failed never does.
Returned(t) == t # 0 => StateOf(t) \in {"Retired", "Cancelled"}

\* Mutant of SlotAfter: the slots do not wrap.
SlotAfterUnwrapped(s) == s + 1

\* The slots are taken in turn.
SlotAfter(s) == (s % NumSlots) + 1

\* AwaitReuse first drops an offer of the slot nobody claimed.
CancelForReuse ==
    /\ producer.pc = "reuse" /\ ~NextSubmitted /\ NextLease # 0
    /\ Moved(NextLease, {"Published"}, "Cancelled")
    /\ UNCHANGED <<gate, producerVars>>

\* The slot is free: the frame is recorded and submitted, and the GPU starts
\* to write the slot; or its recording fails before anything is submitted.
TakeSlot ==
    /\ producer.pc = "reuse" /\ ~NextSubmitted /\ Returned(NextLease)
    /\ \/ /\ slots' = [slots EXCEPT ![producer.next] =
                         [lease |-> 0, gpu |-> "drawing"]]
          /\ producer' = [producer EXCEPT
                !.pc = "run", !.submitted = Append(@, producer.next),
                !.next = SlotAfter(@)]
       \/ /\ slots' = [slots EXCEPT ![producer.next].lease = 0]
          /\ producer' = [producer EXCEPT !.pc = "drain", !.stop = TRUE]
    /\ UNCHANGED <<gateVars, removed>>

\* Mutant of GiveUpSlot: the wait for the slot's fence has no deadline.
GiveUpLease ==
    /\ producer.pc = "reuse"
    /\ ~NextSubmitted /\ ~Returned(NextLease)
    /\ producer' = [producer EXCEPT !.pc = "drain", !.stop = TRUE]
    /\ UNCHANGED <<gateVars, slots, removed>>

\* The wait for the slot ends without it: a stop, the deadline of the wait or
\* of the lease, a failed lease, a fence that did not complete.
GiveUpSlot ==
    /\ producer.pc = "reuse"
    /\ NextSubmitted \/ ~Returned(NextLease)
    /\ producer' = [producer EXCEPT !.pc = "drain", !.stop = TRUE]
    /\ UNCHANGED <<gateVars, slots, removed>>

ObserveStop ==
    /\ producer.pc = "run" /\ producer.stop
    /\ producer' = [producer EXCEPT !.pc = "drain"]
    /\ UNCHANGED <<gateVars, slots, removed>>

----------------------------------------------------------------------------
(* Publication (retireSubmittedFrames) *)

Publishing == producer.pc \in {"run", "reuse", "drain"} /\ producer.submitted # <<>>
Oldest == Head(producer.submitted)

\* A refused frame ends the stream, and the drain of one that has ended.
AfterRefusal == IF producer.pc = "drain" THEN "slots" ELSE "drain"

\* The oldest frame the GPU finished is offered. It leaves the queue whatever
\* the gate answers.
Publish ==
    /\ Publishing /\ slots[Oldest].gpu = "done" /\ ~removed
    /\ \/ /\ OfferAccepted(Oldest)
          /\ slots' = [slots EXCEPT ![Oldest] =
                         [lease |-> Len(leases) + 1, gpu |-> "idle"]]
          /\ producer' = [producer EXCEPT !.submitted = Tail(@)]
       \/ /\ ~gate.accepting
          /\ slots' = [slots EXCEPT ![Oldest].gpu = "idle"]
          /\ producer' = [producer EXCEPT !.submitted = Tail(@),
                            !.pc = AfterRefusal, !.stop = TRUE]
          /\ UNCHANGED gateVars
    /\ UNCHANGED removed

\* A removed device: the renderer's own fence says so before the offer, or
\* the offer's validation finds it and ends admission.
PublishLost ==
    /\ Publishing /\ removed
    /\ \/ /\ UNCHANGED gateVars /\ UNCHANGED slots
          /\ producer' = [producer EXCEPT !.pc = AfterRefusal, !.stop = TRUE]
       \/ /\ slots[Oldest].gpu = "done"
          /\ OfferLost
          /\ slots' = [slots EXCEPT ![Oldest].gpu = "idle"]
          /\ producer' = [producer EXCEPT !.submitted = Tail(@),
                            !.pc = AfterRefusal, !.stop = TRUE]
    /\ UNCHANGED removed

----------------------------------------------------------------------------
(* The stream ended (the tail of the thread and shutdownOnRendererThread) *)

\* Every frame was retired, or the wait for the oldest gave up.
DrainFrames ==
    /\ producer.pc = "drain"
    /\ producer.submitted # <<>> => slots[Oldest].gpu = "drawing"
    /\ producer' = [producer EXCEPT !.pc = "slots", !.awaited = {}]
    /\ UNCHANGED <<gateVars, slots, removed>>

\* Each slot's lease is awaited once. A lease the consumer did not return on
\* a live device takes the slot's resource with it: it is never released.
AwaitSlot(s) ==
    /\ producer.pc = "slots" /\ s \in Slots \ producer.awaited
    /\ \A r \in 1 .. s - 1 : r \in producer.awaited
    /\ producer' = [producer EXCEPT !.awaited = @ \cup {s},
            !.abandoned = IF Returned(slots[s].lease) \/ removed
                          THEN @ ELSE @ \cup {s}]
    /\ UNCHANGED <<gateVars, slots, removed>>

\* The final wait for the GPU. Unless the device is gone, a frame still
\* running keeps every object of the renderer.
LeaveThread ==
    /\ producer.pc = "slots" /\ producer.awaited = Slots
    /\ \/ /\ \A s \in Slots : slots[s].gpu # "drawing"
          /\ producer' = [producer EXCEPT !.pc = "stopped"]
       \/ producer' = [producer EXCEPT !.pc = "stopped",
                          !.abandoned = IF removed THEN @ ELSE Slots]
    /\ UNCHANGED <<gateVars, slots, removed>>

ProducerSteps ==
    \/ CancelForReuse \/ TakeSlot \/ GiveUpSlot \/ ObserveStop
    \/ Publish \/ PublishLost \/ DrainFrames
    \/ \E s \in Slots : AwaitSlot(s)
    \/ LeaveThread

\* The resource of the slot still exists: the renderer holds it.
SlotHeld(s) == producer.pc # "stopped" \/ s \in producer.abandoned

----------------------------------------------------------------------------
(* The GPU *)

\* The frames run in the order of their submission.
FinishFrame ==
    \E i \in DOMAIN producer.submitted :
        /\ slots[producer.submitted[i]].gpu = "drawing" /\ ~removed
        /\ \A j \in 1 .. i - 1 : slots[producer.submitted[j]].gpu # "drawing"
        /\ slots' = [slots EXCEPT ![producer.submitted[i]].gpu = "done"]
        /\ UNCHANGED <<gateVars, producer, removed>>

=============================================================================
