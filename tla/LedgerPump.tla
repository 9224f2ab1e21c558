------------------------------ MODULE LedgerPump -----------------------------
(***************************************************************************)
(* The completion thread's Pump and State::apply, the tear-down operations *)
(* that race it, and the host and guest it talks to.                       *)
(*                                                                         *)
(* Each step of Pump makes at most one guest access: the guest reads its   *)
(* memory without the ledger's locks. `pump.pc' names what comes next; at  *)
(* the pcs in UnlockedPCs `mutex' is free and other threads' operations    *)
(* come between. At pump.pc "take" and "took" Pump holds `imageWrites'.    *)
(*                                                                         *)
(* The draw completion (IDrawCompletion) and the sink (IGuestProgressSink) *)
(* are interfaces: a call returns any outcome their comments allow. A host *)
(* fence value is the newest op mark it covers.                            *)
(***************************************************************************)
EXTENDS LedgerSubmits

PumpPCs == UnlockedPCs \cup {"head", "apply", "fence", "mask", "release"}

NewPump == [pc |-> "idle", span |-> 0, mark |-> 0, result |-> "none"]

\* What a step no longer needs is forgotten.
Step(pc) ==
    pump' = [pc |-> pc,
             span |-> IF pc \in {"idle", "head"} THEN 0 ELSE pump.span,
             mark |-> IF pc = "take" THEN pump.mark ELSE 0,
             result |-> "none"]

\* The span Pump works on and its next record.
Cur == ledger.spans[pump.span]
Index == Cur.applied + 1
Rec == Cur.records[Index]

\* Mutant of Gone: the re-locked pass does not look for a failure or the end
\* of the session.
GoneWhenDropped == pump.span \notin Live(ledger)

\* Re-locked: the span was dropped, or may no longer release.
Gone == pump.span \notin Live(ledger) \/ ~Releasable(ledger, pump.span)

EffectAt(step) ==
    effect' = [span |-> pump.span, index |-> Index, step |-> step,
               turn |-> ~effect.turn]

\* The next record's effect is released; its stage starts over.
Applied == [ledger EXCEPT !.spans[pump.span].applied = @ + 1,
                          !.spans[pump.span].stage = 0]

\* A failed access leaves the record without an owner and ends the pass.
GiveUp ==
    /\ ledger' = Unown(ledger, pump.span, Index)
    /\ Step("idle")
    /\ UNCHANGED <<gate, guest, host, clock, effect>>

-----------------------------------------------------------------------------
(* Head of the release loop. *)

AtHead == pump.pc \in {"idle", "head"} /\ Releasable(ledger, ledger.oldest)

Front == ledger.spans[ledger.oldest]

ReplayWaits == /\ Front.kicked = 0
               /\ ledger.replayPointer # 0
               /\ ledger.writeback # 0

\* The read pointer passes the newest replay when the front is not kicked.
WriteReplayPointer ==
    /\ AtHead /\ ReplayWaits
    /\ guest' = [guest EXCEPT !.rptr = ledger.replayPointer]
    /\ ledger' = [ledger EXCEPT !.replayPointer = 0]
    /\ Step("head")
    /\ UNCHANGED <<gate, host, clock, effect>>

LoseReplayPointer ==
    /\ SinkFaults
    /\ AtHead /\ ReplayWaits
    /\ LET L == Unown(ledger, ledger.oldest, Len(Front.records) + 1)
       IN  IF Mode = "Census"
           THEN ledger' = [L EXCEPT !.replayPointer = 0] /\ Step("head")
           ELSE ledger' = L /\ Step("idle")
    /\ UNCHANGED <<gate, guest, host, clock, effect>>

\* Mutant of Ready: unsettled records.
ReadyPending == Closed(Front) /\ ~Front.unowned /\ ledger.writeback # 0

Ready == /\ Closed(Front) /\ Front.pending = 0 /\ ~Front.unowned
         /\ ledger.writeback # 0

\* Mutants of HostDone: submitted is enough; the target itself is not.
HostSubmitted(span) == span.lastAdmitted = 0 \/ host.submitted >= span.hostTarget
HostBeyond(span) == span.lastAdmitted = 0 \/ host.completed > span.hostTarget

HostDone(span) == span.lastAdmitted = 0 \/ host.completed >= span.hostTarget

\* Nothing more to release now.
Pause ==
    /\ pump.pc = "head"
    /\ \/ ~Releasable(ledger, ledger.oldest)
       \/ ~ReplayWaits /\ ~Ready
       \/ ~ReplayWaits /\ Front.flushed /\ ~HostDone(Front)
    /\ Step("idle")
    /\ UNCHANGED <<ledger, gate, guest, host, clock, effect>>

BeginFlush ==
    /\ AtHead /\ ~ReplayWaits /\ Ready
    /\ Front.lastAdmitted # 0 /\ ~Front.flushed
    /\ pump' = [pump EXCEPT !.pc = "flush", !.span = ledger.oldest,
                            !.mark = Front.lastAdmitted]
    /\ UNCHANGED <<ledger, gate, guest, host, clock, effect>>

BeginApply ==
    /\ AtHead /\ ~ReplayWaits /\ Ready
    /\ Front.lastAdmitted = 0 \/ (Front.flushed /\ HostDone(Front))
    /\ pump' = [pump EXCEPT !.pc = "apply", !.span = ledger.oldest]
    /\ UNCHANGED <<ledger, gate, guest, host, clock, effect>>

-----------------------------------------------------------------------------
(* FlushThrough, called without the lock. *)

\* The host submits everything through the mark and names the fence.
FlushFenced ==
    /\ pump.pc = "flush"
    /\ LET fence == MaxOf(host.submitted, pump.mark)
       IN  /\ host' = [host EXCEPT !.submitted = fence]
           /\ IF Gone THEN Step("idle") /\ UNCHANGED ledger
              ELSE /\ ledger' = [ledger EXCEPT
                         !.spans[pump.span].hostTarget = fence,
                         !.spans[pump.span].flushed = TRUE]
                   /\ Step(IF host.completed >= fence THEN "apply" ELSE "idle")
    /\ UNCHANGED <<gate, guest, clock, effect>>

\* Not possible yet: asked again on a later pass.
FlushRetry ==
    /\ pump.pc = "flush"
    /\ Step("idle")
    /\ UNCHANGED <<ledger, gate, guest, host, clock, effect>>

\* The record of the span's last admitted draw, for failure attribution.
AdmittedRecord(span) ==
    LET by == {i \in DOMAIN span.records :
                  span.records[i].mark = span.lastAdmitted}
    IN  IF by = {} THEN Len(span.records) + 1
        ELSE CHOOSE i \in by : \A j \in by : j <= i

\* Census then waits only for the work submitted before the failure.
FlushFailed ==
    /\ pump.pc = "flush"
    /\ LET L == Unown(ledger, pump.span, AdmittedRecord(Cur))
       IN  ledger' = IF Gone THEN ledger
                     ELSE IF Mode = "Census"
                     THEN [L EXCEPT !.spans[pump.span].hostTarget = host.submitted,
                                    !.spans[pump.span].flushed = TRUE]
                     ELSE L
    /\ Step("idle")
    /\ UNCHANGED <<gate, guest, host, clock, effect>>

-----------------------------------------------------------------------------
(* State::apply, one record after the other. *)

AtRecord == pump.pc = "apply" /\ Cur.applied < Len(Cur.records)

ApplyKind(kind) == AtRecord /\ ~Rec.skipped /\ Rec.kind = kind

\* Census: a skipped resolve's image is announced without the lock.
SkipsImage == Rec.kind = "Resolve" /\ Rec.mark # 0 /\ ~Rec.hostOnly

\* Mutant of ApplySkipped: leaves out records that have an owner.
SkipAny ==
    /\ AtRecord /\ ~SkipsImage
    /\ ledger' = Applied
    /\ UNCHANGED <<pump, gate, guest, host, clock, effect>>

ApplySkipped ==
    /\ AtRecord /\ Rec.skipped /\ ~SkipsImage
    /\ ledger' = Applied
    /\ UNCHANGED <<pump, gate, guest, host, clock, effect>>

SkipImage ==
    /\ AtRecord /\ Rec.skipped /\ SkipsImage
    /\ Step("skip")
    /\ UNCHANGED <<ledger, gate, guest, host, clock, effect>>

ImageSkipped ==
    /\ pump.pc = "skip"
    /\ IF Gone THEN Step("idle") /\ UNCHANGED ledger
       ELSE Step("apply") /\ ledger' = Applied
    /\ UNCHANGED <<gate, guest, host, clock, effect>>

\* Ordering records, settled draws and presented resolves write nothing.
ApplyInert ==
    /\ AtRecord /\ ~Rec.skipped
    /\ \/ Rec.kind \notin {"Resolve", "Fence", "ScratchWrite", "GpuWait",
                           "Callback"}
       \/ Rec.kind = "Resolve" /\ Rec.hostOnly
    /\ ledger' = Applied
    /\ UNCHANGED <<pump, gate, guest, host, clock, effect>>

\* Mutant of WriteCursor: the fence lands before the cursor.
WriteFenceFirst ==
    /\ ApplyKind("Fence")
    /\ guest' = [guest EXCEPT !.fence = Rec.value]
    /\ EffectAt(1) /\ Step("fence")
    /\ UNCHANGED <<ledger, gate, host, clock>>

\* The cursor lands before the fence.
WriteCursor ==
    /\ ApplyKind("Fence")
    /\ guest' = [guest EXCEPT !.cursor = Rec.value]
    /\ EffectAt(1) /\ Step("fence")
    /\ UNCHANGED <<ledger, gate, host, clock>>

WriteFence ==
    /\ pump.pc = "fence"
    /\ guest' = [guest EXCEPT !.fence = Rec.value]
    /\ EffectAt(2) /\ Step("apply")
    /\ ledger' = Applied
    /\ UNCHANGED <<gate, host, clock>>

WriteScratch ==
    /\ ApplyKind("ScratchWrite")
    /\ guest' = [guest EXCEPT !.scratch = Rec.value]
    /\ EffectAt(1)
    /\ ledger' = Applied
    /\ UNCHANGED <<pump, gate, host, clock>>

WaitOver ==
    /\ ApplyKind("GpuWait") /\ guest.word = Rec.value
    /\ ledger' = Applied
    /\ UNCHANGED <<pump, gate, guest, host, clock, effect>>

WaitLonger ==
    /\ ApplyKind("GpuWait") /\ guest.word # Rec.value
    /\ Step("idle")
    /\ UNCHANGED <<ledger, gate, guest, host, clock, effect>>

\* A callback first writes its slot and then the CPU mask.
Raises == "raise" \in Rec.flags
Waits == "wait" \in Rec.flags

WriteSlot ==
    /\ ApplyKind("Callback") /\ Raises /\ Cur.stage = 0
    /\ guest' = [guest EXCEPT !.slot = Rec.value]
    /\ EffectAt(1) /\ Step("mask")
    /\ UNCHANGED <<ledger, gate, host, clock>>

\* Mutant of WriteMask: the pass forgets it wrote the slot and the mask.
WriteMaskUnstaged ==
    /\ pump.pc = "mask"
    /\ guest' = [guest EXCEPT !.mask = TRUE, !.raised = FALSE]
    /\ EffectAt(2) /\ Step("raise")
    /\ UNCHANGED <<ledger, gate, host, clock>>

WriteMask ==
    /\ pump.pc = "mask"
    /\ guest' = [guest EXCEPT !.mask = TRUE, !.raised = FALSE]
    /\ EffectAt(2) /\ Step("raise")
    /\ ledger' = [ledger EXCEPT !.spans[pump.span].stage = 1]
    /\ UNCHANGED <<gate, host, clock>>

\* An interrupt nobody handled is raised again on a later pass.
RaiseAgain ==
    /\ ApplyKind("Callback") /\ Raises /\ Cur.stage = 1
    /\ Step("raise")
    /\ UNCHANGED <<ledger, gate, guest, host, clock, effect>>

\* Mutant of Raised: the pass goes on although the span may be gone.
RaisedUnchecked ==
    /\ pump.pc = "raise"
    /\ guest' = [guest EXCEPT !.raised = TRUE]
    /\ ledger' = IF pump.span \in Live(ledger)
                 THEN [ledger EXCEPT !.spans[pump.span].stage = 2] ELSE ledger
    /\ Step("apply")
    /\ UNCHANGED <<gate, host, clock, effect>>

\* Without the lock, the guest's handler runs before the call returns; the
\* pass goes on when the span is still there.
Raised ==
    /\ pump.pc = "raise"
    /\ guest' = [guest EXCEPT !.raised = TRUE]
    /\ IF Gone THEN Step("idle") /\ UNCHANGED <<ledger, effect>>
       ELSE /\ ledger' = [ledger EXCEPT !.spans[pump.span].stage = 2]
            /\ EffectAt(3) /\ Step("apply")
    /\ UNCHANGED <<gate, host, clock>>

\* No handler is registered yet, or the interrupt thread stops.
NotRaised ==
    /\ pump.pc = "raise"
    /\ Step("idle")
    /\ UNCHANGED <<ledger, gate, guest, host, clock, effect>>

RaiseDone == ApplyKind("Callback") /\ (Raises => Cur.stage = 2)

\* The guest clears its CPU bit; then the slot is retired.
AwaitMask ==
    /\ RaiseDone /\ Waits /\ guest.mask
    /\ Step("idle")
    /\ UNCHANGED <<ledger, gate, guest, host, clock, effect>>

Retired == 0

RetireSlot ==
    /\ RaiseDone /\ Waits /\ ~guest.mask
    /\ guest' = [guest EXCEPT !.slot = Retired]
    /\ EffectAt(4)
    /\ ledger' = Applied
    /\ UNCHANGED <<pump, gate, host, clock>>

CallbackDone ==
    /\ RaiseDone /\ ~Waits
    /\ ledger' = Applied
    /\ UNCHANGED <<pump, gate, guest, host, clock, effect>>

\* A guest word could not be read or written under the lock.
AccessFailed ==
    /\ SinkFaults
    /\ \/ ApplyKind("Fence") \/ ApplyKind("ScratchWrite")
       \/ ApplyKind("GpuWait")
       \/ ApplyKind("Callback") /\ Raises /\ Cur.stage = 0
       \/ RaiseDone /\ Waits
       \/ pump.pc \in {"fence", "mask"}
    /\ GiveUp

-----------------------------------------------------------------------------
(* Resolve images: the gate is taken before the lock, as tear-down does.   *)

WantImage ==
    /\ ApplyKind("Resolve") /\ ~Rec.hostOnly
    /\ pump' = [pump EXCEPT !.pc = "gate", !.mark = Rec.mark]
    /\ UNCHANGED <<ledger, gate, guest, host, clock, effect>>

\* With both locks the span is checked again; then the lock is let go.
PassGate ==
    /\ pump.pc = "gate" /\ gate = "free"
    /\ IF Gone THEN Step("idle") /\ UNCHANGED gate
       ELSE Step("take") /\ gate' = "pump"
    /\ UNCHANGED <<ledger, guest, host, clock, effect>>

\* TakeGuestImage returned the image and it is written.
WriteImage ==
    /\ pump.pc = "take"
    /\ guest' = [guest EXCEPT !.image = pump.mark]
    /\ EffectAt(1)
    /\ pump' = [pump EXCEPT !.pc = "took", !.result = "written"]
    /\ UNCHANGED <<ledger, gate, host, clock>>

\* The image is kept unencoded for later, is missing or unwritable, or the
\* source closes.
NoImage(result) ==
    /\ pump.pc = "take"
    /\ pump' = [pump EXCEPT !.pc = "took", !.result = result]
    /\ UNCHANGED <<ledger, gate, guest, host, clock, effect>>

ImageTaken ==
    /\ pump.pc = "took"
    /\ gate' = "free"
    /\ \/ /\ Gone \/ pump.result = "closing"
          /\ Step("idle") /\ UNCHANGED ledger
       \/ /\ ~Gone /\ pump.result = "error"
          /\ ledger' = Unown(ledger, pump.span, Index)
          /\ Step("idle")
       \/ /\ ~Gone /\ pump.result \in {"written", "held"}
          /\ ledger' = Applied
          /\ Step("apply")
    /\ UNCHANGED <<guest, host, clock, effect>>

-----------------------------------------------------------------------------
(* Every record is applied: the read pointer is written last. *)

ApplyDone ==
    /\ pump.pc = "apply" /\ Cur.applied = Len(Cur.records)
    /\ Step(IF ledger.writeback = 0 THEN "idle" ELSE "release")
    /\ UNCHANGED <<ledger, gate, guest, host, clock, effect>>

PopFront(L) ==
    [L EXCEPT !.oldest = @ + 1,
              !.spans = [id \in (L.oldest + 1) .. Back(L) |-> @[id]],
              !.replayPointer =
                  IF @ < L.spans[L.oldest].kicked THEN 0 ELSE @]

Release ==
    /\ pump.pc = "release"
    /\ IF Cur.kicked # 0
       THEN guest' = [guest EXCEPT !.rptr = Cur.kicked] /\ EffectAt(1)
       ELSE UNCHANGED <<guest, effect>>
    /\ ledger' = PopFront(ledger)
    /\ Step("head")
    /\ UNCHANGED <<gate, host, clock>>

ReleaseFailed ==
    /\ SinkFaults
    /\ pump.pc = "release" /\ Cur.kicked # 0
    /\ LET L == Unown(ledger, pump.span, Index)
       IN  IF Mode = "Census" THEN ledger' = PopFront(L) /\ Step("head")
           ELSE ledger' = L /\ Step("idle")
    /\ UNCHANGED <<gate, guest, host, clock, effect>>

-----------------------------------------------------------------------------
(* Other threads: failure, tear-down and the holder of unwritten images.   *)

\* A host failure without a record. (Census only counts one that is not
\* fatal.)
Fail ==
    /\ MutexFree /\ ~ledger.closed
    /\ ledger' = FailAt(ledger, Back(ledger))
    /\ UNCHANGED <<gate, pump, guest, host, clock, effect>>

RegisterWriteback(block) ==
    /\ MutexFree /\ ~ledger.closed
    /\ LET L == [ledger EXCEPT !.writeback = block]
           bad == {id \in Live(L) : \E i \in DOMAIN L.spans[id].records :
                      /\ L.spans[id].records[i].kind = "Fence"
                      /\ L.spans[id].records[i].block # block}
       IN  ledger' = IF bad = {} THEN L ELSE FailAt(L, OldestOf(bad))
    /\ UNCHANGED <<gate, pump, guest, host, clock, effect>>

\* CloseEpochWrites and BeginRingEpoch take the gate, then the lock, and
\* tell the image source of the dropped images after both.
MaxMark(marks) == CHOOSE m \in marks \cup {0} : \A n \in marks : n <= m

DropEpoch ==
    /\ MutexFree /\ gate = "free"
    /\ ledger' = Drop(ledger)
    /\ host' = [host EXCEPT !.discarding =
                   MaxOf(@, MaxMark(DroppedMarks(ledger)))]
    /\ UNCHANGED <<gate, pump, guest, clock, effect>>

DiscardGuestImages ==
    /\ host.discarding > host.discarded
    /\ host' = [host EXCEPT !.discarded = host.discarding]
    /\ UNCHANGED <<ledger, gate, pump, guest, clock, effect>>

Close ==
    /\ MutexFree /\ gate = "free" /\ ~ledger.closed
    /\ ledger' = [ledger EXCEPT !.closed = TRUE]
    /\ UNCHANGED <<gate, pump, guest, host, clock, effect>>

\* WithImageWrites: a holder of images writes them under the gate alone.
BeginImageWrites ==
    /\ MutexFree /\ gate = "free" /\ ~ledger.closed
    /\ gate' = "holder"
    /\ UNCHANGED <<ledger, pump, guest, host, clock, effect>>

EndImageWrites ==
    /\ gate = "holder"
    /\ gate' = "free"
    /\ UNCHANGED <<ledger, pump, guest, host, clock, effect>>

-----------------------------------------------------------------------------
(* The host's queue and the guest's CPUs. *)

HostCompletes ==
    /\ host.completed < host.submitted
    /\ host' = [host EXCEPT !.completed = host.submitted]
    /\ UNCHANGED <<ledger, gate, pump, guest, clock, effect>>

HandlerClearsMask ==
    /\ guest.mask /\ guest.raised
    /\ guest' = [guest EXCEPT !.mask = FALSE]
    /\ UNCHANGED <<ledger, gate, pump, host, clock, effect>>

GuestWritesWord(word) ==
    /\ guest.word # word
    /\ guest' = [guest EXCEPT !.word = word]
    /\ UNCHANGED <<ledger, gate, pump, host, clock, effect>>

NewGuest == [cursor |-> 0, fence |-> 0, scratch |-> 0, slot |-> 0,
             mask |-> FALSE, raised |-> FALSE, word |-> 0, image |-> 0, rptr |-> 0]

NewHost == [submitted |-> 0, completed |-> 0, discarding |-> 0,
            discarded |-> 0, detached |-> {}]

=============================================================================
