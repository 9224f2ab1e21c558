--------------------------- MODULE CompletionLedger --------------------------
(***************************************************************************)
(* The completion ledger: Init, Next, the specification with the fairness  *)
(* the completion worker's loop gives it, and its properties.              *)
(***************************************************************************)
EXTENDS LedgerPump

Init ==
    /\ ledger = NewLedger
    /\ gate = "free"
    /\ pump = NewPump
    /\ guest = NewGuest
    /\ host = NewHost
    /\ clock = 0
    /\ effect = [span |-> 0, index |-> 0, step |-> 0, turn |-> FALSE]

\* Flags 2 and 4 are both set when the caller sets neither.
CallbackFlags == (SUBSET {"raise", "wait"}) \ {{}}

\* Records that need no verdict.
ProgressOps(t) ==
    \/ InvalidateState(t)
    \/ Barrier(t)
    \/ ScratchWrite(t)
    \/ \E word \in {0, 1} : GpuWait(t, word)
    \/ \E block \in Blocks : Fence(t, block)
    \/ \E flags \in CallbackFlags : Callback(t, flags)

\* Records without a model.
UnmodeledOps(t) ==
    \/ Unmodeled(t)
    \/ BadTimestamp(t)
    \/ \E flags \in CallbackFlags : ForeignCallback(t, flags)

DrawOps(t) ==
    \/ \E site \in Sites : BeginDraw(t, site)
    \/ \E site \in Sites, verdict \in Verdicts : FinishDraw(t, site, verdict)
    \/ DetachDraw(t)

DetachedOps ==
    \E h \in host.detached :
        \/ \E site \in Sites, verdict \in Verdicts :
              FinishDetached(h, site, verdict)
        \/ AbandonDraw(h)

ResolveOps(t) ==
    \/ \E dest \in Dests : Resolve(t, dest)
    \/ \E outcome \in ResolveOutcomes : FinishResolve(t, outcome)

FrameOps(t) ==
    \/ \E admitted \in BOOLEAN : Clear(t, admitted)
    \/ \E dest \in Dests : Swap(t, dest)

SubmitOps(t) ==
    \/ Kick(t)
    \/ \E s \in Segments, n \in Sizes : DirectSubmit(t, s, n)

SilentOps(t) == SilentSubmit(t)

WorkerOps(t) ==
    \/ MarkReplayThread(t)
    \/ \E s \in Segments, n \in Sizes : ReplaySubmit(t, s, n)

TileOps(t) ==
    \/ BeginTiledList
    \/ \E s \in Segments, n \in Sizes : TiledSegment(t, s, n)
    \/ \E s \in Segments, n \in Sizes : Defer(t, s, n)
    \/ \E s \in Segments, block \in Blocks : SideFence(t, block, s)
    \/ \E s \in Segments, flags \in CallbackFlags : SideCallback(t, flags, s)
    \/ \E flags \in CallbackFlags : FirstPassCallback(t, flags)

DeviceOps(t) ==
    \/ Suspend
    \/ Resume
    \/ AcquireDevice(t)
    \/ ReleaseDevice(t)
    \/ BeginDeviceOwnerSwap(t)
    \/ EndDeviceOwnerSwap(t)

TeardownOps ==
    \/ DropEpoch
    \/ DiscardGuestImages
    \/ Close

HolderOps == BeginImageWrites \/ EndImageWrites

FailureOps == Fail \/ TiledProgress

RegisterOps == \E block \in Blocks : RegisterWriteback(block)

\* One pass of Pump. Another pass starts as soon as the last one ends.
FlushOps == FlushFenced \/ FlushRetry \/ FlushFailed

ImageOps ==
    \/ SkipImage \/ ImageSkipped
    \/ WantImage \/ PassGate \/ WriteImage
    \/ \E result \in {"held", "error", "closing"} : NoImage(result)
    \/ ImageTaken

CallbackSteps ==
    \/ WriteSlot \/ WriteMask \/ RaiseAgain \/ Raised \/ NotRaised
    \/ AwaitMask \/ RetireSlot \/ CallbackDone

ApplySteps ==
    \/ ApplySkipped \/ ApplyInert
    \/ WriteCursor \/ WriteFence \/ WriteScratch
    \/ WaitOver \/ WaitLonger
    \/ AccessFailed
    \/ ApplyDone

LoopSteps ==
    \/ WriteReplayPointer \/ LoseReplayPointer \/ Pause
    \/ BeginFlush \/ BeginApply
    \/ Release \/ ReleaseFailed

PumpNext ==
    LoopSteps \/ FlushOps \/ ApplySteps \/ CallbackSteps \/ ImageOps

Environment ==
    \/ HostCompletes
    \/ HandlerClearsMask
    \/ \E word \in {0, 1} : GuestWritesWord(word)

GuestOps(t) ==
    \/ ProgressOps(t) \/ UnmodeledOps(t)
    \/ DrawOps(t) \/ ResolveOps(t) \/ FrameOps(t)
    \/ SubmitOps(t) \/ SilentOps(t) \/ WorkerOps(t) \/ TileOps(t)
    \/ DeviceOps(t)

Next ==
    \/ \E t \in Threads : GuestOps(t)
    \/ DetachedOps
    \/ FailureOps \/ RegisterOps \/ TeardownOps \/ HolderOps
    \/ PumpNext
    \/ Environment

Spec == Init /\ [][Next]_vars

\* What the completion worker's loop and its partners give: the worker pumps
\* at least every millisecond (runCompletionWorker); the host finishes what it
\* submitted; a registered handler clears its CPU bit; and a flush, an
\* interrupt or an image that is not possible yet is possible in the end.
Fairness ==
    /\ WF_vars(PumpNext)
    /\ WF_vars(HostCompletes)
    /\ WF_vars(HandlerClearsMask)
    /\ SF_vars(FlushFenced)
    /\ SF_vars(Raised)
    /\ SF_vars(WriteImage)

-----------------------------------------------------------------------------
(* Types and the shape of the span window. *)

Handles == [span: Nat, index: Nat]

LedgerType(L) ==
    /\ L.oldest \in Nat \ {0} /\ L.nextSpan \in Nat
    /\ L.oldest < L.nextSpan
    /\ L.spans \in [Live(L) -> Span]
    /\ L.openDraws \in [Threads -> Handles]
    /\ L.openResolves \in [Threads -> Handles]
    /\ L.frontbuffer \subseteq Handles
    /\ L.writeback \in Blocks \cup {0}
    /\ L.closed \in BOOLEAN /\ L.epochPartial \in BOOLEAN
    /\ L.epochWork \in BOOLEAN /\ L.failedSpan \in Nat
    /\ L.submitEpoch \in Nat \ {0}
    /\ L.pendingSubmit \in [Threads ->
          [segment: Segments \cup {NoSegment}, dwords: Nat, epoch: Nat,
           worker: BOOLEAN]]
    /\ L.replay \subseteq Threads
    /\ DOMAIN L.lists \subseteq 1 .. (L.nextList - 1)
    /\ \A k \in DOMAIN L.lists : L.lists[k] \in [Segments -> Nat]
    /\ L.activeList \in Nat /\ L.nextList \in Nat \ {0}
    /\ L.held \in [Segments -> Seq(Record)]
    /\ L.heldList \in [Segments -> Nat]
    /\ L.heldFirst \in Seq(Record)
    /\ L.replayPointer \in Nat /\ L.kicks \in Nat
    /\ L.suspended \in BOOLEAN /\ L.ownerSwapSawSwap \in BOOLEAN
    /\ L.ownerSwapThread \in Threads \cup {NoThread}
    /\ L.deviceOwner \in Threads \cup {NoThread}

\* The state has its types, and there is always an open span
\* (spans.back() is used unchecked by every operation).
TypeOK ==
    /\ LedgerType(ledger)
    /\ gate \in {"free", "pump", "holder"}
    /\ pump \in [pc: PumpPCs, span: Nat, mark: Nat,
                 result: {"none", "written", "held", "error", "closing"}]
    /\ guest \in [cursor: Nat, fence: Nat, scratch: Nat, slot: Nat,
                  mask: BOOLEAN, raised: BOOLEAN, word: {0, 1}, image: Nat,
                  rptr: Nat]
    /\ host \in [submitted: Nat, completed: Nat, discarding: Nat,
                 discarded: Nat, detached: SUBSET Handles]
    /\ clock \in Nat
    /\ effect \in [span: Nat, index: Nat, step: Nat, turn: BOOLEAN]

-----------------------------------------------------------------------------
(* Safety. *)

\* Every operation takes spans.back() for the open span, and Pump takes
\* spans.front() for the oldest: the back span is open, every earlier one is
\* closed or deferred, and an open span has released nothing.
OnlyBackIsOpen ==
    \A id \in Live(ledger) :
        LET span == ledger.spans[id]
        IN  IF id = Back(ledger)
            THEN ~Closed(span) /\ span.deferred = NoSegment
                 /\ span.applied = 0 /\ ~span.flushed
            ELSE Closed(span) \/ span.deferred # NoSegment

\* A span counts its pending records, so `--span->pending' never wraps and a
\* span whose count is zero holds no record still awaiting its verdict.
PendingCounted ==
    \A id \in Live(ledger) :
        LET recs == ledger.spans[id].records
        IN  ledger.spans[id].pending =
               Cardinality({i \in DOMAIN recs : recs[i].pending})

\* Who still owes a record its verdict: the thread that opened the draw, the
\* thread whose resolve awaits its copy words, the holder of a detached draw,
\* or the next swap.
OwedBy(h) ==
    Cardinality({t \in Threads : ledger.openDraws[t] = h})
    + Cardinality({t \in Threads : ledger.openResolves[t] = h})
    + (IF h \in host.detached THEN 1 ELSE 0)
    + (IF h \in ledger.frontbuffer THEN 1 ELSE 0)

\* Until the session closes, exactly one party owes the verdict of each pending
\* record, across kicks, abandoned roots, hand-offs to other threads and swaps:
\* a span never waits for a verdict nobody will give.
EveryPendingIsOwed ==
    ~ledger.closed => \A id \in Live(ledger) : \A i \in DOMAIN ledger.spans[id].records :
        ledger.spans[id].records[i].pending =>
            OwedBy([span |-> id, index |-> i]) = 1

\* What Pump works on under the lock, after every place it let the lock go,
\* is the oldest span: pop_front never drops another span's work.
PumpAtFront ==
    ~MutexFree /\ pump.pc # "head" => pump.span = ledger.oldest

\* What OnFence, Kick and every other operation append to is the open back span,
\* and what Pump pops is the front it worked on, however they interleave.
SpanWindow == OnlyBackIsOpen /\ PumpAtFront

\* A span that releases is closed, settled and owned; nothing joins it after
\* its host fence was chosen.
ReleasingIsFrozen ==
    \A id \in Live(ledger) :
        LET span == ledger.spans[id]
        IN  span.applied > 0 \/ span.stage > 0 \/ span.flushed =>
                /\ Closed(span) /\ span.pending = 0
                /\ id = ledger.oldest

\* Unless the session failed, a fence lands only in the block whose writeback
\* is registered, also when the writeback is registered, or changed, after the
\* fence was recorded.
FencesMatchWriteback ==
    pump.pc = "fence" /\ ledger.failedSpan = 0 => Rec.block = ledger.writeback

\* The worker submits deferred spans in the order they were deferred, so their
\* kicks, and with them the read pointer, follow the record order.
DeferralsInOrder ==
    \A i, j \in Live(ledger) :
        /\ i < j
        /\ ledger.spans[i].deferred # NoSegment
        /\ ledger.spans[j].deferred # NoSegment
        /\ ledger.spans[j].kicked # 0
        => ledger.spans[i].kicked \in 1 .. (ledger.spans[j].kicked - 1)

\* A guest that sees the fence also sees the cursor of that fence.
CursorCoversFence == guest.cursor >= guest.fence

\* Unless the device was handed over or the session failed, one thread records
\* into a span.
OneThreadPerSpan ==
    Accepting(ledger) =>
        LET recs == ledger.spans[Back(ledger)].records
        IN  \A i, j \in DOMAIN recs : recs[i].by = recs[j].by

\* While a worker's deferred swap owns the device, the device is suspended
\* and every record of the open span is the worker's.
DeferredSwapIsAlone ==
    Accepting(ledger) /\ ledger.ownerSwapThread # NoThread =>
        /\ ledger.suspended
        /\ \A i \in DOMAIN ledger.spans[Back(ledger)].records :
              ledger.spans[Back(ledger)].records[i].by = ledger.ownerSwapThread

\* The worker's deferred submits and swap come in turn: its spans kick in
\* record order, and nobody records beside it while its swap has the device
\* (SubmitDeferred, BeginDeferredSwap).
WorkerInTurn == DeferralsInOrder /\ DeferredSwapIsAlone

-----------------------------------------------------------------------------
(* Action properties: what the guest sees. *)

Effect == effect' # effect

Precedes(a, b) ==
    \/ a.span < b.span
    \/ a.span = b.span /\ a.index < b.index
    \/ a.span = b.span /\ a.index = b.index /\ a.step < b.step

\* Effects become visible in record order, each at most once: no write, image
\* or interrupt repeats or overtakes, whatever pass of Pump releases it.
EffectsInOrder == [][Effect => Precedes(effect, effect')]_vars

\* After Close, or once a tear-down has dropped its span, no effect starts.
EffectsOfLiveSpans ==
    [][Effect => ~ledger.closed /\ effect'.span \in Live(ledger)]_vars

\* Unless a census counts the host's failure, no effect of a span is visible
\* before the host completed every operation admitted into it.
HostBeforeEffects ==
    [][Effect /\ effect'.span \in Live(ledger) =>
          \/ Mode = "Census" /\ ledger.spans[effect'.span].partial
          \/ host.completed >= ledger.spans[effect'.span].lastAdmitted]_vars

\* A span leaves the front released whole: closed and owned, every record
\* settled and applied, before the failing span; what a census left out it
\* reports as partial, and the other modes leave no record out.
ReleasedWhole ==
    [][ledger'.oldest = ledger.oldest + 1 /\ ledger'.nextSpan = ledger.nextSpan =>
          LET span == ledger.spans[ledger.oldest]
          IN  /\ Closed(span) /\ ~span.unowned
              /\ span.applied = Len(span.records)
              /\ \A i \in DOMAIN span.records :
                    /\ ~span.records[i].pending
                    /\ span.records[i].skipped => Mode = "Census" /\ span.partial
              /\ Releasable(ledger, ledger.oldest)]_vars

\* While a side buffer of EndTiling is held, nothing joins the open span but
\* the records of a side buffer that is submitted, unless the session fails.
\* (A record already in it may still settle.)
NothingPassesHeldBuffer ==
    [][LET b == Back(ledger)
           old == ledger.spans[b].records
           new == ledger'.spans[b].records
       IN  SideHeld(ledger) /\ Accepting(ledger') /\ b \in Live(ledger')
           /\ Len(new) > Len(old)
           => \E s \in Segments :
                 /\ SubSeq(new, Len(old) + 1, Len(new)) = ledger.held[s]
                 /\ ledger'.held[s] = <<>>]_vars

-----------------------------------------------------------------------------
(* Liveness. *)

\* A span whose progress is all recorded and settled, like every span before
\* it, is released in the end, whatever retries, host work and interrupts its
\* release takes; only a failure or a tear-down ends the wait.
Releasing(n) ==
    /\ n \in Live(ledger) /\ Releasable(ledger, n)
    /\ ledger.writeback # 0
    /\ \A id \in ledger.oldest .. n :
          Closed(ledger.spans[id]) /\ ledger.spans[id].pending = 0

Blocked(n) ==
    \/ ~Releasable(ledger, n) \/ ledger.writeback = 0
    \/ \E id \in Live(ledger) : id <= n /\ ledger.spans[id].unowned

SettledSpansRelease(spans) ==
    \A n \in spans : Releasing(n) ~> (n \notin Live(ledger) \/ Blocked(n))

=============================================================================
