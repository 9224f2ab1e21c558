------------------------------- MODULE MCLedger ------------------------------
(***************************************************************************)
(* The completion ledger on small instances. A behaviour has one workload:  *)
(* what the guest threads and the host do, and the bounds on it; Pump, its  *)
(* host calls and the guest's interrupt handler are in all of them. The     *)
(* bounds cap only what threads start, never a step of Pump.                *)
(***************************************************************************)
EXTENDS LedgerRefinement, FiniteSetsExt, TLC

CONSTANTS
    Workloads,    \* the workloads of the run
    main, worker  \* the guest threads
VARIABLE work     \* the behaviour's workload

\* Per workload: span ids handed out, records of the spans not yet released,
\* fences, callbacks, scratch values and op marks handed out (the clock), kicks,
\* tiled lists, guest threads, writeback blocks used, and
\* whether a guest access may fail.
Bounds ==
    LET B(spans, records, clocks, kicks, lists, threads, blocks, faults) ==
            [spans |-> spans, records |-> records, clocks |-> clocks,
             kicks |-> kicks, lists |-> lists, threads |-> threads,
             blocks |-> blocks, faults |-> faults]
    IN  [release |-> B(3, 2, 2, 2, 0, 1, 2, FALSE),
         resolve |-> B(3, 2, 2, 2, 0, 1, 2, FALSE),
         device  |-> B(2, 2, 2, 1, 0, 2, 1, FALSE),
         tile    |-> B(3, 1, 1, 3, 1, 2, 1, TRUE),
         side    |-> B(3, 2, 2, 2, 0, 1, 1, FALSE),
         fault   |-> B(2, 2, 2, 1, 0, 1, 1, TRUE),
         count   |-> B(2, 2, 2, 2, 0, 1, 1, FALSE),
         draw    |-> B(3, 2, 3, 2, 0, 1, 1, FALSE),
         skip    |-> B(2, 2, 3, 2, 0, 1, 1, FALSE),
         live    |-> B(3, 2, 2, 2, 0, 1, 1, FALSE),
         threads |-> B(1, 2, 1, 0, 0, 2, 1, FALSE),
         blocks  |-> B(2, 2, 1, 1, 0, 1, 2, FALSE)]

ASSUME MCLedgerAssumption ==
    /\ Workloads \subseteq DOMAIN Bounds
    /\ {main, worker} \subseteq Threads
    /\ \A w \in Workloads : 1 .. Bounds[w].blocks \subseteq Blocks
    /\ 1 \in Dests

Of == Bounds[work]
Bounded ==
    /\ ledger'.nextSpan <= Of.spans + 1
    /\ clock' <= Of.clocks
    /\ ledger'.kicks <= Of.kicks
    /\ ledger'.nextList <= Of.lists + 1
    /\ MapThenSumSet(LAMBDA id : Len(ledger'.spans[id].records), Live(ledger'))
          <= Of.records

Recorders == IF Of.threads = 1 THEN {main} ELSE {main, worker}
UsedBlocks == 1 .. Of.blocks
Register == \E block \in UsedBlocks : RegisterWriteback(block)

\* A pass of Pump outside its host calls; the steps a failing guest access
\* takes are in the workloads that let one fail.
Completion ==
    \/ Of.faults /\ (LoseReplayPointer \/ ReleaseFailed \/ AccessFailed)
    \/ WriteReplayPointer \/ Pause \/ BeginFlush \/ BeginApply \/ Release
    \/ ApplySkipped \/ ApplyInert
    \/ WriteCursor \/ WriteFence \/ WriteScratch
    \/ WaitOver \/ WaitLonger
    \/ ApplyDone

\* Guest progress without host work: fences, callbacks and waits against
\* kicks, failure and tear-down.
ReleaseNext ==
    \/ /\ \/ \E t \in Recorders :
                \/ \E block \in UsedBlocks : Fence(t, block)
                \/ Callback(t, {"raise", "wait"})
                \/ GpuWait(t, 1)
                \/ Kick(t)
          \/ Register \/ TeardownOps \/ Fail
       /\ Bounded
    \/ Completion \/ CallbackSteps
    \/ Environment

\* Every other record without host work, with guest accesses that may fail.
FaultNext ==
    \/ /\ \/ \E t \in Recorders :
                \/ ProgressOps(t) \/ UnmodeledOps(t) \/ Kick(t)
          \/ Register
       /\ Bounded
    \/ Completion \/ CallbackSteps
    \/ Environment

\* Draw roots opened, handed over, settled and abandoned while their spans
\* are kicked, flushed and torn down.
DrawNext ==
    \/ /\ \/ \E t \in Recorders : DrawOps(t) \/ Kick(t) \/ ScratchWrite(t)
          \/ DetachedOps
          \/ Register \/ TeardownOps \/ Fail
       /\ Bounded
    \/ Completion \/ FlushOps
    \/ HostCompletes

\* Resolves between their copy words, their swap and their image, against
\* tear-down and a holder of images.
ResolveNext ==
    \/ /\ \/ \E t \in Recorders :
                \/ ResolveOps(t) \/ FrameOps(t) \/ Kick(t)
                \/ \E block \in UsedBlocks : Fence(t, block)
          \/ Register \/ TeardownOps \/ HolderOps
       /\ Bounded
    \/ Completion \/ FlushOps \/ ImageOps
    \/ HostCompletes

\* Direct and deferred submits of a tiled list and its replays. The worker
\* only submits and kicks, as the thread 0x826ABEA8 does; the other threads
\* record.
TileNext ==
    \/ /\ \/ \E t \in {main} :
                \/ Kick(t)
                \/ BeginTiledList
                \/ \E s \in Segments, n \in Sizes :
                      DirectSubmit(t, s, n) \/ TiledSegment(t, s, n)
                      \/ Defer(t, s, n)
                \/ \E s \in Segments : SideCallback(t, {"raise"}, s)
          \/ WorkerOps(worker) \/ Kick(worker)
          \/ Register
       /\ Bounded
    \/ Completion \/ CallbackSteps

\* The records of EndTiling's side buffers, and silent submits.
SideNext ==
    \/ /\ \/ \E t \in Recorders :
                \/ SubmitOps(t) \/ SilentOps(t) \/ Barrier(t)
                \/ FirstPassCallback(t, {"raise"})
                \/ \E s \in Segments :
                      \/ SideCallback(t, {"raise"}, s)
                      \/ \E block \in UsedBlocks : SideFence(t, block, s)
                      \/ \E n \in Sizes : Defer(t, s, n)
          \/ TiledProgress \/ Register \/ DropEpoch
       /\ Bounded
    \/ Completion \/ CallbackSteps

Symmetry == Permutations(Segments)

\* Two threads that record, with a first-pass callback among their records.
TwoThreadNext ==
    \/ /\ \E t \in Recorders : Barrier(t) \/ FirstPassCallback(t, {"raise"})
       /\ Bounded
    \/ Completion

\* The device handed between threads, and the worker's deferred swap.
DeviceNext ==
    \/ /\ \/ \E t \in Recorders :
                \/ DeviceOps(t) \/ Barrier(t) \/ Kick(t)
                \/ MarkReplayThread(t)
                \/ Swap(t, 1)
          \/ Register \/ DropEpoch
       /\ Bounded
    \/ Completion

\* Fences, callbacks, clears and resolves of one guest thread under the
\* fairness of the completion worker.
LiveNext ==
    \/ /\ \/ \E t \in Recorders :
                \/ \E block \in UsedBlocks : Fence(t, block)
                \/ Callback(t, {"raise", "wait"})
                \/ Clear(t, TRUE)
                \/ ResolveOps(t)
                \/ Kick(t)
          \/ Register \/ TeardownOps \/ Fail
       /\ Bounded
    \/ PumpNext
    \/ HostCompletes \/ HandlerClearsMask

\* The workload's steps; it does not change.
MCNext ==
    /\ \/ work = "release" /\ ReleaseNext
       \/ work = "fault" /\ FaultNext
       \/ work \in {"draw", "skip"} /\ DrawNext
       \/ work \in {"resolve", "count"} /\ ResolveNext
       \/ work = "tile" /\ TileNext
       \/ work \in {"side", "blocks"} /\ SideNext
       \/ work = "device" /\ DeviceNext
       \/ work = "threads" /\ TwoThreadNext
       \/ work = "live" /\ LiveNext
    /\ UNCHANGED work
MCInit == Init /\ work \in Workloads
MCSpec == MCInit /\ [][MCNext]_<<vars, work>>
MCLiveSpec == MCSpec /\ Fairness

\* What the ledger and the guest see of the main buffer's fences holds while no
\* side buffer is recorded; the run side_fence shows what one does.
Sideless == work \notin {"tile", "side", "blocks"}

\* A fence that is recorded belongs to the block of its span's writeback, and a
\* guest that sees the fence also sees its cursor (OnFence's identity check and
\* ApplyFence's order of the two writes).
MainFencesSound == Sideless => FencesMatchWriteback /\ CursorCoversFence

\* Every span id of the run whose progress is settled is released, or a failure
\* or a tear-down ends the wait (Pump's loop; see SettledSpansRelease).
SpansRelease == SettledSpansRelease(1 .. Bounds["live"].spans)

=============================================================================
