# A verification of ReRevved's native GPU front end

ReRevved runs a recompiled console title. The title was written for a GPU that
runs beside its threads: it writes commands into a ring, and the GPU answers by
writing fences, scratch words, resolve images and a read pointer into guest
memory and by raising interrupts. ReRevved draws with the host's GPU instead, so
something must decide when each of those answers may appear, what host work they
wait for, on which thread an interrupt runs, and who may touch a finished frame
while it is on its way to the screen.

This project models those parts: TLA+ modules translated from the source, TLC
runs on small instances, and theorems that hold for every instance.

Paths below are relative to the project root (`src/src/...` is the program's
source, `src/docs/...` its documentation).

## 1. Inventory

| Component | State it keeps | Operations | Hard behaviour | Correct means |
|---|---|---|---|---|
| **Completion ledger** `gpu/completion/completion_ledger.*` | a queue of spans of records, open draws and resolves per thread, submits awaiting their kick, tiled lists, held side buffers, the device bracket, one failure | records, verdicts, kicks, submits, device brackets, tear-down, `Pump` | guest threads, draw holders and tear-down race a completion thread that lets go of its lock in the middle of a span; retries; guest accesses that fail | effects appear whole, once, in record order, after the host's work, never after a failure or a tear-down; nothing waits for ever |
| **Native completion source** `gpu/d3d12/native_completion_source.*` | entries of queued host work, images by op mark, kept encodings, the discard point | `Submit`, `Completed`, `TakeGuestImage`, `DiscardGuestImagesThrough`, `PeekGuestImage`, `Close` | several polling threads; a peek encodes without the lock; a discard or close while a readback is in flight | a value completes only when its work and all before it is done; an image is shown only finished, and never after its discard |
| **Renderer request stream** (part of the D3D12 renderer) `gpu/d3d12/native_renderer_d3d12.cpp` | queue, chain of recorded passes, submitted frames, the newest fence | queue, admit, record, submit, retire, fail, stop | refusals that break a chain or do not; failures after a submit; a stop while a request is recorded; a lost device | every promise is settled, once, with what the GPU did for it |
| **Guest GPU services** `gpu/guest_gpu_service.*` | worker threads and their flags, one interrupt request, the MMIO bridge | completion worker, vblank worker, registrations, swaps, `StopProducers`, `Shutdown` | two workers that wait for each other across a guest interrupt; bounded shutdown; guest code that does not return | an interrupt is raised once; a stop ends; nothing released is used |
| **Ring stubs** `gpu/guest_d3d/ring_stub*` | a flag and a count of leases; guest words (G+0x2B00, the worker's lists) | leases, submit, kick, swap, EndTiling | leases and their withdrawal meet without a lock; a worker lowers G+0x2B00 meanwhile | helpers in flight finish before the ledger closes; ledger order equals consumption order |
| **Presentation** `gpu/present/*`, output slots of the renderer | output leases, the offer gate, surface requests, host work slots, the drain | offer, claim, copy, retire, suspend, resize, present, close | producer, presenter, window and GPU race for one slot; every wait may give up; the device may be removed | a slot is written only when nobody reads it; every offer is accounted for; what the GPU may still read outlives it; a close ends |
| **Draw dispatch** `gpu/guest_d3d/native_draw_dispatch.*` | the installed and the withdrawn dispatcher, a count of uses, the active root of each thread, a queue of deferred roots, a list of held roots whose threads exited | begin, end, commit, thread exit, drain, install, remove | a removal races draw entries without a lock; roots end on the worker, on their thread, on another thread or at a removal; deadlines | each root has one verdict, in its thread's order; nothing reaches a removed dispatcher; no wait is for ever |
| Draw adapters `gpu/guest_d3d/*_draw_adapter*`, `native_draw_families.*` | none of their own | decode one draw's guest state, choose its native route | none (one call) | - |
| Guest progress hooks `gpu/completion/guest_progress_hooks.*` | a lease on the ledger, per-call scopes | translate intercepted guest functions into ledger calls | withdrawal of the ledger while a guest call is inside it | each guest emission reaches the ledger once |
| Frame assembler `gpu/guest_d3d/native_frame_assembler.*` | the open frame, its passes, epochs | dispatched draws, cuts at a flush, VdSwap | a flush cuts an epoch whose swap has not come | op marks are contiguous and each is submitted once |
| Upload and resource pools `gpu/d3d12/native_*pool*` | buffers tagged with fences | acquire, release, retire | reuse before the device has finished | no buffer is handed out while in flight |
| Guest resource registries `gpu/guest_d3d/*_registry*` | maps of surfaces and mirrors | look up, insert, invalidate | none (a mutex per call) | - |
| Save sidecar `save_sidecar*` | a file beside each save | write by temporary and rename | a crash between two files | a sidecar matches its save |
| Settings, rules, gameplay features, mods, menus, online services, audio, diagnostics, tools | tables, lists, overlays | sequential patches and lookups | none that a model checker reaches better than a test | - |

How they interact. Hooks and ring stubs on guest threads call the ledger (under
its `mutex`), holding a lease. Draw dispatch opens a record and reports its
verdict, perhaps through a detached handle on another thread. The completion
worker of the services calls `Ledger::Pump`, which calls the completion source
(`IDrawCompletion`) and the guest sink (`IGuestProgressSink`) and, for callbacks,
has the vblank worker raise an interrupt and waits for it. The frame assembler
submits spans of host work to the completion source, which queues them on the
renderer's request stream and advances when the GPU's fence does. The renderer
offers finished frames through the gate; the presenter claims, copies and
presents them. The application closes the ledger, the source, the stream and the
session, in that order.

`PROJECT.json` lists every component with its status, and every hazard with the
line where it bites and the properties that watch it.

## 2. What is modelled

    LedgerState        constants, records and spans, the helpers of State
      LedgerRecords    what guest threads record (InvalidateState .. Swap)
        LedgerSubmits  kicks, submits, tiled lists, device brackets
          LedgerPump   Pump and apply, tear-down, the host and the guest
            CompletionLedger   Init, Next, Spec, Fairness, the properties
              LedgerRefinement   INSTANCE GuestProgress WITH a mapping
                MCLedger         workloads and bounds for TLC
              LedgerProofs       the span window and the types, three theorems
                LedgerSafety       who owes a record, what Pump relies on,
                                   the order of effects, seven theorems
                  LedgerProgress     the refinement of GuestProgress
                    LedgerJoins        what joins the open span: the worker's
                                       turn, held buffers, fences (also of
                                       MCLedger)

    DrawStream         the renderer's request stream and its GPU fence
      NativeCompletion the completion source over it, INSTANCE HostWork
        MCCompletion     workloads and bounds
        CompletionProofs   the stream, types, images, peeks, the refinement
                           of HostWork

    RingStubLeases     leases of the ring stubs and their withdrawal
      GuestServices    workers, interrupts, bridge, stop and shutdown
        MCServices       workloads and bounds
        ServicesProofs   types and the three safety invariants

    OutputGate         leases and the gate that queues offers
      TitleProducer    the renderer thread's output slots
        PresentHost    the presenter's work slots, drain and health
          Presentation the pump, the window, the close, INSTANCE OutputOwnership
            MCPresentation   workloads and bounds
            PresentationProofs   leases, queue and GPU work, every safety
                                 property, the refinement of OutputOwnership

    DrawDispatch       hooks, sequencer, owners, INSTANCE DrawVerdicts
      MCDispatch       workloads and bounds
      DispatchProofs   types, removal, drains, the refinement of DrawVerdicts

    GuestProgress, HostWork, OutputOwnership, DrawVerdicts
                       the abstract specifications

The families meet at interfaces, and each side is modelled against the same one:
the ledger's environment is `IDrawCompletion`, which `NativeCompletion` is shown
to keep (`HostWork`); the services use of the ledger its callbacks, its failure
and its close; the presentation uses of the renderer its output slots; a verdict of the dispatch (`recorded`) is the ledger's
`FinishDraw`, or a detached one, which the ledger takes from any thread.

### The ledger

**State.** `ledger` is one record with the members of `CompletionLedger::State`
that `mutex` guards. Span ids are consecutive and never reused, so the deque
`spans` is a function on `oldest .. nextSpan - 1`. `gate` is the lock
`imageWrites`. `pump` is the completion thread's control state; `pump.pc` names
what `Pump` does next. `guest` holds the guest words it writes and polls, `host`
what `IDrawCompletion` knows. `clock` hands out fences, callback values and op
marks. `effect` is a history variable: span, record and step of the last effect.

**Actions.** A public member function other than `Pump` is one action under the
lock: it starts when the lock is free and composes, in the code's order, the
operators for the helpers it calls (`AbandonOpenResolve`, then `Admit`, then
`AppendRecords`, ...). `Pump` is a sequence of small actions, cut wherever it
makes a guest access or lets go of the lock (`UnlockedPCs`: the flush, the
interrupt, a skipped image, the gate, the image take), so that any other
operation may come between. A pass that ends returns to `"idle"`, and the next
one may start at once.

**Environment.** The host completes what was submitted; `FlushThrough` fences,
asks for a retry or fails; `TakeGuestImage` gives an image, keeps it, fails or
says it is closing; guest accesses fail when `SinkFaults`; the interrupt handler
clears its CPU bit; a guest word changes. Every outcome the interfaces' comments
allow is a disjunct.

**Abstractions.**

- Addresses are what the ledger compares: a block, a segment, a destination.
- A write pointer is the number of the kick that carries it. The guest's ring
  index advances with every kick and wraps only after all were released.
- The texts of failures, census forms, statistics, reports, and the watch
  brackets `HostWriting`/`HostWrote` change nothing the properties see; the
  read-only queries `Census`, `RequestFence`, `AwaitingResolveCopy` and
  `AwaitingWritebackRegistration` are left out.
- `GuestImageTake::before` (older held images written under a take) is left out:
  a take is the image of one mark.
- The host completes everything submitted in one step. The ledger compares
  `Completed()` with one target at a time.
- The sink and the draw completion are always configured.
- `Fail` is the fatal form; the census form that only counts changes no state
  of the model.
- `DiscardGuestImages` is a step of its own because the code calls it after both
  locks; `CloseEpochWrites` and `BeginRingEpoch` are one action, `DropEpoch`,
  since they do the same to this state.

### The completion source

**State.** `requests` is every request ever asked of the renderer's stream, in
call order, with its result (the promise); `stream` is the renderer thread, its
queue, the recorded chain (`prefix`), the submitted frames and the newest fence
value; `gpu` is the fence's completed value and whether the device is lost.
`source` holds the members of `D3D12CompletionSource`: pending entries, the
completed value, untaken images and kept encodings (a mark and the request that
made it), the discard point. A poll is a small program per thread (`polls`), with
`pendingMutex` in `holder`; a submit and a peek are programs of their own, cut
where the code lets go of its lock, waits, or calls the stream.

**Actions.** The caller queues or is refused (`QueueRequest`, `RefuseRequest`);
the renderer thread takes, admits, refuses, records, settles, retires, fails and
ends (`StreamNext`); the source submits, polls, takes, discards, peeks, closes.
A refusal at intake fails alone or breaks its chain; recording may fail before or
after its submit; a publication may be rejected; the device may be lost.

**Abstractions.** The request queue is entered through its depth (more than one)
or the direct stream's limit, which is what a build with the stream uses. What a
frame draws, the encoding of an image, storage accounting, diagnostic and
synchronous frames, `native_prefix_fence_missing` and the timing counters are
left out. A refused submit that changes nothing is no step. `Census` is the
weaker mode: in the others an unchained refusal is an error.

### The guest services

**State.** From the end of `Start`: the flags of `State` (`service`), the one
source-1 request (`irq`), the completion and vblank workers with their pc, the
MMIO bridge, one pc per guest thread, the application inside `StopProducers` or
`Shutdown`. `stubs` is the flag and the count of `ring_stubs.cpp`. The ledger is
its callbacks numbered in release order, the last one that may still release
(`limit`), `failed` and `closed`. `raised` is a history: interrupts begun per
callback.

**Actions.** Sections under `State::mutex` are one action each. What runs outside
it is not: a raised handler, the ledger's own calls, the wait for the result, the
swap that is assembled, the drain of leases. `StopProducers` is a program with a
deadline (`late`) that every wait may meet; `Shutdown` continues it. Handlers may
never return; leases may never be given back.

**Abstractions.** Registrations that are accepted are operations of the ledger
(`RegisterWriteback`, `DropEpoch` there) and change nothing here. `Start`'s own
failure paths, the vblank's clock, the register file and the debt reports are
left out. Atomics are sequentially consistent, as the code's orderings make them.

### The presentation

**State.** `leases` is every output lease by token, `gate` the offer queue with
its counters, `slots` the renderer's output slots (the lease each carries and the
GPU's write), `producer` the renderer thread, `host` the presenter's work slots
and health, `gpu` the work the GPU has not finished and the slot its copy reads,
`surface`, `window`, `pump` and `session` the rest of `native_presentation.cpp`
and `native_app_session.cpp`.

**Actions.** A lease method or a gate method is one action. One pump of the
presenter is some twenty steps, cut wherever another thread may see or change
something; a window event is a change of the window and its calls, each a section
under `surfaceMutex` followed by one under the gate's lock. Every wait for the GPU
may give up, every submit and present may fail, and a refused submit may still
have issued its work; the device may be removed at any time.

**Abstractions.** Letterboxing, overlays, captures, gamma, the idle canvas's redraw
test, pixel formats, traces and counters nothing reads are left out. A deadline is
the freedom of a wait to give up.

### The draw dispatch

**State.** `installed`, `removing`, `lock` and `inFlight` are the variables of the
same names (`nativeDrawDispatcher`, `removing`, `removalMutex`,
`nativeDrawInFlight`); the count is kept as the set of uses it counts. `orphans` is
the list of held roots by dispatcher, `jobs` and `running` each dispatcher's
sequencer. `roots` is every root in entry order, `hook` each guest thread's `active`
and where the thread is inside a hook, `removal` where each owner's
`RemoveNativeDrawDispatcher` is. `used` and `freed` are histories.

**Actions.** A step is one access of a shared atomic, one section under a lock, or
one callback: `BeginNativeDraw` alone is `Begin`, `Enter`, `Count`, `Reload`,
`DrainOrphans`, `NewRoot`, `BuildRoot` and a `ConcludeHere` for every orphan, and a
removal may do any of its steps between any two. `Conclude` is the whole of
`NativeDrawState::Conclude`: what it counts and reports is one verdict of the root,
and an abandonment counts as one. A post may fail (`PostFails`), a root may be left
by a skipped scope (`Begin` with an active root), a thread may exit at any point
(`Exit`), also with a held root whose node could not be queued. A callback may call
the removal (`RemoveInside`). `TimeOut` is each `return false` past the deadline, in
a state in which the code can take it.

**Abstractions.** Nested calls only fold into their root. Which reason a verdict
gives, the counters, first-seen records, probes and the census are left out. Taking
the lock and withdrawing are one step, since nothing reads `removing` without that
lock, and a try of the lock that fails changes nothing. Every dispatcher has a
sequencer; one without it defers nothing and waits for nothing. A dispatcher is
installed once: the application builds one per session
(`src/src/app.cpp`). That the worker numbers a root after a later root of *another*
thread is allowed, as in the code. A dispatcher's destructor without a removal that
returned true is not modelled: the application removes after the guest has exited
and, when the removal returns false, keeps the dispatcher for good.
`DrainNativeDraws` waits for the installed dispatcher only; a drain that begins
while a withdrawal is under way waits for nothing, and the properties say so.

**Mutants.** Operators introduced by a comment "Mutant of X" are plausible bugs
of X. Nothing uses them; `PROJECT.json` names, for each property, the mutant that
breaks it.

## 3. The abstract specifications

`GuestProgress` says what the guest is promised: its program is a row of spans of
operations; only closed spans run, oldest first, one operation after another,
each once and only when its verdict is in; then the read pointer passes the span.
A failure freezes the program from a span on, a tear-down discards it, nothing
runs after the end. It knows no lock, pass, retry, flush or half-written record.

`LedgerRefinement` maps a record to an operation (its kind, its value, whether
its verdict is owed), a skipped or presented one to an operation without effect,
`applied` to the operations done, plus one once the image of the next record is
written and not yet counted, and states `ImplementsGuestProgress`. Pump writes an
image without the ledger's lock, so another thread may meanwhile fail the very span
it belongs to (`RegisterWriteback` with a block that one of the span's fences does
not name): the image lands all the same and is then never counted. For the guest
the failure therefore takes effect once the image is written or given up
(`Frozen`); tear-down and `Close` wait for the gate and so never overtake it. The
run `strict` checks the refinement in six workloads, each with another part of the
ledger active; `resolve` has fences and two blocks for this race.
`LedgerProgress` proves it for every instance.

`HostWork` says what the ledger relies on: host work has consecutive values, a
value completes only when its own work and that of every earlier value is done,
and nothing completes after the end. `NativeCompletion` implements it
(`ImplementsHostWork`): a value is done when it drew nothing, when the GPU's fence
passed its request, or, in a census, when its terminal failed without submitting.
TLC checks this and `CompletionProofs` proves it for every instance.

`DrawVerdicts` says what the dispatch promises of draws: a draw enters, is built if
its guest thread builds it, and gets one verdict; both only after every earlier draw
of its thread has its verdict; a dispatcher is freed only when every draw that
entered it has its own, and none enters it afterwards. It knows no queue, worker,
held root, orphan or lock. `ImplementsDrawVerdicts` maps a root to its draw.

`OutputOwnership` says who owns an output slot: free, written, ready, read, lost,
and the moves between them. A slot that is read goes back only when the read is
over, a lost slot never. `ImplementsOutputOwnership` maps a slot's lease state and
the GPU's write to its owner. TLC checks this and `PresentationProofs` proves it for
every instance.

## 4. The runs

A *workload* chooses which operations a behaviour may perform: one workload per
behaviour, picked in the initial state, so that a run joins several small
instances instead of their product. Bounds (`MaxSpan`-like numbers in `Bounds`,
`MaxCallbacks`, ...) cap only what threads start. They are guards, not state
constraints, so every reachable state is expanded; `Pump`, the renderer thread,
the presenter and the workers are never restricted. `CHECK_DEADLOCK FALSE`: once
the bounds are used up and everything is released, every one of these systems
really is at rest.

| Run | Instance and workloads | Checks |
|---|---|---|
| `strict` | ledger, Strict: `release` (fences, callbacks, waits, kicks, failure, tear-down), `resolve` (resolves, clears, swaps, fences of two blocks, images, the gate), `draw` (roots begun, finished, mismatched, detached, abandoned across kicks, flushes, failures, tear-down and close), `device` (two threads, every device bracket), `tile` (a main thread and a replay worker, accesses may fail), `side` (EndTiling's side buffers, direct, deferred and silent submits) | `SpanWindow`, `MainFencesSound`, `EveryPendingIsOwed`, `WorkerInTurn`, `EffectsInOrder`, `EffectsOfLiveSpans`, `HostBeforeEffects`, `NothingPassesHeldBuffer`, `ImplementsGuestProgress` |
| `census` | ledger, Census: `fault` (every record without host work, any guest access may fail), `count` (resolves that are counted but not written) | `TypeOK`, `PendingCounted`, `ReleasedWhole` |
| `skip` | ledger, Skip, fair: `skip` (draws with and without a native route), `live` (fences, callbacks, clears, resolves of one thread) | `ReleasingIsFrozen`, `SpansRelease` |
| `source` | completion source, Census, depth 2, fair: `chains`, `mixed` (two pollers and the close), `direct`, `images` | `TypeOK`, `ImagesAreDone`, `PeekedIsLive`, `NoStaleImages`, `ImplementsHostWork`, `EveryValueCompletes` |
| `services` | two guest threads, two callbacks, fair: `interrupts`, `stubs`, `calls` | `TypeOK`, `CallbackRaisedOnce`, `LeasedSeeOpen`, `NothingUsesReleased`, `StopEnds`, `RaiseAnswered` |
| `present` | two output slots, a gate of two offers: `brief` and `loss` (failures, a removed device, a close), `reuse` (slots used again), `window` (resizes, suspensions) | `TypeOK`, `SourceStable`, `SourceHeld`, `OwnersOutliveGpu`, `DrainedIsIdle`, `OffersAccounted`, `FramesInOrder`, `ImplementsOutputOwnership` |
| `dispatch` | a queue of one, fair: `sequence` (two threads draw and drain), `removal` (two threads draw, hold and exit under a removal with a deadline), `again` (two owners remove and install a second dispatcher) | `TypeOK`, `RemovedIsUnused`, `DrainedDrawsDone`, `ImplementsDrawVerdicts`, `WaitsEnd` |
| `close` | one output slot, two frames, every failure, fair | `CloseEnds` |
| `two_threads`, `side_fence`, `restore`, `late` | the disagreements of section 6 | violated |

**Why the bounds are enough.** *Ledger.* Every hazard is a relation between the
span `Pump` works on and one that is opened, closed or dropped meanwhile: three
span ids give a span being released, one waiting and one open, and a fresh window
after a tear-down. Two records in unreleased spans give an order within a span
and one across spans. Two kicks order two read pointers; `tile` has three, for two
submissions and a replay between them. Two blocks, destinations or draw sites
give a match and a mismatch. Segments are interchangeable (`Symmetry`); liveness
is checked without symmetry. *Source.* A chain is a pass and its terminal; three
spans put one before and one behind a refusal, a failure or a loss. A second
poller is one that meets the lock taken, or gets it after the close. Two marks
give an image below a discard and one above. *Services.* Two callbacks are one
released and the next; a due vblank puts a guest handler in front of the request;
one `StopProducers` before `Shutdown` is a stop that comes twice; two threads are
a lease in flight and one refused. *Presentation.* Two slots and two offers make
the renderer wait for a slot while another is read; a third frame comes back to
the first slot; two window events are a change that races its reversal. *Dispatch.*
With a queue of one, three draws are one with the worker, one queued and one that
waits for room; two draws are one that ends on its thread or as an orphan and one
that follows it; two owners are a removal that times out and the one that finishes
it, a second dispatcher what a removal must not replace. Removals and time-outs are
not bounded.

**What the properties mean.** The comment above each definition states it. Some
need a word here.

- `EveryPendingIsOwed`: a span waits while one of its records is pending, so a
  record whose last owner forgot it would block the title for ever. Exactly one
  of the opening thread, the copying thread, the holder of a detached draw and
  the next swap owes it. It speaks of sessions that are not closed: `Close` drops
  what the next swap owes, since nothing releases after it.
- `HostBeforeEffects` excepts the partial spans of a census: it goes on after a
  failed flush and waits only for what was submitted, and the span says so. In
  the other modes a partial span waits like any other.
- `FencesMatchWriteback` speaks of sessions that have not failed. Once the
  session failed on a later span, another mismatch on an *earlier* one is not
  recorded (the first failure stands), and the earlier span may still release.
  It and `CursorCoversFence` hold of the main buffer (`MainFencesSound` is both),
  and the first is refuted for a held side buffer.
- `SpanWindow` (only the back is open, Pump works at the front), `WorkerInTurn`
  (deferred submits are consumed in order, a deferred swap has the device alone) and
  `NoStaleImages` (none below a discard, none after the close) each join two facts
  about one list that only mean something together.
- `DrainedDrawsDone` speaks of a drain that found a dispatcher, and of every root
  the thread ended before; the one it still holds for its commit is its own to end.
- `PeekedIsLive` relies on op marks being fresh, as the assembler hands them
  out: a mark that is submitted again while an old peek of it is under way could
  leave its old encoding behind.
- `SourceStable` and `SourceHeld` are the two sides of one hazard: no slot is
  drawn while a copy may still read it, and no side releases it, although a copy
  that is not proved finished may run for ever.
- `StopEnds` needs nothing of guest code: handlers and leases may hang.
  `RaiseAnswered` has the return of handlers as its hypothesis.

**Fairness.** *Ledger.* `runCompletionWorker` calls `Pump` again at once or after
a millisecond, so `Pump`'s steps are weakly fair. The host finishes submitted
work (weak). A handler whose interrupt was raised clears its CPU bit (weak). A
flush that answers "retry", an interrupt without a handler and an image that is
not taken are all answers the code may get for a while: they are strongly fair,
that is, a pass that asks again and again gets its answer in the end. Nothing is
assumed of guest threads, tear-down or failures: `SpansRelease` has a failure, a
tear-down, an unowned record and a missing writeback as escapes only. *Source.*
The completion worker polls for ever, a thread inside a call ends it, the
renderer thread runs, the GPU finishes what it was given unless it is lost.
Nobody has to submit, take, discard or close. *Services.* Both workers' own steps,
the application's next step of a stop it began, the passing of its deadline, and
the return of a register access, which never waits. *Presentation.* Every wait of
the presenter and of the renderer thread has a deadline, so their next step is
always taken; the GPU, the window and the application owe nothing. *Dispatch.*
Threads inside a hook, the worker and a removal under way take their next step, and
callbacks return. The guest need not end a draw, exit or commit, and a removal need
not be called again. `WaitsEnd` would not hold of a guest that posts for ever while
another thread drains (the code wakes a drain only when the queue is empty); the
bound on draws excludes that guest.

## 5. The proofs

Proved for every value of the constants (any threads, blocks, segments, sites,
pollers, marks, depth, callbacks, vblanks, stops, output slots, capacity, extents,
owners, dispatchers, every mode) and without any bound on behaviours:

| Theorem | Statement | Module |
|---|---|---|
| `WindowStays` | `Spec => []SpanWindow` | `LedgerProofs` |
| `NoEffectAfterTeardown` | `Spec => EffectsOfLiveSpans` | `LedgerProofs` |
| `TypeCorrect` | `Spec => []TypeOK` | `LedgerProofs` |
| `SafetyHolds` | `Spec => []SafetyInv` | `LedgerSafety` |
| `CountsAreRight` | `Spec => []PendingCounted` | `LedgerSafety` |
| `PendingIsOwed` | `Spec => []EveryPendingIsOwed` | `LedgerSafety` |
| `ReleasingStaysFrozen` | `Spec => []ReleasingIsFrozen` | `LedgerSafety` |
| `NoEffectOvertakes` | `Spec => EffectsInOrder` | `LedgerSafety` |
| `HostIsDoneBeforeEffects` | `Spec => HostBeforeEffects` | `LedgerSafety` |
| `SpansReleaseWhole` | `Spec => ReleasedWhole` | `LedgerSafety` |
| `LedgerKeepsProgress` | `Spec => ImplementsGuestProgress` | `LedgerProgress` |
| `WorkerKeepsTurn` | `Spec => []WorkerInTurn` | `LedgerJoins` |
| `HeldBufferGoesFirst` | `Spec => NothingPassesHeldBuffer` | `LedgerJoins` |
| `MainFencesAreSound` | `MainSpec => [](FencesMatchWriteback /\ CursorCoversFence)` | `LedgerJoins` |
| `WorkloadsKeepFences` | `MCSpec => []MainFencesSound` | `LedgerJoins` |
| `KeepsHostPromise` | `Spec => ImplementsHostWork` | `CompletionProofs` |
| `ImagesDone` | `Spec => []ImagesAreDone` | `CompletionProofs` |
| `TakenAwayStaysGone` | `Spec => []NoStaleImages` | `CompletionProofs` |
| `PeekedStaysLive` | `Spec => []PeekedIsLive` | `CompletionProofs` |
| `SourceTypeCorrect` | `Spec => []TypeOK` | `CompletionProofs` |
| `RaisedOnce` | `Spec => []CallbackRaisedOnce` | `ServicesProofs` |
| `LeasesFinish` | `Spec => []LeasedSeeOpen` | `ServicesProofs` |
| `ReleasedUnused` | `Spec => []NothingUsesReleased` | `ServicesProofs` |
| `ServicesTypeCorrect` | `Spec => []TypeOK` | `ServicesProofs` |
| `SourceNotWritten` | `Spec => []SourceStable` | `PresentationProofs` |
| `SourceKeptAlive` | `Spec => []SourceHeld` | `PresentationProofs` |
| `OwnersReleasedIdle` | `Spec => []OwnersOutliveGpu` | `PresentationProofs` |
| `DrainReportedTrue` | `Spec => []DrainedIsIdle` | `PresentationProofs` |
| `OffersCounted` | `Spec => []OffersAccounted` | `PresentationProofs` |
| `FramesShownInOrder` | `Spec => FramesInOrder` | `PresentationProofs` |
| `KeepsOutputOwnership` | `Spec => ImplementsOutputOwnership` | `PresentationProofs` |
| `PresentationTypeCorrect` | `Spec => []TypeOK` | `PresentationProofs` |
| `RemovedStaysUnused` | `Spec => []RemovedIsUnused` | `DispatchProofs` |
| `DrainsWait` | `Spec => []DrainedDrawsDone` | `DispatchProofs` |
| `DispatchKeepsVerdicts` | `Spec => ImplementsDrawVerdicts` | `DispatchProofs` |
| `DispatchTypeCorrect` | `Spec => []TypeOK` | `DispatchProofs` |

The assumptions are those on the constants alone: `LedgerAssumption`,
`StreamConstants`, `SourceConstants`, `ServiceConstants`, `GateConstants`,
`ExtentConstants`, `DispatchConstants`; `WorkloadsKeepFences`, which is about the
specification of the runs, also needs what `MCLedger` assumes of its workloads.

### The ledger

Neither of its first two theorems is inductive alone. That `Pump` works on the
oldest span depends on what the span looks like: the step that leaves the unlocked
flush must know that a span still in the window and at the front *then* is at the
front *now*; this needs that only `Pump` pops, that tear-down empties the window,
and that every guest call leaves closed spans closed and keeps the back span open.
The invariant is

    PumpOwns == Window(ledger) /\ PumpInWindow

`Window` says that the window is not empty, that its back span is open, untouched
and not deferred, and that earlier spans are closed or deferred. `PumpInWindow`
says, for each pc, whether the span in hand is the oldest one (lock held) or may
have left the window (lock free), that no live span older than it exists, and
that it is closed as long as it lives.

`LedgerProofs` first shows how each helper acts on the window: most guest calls keep
every span's closing state (`Calls`, `CallsKeep`), a kick or deferral moves the
back on by one (`Advanced`), a tear-down replaces the window. Then it has
one lemma per group of actions (`LoopOwns`, `FlushOwns`, `ApplyOwns`,
`CallbackOwns`, `ImageOwns`, `TeardownOwns`, `OthersOwn`), joined in `StepOwns`.
The action property `EffectsOfLiveSpans` then follows step by step: an effect is
made under the lock, for the oldest live span of a session that is not closed, or
at `"take"` under the gate, which keeps tear-down out; the second case is why the
invariant also records who holds the gate.

`TypeOK` is not inductive either. Its invariant is

    TypeInv == PumpOwns /\ Clocked /\ PeerTypes /\ FenceAtRecord

`Clocked` is the ledger's types with more in them: no op mark is newer than
`clock`, the presented resolves are finitely many, and a submit that awaits its
kick names a segment. The bound on op marks is what gives the newest mark that a
swap, a verdict or a tear-down picks a value; without it `MaxMark` and
`lastAdmitted` need not be numbers. `PumpOwns` is needed because the record `Pump`
reads belongs to a span of the window only while that span is the front, and
`FenceAtRecord` says that between the cursor and the fence it is still there.
`LedgerProofs` has one lemma per helper (`UnownTyped`, `AdmitTyped`,
`SwapSettlesTyped`, `MainKickTyped`, ...), each built from the change of one field
of one span; it has one per guest operation (`KickClocked`, ...)
and one per part of `Pump` (`LoopTyped`, ...), and joins them.
`Span.pending` is only typed as an integer: that the unsigned count never wraps
is `CountsAreRight`.

The remaining theorems of the ledger answer one question: why may `Pump` read a
span, let the lock go for a flush, an access, an image or an interrupt, and write
by what it read? Their invariant is

    SafetyInv == TypeInv /\ Intact /\ SpansWait /\ FrontTaken
                 /\ PassSteady /\ EffectsBehind

`Intact` is about the ledger alone. Every handle that a thread, a detached draw or
the next swap keeps is of a pending record or of a span that was dropped (`Debts`);
no two of them keep the same one (`Apart`); until the close no pending record
is without a keeper (`Covered`); a span counts its pending records (`Counted`).
None of these is inductive alone: a verdict counts one down because its record was
pending, which its keeper knows, and the others' handles stay good because they
are others. So a closed span whose count is zero is *settled*: no verdict, swap,
abandoned draw or unowned call of any thread changes a field of it. `Since` says
this of every guest operation, for the ledger before and after it: settled spans are
as they were, `Pump` has not begun with the others, and the failing span stays.

`SpansWait` says which spans are begun (only the front), what the front's host
target covers, and that a callback half done is the front's next record.
`FrontTaken` and `PassSteady` say what each pc has learnt of the front, as far as
the span in hand still is the front: a tear-down may have dropped it meanwhile, and
then `Pump` finds it gone. `EffectsBehind` says where the last effect was: behind
the front's next step, or in a record left out; it is what `EffectsInOrder` needs.

`LedgerSafety` shows `Intact` and `Since` for each guest operation from one lemma
per helper (`Sound`), then one lemma per part of `Pump` (`FlushSafe`, `ApplySafe`,
`StageSafe`, `CallbackSafe`, `ImageSafe`), and joins them in `StepSafe`. With the
invariant `EffectsInOrder`, `HostBeforeEffects` and `ReleasedWhole` are read off
the few steps that make an effect or pop a span.

The refinement of `GuestProgress` asks of a guest operation more than that it leaves
settled spans alone. `LedgerProgress` shows that a call only *continues* the program
(`Continues`): a record that is owed its verdict may get its value or turn out to
write nothing, a settled one only turns out to write nothing; records join the back
span only; closed spans keep their read pointer; a new back span is empty; and the
session fails at most once, at a live span. `Onward` is the same for the helpers a
call is made of, one lemma each. Of `Pump` it shows that each step is one of nine
(`PumpStep`: it rests, performs the next record, spoils it, retires the span, passes
replayed tiles, or takes, writes, counts or leaves an image), and that each of them
is a step of `GuestProgress` or is not seen. What relates the image in flight to the
record it is of is inductive only with

    ImageInv == OnImage /\ WrittenLanded /\ LandedWritten
                /\ NotFailedBefore /\ AtItsRecord /\ WithinRecords

beside `SafetyInv`: an image that was written and is not counted yet is the last
effect the guest saw, and conversely, as long as the span may still release; and
while the image's lock is held no span before the one in hand fails, which is what
lets the failure of the span itself take effect later.

`LedgerJoins` is about what enters the open span. Each call is one of four moves
(`MainMoves`): it records at most one entry of its own, and only while the device is
its thread's and no side buffer is held (`Only`); it hands the device over and
leaves the entries (`DeviceOps`); it joins exactly the records of one side buffer,
empties that buffer, and may open a fresh span (`Joins`); or it only changes what is
held (`Aside`). `Steady` is the part of a call that does nothing of this, one lemma
per helper. `HeldBufferGoesFirst` is read off these moves. That deferred spans kick
in order is inductive with the kick counter (`Turned`: no span has a kick past
it) and, inside a kick, with *before* it (`Early`): the worker's kick takes the
number that is past every earlier one and gives it to the oldest deferred span
without one. That its deferred swap is alone (`TurnInv` has both) needs that the
device changes hands only with an empty open span or with a failed session.

The fences hold of the behaviours in which no `EndTiling` records a fence in a side
buffer; with one they do not (finding 2). `MainNext` leaves out that call and no
other. The invariant is

    MainInv  == SafetyInv /\ ImageInv /\ TurnInv /\ FenceInv
    FenceInv == HeldFenceless /\ FencesRise(ledger)
                /\ FencesWait(ledger, clock, guest.cursor)
                /\ guest.fence <= guest.cursor /\ guest.cursor <= clock
                /\ FencesOfBlock(ledger) /\ AtFence /\ PassRegistered

Fence values rise in the order of the window, as each new fence takes the newest
value and joins the end (`Brings`); so the fence `Pump` writes is the smallest that
waits, the cursor never passes one that waits, and the fence written after it is the
cursor's. `PassRegistered` says that a pass which holds a span found a block
registered, and only a tear-down, which takes the span away too, clears that.
`WorkloadsKeepFences` shows workload by workload that the runs without side
buffers take only such steps.

### The completion source

That a completed value has its GPU work behind it rests on what a settled promise
says, and so on where a request can be:

    CompletionInv == StreamInv /\ SourceInv
    StreamInv     == StreamType /\ Placed /\ Settlement
    SourceInv     == SourceType /\ EntriesInv /\ Locked /\ PeekInv /\ ImagesInv
                     /\ (~source.closed => FailedUnsubmitted)

`Placed`: a request is queued, recorded or among the frames to retire, in one of
them at a time, and has a fence only from its recording on. `Settlement`: a kept
promise is of submitted work, a terminal's of finished work. `FailedUnsubmitted`:
a failure that names no fence is of work that was never submitted. The stop of the
stream from outside breaks that, as it cancels the terminal being recorded, and
it is why the application closes the source first: the invariant carries it only
until the close. `EntriesInv`, `Locked`, `PeekInv`, `ImagesInv` say what pending
entries, a poll that holds the lock, a peek and the images refer to. That a peek's
completion is still to be had when it is used (`PeekedStaysLive`) needs `NamesInv`:
marks are named once (`named`), so what is pending, held, cached or peeked under one
mark is the same work.

The first part of `CompletionProofs` has the lemmas about the stream alone, each
action changing one place of a request; their common summary is `Keeps`, what no
step of the stream or the GPU takes back, and the rest needs only that. In the
refinement a value's work, once done, stays done (`DoneGrows`), and a poll that
pops an entry has seen its fence or its skippable failure (`PoppedIsDone`), so
each step maps to a `Submit`, `Finish`, `Complete` or `End` of `HostWork`, or to a
stutter (`HostStarts`, `HostStep`).

### The guest services

Each safety invariant has a strengthening of its own. `LeaseInv` follows the
withdrawal step by step: nothing is published once it started, the flag is down
past its first step, and past the drain no lease is held unless it gave up;
`CheckLease` and `Deactivate` need no common lock because each side writes before
it reads. `ReleaseInv` says what has ended at each point of the shutdown: a done
flag that survives the joins is of a thread that ended. `RaiseInv` says where the
one interrupt request is between the two workers and how often source 1 has run
for the oldest callback at each place; it is what makes "no request is served
twice, and a stopped wait releases nothing" inductive.

### The presentation

The presenter, the renderer thread, the window and the GPU share slots, leases, a
queue of offers and the device. `IInv` in `PresentationProofs` has a part for each:

    IInv == TypeOK /\ LeaseInv /\ SlotInv /\ QueueInv /\ ShownInv
            /\ OffersAccounted /\ PumpInv /\ CopyInv /\ BusyInv
            /\ AwaitInv /\ CloseInv

A lease that is not retired or cancelled is the lease of its slot (`LeaseInv`), and
a slot the GPU writes or has written has none (`SlotInv`). A copy reads the slot of
the lease in hand or of a kept one (`CopyInv`, `PumpInv`), and those are neither
retired nor cancelled: so never a slot that is drawn. Both sides hold what it
reads, because a renderer thread that leaves gave up each slot whose lease had not
come back (`AwaitInv`). All work the GPU has not finished is in flight in the host
(`BusyInv`): so a drain that proved every slot finished, step by step, left the GPU
idle, and what the steps of a close did before (`CloseInv`) stays done. The queue
holds unclaimed offers in order, all newer than what was claimed or shown
(`QueueInv`, `ShownInv`), so the frames shown go forward. The refinement maps each step to moves of single slots
with the same invariant.

### The draw dispatch

That nothing reaches a removed dispatcher rests on an order of two accesses on each
side: a hook counts its use *before* it reads `installed` again and gives it back
*after* its last access; a removal empties `installed` *before* it reads the count.

    IInv == TypeOK /\ SessionInv /\ HookInv(t) /\ QueueInv(d) /\ RemovalInv(o)

A dispatcher is *live* while it is installed or waits for a removal. `HookInv`: what
a guest thread reaches (a root, a drain's target, orphans it refuses) is live, and
the use is counted. `QueueInv`: a queue or a list that is not empty is of a live
dispatcher, or of one whose removal is taking that list. `SessionInv`: no live
dispatcher is freed, and none is installed while a removal holds the lock.
`RemovalInv`: once a removal saw no use, every guest thread is out of the hooks, and
stays out, because what it could read is empty; once it saw the sequencer idle it
stays idle. What is left when it returns is nothing. Each action is a lemma
(`EnterKept`, ..., `TimeOutKept`).

`DrainInv` adds where a root without its verdict is (`OwedInv`): active on its
thread, about to get its verdict there, queued, or of a thread that has exited. It
is what makes "the queue is empty and the worker idle" mean that every draw the
thread ended is done.

The refinement of `DrawVerdicts` needs more than where a root may be: that it is in
one place only, so that it gets one verdict, and what is ahead of it there, so that
it gets it in its turn.

    OrderInv == RootInv(r) /\ HandInv(t) /\ LineInv(d) /\ ListsInv /\ KeptInv

`KeptInv`: a root without a verdict is in the hand of its thread, in a sequencer's
line, among a dispatcher's orphans, or in the list of one refuser. A root in hand is
of that thread, without a verdict, and built by the time it ends unless it is
deferred (`HandInv`). In the line a root stands behind every earlier
root of its thread that has no verdict, the one the worker took included (`LineInv`);
a root that is not deferred is built only when the line is empty, so whatever is
built is in its turn for good (`RootInv`). Orphans are built roots of threads that
exited, and two lists share none (`ListsInv`): of those who refuse, a hook takes the
list of a live dispatcher and a removal that of one no hook can reach. What ties the
lines together is `SessionInv`: only one dispatcher is live, so a thread's roots
without verdicts are all of one dispatcher. A step then is an `Enter`, `Build`,
`Conclude` or `Free` of `DrawVerdicts`, or a stutter (`DispatchSeen`); `Removed` is a
`Free` because with no live dispatcher no root is kept anywhere (`AllConcluded`).

**Only model-checked.** Liveness (`SpansRelease`, `EveryValueCompletes`,
`StopEnds`, `RaiseAnswered`, `CloseEnds`, `WaitsEnd`), which the prover does not
reach. Every other property of a passing run is the statement of a theorem.

## 6. Where the code and its documentation disagree

1. *Two threads in one span* (`two_threads`). The docs and a comment say that a
   second thread recording into a span fails the session. `admit` fails it only
   when the span already holds records. A first-pass callback sets the span's
   thread but its record is held aside, so a second thread's record is accepted.
2. *A held fence* (`side_fence`). The docs say that a fence block which is not
   the registered writeback fails the session. `RegisterWriteback` looks at the
   records of spans, not at those still held in side buffers.
3. *A restored window* (`restore`). A pump reads that the surface is suspended,
   lets go of its lock and suspends the gate (`native_presentation.cpp:680`). If
   the window thread restores the window in between, the gate stays suspended
   although the surface is not, and every later frame is dropped until another
   window event.
4. *An interrupt after the close* (`late`). A comment in the stop
   (`guest_gpu_service.cpp:662`) says that no callback interrupt is raised for a
   closed ledger. The stop drops queued requests only: one the vblank worker has
   taken is raised (`guest_gpu_service.cpp:1386`) after the ledger closed.

## 7. Not modelled, and why

- *Guest progress hooks* and the guest memory protocol of the *ring stubs*
  (G+0x2B00, tokens, EndTiling). What they call is modelled from the ledger's
  side, where every thread may call every operation in any order. Their own
  protocol is with guest code that is not in the repository; a model of it would
  rest on a guess of that code.
- *Frame assembler*: it runs under the dispatch's callbacks and fills a frame. What
  it submits is the choice of kind and mark in `NativeCompletion`, what the ledger
  sees of it is the flush (`FlushThrough`'s answers); the rest is the content of
  frames, which no property here tells apart.
- *Upload and resource pools*: reuse of buffers by fence value, on the renderer thread
  alone and sequential; the fence values are those of `DrawStream`.
- *Draw adapters*, *registries*, *rules*, *settings*, *features*, *menus*: decoding
  and tables, sequential per call, which the tests in `src/tests` reach better
  than a model would.
- *The D3D12 renderer* beyond its request stream and output slots: input and output
  on a graphics device.
- *The save sidecar*: one rename whose behaviour under a crash is the file
  system's, beside a save the title writes.
- *Audio*, *online services*, *diagnostics*, *tools*: external services and offline
  or developer-only code.
