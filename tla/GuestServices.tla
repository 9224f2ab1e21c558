----------------------------- MODULE GuestServices -----------------------------
(***************************************************************************)
(* GuestVideoServices (guest_gpu_service.cpp) from the end of Start: the    *)
(* completion worker that pumps the ledger, the vblank worker that raises   *)
(* both interrupt sources on the guest, guest threads that reach the        *)
(* services through MMIO, the ring stubs and the video delegate, and the    *)
(* application that stops the producers and shuts the services down.        *)
(* `State::mutex' makes each action atomic; guest code run by an interrupt  *)
(* and the ledger's own calls are outside it. The ledger is its callbacks,  *)
(* numbered in release order, and whether it failed or closed.              *)
(***************************************************************************)
EXTENDS RingStubLeases, Integers

CONSTANTS
    MaxCallbacks, \* bound: callback records the guest makes
    MaxDue,       \* bound: vblanks due in one pass (kMaxVblankCatchUp is 4)
    MaxStops      \* bound: calls of StopProducers besides Shutdown's

ASSUME ServiceConstants == MaxCallbacks \in Nat /\ MaxDue \in Nat /\ MaxStops \in Nat

VARIABLES
    service, \* the flags of State
    irq,     \* the one source-1 request: interruptPending, -Request, -Served, -Result
    ledger,  \* the callbacks of the completion ledger
    worker,  \* GPU Completion
    vblank,  \* GPU VSync
    bridge,  \* the process-wide MMIO bridge
    guest,   \* per guest thread, the service call it is in
    app,     \* the application thread, in StopProducers or Shutdown
    raised   \* history: per callback, source-1 interrupts begun for it

vars == <<stubs, service, irq, ledger, worker, vblank, bridge, guest, app, raised>>

Results == {"Raised", "NoHandler", "Stopped"}
Callbacks == 1 .. MaxCallbacks
Done == {"flagged", "ended"}  \* the body returned and set its exit flag

ServiceStates == [running : BOOLEAN, vblanking : BOOLEAN, active : BOOLEAN,
                  handler : BOOLEAN, published : BOOLEAN, shutdown : BOOLEAN,
                  sink : BOOLEAN, frozen : BOOLEAN]
IrqStates == [pending : BOOLEAN, request : Nat, served : Nat, result : Results]
LedgerStates == [recorded : 0 .. MaxCallbacks, released : 0 .. MaxCallbacks,
                 limit : 0 .. MaxCallbacks, failed : BOOLEAN, closed : BOOLEAN]
WorkerStates == [pc : Done \cup {"loop", "raise", "wait", "apply", "leaving"},
                 request : Nat, result : Results]
VblankStates == [pc : Done \cup {"loop", "mark", "source0", "begin", "source1",
                                "answer", "leaving"},
                 due : 0 .. MaxDue, request : Nat, ran : BOOLEAN]
BridgeStates == [bound : BOOLEAN, inFlight : SUBSET GuestThreads]
AppStates == [pc : {"up", "stop", "withdraw", "drain", "close", "completion", "vblank",
                    "joinCompletion", "joinVblank", "unbind", "callbacks", "clear", "down"},
              shutting : BOOLEAN, late : BOOLEAN, gaveUp : BOOLEAN,
              completionDone : BOOLEAN, vblankDone : BOOLEAN, stops : 0 .. MaxStops]

TypeOK ==
    /\ stubs \in StubStates /\ service \in ServiceStates /\ irq \in IrqStates
    /\ ledger \in LedgerStates /\ worker \in WorkerStates /\ vblank \in VblankStates
    /\ bridge \in BridgeStates /\ app \in AppStates
    /\ guest \in [GuestThreads -> {"idle", "mmio", "reject", "swap"}]
    /\ raised \in [Callbacks -> Nat]

\* Start has returned; an interrupt callback may already be set.
Init ==
    /\ StubsInit
    /\ \E set \in BOOLEAN :
          service = [running |-> TRUE, vblanking |-> TRUE, active |-> TRUE, handler |-> set,
                     published |-> TRUE, shutdown |-> FALSE, sink |-> TRUE, frozen |-> FALSE]
    /\ irq = [pending |-> FALSE, request |-> 0, served |-> 0, result |-> "Stopped"]
    /\ ledger = [recorded |-> 0, released |-> 0, limit |-> MaxCallbacks,
                 failed |-> FALSE, closed |-> FALSE]
    /\ worker = [pc |-> "loop", request |-> 0, result |-> "Stopped"]
    /\ vblank = [pc |-> "loop", due |-> 0, request |-> 0, ran |-> FALSE]
    /\ bridge = [bound |-> TRUE, inFlight |-> {}]
    /\ guest = [g \in GuestThreads |-> "idle"]
    /\ app = [pc |-> "up", shutting |-> FALSE, late |-> FALSE, gaveUp |-> FALSE,
              completionDone |-> FALSE, vblankDone |-> FALSE, stops |-> 0]
    /\ raised = [c \in Callbacks |-> 0]

-----------------------------------------------------------------------------
(* The ledger, as the services use it. *)

\* Fail: no record is taken any more; callbacks of closed spans before the
\* failing one still release, the others never do.
FailedLedger(l) ==
    IF l.closed \/ l.failed THEN {l}
    ELSE {[l EXCEPT !.failed = TRUE, !.limit = k] : k \in l.released .. l.recorded}

Releasable(c) == ~ledger.closed /\ c <= ledger.recorded /\ c <= ledger.limit
Next1 == ledger.released + 1

\* A progress hook or a leased ring stub records a callback; a ledger that
\* failed or closed refuses it.
RecordCallback(g) ==
    /\ service.published \/ g \in stubs.held
    /\ guest[g] = "idle" /\ (g \in stubs.counted => g \in stubs.held)
    /\ ~ledger.closed /\ ~ledger.failed /\ ledger.recorded < MaxCallbacks
    /\ ledger' = [ledger EXCEPT !.recorded = @ + 1]
    /\ UNCHANGED <<stubs, service, irq, worker, vblank, bridge, guest, app, raised>>

-----------------------------------------------------------------------------
(* GPU Completion. *)

WorkerTo(pc) == worker' = [worker EXCEPT !.pc = pc]
WorkerOnly == UNCHANGED <<stubs, service, vblank, bridge, guest, app, raised>>

\* Pump reaches the oldest unreleased callback and lets go of the ledger.
Pump ==
    /\ worker.pc = "loop" /\ service.running
    /\ Releasable(Next1)
    /\ WorkerTo("raise")
    /\ UNCHANGED <<irq, ledger>> /\ WorkerOnly

\* A polled host draw failure fails the ledger.
PollDrawFailure ==
    /\ worker.pc = "loop" /\ service.running
    /\ ledger' \in FailedLedger(ledger)
    /\ UNCHANGED <<irq, worker>> /\ WorkerOnly

RaiseCallbackInterrupt ==
    /\ worker.pc = "raise"
    /\ IF ~service.running \/ ~service.active
       THEN /\ worker' = [worker EXCEPT !.pc = "apply", !.result = "Stopped"]
            /\ UNCHANGED irq
       ELSE IF ~service.handler
       THEN /\ worker' = [worker EXCEPT !.pc = "apply", !.result = "NoHandler"]
            /\ UNCHANGED irq
       ELSE /\ irq' = [irq EXCEPT !.request = @ + 1, !.pending = TRUE]
            /\ worker' = [worker EXCEPT !.pc = "wait", !.request = irq.request + 1]
    /\ UNCHANGED ledger /\ WorkerOnly

\* Mutant of Served: off by one.
ServedBefore == irq.served + 1 >= worker.request
Served == irq.served >= worker.request

\* The wait for interruptDone ends.
WakeWorker ==
    /\ worker.pc = "wait"
    /\ Served \/ ~service.running
    /\ worker' = [worker EXCEPT !.pc = "apply",
                     !.result = IF Served THEN irq.result ELSE "Stopped"]
    /\ UNCHANGED <<irq, ledger>> /\ WorkerOnly

\* Pump holds the ledger again: only a raised callback of a span that may
\* still release is done; the others stay for the next pump.
Apply ==
    /\ worker.pc = "apply" /\ WorkerTo("loop")
    /\ IF worker.result = "Raised" /\ Releasable(Next1)
       THEN ledger' = [ledger EXCEPT !.released = @ + 1]
       ELSE UNCHANGED ledger
    /\ UNCHANGED irq /\ WorkerOnly

\* The loop ends, the thread sets its exit flag, the native thread ends.
WorkerExits ==
    /\ \/ worker.pc = "loop" /\ ~service.running /\ WorkerTo("leaving")
       \/ worker.pc = "leaving" /\ WorkerTo("flagged")
       \/ worker.pc = "flagged" /\ WorkerTo("ended")
    /\ UNCHANGED <<irq, ledger>> /\ WorkerOnly

CompletionWorker ==
    Pump \/ PollDrawFailure \/ RaiseCallbackInterrupt \/ WakeWorker \/ Apply \/ WorkerExits

-----------------------------------------------------------------------------
(* GPU VSync. *)

VblankTo(pc) == vblank' = [vblank EXCEPT !.pc = pc]
VblankOnly == UNCHANGED <<stubs, service, ledger, worker, bridge, guest, app>>

StartPass ==
    /\ vblank.pc = "loop" /\ service.vblanking
    /\ \E due \in 0 .. MaxDue : vblank' = [vblank EXCEPT !.pc = "mark", !.due = due]
    /\ UNCHANGED <<irq, raised>> /\ VblankOnly

\* Mutant of Due: the pass does not count its vblanks.
AlwaysDue == TRUE
Due == vblank.due > 0

\* markVblank: source 0 is raised with the callback copied under the lock.
MarkVblank ==
    /\ vblank.pc = "mark" /\ Due /\ service.vblanking
    /\ vblank' = [vblank EXCEPT !.due = @ - 1,
                     !.pc = IF service.active /\ service.handler THEN "source0" ELSE "mark"]
    /\ UNCHANGED <<irq, raised>> /\ VblankOnly

\* Mutant of WithoutHandler: a request nobody handles is forgotten.
Forget == "loop"
WithoutHandler == "answer"

\* serviceCallbackInterrupt takes the request, or drops it.
TakeRequest ==
    /\ vblank.pc = "mark" /\ (~Due \/ ~service.vblanking)
    /\ irq' = [irq EXCEPT !.pending = FALSE]
    /\ vblank' = IF irq.pending /\ service.running
                 THEN [vblank EXCEPT !.due = 0, !.request = irq.request, !.ran = FALSE,
                          !.pc = IF service.active /\ service.handler THEN "begin" ELSE WithoutHandler]
                 ELSE [vblank EXCEPT !.due = 0, !.pc = "loop"]
    /\ UNCHANGED raised /\ VblankOnly

\* executeInterrupt(1, ...) enters the guest, without any lock.
BeginSource1 ==
    /\ vblank.pc = "begin" /\ VblankTo("source1")
    /\ raised' = [raised EXCEPT ![Next1] = @ + 1]
    /\ UNCHANGED irq /\ VblankOnly

\* The guest's handler returns.
HandlerReturns ==
    /\ \/ vblank.pc = "source0" /\ VblankTo("mark")
       \/ vblank.pc = "source1" /\ vblank' = [vblank EXCEPT !.pc = "answer", !.ran = TRUE]
    /\ UNCHANGED <<irq, raised>> /\ VblankOnly

AnswerRequest ==
    /\ vblank.pc = "answer" /\ VblankTo("loop")
    /\ irq' = [irq EXCEPT !.served = vblank.request,
                  !.result = IF vblank.ran THEN "Raised" ELSE "NoHandler"]
    /\ UNCHANGED raised /\ VblankOnly

VblankExits ==
    /\ \/ vblank.pc = "loop" /\ ~service.vblanking /\ VblankTo("leaving")
       \/ vblank.pc = "leaving" /\ VblankTo("flagged")
       \/ vblank.pc = "flagged" /\ VblankTo("ended")
    /\ UNCHANGED <<irq, raised>> /\ VblankOnly

VblankRuns ==
    StartPass \/ MarkVblank \/ TakeRequest \/ BeginSource1 \/ AnswerRequest \/ VblankExits

-----------------------------------------------------------------------------
(* Guest threads. *)

GuestTo(g, pc) == guest' = [guest EXCEPT ![g] = pc]
GuestOnly == UNCHANGED <<irq, worker, vblank, app, raised>>
Free(g) == guest[g] = "idle" /\ g \notin stubs.counted

\* A ring helper run on the host: the lease is counted, checked, given back.
Lease(g) ==
    /\ guest[g] = "idle"
    /\ CountLease(g) \/ CheckLease(g) \/ ReleaseLease(g)
    /\ UNCHANGED <<service, ledger, bridge, guest>> /\ GuestOnly

\* A device that contradicts the layout switches the stubs off.
DisableRingStubs(g) ==
    /\ guest[g] = "idle" /\ Deactivate
    /\ UNCHANGED <<service, ledger, bridge, guest>> /\ GuestOnly

\* An access of a GPU register enters the bridge, and returns: the register
\* file and the ledger's Kick are not part of this state.
EnterMmio(g) ==
    /\ Free(g) /\ bridge.bound
    /\ bridge' = [bridge EXCEPT !.inFlight = @ \cup {g}] /\ GuestTo(g, "mmio")
    /\ UNCHANGED <<stubs, service, ledger>> /\ GuestOnly
LeaveMmio(g) ==
    /\ guest[g] = "mmio"
    /\ bridge' = [bridge EXCEPT !.inFlight = @ \ {g}] /\ GuestTo(g, "idle")
    /\ UNCHANGED <<stubs, service, ledger>> /\ GuestOnly

SetInterruptCallback(g) ==
    /\ Free(g) /\ ~service.shutdown
    /\ \E set \in BOOLEAN : service' = [service EXCEPT !.handler = set]
    /\ UNCHANGED <<stubs, ledger, bridge, guest>> /\ GuestOnly

\* InitializeRingBuffer and EnableReadPointerWriteBack: an unsafe range
\* freezes the configuration, and a frozen one rejects every registration.
\* The ledger is told after the lock is let go.
RejectRegistration(g) ==
    /\ Free(g) /\ ~service.shutdown
    /\ service' = [service EXCEPT !.frozen = TRUE] /\ GuestTo(g, "reject")
    /\ UNCHANGED <<stubs, ledger, bridge>> /\ GuestOnly

\* OnSwap: the frame is assembled without a lock, and may fail.
Swap(g) ==
    /\ Free(g) /\ ~service.shutdown /\ GuestTo(g, "swap")
    /\ UNCHANGED <<stubs, service, ledger, bridge>> /\ GuestOnly

TellLedger(g) ==
    /\ guest[g] \in {"reject", "swap"} /\ GuestTo(g, "idle")
    /\ ledger' \in FailedLedger(ledger) \cup (IF guest[g] = "swap" THEN {ledger} ELSE {})
    /\ UNCHANGED <<stubs, service, bridge>> /\ GuestOnly

Guest(g) ==
    \/ RecordCallback(g) \/ Lease(g) \/ DisableRingStubs(g)
    \/ EnterMmio(g) \/ LeaveMmio(g) \/ SetInterruptCallback(g)
    \/ RejectRegistration(g) \/ Swap(g) \/ TellLedger(g)

-----------------------------------------------------------------------------
(* The application: StopProducers, alone or inside Shutdown. *)

AppTo(pc) == app' = [app EXCEPT !.pc = pc]
AppOnly == UNCHANGED <<worker, vblank, guest, raised>>

StopProducers ==
    /\ app.pc = "up" /\ app.stops < MaxStops
    /\ app' = [app EXCEPT !.pc = "stop", !.stops = @ + 1]
    /\ UNCHANGED <<stubs, service, irq, ledger, bridge>> /\ AppOnly

\* Shutdown forgets the interrupt callback, then stops the producers.
Shutdown ==
    /\ app.pc = "up" /\ ~service.shutdown
    /\ service' = [service EXCEPT !.shutdown = TRUE, !.handler = FALSE]
    /\ app' = [app EXCEPT !.pc = "stop", !.shutting = TRUE]
    /\ UNCHANGED <<stubs, irq, ledger, bridge>> /\ AppOnly

\* The first section under the lock. The timeout may be zero.
RefuseRequests ==
    /\ app.pc = "stop"
    /\ service' = [service EXCEPT !.running = FALSE, !.published = FALSE]
    /\ irq' = [irq EXCEPT !.pending = FALSE]
    /\ \E zero \in BOOLEAN :
          app' = [app EXCEPT !.pc = IF service.published THEN "withdraw" ELSE "close",
                     !.late = zero]
    /\ UNCHANGED <<stubs, ledger, bridge>> /\ AppOnly

\* WithdrawRingStubServices: consumes in flight finish, or five seconds pass.
WithdrawStubs ==
    /\ app.pc = "withdraw" /\ Deactivate /\ AppTo("drain")
    /\ UNCHANGED <<service, irq, ledger, bridge>> /\ AppOnly
DrainLeases ==
    /\ app.pc = "drain" /\ LeasesDrained /\ AppTo("close")
    /\ UNCHANGED <<stubs, service, irq, ledger, bridge>> /\ AppOnly
GiveUpDrain ==
    /\ app.pc = "drain" /\ ~LeasesDrained
    /\ app' = [app EXCEPT !.pc = "close", !.gaveUp = TRUE]
    /\ UNCHANGED <<stubs, service, irq, ledger, bridge>> /\ AppOnly

CloseLedger ==
    /\ app.pc = "close" /\ AppTo("completion")
    /\ ledger' = [ledger EXCEPT !.closed = TRUE]
    /\ UNCHANGED <<stubs, service, irq, bridge>> /\ AppOnly

\* Mutant of InTime: the wait has no deadline.
Eventually(done) == done
InTime(done) == done \/ app.late

\* Mutant of Joined: the exit flag counts as the end of the thread.
FlagSeen(thread) == thread.pc \in Done
Joined(thread) == thread.pc = "ended"

\* The exit flags are awaited until the deadline; the vblank worker runs
\* until the completion worker, which may wait for it, is out of its loop.
AwaitCompletion ==
    /\ app.pc = "completion" /\ InTime(worker.pc \in Done)
    /\ app' = [app EXCEPT !.pc = "vblank", !.completionDone = worker.pc \in Done]
    /\ service' = [service EXCEPT !.vblanking = FALSE]
    /\ UNCHANGED <<stubs, irq, ledger, bridge>> /\ AppOnly
AwaitVblank ==
    /\ app.pc = "vblank" /\ InTime(vblank.pc \in Done)
    /\ app' = [app EXCEPT !.pc = "joinCompletion", !.vblankDone = vblank.pc \in Done]
    /\ UNCHANGED <<stubs, service, irq, ledger, bridge>> /\ AppOnly

\* joinNative, for a thread whose flag was seen.
JoinCompletion ==
    /\ app.pc = "joinCompletion"
    /\ ~app.completionDone \/ InTime(Joined(worker))
    /\ app' = [app EXCEPT !.pc = "joinVblank",
                  !.completionDone = @ /\ Joined(worker)]
    /\ UNCHANGED <<stubs, service, irq, ledger, bridge>> /\ AppOnly
JoinVblank ==
    /\ app.pc = "joinVblank"
    /\ ~app.vblankDone \/ InTime(Joined(vblank))
    /\ app' = [app EXCEPT !.pc = IF app.shutting THEN "unbind" ELSE "up",
                  !.vblankDone = @ /\ Joined(vblank)]
    /\ UNCHANGED <<stubs, service, irq, ledger, bridge>> /\ AppOnly

Expire ==
    /\ app.pc \in {"withdraw", "drain", "close", "completion", "vblank", "joinCompletion", "joinVblank"}
    /\ ~app.late /\ app' = [app EXCEPT !.late = TRUE]
    /\ UNCHANGED <<stubs, service, irq, ledger, bridge>> /\ AppOnly

\* unbindMmioBridge, and the rest of Shutdown.
UnbindMmio ==
    /\ app.pc = "unbind" /\ AppTo("callbacks")
    /\ bridge' = [bridge EXCEPT !.bound = FALSE]
    /\ UNCHANGED <<stubs, service, irq, ledger>> /\ AppOnly
AwaitCallbacks ==
    /\ app.pc = "callbacks" /\ bridge.inFlight = {} /\ AppTo("clear")
    /\ UNCHANGED <<stubs, service, irq, ledger, bridge>> /\ AppOnly
ClearService ==
    /\ app.pc = "clear" /\ AppTo("down")
    /\ service' = [service EXCEPT !.active = FALSE,
                      !.sink = @ /\ ~(app.completionDone /\ app.vblankDone)]
    /\ UNCHANGED <<stubs, irq, ledger, bridge>> /\ AppOnly

Stops ==
    \/ RefuseRequests \/ WithdrawStubs \/ DrainLeases \/ GiveUpDrain \/ CloseLedger
    \/ AwaitCompletion \/ AwaitVblank \/ JoinCompletion \/ JoinVblank \/ Expire
    \/ UnbindMmio \/ AwaitCallbacks \/ ClearService

Next ==
    \/ CompletionWorker \/ VblankRuns \/ HandlerReturns
    \/ \E g \in GuestThreads : Guest(g)
    \/ StopProducers \/ Shutdown \/ Stops

Spec == Init /\ [][Next]_vars

\* The threads run, time passes and a register access returns. The guest's
\* interrupt handler need not return, and a lease need not be given back.
Fairness ==
    /\ WF_vars(CompletionWorker)
    /\ WF_vars(VblankRuns)
    /\ WF_vars(Stops)
    /\ WF_vars(Expire)
    /\ \A g \in GuestThreads : WF_vars(LeaveMmio(g))
LiveSpec == Spec /\ Fairness

-----------------------------------------------------------------------------
(* Properties. *)

\* A callback is released only after source 1 ran for it, once; the one in
\* progress ran at most once, and none before its turn (RaiseCallbackInterrupt
\* and serviceCallbackInterrupt exchange requests and results under the lock).
CallbackRaisedOnce ==
    \A c \in Callbacks :
        \/ c <= ledger.released /\ raised[c] = 1
        \/ c = Next1 /\ raised[c] <= 1
        \/ c > Next1 /\ raised[c] = 0

\* The ring helpers in flight finish against an open ledger: a thread that
\* holds a lease sees it open, unless the withdrawal gave up on the leases.
LeasedSeeOpen == (stubs.held # {} /\ ~app.gaveUp) => ~ledger.closed

\* What Shutdown releases is used by nobody: the guest memory of the ledger's
\* effects goes only when both native threads ended, the service's fields go
\* only when no register access is inside.
NothingUsesReleased ==
    /\ ~service.sink => worker.pc = "ended" /\ vblank.pc = "ended"
    /\ ~service.active => bridge.inFlight = {}

\* A stop ends: whatever the handlers and the leases do, StopProducers meets
\* its deadline and Shutdown unbinds.
StopEnds == app.pc = "stop" ~> app.pc \in {"up", "down"}

\* The ledger's pump never waits for ever in the interrupt it raised, if the
\* guest's handlers return: the request is served, or the stop releases it.
RaiseAnswered ==
    []<>(vblank.pc \notin {"source0", "source1"}) =>
        (worker.pc = "wait" ~> worker.pc # "wait")

\* Said of the code: no callback interrupt is raised for a closed ledger.
NoInterruptAfterClose ==
    [][(vblank.pc = "begin" /\ vblank'.pc = "source1") => ~ledger.closed]_vars
=============================================================================
