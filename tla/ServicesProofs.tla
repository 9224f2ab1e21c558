---------------------------- MODULE ServicesProofs ----------------------------
(***************************************************************************)
(* Proofs about the guest services: their types, and the three safety       *)
(* invariants, for any guest threads and bounds. Each invariant has a       *)
(* strengthening of its own, kept by every action.                          *)
(***************************************************************************)
EXTENDS GuestServices, TLAPS

-----------------------------------------------------------------------------
(* Types. *)

LEMMA InitTypes == Init => TypeOK
<1> SUFFICES ASSUME Init PROVE TypeOK
    OBVIOUS
<1> USE ServiceConstants DEF Init
<1>1. stubs \in StubStates
    BY DEF StubsInit, StubStates
<1>2. service \in ServiceStates /\ irq \in IrqStates
    BY DEF ServiceStates, IrqStates, Results
<1>3. ledger \in LedgerStates
    BY DEF LedgerStates
<1>4. worker \in WorkerStates /\ vblank \in VblankStates
    BY DEF WorkerStates, VblankStates, Results
<1>5. bridge \in BridgeStates /\ app \in AppStates
    BY DEF BridgeStates, AppStates
<1>6. guest \in [GuestThreads -> {"idle", "mmio", "reject", "swap"}] /\ raised \in [Callbacks -> Nat]
    OBVIOUS
<1> QED BY <1>1, <1>2, <1>3, <1>4, <1>5, <1>6 DEF TypeOK

\* What Fail makes of a ledger.
LEMMA FailedLedgerTypes ==
    ASSUME NEW l \in LedgerStates, NEW m \in FailedLedger(l)
    PROVE  m \in LedgerStates
<1>1. CASE l.closed \/ l.failed
    BY <1>1 DEF FailedLedger
<1>2. CASE ~(l.closed \/ l.failed)
  <2>1. PICK k \in l.released .. l.recorded : m = [l EXCEPT !.failed = TRUE, !.limit = k]
    BY <1>2 DEF FailedLedger
  <2>2. k \in 0 .. MaxCallbacks
    BY ServiceConstants DEF LedgerStates
  <2> QED BY <2>1, <2>2 DEF LedgerStates
<1> QED BY <1>1, <1>2

LEMMA WorkerTypes == TypeOK /\ CompletionWorker => TypeOK'
<1> SUFFICES ASSUME TypeOK, CompletionWorker PROVE TypeOK'
    OBVIOUS
<1> USE ServiceConstants DEF TypeOK, WorkerOnly, WorkerTo
<1>1. CASE Pump
    BY <1>1 DEF Pump, WorkerStates
<1>2. CASE PollDrawFailure
    BY <1>2, FailedLedgerTypes DEF PollDrawFailure
<1>3. CASE RaiseCallbackInterrupt
  <2>1. \A n \in Nat : [irq EXCEPT !.request = n, !.pending = TRUE] \in IrqStates
    BY DEF IrqStates
  <2>2. irq.request + 1 \in Nat
    BY DEF IrqStates
  <2>3. \A r \in Results : [worker EXCEPT !.pc = "apply", !.result = r] \in WorkerStates
    BY DEF WorkerStates
  <2>4. \A n \in Nat : [worker EXCEPT !.pc = "wait", !.request = n] \in WorkerStates
    BY DEF WorkerStates
  <2>5. worker' \in WorkerStates /\ irq' \in IrqStates
    BY <1>3, <2>1, <2>2, <2>3, <2>4 DEF RaiseCallbackInterrupt, Results
  <2> QED BY <1>3, <2>5 DEF RaiseCallbackInterrupt
<1>4. CASE WakeWorker
  <2>1. irq.result \in Results /\ "Stopped" \in Results
    BY DEF IrqStates, Results
  <2>2. \A r \in Results : [worker EXCEPT !.pc = "apply", !.result = r] \in WorkerStates
    BY DEF WorkerStates
  <2>3. worker' \in WorkerStates
    BY <1>4, <2>1, <2>2 DEF WakeWorker
  <2> QED BY <1>4, <2>3 DEF WakeWorker
<1>5. CASE Apply
  <2>1. worker' \in WorkerStates
    BY <1>5 DEF Apply, WorkerStates
  <2>2. ledger' \in LedgerStates
    BY <1>5 DEF Apply, Releasable, Next1, LedgerStates
  <2> QED BY <1>5, <2>1, <2>2 DEF Apply
<1>6. CASE WorkerExits
    BY <1>6 DEF WorkerExits, WorkerStates, Done
<1> QED BY <1>1, <1>2, <1>3, <1>4, <1>5, <1>6 DEF CompletionWorker

LEMMA VblankTypes == TypeOK /\ (VblankRuns \/ HandlerReturns) => TypeOK'
<1> SUFFICES ASSUME TypeOK, VblankRuns \/ HandlerReturns PROVE TypeOK'
    OBVIOUS
<1> USE ServiceConstants DEF TypeOK, VblankOnly, VblankTo
<1>1. CASE StartPass
    BY <1>1 DEF StartPass, VblankStates
<1>2. CASE MarkVblank
  <2>1. vblank.due - 1 \in 0 .. MaxDue
    BY <1>2 DEF MarkVblank, Due, VblankStates
  <2>2. \A pc \in {"source0", "mark"}, n \in 0 .. MaxDue :
            [vblank EXCEPT !.due = n, !.pc = pc] \in VblankStates
    BY DEF VblankStates
  <2>3. vblank' \in VblankStates
    BY <1>2, <2>1, <2>2 DEF MarkVblank
  <2> QED BY <1>2, <2>3 DEF MarkVblank
<1>3. CASE TakeRequest
  <2>1. vblank' \in VblankStates
    <3>1. irq.request \in Nat /\ 0 \in 0 .. MaxDue
      BY DEF IrqStates
    <3>2. [vblank EXCEPT !.due = 0, !.pc = "loop"] \in VblankStates
      BY <3>1 DEF VblankStates
    <3>3. \A pc \in {"begin", "answer"}, n \in Nat :
            [vblank EXCEPT !.due = 0, !.request = n, !.ran = FALSE, !.pc = pc] \in VblankStates
      BY <3>1 DEF VblankStates
    <3> QED BY <1>3, <3>1, <3>2, <3>3 DEF TakeRequest, WithoutHandler
  <2>2. irq' \in IrqStates
    BY <1>3 DEF TakeRequest, IrqStates
  <2> QED BY <1>3, <2>1, <2>2 DEF TakeRequest
<1>4. CASE BeginSource1
  <2>1. vblank' \in VblankStates
    BY <1>4 DEF BeginSource1, VblankStates
  <2>2. raised' \in [Callbacks -> Nat]
    <3>1. CASE Next1 \in Callbacks
      <4>1. raised[Next1] + 1 \in Nat
        BY <3>1
      <4> QED BY <1>4, <4>1 DEF BeginSource1
    <3>2. CASE Next1 \notin Callbacks
      BY <1>4, <3>2 DEF BeginSource1
    <3> QED BY <3>1, <3>2
  <2> QED BY <1>4, <2>1, <2>2 DEF BeginSource1
<1>5. CASE AnswerRequest
  <2>1. vblank' \in VblankStates
    BY <1>5 DEF AnswerRequest, VblankStates
  <2>2. irq' \in IrqStates
    BY <1>5 DEF AnswerRequest, IrqStates, VblankStates, Results
  <2> QED BY <1>5, <2>1, <2>2 DEF AnswerRequest
<1>6. CASE VblankExits
    BY <1>6 DEF VblankExits, VblankStates, Done
<1>7. CASE HandlerReturns
    BY <1>7 DEF HandlerReturns, VblankStates
<1> QED BY <1>1, <1>2, <1>3, <1>4, <1>5, <1>6, <1>7 DEF VblankRuns

LEMMA GuestTypes == ASSUME NEW g \in GuestThreads PROVE TypeOK /\ Guest(g) => TypeOK'
<1> SUFFICES ASSUME TypeOK, Guest(g) PROVE TypeOK'
    OBVIOUS
<1> USE ServiceConstants DEF TypeOK, GuestOnly, GuestTo
<1>1. CASE RecordCallback(g)
    BY <1>1 DEF RecordCallback, LedgerStates
<1>2. CASE Lease(g)
  <2>1. CASE CountLease(g)
    BY <1>2, <2>1 DEF Lease, CountLease, StubStates
  <2>2. CASE CheckLease(g)
    BY <1>2, <2>2 DEF Lease, CheckLease, StubStates
  <2>3. CASE ReleaseLease(g)
    BY <1>2, <2>3 DEF Lease, ReleaseLease, StubStates
  <2> QED BY <1>2, <2>1, <2>2, <2>3 DEF Lease
<1>3. CASE DisableRingStubs(g)
    BY <1>3 DEF DisableRingStubs, Deactivate, StubStates
<1>4. CASE EnterMmio(g) \/ LeaveMmio(g)
    BY <1>4 DEF EnterMmio, LeaveMmio, BridgeStates
<1>5. CASE SetInterruptCallback(g) \/ RejectRegistration(g) \/ Swap(g)
    BY ZenonT(30), <1>5 DEF SetInterruptCallback, RejectRegistration, Swap, ServiceStates
<1>6. CASE TellLedger(g)
    BY <1>6, FailedLedgerTypes DEF TellLedger
<1> QED BY <1>1, <1>2, <1>3, <1>4, <1>5, <1>6 DEF Guest

LEMMA AppTypes == TypeOK /\ (StopProducers \/ Shutdown \/ Stops) => TypeOK'
<1> SUFFICES ASSUME TypeOK, StopProducers \/ Shutdown \/ Stops PROVE TypeOK'
    OBVIOUS
<1> USE ServiceConstants DEF TypeOK, AppOnly, AppTo
<1>1. CASE StopProducers
  <2>1. app.stops + 1 \in 0 .. MaxStops
    BY <1>1 DEF StopProducers, AppStates
  <2> QED BY <1>1, <2>1 DEF StopProducers, AppStates
<1>2. CASE Shutdown
    BY <1>2 DEF Shutdown, AppStates, ServiceStates
<1>3. CASE RefuseRequests
    BY <1>3 DEF RefuseRequests, AppStates, ServiceStates, IrqStates
<1>4. CASE WithdrawStubs
    BY <1>4 DEF WithdrawStubs, Deactivate, AppStates, StubStates
<1>5. CASE DrainLeases \/ GiveUpDrain
  <2>1. CASE DrainLeases
    BY <2>1 DEF DrainLeases, AppStates
  <2>2. CASE GiveUpDrain
    BY <2>2 DEF GiveUpDrain, AppStates
  <2> QED BY <1>5, <2>1, <2>2
<1>6. CASE CloseLedger
    BY <1>6 DEF CloseLedger, AppStates, LedgerStates
<1>7. CASE AwaitCompletion
  <2>1. \A done \in BOOLEAN : [app EXCEPT !.pc = "vblank", !.completionDone = done] \in AppStates
    BY DEF AppStates
  <2>2. app' \in AppStates
    <3>1. (worker.pc \in Done) \in BOOLEAN
      OBVIOUS
    <3>2. app' = [app EXCEPT !.pc = "vblank", !.completionDone = worker.pc \in Done]
      BY <1>7 DEF AwaitCompletion
    <3> QED BY <2>1, <3>1, <3>2, ZenonT(30)
  <2>3. service' \in ServiceStates
    BY <1>7 DEF AwaitCompletion, ServiceStates
  <2> QED BY <1>7, <2>2, <2>3 DEF AwaitCompletion
<1>8. CASE AwaitVblank
  <2>1. \A done \in BOOLEAN : [app EXCEPT !.pc = "joinCompletion", !.vblankDone = done] \in AppStates
    BY DEF AppStates
  <2>2. app' \in AppStates
    <3>1. (vblank.pc \in Done) \in BOOLEAN
      OBVIOUS
    <3>2. app' = [app EXCEPT !.pc = "joinCompletion", !.vblankDone = vblank.pc \in Done]
      BY <1>8 DEF AwaitVblank
    <3> QED BY <2>1, <3>1, <3>2, ZenonT(30)
  <2> QED BY <1>8, <2>2 DEF AwaitVblank
<1>9. CASE JoinCompletion
  <2>1. \A done \in BOOLEAN : [app EXCEPT !.pc = "joinVblank", !.completionDone = done] \in AppStates
    BY DEF AppStates
  <2>2. (app.completionDone /\ Joined(worker)) \in BOOLEAN
    OBVIOUS
  <2>3. app' \in AppStates
    BY <1>9, <2>1, <2>2 DEF JoinCompletion
  <2> QED BY <1>9, <2>3 DEF JoinCompletion
<1>10. CASE JoinVblank
  <2>1. \A pc \in {"unbind", "up"}, done \in BOOLEAN :
            [app EXCEPT !.pc = pc, !.vblankDone = done] \in AppStates
    BY DEF AppStates
  <2>2. (app.vblankDone /\ Joined(vblank)) \in BOOLEAN
    OBVIOUS
  <2>3. app' \in AppStates
    BY <1>10, <2>1, <2>2 DEF JoinVblank
  <2> QED BY <1>10, <2>3 DEF JoinVblank
<1>11. CASE Expire
    BY <1>11 DEF Expire, AppStates
<1>12. CASE AwaitCallbacks
    BY <1>12 DEF AwaitCallbacks, AppStates
<1>13. CASE UnbindMmio
    BY <1>13 DEF UnbindMmio, AppStates, BridgeStates
<1>14. CASE ClearService
    BY <1>14 DEF ClearService, AppStates, ServiceStates
<1> QED
  BY <1>1, <1>2, <1>3, <1>4, <1>5, <1>6, <1>7, <1>8, <1>9, <1>10, <1>11, <1>12, <1>13, <1>14
  DEF Stops

\* The services keep their types: in particular the released and recorded
\* callbacks stay within the window and no vblank is marked beyond those due.
THEOREM ServicesTypeCorrect == Spec => []TypeOK
<1>1. TypeOK /\ [Next]_vars => TypeOK'
    BY WorkerTypes, VblankTypes, GuestTypes, AppTypes DEF Next, vars, TypeOK
<1> QED BY InitTypes, <1>1, PTL DEF Spec

-----------------------------------------------------------------------------
(* The leases of the ring stubs. *)

\* The withdrawal, step by step: nothing is published once it started, the
\* stubs are inactive once it is past its first step, and past the drain no
\* lease is held unless it gave up.
LeaseInv ==
    /\ stubs.held \subseteq stubs.counted
    /\ app.pc \notin {"up", "stop"} => ~service.published
    /\ (~service.published /\ app.pc # "withdraw") => ~stubs.active
    /\ (~service.published /\ app.pc \notin {"withdraw", "drain"} /\ ~app.gaveUp)
          => stubs.held = {}
    /\ ledger.closed => ~service.published /\ app.pc \notin {"withdraw", "drain"}

\* A failure leaves the other fields of the ledger alone.
LEMMA FailedLedgerKeeps ==
    ASSUME NEW l \in LedgerStates, NEW m \in FailedLedger(l)
    PROVE  m.closed = l.closed /\ m.recorded = l.recorded /\ m.released = l.released
<1>1. CASE l.closed \/ l.failed
    BY <1>1 DEF FailedLedger
<1>2. CASE ~(l.closed \/ l.failed)
  <2>1. PICK k \in l.released .. l.recorded : m = [l EXCEPT !.failed = TRUE, !.limit = k]
    BY <1>2 DEF FailedLedger
  <2> QED BY <2>1 DEF LedgerStates
<1> QED BY <1>1, <1>2

\* What the leases depend on, and what leaves it as it is.
LEMMA LeaseFrame ==
    ASSUME LeaseInv, stubs' = stubs, app' = app, service'.published = service.published,
           ledger'.closed = ledger.closed
    PROVE  LeaseInv'
BY DEF LeaseInv

LEMMA LeaseInit == Init => LeaseInv
BY DEF Init, StubsInit, LeaseInv

LEMMA LeaseWorker == TypeOK /\ LeaseInv /\ CompletionWorker => LeaseInv'
<1> SUFFICES ASSUME TypeOK, LeaseInv, CompletionWorker PROVE LeaseInv'
    OBVIOUS
<1>1. stubs' = stubs /\ app' = app /\ service' = service
    BY DEF CompletionWorker, Pump, PollDrawFailure, RaiseCallbackInterrupt, WakeWorker, Apply,
           WorkerExits, WorkerOnly
<1>2. ledger'.closed = ledger.closed
  <2>1. CASE PollDrawFailure
    BY <2>1, FailedLedgerKeeps DEF PollDrawFailure, TypeOK
  <2>2. CASE Apply
    BY <2>2 DEF Apply, TypeOK, LedgerStates
  <2>3. CASE Pump \/ RaiseCallbackInterrupt \/ WakeWorker \/ WorkerExits
    BY <2>3 DEF Pump, RaiseCallbackInterrupt, WakeWorker, WorkerExits
  <2> QED BY <2>1, <2>2, <2>3 DEF CompletionWorker
<1> QED BY <1>1, <1>2, LeaseFrame

LEMMA LeaseVblank == LeaseInv /\ (VblankRuns \/ HandlerReturns) => LeaseInv'
BY LeaseFrame DEF VblankRuns, StartPass, MarkVblank, TakeRequest, BeginSource1, AnswerRequest,
   VblankExits, HandlerReturns, VblankOnly

LEMMA LeaseGuest ==
    ASSUME NEW g \in GuestThreads PROVE TypeOK /\ LeaseInv /\ Guest(g) => LeaseInv'
<1> SUFFICES ASSUME TypeOK, LeaseInv, Guest(g) PROVE LeaseInv'
    OBVIOUS
<1> USE DEF TypeOK, GuestOnly
<1>1. CASE RecordCallback(g)
    BY <1>1, LeaseFrame DEF RecordCallback, LedgerStates
<1>2. CASE Lease(g)
  <2>1. app' = app /\ service' = service /\ ledger' = ledger
    BY <1>2 DEF Lease
  <2>2. CASE CountLease(g)
    BY <2>1, <2>2 DEF CountLease, LeaseInv, StubStates
  <2>3. CASE CheckLease(g)
    BY <2>1, <2>3 DEF CheckLease, LeaseInv, StubStates
  <2>4. CASE ReleaseLease(g)
    BY <2>1, <2>4 DEF ReleaseLease, LeaseInv, StubStates
  <2> QED BY <1>2, <2>2, <2>3, <2>4 DEF Lease
<1>3. CASE DisableRingStubs(g)
    BY <1>3 DEF DisableRingStubs, Deactivate, LeaseInv, StubStates
<1>4. CASE EnterMmio(g) \/ LeaveMmio(g)
    BY <1>4, LeaseFrame DEF EnterMmio, LeaveMmio
<1>5. CASE SetInterruptCallback(g) \/ RejectRegistration(g) \/ Swap(g)
  <2>1. service'.published = service.published
    BY <1>5 DEF SetInterruptCallback, RejectRegistration, Swap, ServiceStates
  <2> QED BY <1>5, <2>1, LeaseFrame DEF SetInterruptCallback, RejectRegistration, Swap
<1>6. CASE TellLedger(g)
  <2>1. ledger'.closed = ledger.closed
    BY <1>6, FailedLedgerKeeps DEF TellLedger
  <2> QED BY <1>6, <2>1, LeaseFrame DEF TellLedger
<1> QED BY <1>1, <1>2, <1>3, <1>4, <1>5, <1>6 DEF Guest

LEMMA LeaseApp == TypeOK /\ LeaseInv /\ (StopProducers \/ Shutdown \/ Stops) => LeaseInv'
<1> SUFFICES ASSUME TypeOK, LeaseInv, StopProducers \/ Shutdown \/ Stops PROVE LeaseInv'
    OBVIOUS
<1> USE DEF TypeOK, AppOnly, AppTo
<1>1. CASE StopProducers
    BY <1>1 DEF StopProducers, AppStates, LeaseInv
<1>2. CASE Shutdown
    BY <1>2 DEF Shutdown, AppStates, ServiceStates, LeaseInv
<1>3. CASE RefuseRequests
  <2>1. stubs' = stubs /\ ledger' = ledger
    BY <1>3 DEF RefuseRequests
  <2>2. app'.pc \in {"withdraw", "close"} /\ ~service'.published
    BY <1>3 DEF RefuseRequests, AppStates, ServiceStates
  <2>3. app'.gaveUp = app.gaveUp
    BY <1>3 DEF RefuseRequests, AppStates
  <2>4. app'.pc = "close" => ~service.published
    BY <1>3 DEF RefuseRequests, AppStates
  <2>5. app'.pc = "withdraw" => service.published
    BY <1>3 DEF RefuseRequests, AppStates
  <2>6. app.pc = "stop"
    BY <1>3 DEF RefuseRequests
  <2> QED BY <2>1, <2>2, <2>3, <2>4, <2>5, <2>6 DEF LeaseInv
<1>4. CASE WithdrawStubs
    BY <1>4 DEF WithdrawStubs, Deactivate, AppStates, StubStates, LeaseInv
<1>5. CASE DrainLeases
    BY <1>5 DEF DrainLeases, LeasesDrained, AppStates, StubStates, LeaseInv
<1>6. CASE GiveUpDrain
    BY <1>6 DEF GiveUpDrain, AppStates, LeaseInv
<1>7. CASE CloseLedger
    BY <1>7 DEF CloseLedger, AppStates, LedgerStates, LeaseInv
<1>8. CASE AwaitCompletion
  <2>1. app'.pc = "vblank" /\ app'.gaveUp = app.gaveUp /\ app.pc = "completion"
    BY <1>8 DEF AwaitCompletion, AppStates
  <2>2. service'.published = service.published
    BY <1>8 DEF AwaitCompletion, ServiceStates
  <2> QED BY <1>8, <2>1, <2>2 DEF AwaitCompletion, LeaseInv
<1>9. CASE AwaitVblank
  <2>1. app'.pc = "joinCompletion" /\ app'.gaveUp = app.gaveUp /\ app.pc = "vblank"
    BY <1>9 DEF AwaitVblank, AppStates
  <2> QED BY <1>9, <2>1 DEF AwaitVblank, LeaseInv
<1>10. CASE JoinCompletion
  <2>1. app'.pc = "joinVblank" /\ app'.gaveUp = app.gaveUp /\ app.pc = "joinCompletion"
    BY <1>10 DEF JoinCompletion, AppStates
  <2> QED BY <1>10, <2>1 DEF JoinCompletion, LeaseInv
<1>11. CASE JoinVblank
  <2>1. app'.pc \in {"unbind", "up"} /\ app'.gaveUp = app.gaveUp /\ app.pc = "joinVblank"
    BY <1>11 DEF JoinVblank, AppStates
  <2> QED BY <1>11, <2>1 DEF JoinVblank, LeaseInv
<1>12. CASE Expire
    BY <1>12 DEF Expire, AppStates, LeaseInv
<1>13. CASE UnbindMmio
    BY <1>13 DEF UnbindMmio, AppStates, LeaseInv
<1>14. CASE AwaitCallbacks
    BY <1>14 DEF AwaitCallbacks, AppStates, LeaseInv
<1>15. CASE ClearService
    BY <1>15 DEF ClearService, AppStates, ServiceStates, LeaseInv
<1> QED
  BY <1>1, <1>2, <1>3, <1>4, <1>5, <1>6, <1>7, <1>8, <1>9, <1>10, <1>11, <1>12, <1>13, <1>14, <1>15
  DEF Stops

\* A ring helper that runs on the host finishes against an open ledger,
\* whatever the number of guest threads, unless the withdrawal gave up.
THEOREM LeasesFinish == Spec => []LeasedSeeOpen
<1>1. Spec => []TypeOK
    BY ServicesTypeCorrect
<1>2. TypeOK /\ LeaseInv /\ [Next]_vars => LeaseInv'
    BY LeaseWorker, LeaseVblank, LeaseGuest, LeaseApp, LeaseFrame DEF Next, vars
<1>3. LeaseInv => LeasedSeeOpen
    BY DEF LeaseInv, LeasedSeeOpen
<1> QED BY LeaseInit, <1>1, <1>2, <1>3, PTL DEF Spec

-----------------------------------------------------------------------------
(* What Shutdown releases. *)

Unbinding == {"unbind", "callbacks", "clear", "down"}

\* How far the shutdown is says what has ended: a flag that survives the
\* joins is of an ended thread, and no access is inside after the wait for it.
ReleaseInv ==
    /\ app.pc \in Unbinding \cup {"joinVblank"} /\ app.completionDone => worker.pc = "ended"
    /\ app.pc \in Unbinding /\ app.vblankDone => vblank.pc = "ended"
    /\ ~service.sink => worker.pc = "ended" /\ vblank.pc = "ended"
    /\ app.pc \in {"callbacks", "clear", "down"} => ~bridge.bound
    /\ app.pc \in {"clear", "down"} => bridge.inFlight = {}
    /\ ~service.active => app.pc = "down"

LEMMA ReleaseFrame ==
    ASSUME ReleaseInv, app' = app, bridge' = bridge, service'.sink = service.sink,
           service'.active = service.active,
           worker.pc = "ended" => worker'.pc = "ended",
           vblank.pc = "ended" => vblank'.pc = "ended"
    PROVE  ReleaseInv'
BY DEF ReleaseInv, Unbinding

LEMMA ReleaseInit == Init => ReleaseInv
BY DEF Init, ReleaseInv, Unbinding

LEMMA ReleaseWorker == TypeOK /\ ReleaseInv /\ CompletionWorker => ReleaseInv'
<1> SUFFICES ASSUME TypeOK, ReleaseInv, CompletionWorker PROVE ReleaseInv'
    OBVIOUS
<1>1. service' = service /\ app' = app /\ bridge' = bridge /\ vblank' = vblank
    BY DEF CompletionWorker, Pump, PollDrawFailure, RaiseCallbackInterrupt, WakeWorker, Apply,
           WorkerExits, WorkerOnly
<1>2. worker.pc # "ended" \/ worker' = worker
    BY DEF CompletionWorker, Pump, PollDrawFailure, RaiseCallbackInterrupt, WakeWorker, Apply,
           WorkerExits
<1> QED BY <1>1, <1>2, ReleaseFrame

LEMMA ReleaseVblank == TypeOK /\ ReleaseInv /\ (VblankRuns \/ HandlerReturns) => ReleaseInv'
<1> SUFFICES ASSUME TypeOK, ReleaseInv, VblankRuns \/ HandlerReturns PROVE ReleaseInv'
    OBVIOUS
<1>1. service' = service /\ app' = app /\ bridge' = bridge /\ worker' = worker
    BY DEF VblankRuns, StartPass, MarkVblank, TakeRequest, BeginSource1, AnswerRequest,
           VblankExits, HandlerReturns, VblankOnly
<1>2. vblank.pc # "ended"
    BY DEF VblankRuns, StartPass, MarkVblank, TakeRequest, BeginSource1, AnswerRequest,
           VblankExits, HandlerReturns
<1> QED BY <1>1, <1>2, ReleaseFrame

LEMMA ReleaseGuest ==
    ASSUME NEW g \in GuestThreads PROVE TypeOK /\ ReleaseInv /\ Guest(g) => ReleaseInv'
<1> SUFFICES ASSUME TypeOK, ReleaseInv, Guest(g) PROVE ReleaseInv'
    OBVIOUS
<1> USE DEF TypeOK, GuestOnly
<1>1. CASE RecordCallback(g) \/ Lease(g) \/ DisableRingStubs(g) \/ TellLedger(g)
    BY <1>1, ReleaseFrame DEF RecordCallback, Lease, DisableRingStubs, TellLedger
<1>2. CASE SetInterruptCallback(g) \/ RejectRegistration(g) \/ Swap(g)
  <2>1. service'.sink = service.sink /\ service'.active = service.active
    BY <1>2 DEF SetInterruptCallback, RejectRegistration, Swap, ServiceStates
  <2> QED BY <1>2, <2>1, ReleaseFrame DEF SetInterruptCallback, RejectRegistration, Swap
<1>3. CASE EnterMmio(g)
  <2>1. app.pc \notin {"callbacks", "clear", "down"}
    BY <1>3 DEF EnterMmio, ReleaseInv
  <2>2. bridge'.bound = bridge.bound
    BY <1>3 DEF EnterMmio, BridgeStates
  <2> QED BY <1>3, <2>1, <2>2 DEF EnterMmio, ReleaseInv, Unbinding
<1>4. CASE LeaveMmio(g)
  <2>1. bridge'.bound = bridge.bound /\ bridge'.inFlight \subseteq bridge.inFlight
    BY <1>4 DEF LeaveMmio, BridgeStates
  <2> QED BY <1>4, <2>1 DEF LeaveMmio, ReleaseInv, Unbinding
<1> QED BY <1>1, <1>2, <1>3, <1>4 DEF Guest

LEMMA ReleaseApp == TypeOK /\ ReleaseInv /\ (StopProducers \/ Shutdown \/ Stops) => ReleaseInv'
<1> SUFFICES ASSUME TypeOK, ReleaseInv, StopProducers \/ Shutdown \/ Stops PROVE ReleaseInv'
    OBVIOUS
<1> USE DEF TypeOK, AppOnly, AppTo, ReleaseInv, Unbinding
<1>1. CASE StopProducers
    BY <1>1 DEF StopProducers, AppStates
<1>2. CASE Shutdown
    BY <1>2 DEF Shutdown, AppStates, ServiceStates
<1>3. CASE RefuseRequests
  <2>1. app'.pc \in {"withdraw", "close"} /\ app.pc = "stop"
    BY <1>3 DEF RefuseRequests, AppStates
  <2>2. service'.sink = service.sink /\ service'.active = service.active
    BY <1>3 DEF RefuseRequests, ServiceStates
  <2> QED BY <1>3, <2>1, <2>2 DEF RefuseRequests
<1>4. CASE WithdrawStubs \/ DrainLeases \/ GiveUpDrain \/ CloseLedger
  <2>1. app'.pc \in {"drain", "close", "completion"} /\ app.pc \in {"withdraw", "drain", "close"}
    BY <1>4 DEF WithdrawStubs, DrainLeases, GiveUpDrain, CloseLedger, AppStates
  <2> QED BY <1>4, <2>1 DEF WithdrawStubs, DrainLeases, GiveUpDrain, CloseLedger
<1>5. CASE AwaitCompletion
  <2>1. app'.pc = "vblank" /\ app.pc = "completion"
    BY <1>5 DEF AwaitCompletion, AppStates
  <2>2. service'.sink = service.sink /\ service'.active = service.active
    BY <1>5 DEF AwaitCompletion, ServiceStates
  <2> QED BY <1>5, <2>1, <2>2 DEF AwaitCompletion
<1>6. CASE AwaitVblank
  <2>1. app'.pc = "joinCompletion" /\ app.pc = "vblank"
    BY <1>6 DEF AwaitVblank, AppStates
  <2> QED BY <1>6, <2>1 DEF AwaitVblank
<1>7. CASE JoinCompletion
  <2>1. app'.pc = "joinVblank" /\ app.pc = "joinCompletion"
    BY <1>7 DEF JoinCompletion, AppStates
  <2>2. app'.completionDone => Joined(worker)
    BY <1>7 DEF JoinCompletion, AppStates
  <2> QED BY <1>7, <2>1, <2>2 DEF JoinCompletion, Joined
<1>8. CASE JoinVblank
  <2>1. app'.pc \in {"unbind", "up"} /\ app.pc = "joinVblank"
    BY <1>8 DEF JoinVblank, AppStates
  <2>2. app'.completionDone = app.completionDone
    BY <1>8 DEF JoinVblank, AppStates
  <2>3. app'.vblankDone => Joined(vblank)
    BY <1>8 DEF JoinVblank, AppStates
  <2> QED BY <1>8, <2>1, <2>2, <2>3 DEF JoinVblank, Joined
<1>9. CASE Expire
    BY <1>9 DEF Expire, AppStates
<1>10. CASE UnbindMmio
    BY <1>10 DEF UnbindMmio, AppStates, BridgeStates
<1>11. CASE AwaitCallbacks
    BY <1>11 DEF AwaitCallbacks, AppStates
<1>12. CASE ClearService
  <2>1. app'.pc = "down" /\ app.pc = "clear"
    BY <1>12 DEF ClearService, AppStates
  <2>2. app'.completionDone = app.completionDone /\ app'.vblankDone = app.vblankDone
    BY <1>12 DEF ClearService, AppStates
  <2>3. ~service'.sink => ~service.sink \/ (app.completionDone /\ app.vblankDone)
    BY <1>12 DEF ClearService, ServiceStates
  <2> QED BY <1>12, <2>1, <2>2, <2>3 DEF ClearService
<1> QED
  BY <1>1, <1>2, <1>3, <1>4, <1>5, <1>6, <1>7, <1>8, <1>9, <1>10, <1>11, <1>12 DEF Stops

\* Shutdown releases the guest memory of the effects and the fields of the
\* service only when no thread that uses them is left.
THEOREM ReleasedUnused == Spec => []NothingUsesReleased
<1>1. Spec => []TypeOK
    BY ServicesTypeCorrect
<1>2. TypeOK /\ ReleaseInv /\ [Next]_vars => ReleaseInv'
    BY ReleaseWorker, ReleaseVblank, ReleaseGuest, ReleaseApp, ReleaseFrame DEF Next, vars
<1>3. ReleaseInv => NothingUsesReleased
    BY DEF ReleaseInv, NothingUsesReleased
<1> QED BY ReleaseInit, <1>1, <1>2, <1>3, PTL DEF Spec

-----------------------------------------------------------------------------
(* The handshake of the completion worker and the vblank worker. *)

Answering == vblank.pc \in {"begin", "source1", "answer"}
Refused == ledger.closed \/ Next1 > ledger.limit

\* The handshake of the two workers. The request in progress is the last one
\* made, for the oldest callback; where it stands says how often source 1 ran.
RaiseInv ==
    /\ worker.request = irq.request /\ irq.served <= irq.request
    /\ ledger.failed \/ ledger.limit = MaxCallbacks
    /\ worker.pc \in {"raise", "wait", "apply"} => Next1 \in Callbacks /\ Next1 <= ledger.recorded
    /\ Answering =>
          /\ vblank.request = irq.request /\ irq.served < irq.request /\ ~irq.pending
          /\ Next1 \in Callbacks
          /\ worker.pc # "wait" =>
                ~service.running /\ ~(worker.pc = "apply" /\ worker.result = "Raised")
    /\ irq.pending =>
          /\ worker.pc = "wait" /\ service.running /\ irq.served < irq.request
          /\ raised[Next1] = 0
    /\ vblank.pc = "begin" => raised[Next1] = 0
    /\ vblank.pc = "source1" => raised[Next1] = 1
    /\ vblank.pc = "answer" => raised[Next1] = IF vblank.ran THEN 1 ELSE 0
    /\ worker.pc = "wait" /\ irq.served >= irq.request =>
          raised[Next1] = IF irq.result = "Raised" THEN 1 ELSE 0
    /\ worker.pc = "apply" /\ worker.result = "Raised" => raised[Next1] = 1
    /\ worker.pc = "apply" /\ worker.result # "Raised" /\ service.running => raised[Next1] = 0
    /\ worker.pc = "raise" /\ service.running => raised[Next1] = 0
    /\ worker.pc = "loop" /\ service.running /\ Next1 \in Callbacks =>
          raised[Next1] = 0 \/ Refused
    /\ CallbackRaisedOnce

LEMMA RaiseInit == Init => RaiseInv
BY ServiceConstants DEF Init, RaiseInv, Answering, Next1, Callbacks, CallbackRaisedOnce

\* What the handshake depends on: more records, a stop, a failure and a close
\* leave it as it is.
LEMMA RaiseFrame ==
    ASSUME TypeOK, TypeOK', RaiseInv, worker' = worker, vblank' = vblank, raised' = raised,
           irq'.request = irq.request, irq'.served = irq.served, irq'.result = irq.result,
           irq'.pending => irq.pending /\ service'.running, service'.running => service.running,
           ledger'.released = ledger.released, ledger'.recorded >= ledger.recorded,
           Refused => Refused', ledger'.failed \/ ledger'.limit = MaxCallbacks
    PROVE  RaiseInv'
<1>1. Next1' = Next1 /\ Answering' = Answering /\ Callbacks' = Callbacks
    BY DEF Next1, Answering, Callbacks
<1>2. CallbackRaisedOnce'
    BY <1>1 DEF RaiseInv, CallbackRaisedOnce
<1>3. Next1 <= ledger.recorded => Next1 <= ledger'.recorded
    BY ServiceConstants DEF Next1, TypeOK, LedgerStates
<1> QED BY <1>1, <1>2, <1>3 DEF RaiseInv

\* A failure keeps what is refused refused, and releases less.
LEMMA FailureRefusesMore ==
    ASSUME TypeOK, RaiseInv, ledger' \in FailedLedger(ledger)
    PROVE  /\ ledger'.released = ledger.released /\ ledger'.recorded = ledger.recorded
           /\ Refused => Refused'
           /\ ledger'.failed \/ ledger'.limit = MaxCallbacks
<1>1. CASE ledger.closed \/ ledger.failed
  <2>1. ledger' = ledger
    BY <1>1 DEF FailedLedger
  <2> QED BY <2>1 DEF Refused, Next1, RaiseInv
<1>2. CASE ~(ledger.closed \/ ledger.failed)
  <2>1. PICK k \in ledger.released .. ledger.recorded :
            ledger' = [ledger EXCEPT !.failed = TRUE, !.limit = k]
    BY <1>2 DEF FailedLedger
  <2>2. ledger'.closed = ledger.closed /\ ledger'.recorded = ledger.recorded
        /\ ledger'.released = ledger.released /\ ledger'.limit = k /\ ledger'.failed
    BY <2>1 DEF TypeOK, LedgerStates
  <2>3. k <= MaxCallbacks /\ k \in Nat
    BY ServiceConstants DEF TypeOK, LedgerStates
  <2>4. ledger.limit = MaxCallbacks
    BY <1>2 DEF RaiseInv
  <2> QED BY <2>2, <2>3, <2>4, ServiceConstants DEF Refused, Next1, TypeOK, LedgerStates
<1> QED BY <1>1, <1>2

\* The callbacks' history when neither it nor the released count moves.
LEMMA HistoryFrame ==
    ASSUME CallbackRaisedOnce, raised' = raised, ledger'.released = ledger.released
    PROVE  CallbackRaisedOnce'
BY DEF CallbackRaisedOnce, Next1, Callbacks

LEMMA RaiseWorker == TypeOK /\ RaiseInv /\ CompletionWorker => RaiseInv'
<1> SUFFICES ASSUME TypeOK, RaiseInv, CompletionWorker PROVE RaiseInv'
    OBVIOUS
<1> USE ServiceConstants
<1>0. TypeOK'
    BY WorkerTypes
<1>1. CASE Pump
  <2>1. /\ irq' = irq /\ ledger' = ledger /\ raised' = raised /\ vblank' = vblank
        /\ service' = service
        /\ worker.pc = "loop" /\ service.running /\ Releasable(Next1)
    BY <1>1 DEF Pump, WorkerOnly
  <2>2. worker'.pc = "raise" /\ worker'.request = worker.request
    BY <1>1 DEF Pump, WorkerTo, TypeOK, WorkerStates
  <2>3. Next1' = Next1 /\ Answering' = Answering /\ Refused' = Refused
    BY <2>1 DEF Next1, Answering, Refused
  <2>4. Next1 \in Callbacks /\ Next1 <= ledger.recorded /\ ~Refused
    BY <2>1 DEF Releasable, Refused, Next1, Callbacks, TypeOK, LedgerStates
  <2>5. ~Answering /\ ~irq.pending /\ raised[Next1] = 0
    BY <2>1, <2>4 DEF RaiseInv
  <2>6. CallbackRaisedOnce'
    BY <2>1, HistoryFrame DEF RaiseInv
  <2> QED BY <2>1, <2>2, <2>3, <2>4, <2>5, <2>6 DEF RaiseInv, Answering
<1>2. CASE PollDrawFailure
    BY <1>0, <1>2, FailureRefusesMore, RaiseFrame
    DEF PollDrawFailure, WorkerOnly, TypeOK, LedgerStates, RaiseInv
<1>3. CASE RaiseCallbackInterrupt
  <2>1. /\ ledger' = ledger /\ raised' = raised /\ vblank' = vblank /\ service' = service
        /\ worker.pc = "raise"
    BY <1>3 DEF RaiseCallbackInterrupt, WorkerOnly
  <2>2. Next1' = Next1 /\ Answering' = Answering /\ Refused' = Refused
    BY <2>1 DEF Next1, Answering, Refused
  <2>3. CallbackRaisedOnce'
    BY <2>1, HistoryFrame DEF RaiseInv
  <2>4. Next1 \in Callbacks /\ Next1 <= ledger.recorded /\ ~irq.pending
        /\ (service.running => raised[Next1] = 0 /\ ~Answering)
    BY <2>1 DEF RaiseInv
  <2>5. CASE irq' = irq
    <3>1. worker'.pc = "apply" /\ worker'.request = worker.request /\ worker'.result # "Raised"
      <4>1. [irq EXCEPT !.request = @ + 1, !.pending = TRUE].request # irq.request
        BY DEF TypeOK, IrqStates
      <4>2. \E r \in {"Stopped", "NoHandler"} :
                worker' = [worker EXCEPT !.pc = "apply", !.result = r]
        BY <1>3, <2>5, <4>1 DEF RaiseCallbackInterrupt
      <4> QED BY <4>2 DEF TypeOK, WorkerStates
    <3> QED BY <2>1, <2>2, <2>3, <2>4, <2>5, <3>1 DEF RaiseInv, Answering
  <2>6. CASE irq' # irq
    <3>1. /\ service.running
          /\ irq' = [irq EXCEPT !.request = @ + 1, !.pending = TRUE]
          /\ worker' = [worker EXCEPT !.pc = "wait", !.request = irq.request + 1]
      BY <1>3, <2>6 DEF RaiseCallbackInterrupt
    <3>2. irq'.request = irq.request + 1 /\ irq'.pending /\ irq'.served = irq.served
      BY <3>1 DEF TypeOK, IrqStates
    <3>3. worker'.pc = "wait" /\ worker'.request = irq.request + 1
      BY <3>1 DEF TypeOK, WorkerStates
    <3>4. irq.served <= irq.request /\ irq.served \in Nat /\ irq.request \in Nat
      BY DEF RaiseInv, TypeOK, IrqStates
    <3>5. irq'.served < irq'.request /\ ~(irq'.served >= irq'.request)
      BY <3>2, <3>4
    <3> QED BY <2>1, <2>2, <2>3, <2>4, <3>1, <3>2, <3>3, <3>4, <3>5 DEF RaiseInv, Answering
  <2> QED BY <2>5, <2>6
<1>4. CASE WakeWorker
  <2>1. /\ irq' = irq /\ ledger' = ledger /\ raised' = raised /\ vblank' = vblank
        /\ service' = service /\ worker.pc = "wait" /\ (Served \/ ~service.running)
    BY <1>4 DEF WakeWorker, WorkerOnly
  <2>2. worker'.pc = "apply" /\ worker'.request = worker.request
        /\ worker'.result = IF Served THEN irq.result ELSE "Stopped"
    BY <1>4 DEF WakeWorker, TypeOK, WorkerStates
  <2>3. Next1' = Next1 /\ Answering' = Answering /\ Refused' = Refused
    BY <2>1 DEF Next1, Answering, Refused
  <2>4. CallbackRaisedOnce'
    BY <2>1, HistoryFrame DEF RaiseInv
  <2>5. irq.served \in Nat /\ irq.request \in Nat /\ worker.request = irq.request
    BY DEF RaiseInv, TypeOK, IrqStates
  <2>6. CASE Served
    <3>1. irq.served >= irq.request
      BY <2>5, <2>6 DEF Served
    <3>2. ~Answering /\ ~irq.pending
      BY <2>5, <3>1 DEF RaiseInv
    <3> QED BY <2>1, <2>2, <2>3, <2>4, <2>5, <2>6, <3>1, <3>2 DEF RaiseInv, Answering
  <2>7. CASE ~Served
    <3>1. ~service.running /\ worker'.result = "Stopped"
      BY <2>1, <2>2, <2>7
    <3>2. ~irq.pending
      BY <3>1 DEF RaiseInv
    <3> QED BY <2>1, <2>2, <2>3, <2>4, <2>5, <3>1, <3>2 DEF RaiseInv, Answering
  <2> QED BY <2>6, <2>7
<1>5. CASE Apply
  <2>1. /\ irq' = irq /\ raised' = raised /\ vblank' = vblank /\ service' = service
        /\ worker.pc = "apply"
    BY <1>5 DEF Apply, WorkerOnly
  <2>2. worker'.pc = "loop" /\ worker'.request = worker.request
    BY <1>5 DEF Apply, WorkerTo, TypeOK, WorkerStates
  <2>3. Answering' = Answering /\ ~irq.pending
    BY <2>1 DEF Answering, RaiseInv
  <2>4. CASE worker.result = "Raised" /\ Releasable(Next1)
    <3>1. ledger' = [ledger EXCEPT !.released = @ + 1]
      BY <1>5, <2>4 DEF Apply
    <3>2. /\ ledger'.released = ledger.released + 1 /\ ledger'.failed = ledger.failed
          /\ ledger'.limit = ledger.limit
      BY <3>1 DEF TypeOK, LedgerStates
    <3>3. ledger.released \in Nat /\ Next1' = Next1 + 1 /\ Next1 = ledger.released + 1
      BY <3>2 DEF Next1, TypeOK, LedgerStates
    <3>4. ~Answering /\ raised[Next1] = 1
      BY <2>1, <2>4 DEF RaiseInv
    <3>5. CallbackRaisedOnce'
      BY <2>1, <3>2, <3>3, <3>4 DEF RaiseInv, CallbackRaisedOnce, Callbacks
    <3>6. Next1' \in Callbacks => raised[Next1'] = 0
      BY <3>3 DEF RaiseInv, CallbackRaisedOnce, Callbacks
    <3> QED BY <2>1, <2>2, <2>3, <3>2, <3>3, <3>4, <3>5, <3>6 DEF RaiseInv, Answering
  <2>5. CASE ~(worker.result = "Raised" /\ Releasable(Next1))
    <3>1. ledger' = ledger
      BY <1>5, <2>5 DEF Apply
    <3>2. Next1' = Next1 /\ Refused' = Refused
      BY <3>1 DEF Next1, Refused
    <3>3. CallbackRaisedOnce'
      BY <2>1, <3>1, HistoryFrame DEF RaiseInv
    <3>4. Next1 <= ledger.recorded /\ Next1 \in Callbacks
      BY <2>1 DEF RaiseInv
    <3>5. worker.result = "Raised" => Refused
      BY <2>5, <3>4 DEF Releasable, Refused, Next1, TypeOK, LedgerStates
    <3>6. worker.result # "Raised" /\ service.running => raised[Next1] = 0
      BY <2>1 DEF RaiseInv
    <3> QED BY <2>1, <2>2, <2>3, <3>1, <3>2, <3>3, <3>4, <3>5, <3>6 DEF RaiseInv, Answering
  <2> QED BY <2>4, <2>5
<1>6. CASE WorkerExits
  <2>1. /\ irq' = irq /\ ledger' = ledger /\ raised' = raised /\ vblank' = vblank
        /\ service' = service
    BY <1>6 DEF WorkerExits, WorkerOnly
  <2>2. /\ worker'.pc \in {"leaving", "flagged", "ended"} /\ worker'.request = worker.request
        /\ worker.pc \in {"loop", "leaving", "flagged"}
    BY <1>6 DEF WorkerExits, WorkerTo, TypeOK, WorkerStates
  <2>3. Next1' = Next1 /\ Answering' = Answering
    BY <2>1 DEF Next1, Answering
  <2>4. CallbackRaisedOnce'
    BY <2>1, HistoryFrame DEF RaiseInv
  <2> QED BY <2>1, <2>2, <2>3, <2>4 DEF RaiseInv, Answering
<1> QED BY <1>1, <1>2, <1>3, <1>4, <1>5, <1>6 DEF CompletionWorker

LEMMA RaiseVblank == TypeOK /\ RaiseInv /\ (VblankRuns \/ HandlerReturns) => RaiseInv'
<1> SUFFICES ASSUME TypeOK, RaiseInv, VblankRuns \/ HandlerReturns PROVE RaiseInv'
    OBVIOUS
<1> USE ServiceConstants
<1>1. ledger' = ledger /\ worker' = worker /\ service' = service
    BY DEF VblankRuns, StartPass, MarkVblank, TakeRequest, BeginSource1, AnswerRequest,
           VblankExits, HandlerReturns, VblankOnly
<1>2. Next1' = Next1 /\ Refused' = Refused
    BY <1>1 DEF Next1, Refused
\* Steps outside the answer to a request.
<1>3. ASSUME irq' = irq, raised' = raised, ~Answering, ~Answering' PROVE RaiseInv'
  <2>1. CallbackRaisedOnce'
    BY <1>1, <1>3, HistoryFrame DEF RaiseInv
  <2> QED BY <1>1, <1>2, <1>3, <2>1 DEF RaiseInv, Answering
<1>4. CASE StartPass
    BY <1>3, <1>4 DEF StartPass, Answering, TypeOK, VblankStates
<1>5. CASE MarkVblank
  <2>1. vblank'.pc \in {"source0", "mark"}
    BY <1>5 DEF MarkVblank, TypeOK, VblankStates
  <2> QED BY <1>3, <1>5, <2>1 DEF MarkVblank, Answering
<1>6. CASE VblankExits
    BY <1>3, <1>6 DEF VblankExits, VblankTo, Answering, TypeOK, VblankStates
<1>7. CASE TakeRequest
  <2>1. /\ raised' = raised /\ irq' = [irq EXCEPT !.pending = FALSE] /\ ~Answering
    BY <1>7 DEF TakeRequest, Answering
  <2>2. /\ irq'.request = irq.request /\ irq'.served = irq.served
        /\ irq'.result = irq.result /\ ~irq'.pending
    BY <2>1 DEF TypeOK, IrqStates
  <2>3. CallbackRaisedOnce'
    BY <1>1, <2>1, HistoryFrame DEF RaiseInv
  <2>4. CASE irq.pending /\ service.running
    <3>1. /\ vblank'.pc \in {"begin", "answer"} /\ vblank'.request = irq.request
          /\ vblank'.ran = FALSE
      BY <1>7, <2>4 DEF TakeRequest, WithoutHandler, TypeOK, VblankStates
    <3>2. /\ worker.pc = "wait" /\ irq.served < irq.request /\ raised[Next1] = 0
          /\ Next1 \in Callbacks
      BY <2>4 DEF RaiseInv
    <3>3. ~(irq.served >= irq.request)
      BY <3>2 DEF TypeOK, IrqStates
    <3> QED BY <1>1, <1>2, <2>1, <2>2, <2>3, <3>1, <3>2, <3>3 DEF RaiseInv, Answering
  <2>5. CASE ~(irq.pending /\ service.running)
    <3>1. vblank'.pc = "loop"
      BY <1>7, <2>5 DEF TakeRequest, TypeOK, VblankStates
    <3> QED BY <1>1, <1>2, <2>1, <2>2, <2>3, <3>1 DEF RaiseInv, Answering
  <2> QED BY <2>4, <2>5
<1>8. CASE BeginSource1
  <2>1. /\ irq' = irq /\ vblank.pc = "begin" /\ raised' = [raised EXCEPT ![Next1] = @ + 1]
    BY <1>8 DEF BeginSource1
  <2>2. vblank'.pc = "source1" /\ vblank'.request = vblank.request
    BY <1>8 DEF BeginSource1, VblankTo, TypeOK, VblankStates
  <2>3. /\ Next1 \in Callbacks /\ raised[Next1] = 0 /\ irq.served < irq.request
        /\ Next1 = ledger.released + 1 /\ ledger.released \in Nat
    BY <2>1 DEF RaiseInv, Answering, Next1, TypeOK, LedgerStates
  <2>4. raised'[Next1] = 1 /\ \A c \in Callbacks : c # Next1 => raised'[c] = raised[c]
    BY <2>1, <2>3 DEF TypeOK
  <2>5. CallbackRaisedOnce'
    BY <1>1, <1>2, <2>3, <2>4 DEF RaiseInv, CallbackRaisedOnce, Callbacks
  <2>6. ~(irq.served >= irq.request)
    BY <2>3 DEF TypeOK, IrqStates
  <2>7. /\ vblank.request = irq.request /\ ~irq.pending
        /\ (worker.pc # "wait" =>
               ~service.running /\ ~(worker.pc = "apply" /\ worker.result = "Raised"))
    BY <2>1 DEF RaiseInv, Answering
  <2> QED BY <1>1, <1>2, <2>1, <2>2, <2>3, <2>4, <2>5, <2>6, <2>7 DEF RaiseInv, Answering
<1>9. CASE HandlerReturns
  <2>1. CASE vblank.pc = "source0"
    BY <1>3, <1>9, <2>1 DEF HandlerReturns, VblankTo, Answering, TypeOK, VblankStates
  <2>2. CASE vblank.pc = "source1"
    <3>1. /\ irq' = irq /\ raised' = raised
      BY <1>9 DEF HandlerReturns
    <3>2. vblank'.pc = "answer" /\ vblank'.request = vblank.request /\ vblank'.ran = TRUE
      BY <1>9, <2>2 DEF HandlerReturns, TypeOK, VblankStates
    <3>3. CallbackRaisedOnce'
      BY <1>1, <3>1, HistoryFrame DEF RaiseInv
    <3> QED BY <1>1, <1>2, <2>2, <3>1, <3>2, <3>3 DEF RaiseInv, Answering
  <2> QED BY <1>9, <2>1, <2>2 DEF HandlerReturns
<1>10. CASE AnswerRequest
  <2>1. /\ raised' = raised /\ vblank.pc = "answer" /\ Answering
    BY <1>10 DEF AnswerRequest, Answering
  <2>2. vblank'.pc = "loop"
    BY <1>10 DEF AnswerRequest, VblankTo, TypeOK, VblankStates
  <2>3. /\ irq'.served = vblank.request /\ irq'.request = irq.request /\ irq'.pending = irq.pending
        /\ irq'.result = IF vblank.ran THEN "Raised" ELSE "NoHandler"
    BY <1>10 DEF AnswerRequest, TypeOK, IrqStates
  <2>4. vblank.request = irq.request /\ irq.request \in Nat /\ ~irq.pending
    BY <2>1 DEF RaiseInv, TypeOK, IrqStates
  <2>5. CallbackRaisedOnce'
    BY <1>1, <2>1, HistoryFrame DEF RaiseInv
  <2>6. raised[Next1] = IF irq'.result = "Raised" THEN 1 ELSE 0
    BY <2>1, <2>3 DEF RaiseInv
  <2>7. worker.pc # "wait" =>
            ~service.running /\ ~(worker.pc = "apply" /\ worker.result = "Raised")
    BY <2>1 DEF RaiseInv
  <2> QED BY <1>1, <1>2, <2>1, <2>2, <2>3, <2>4, <2>5, <2>6, <2>7 DEF RaiseInv, Answering
<1> QED BY <1>4, <1>5, <1>6, <1>7, <1>8, <1>9, <1>10 DEF VblankRuns

LEMMA RaiseGuest ==
    ASSUME NEW g \in GuestThreads PROVE TypeOK /\ RaiseInv /\ Guest(g) => RaiseInv'
<1> SUFFICES ASSUME TypeOK, RaiseInv, Guest(g) PROVE RaiseInv'
    OBVIOUS
<1> USE ServiceConstants DEF GuestOnly
<1>0. TypeOK'
    BY GuestTypes
<1>a. ledger.failed \/ ledger.limit = MaxCallbacks
    BY DEF RaiseInv
<1>b. ledger.recorded \in Nat /\ (irq.pending => service.running)
    BY DEF TypeOK, LedgerStates, RaiseInv
<1>1. CASE RecordCallback(g)
  <2>1. /\ ledger'.recorded = ledger.recorded + 1 /\ ledger'.released = ledger.released
        /\ ledger'.limit = ledger.limit /\ ledger'.failed = ledger.failed
        /\ ledger'.closed = ledger.closed
    BY <1>1 DEF RecordCallback, TypeOK, LedgerStates
  <2>2. Refused' = Refused
    BY <2>1 DEF Refused, Next1
  <2> QED BY <1>0, <1>1, <1>a, <1>b, <2>1, <2>2, RaiseFrame DEF RecordCallback
<1>2. CASE Lease(g) \/ DisableRingStubs(g) \/ EnterMmio(g) \/ LeaveMmio(g)
  <2>1. ledger' = ledger /\ service' = service
    BY <1>2 DEF Lease, DisableRingStubs, EnterMmio, LeaveMmio
  <2>2. Refused' = Refused
    BY <2>1 DEF Refused, Next1
  <2> QED
    BY <1>0, <1>2, <1>a, <1>b, <2>1, <2>2, RaiseFrame
    DEF Lease, DisableRingStubs, EnterMmio, LeaveMmio
<1>3. CASE SetInterruptCallback(g) \/ RejectRegistration(g) \/ Swap(g)
  <2>1. ledger' = ledger /\ service'.running = service.running
    BY <1>3 DEF SetInterruptCallback, RejectRegistration, Swap, TypeOK, ServiceStates
  <2>2. Refused' = Refused
    BY <2>1 DEF Refused, Next1
  <2> QED
    BY <1>0, <1>3, <1>a, <1>b, <2>1, <2>2, RaiseFrame
    DEF SetInterruptCallback, RejectRegistration, Swap
<1>4. CASE TellLedger(g)
  <2>1. ledger' \in FailedLedger(ledger) \/ ledger' = ledger
    BY <1>4 DEF TellLedger
  <2>2. /\ ledger'.released = ledger.released /\ ledger'.recorded = ledger.recorded
        /\ (Refused => Refused') /\ (ledger'.failed \/ ledger'.limit = MaxCallbacks)
    BY <1>a, <2>1, FailureRefusesMore DEF Refused, Next1
  <2> QED BY <1>0, <1>4, <1>b, <2>2, RaiseFrame DEF TellLedger
<1> QED BY <1>1, <1>2, <1>3, <1>4 DEF Guest

LEMMA RaiseApp == TypeOK /\ RaiseInv /\ (StopProducers \/ Shutdown \/ Stops) => RaiseInv'
<1> SUFFICES ASSUME TypeOK, RaiseInv, StopProducers \/ Shutdown \/ Stops PROVE RaiseInv'
    OBVIOUS
<1> USE ServiceConstants DEF AppOnly
<1>0. TypeOK'
    BY AppTypes
<1>a. /\ ledger.failed \/ ledger.limit = MaxCallbacks
      /\ ledger.recorded \in Nat /\ (irq.pending => service.running)
    BY DEF TypeOK, LedgerStates, RaiseInv
\* Steps of the stop that reach neither the request nor the ledger.
<1>1. ASSUME AppOnly, irq' = irq, ledger' = ledger, service'.running = service.running
      PROVE  RaiseInv'
  <2>1. Refused' = Refused
    BY <1>1 DEF Refused, Next1
  <2> QED BY <1>0, <1>1, <1>a, <2>1, RaiseFrame
<1>2. CASE StopProducers
    BY <1>1, <1>2 DEF StopProducers
<1>3. CASE Shutdown
    BY <1>1, <1>3 DEF Shutdown, TypeOK, ServiceStates
<1>4. CASE RefuseRequests
  <2>1. ~service'.running
    BY <1>4 DEF RefuseRequests, TypeOK, ServiceStates
  <2>2. /\ irq'.request = irq.request /\ irq'.served = irq.served
        /\ irq'.result = irq.result /\ ~irq'.pending
    BY <1>4 DEF RefuseRequests, TypeOK, IrqStates
  <2>3. ledger' = ledger /\ AppOnly
    BY <1>4 DEF RefuseRequests
  <2>4. Refused' = Refused
    BY <2>3 DEF Refused, Next1
  <2> QED BY <1>0, <1>a, <2>1, <2>2, <2>3, <2>4, RaiseFrame
<1>5. CASE CloseLedger
  <2>1. /\ ledger'.recorded = ledger.recorded /\ ledger'.released = ledger.released
        /\ ledger'.limit = ledger.limit /\ ledger'.failed = ledger.failed /\ ledger'.closed
    BY <1>5 DEF CloseLedger, TypeOK, LedgerStates
  <2>2. Refused'
    BY <2>1 DEF Refused
  <2> QED BY <1>0, <1>5, <1>a, <2>1, <2>2, RaiseFrame DEF CloseLedger
<1>6. CASE AwaitCompletion
  <2>1. service'.running = service.running
    BY <1>6 DEF AwaitCompletion, TypeOK, ServiceStates
  <2> QED BY <1>1, <1>6, <2>1 DEF AwaitCompletion
<1>7. CASE ClearService
  <2>1. service'.running = service.running
    BY <1>7 DEF ClearService, TypeOK, ServiceStates
  <2> QED BY <1>1, <1>7, <2>1 DEF ClearService
<1>8. CASE WithdrawStubs \/ DrainLeases \/ GiveUpDrain \/ AwaitVblank \/ JoinCompletion
    BY <1>1, <1>8 DEF WithdrawStubs, DrainLeases, GiveUpDrain, AwaitVblank, JoinCompletion
<1>9. CASE JoinVblank \/ Expire \/ UnbindMmio \/ AwaitCallbacks
    BY <1>1, <1>9 DEF JoinVblank, Expire, UnbindMmio, AwaitCallbacks
<1> QED BY <1>2, <1>3, <1>4, <1>5, <1>6, <1>7, <1>8, <1>9 DEF Stops

\* A released callback had source 1 raised for it once, the one in progress
\* at most once, a later one never: for any number of callbacks and threads,
\* and any stop, failure, close or change of the handler in between.
THEOREM RaisedOnce == Spec => []CallbackRaisedOnce
<1>1. Spec => []TypeOK
    BY ServicesTypeCorrect
<1>2. TypeOK /\ RaiseInv /\ UNCHANGED vars => RaiseInv'
    BY DEF vars, RaiseInv, Answering, Refused, Next1, Callbacks, CallbackRaisedOnce
<1>3. TypeOK /\ RaiseInv /\ [Next]_vars => RaiseInv'
    BY RaiseWorker, RaiseVblank, RaiseGuest, RaiseApp, <1>2 DEF Next
<1>4. RaiseInv => CallbackRaisedOnce
    BY DEF RaiseInv
<1> QED BY RaiseInit, <1>1, <1>3, <1>4, PTL DEF Spec
=============================================================================
