----------------------------- MODULE Presentation ----------------------------
(***************************************************************************)
(* The native presentation of title frames: the renderer thread offers      *)
(* frames (TitleProducer), the presenter thread claims the newest, copies   *)
(* it to the display and presents it (native_presentation.cpp,              *)
(* native_app_session.cpp), the window thread suspends and resizes, and a   *)
(* close drains both threads under one deadline (native_app_drain.h).       *)
(*                                                                          *)
(* A step of the presenter is what happens between two points where another *)
(* thread can see or change something: a gate or surface lock, an atomic    *)
(* read, a GPU wait. Letterboxing, overlays' content, captures, gamma, the  *)
(* idle canvas's redraw test and traces are left out.                       *)
(***************************************************************************)
EXTENDS PresentHost

CONSTANTS
    Extents,   \* client areas of the window
    NoExtent   \* an empty client area

ASSUME ExtentConstants == NoExtent \notin Extents /\ Extents # {}

VARIABLES
    surface, \* SurfaceModel, under surfaceMutex
    window,  \* the client area, and the window thread's calls in progress
    pump,    \* the presenter thread
    session  \* the close: who asked, what was reported, who owns the GPU set

surfaceVars == <<surface, window>>
vars == <<gateVars, producerVars, hostVars, surfaceVars, pump, session>>

PumpSteps == {"idle", "health", "surface", "suspend", "resize", "dropExtent",
              "mark", "claim", "fence", "prepare", "markCopy", "submitCopy",
              "waitCopy", "retire", "repaint", "acquire", "draw", "flip",
              "fail", "join", "closeGate", "drain", "terminate", "finished"}
Calls == [call : {"extent"}, extent : Extents \cup {NoExtent}]
         \cup [call : {"minimized"}, value : BOOLEAN]

TypeOK ==
    /\ GateType /\ ProducerType /\ HostType
    /\ surface \in [applied : Extents, latest : Extents, zero : BOOLEAN,
                    minimized : BOOLEAN, repaint : BOOLEAN]
    /\ window \in [client : Extents \cup {NoExtent}, calls : Seq(Calls),
                   latched : BOOLEAN, suspend : BOOLEAN]
    /\ pump \in [pc : PumpSteps, force : BOOLEAN, lease : Nat,
                 pending : Extents, actual : Extents, new : BOOLEAN,
                 display : Nat, kept : SUBSET Nat, drained : BOOLEAN]
    /\ session \in [stopping : BOOLEAN, owners : {"held", "released", "kept"},
                    report : {"none", "drained", "failed"}]

\* Create: the surface is applied at the window's size, nothing is shown.
Init ==
    /\ GateInit /\ ProducerInit /\ HostInit
    /\ \E e \in Extents :
          /\ surface = [applied |-> e, latest |-> e, zero |-> FALSE,
                        minimized |-> FALSE, repaint |-> FALSE]
          /\ window = [client |-> e, calls |-> <<>>, latched |-> FALSE,
                       suspend |-> FALSE]
          /\ pump = [pc |-> "idle", force |-> FALSE, lease |-> 0,
                     pending |-> e, actual |-> e, new |-> FALSE,
                     display |-> 0, kept |-> {}, drained |-> FALSE]
    /\ session = [stopping |-> FALSE, owners |-> "held", report |-> "none"]

----------------------------------------------------------------------------
(* SurfaceModel *)

SurfaceSuspended == surface.minimized \/ surface.zero

RequestExtent(extent) ==
    surface' = IF extent = NoExtent THEN [surface EXCEPT !.zero = TRUE]
               ELSE [surface EXCEPT !.zero = FALSE, !.latest = extent,
                                    !.repaint = @ \/ surface.zero]

SetMinimized(value) ==
    surface' = [surface EXCEPT !.minimized = value,
                  !.repaint = @ \/ (surface.minimized /\ ~value)]

\* A request newer than the one the swap chain served stays pending.
MarkApplied(actual, request) ==
    surface' = [surface EXCEPT !.applied = actual, !.repaint = TRUE,
                  !.latest = IF @ = request THEN actual ELSE @]

----------------------------------------------------------------------------
(* The window thread. An event changes the window at once; its handler then *)
(* makes one or more calls, each a change under the surface's lock and a     *)
(* later one of the gate with the value read in the first.                   *)

Quiet == window.calls = <<>> /\ ~window.latched

WindowEvent(client, calls) ==
    /\ Quiet /\ ~session.stopping
    /\ window' = [window EXCEPT !.client = client, !.calls = calls]
    /\ UNCHANGED <<gateVars, producerVars, hostVars, surface, pump, session>>

ExtentCall(e) == [call |-> "extent", extent |-> e]
MinimizedCall(v) == [call |-> "minimized", value |-> v]

WindowResized(e) ==
    /\ e # window.client
    /\ WindowEvent(e, <<ExtentCall(e)>>)
WindowMinimized ==
    /\ ~surface.minimized
    /\ WindowEvent(window.client, <<MinimizedCall(TRUE)>>)
\* A restore also requests the client area again.
WindowRestored ==
    /\ surface.minimized
    /\ WindowEvent(window.client,
                   <<MinimizedCall(FALSE), ExtentCall(window.client)>>)

LatchSurface ==
    /\ window.calls # <<>> /\ ~window.latched
    /\ LET c == Head(window.calls) IN
          IF c.call = "extent" THEN RequestExtent(c.extent)
          ELSE SetMinimized(c.value)
    /\ window' = [window EXCEPT !.latched = TRUE,
                    !.suspend = surface'.minimized \/ surface'.zero]
    /\ UNCHANGED <<gateVars, producerVars, hostVars, pump, session>>

LatchGate ==
    /\ window.latched
    /\ SetSuspended(window.suspend)
    /\ window' = [window EXCEPT !.latched = FALSE, !.suspend = FALSE,
                    !.calls = Tail(@)]
    /\ UNCHANGED <<producerVars, hostVars, surface, pump, session>>

----------------------------------------------------------------------------
(* One pump of the presenter (run, PumpOnce, Repaint) *)

At(pc) == pump.pc = pc
Go(pc) == pump' = [pump EXCEPT !.pc = pc]

\* The pump returns; what it remembered of this frame is gone.
Return == pump' = [pump EXCEPT !.pc = "idle", !.force = FALSE, !.new = FALSE,
                     !.lease = 0, !.pending = surface.applied,
                     !.actual = surface.applied]

\* The app advanced the session. A stop is seen first.
Wake ==
    /\ At("idle") /\ ~session.stopping
    /\ Go("health")
    /\ UNCHANGED <<gateVars, producerVars, hostVars, surfaceVars, session>>

CheckHealth ==
    /\ At("health")
    /\ LET seen == gate.lost \/ removed IN
        /\ host' = IF seen THEN [host EXCEPT !.health = "DeviceLost"] ELSE host
        /\ Go(IF ~seen /\ Healthy THEN "surface" ELSE "fail")
    /\ UNCHANGED <<gateVars, producerVars, gpu, surfaceVars, session>>

\* suspended and pending are read together; the lock is then given up.
ReadSurface ==
    /\ At("surface")
    /\ pump' = [pump EXCEPT
          !.pc = IF SurfaceSuspended THEN "suspend"
                 ELSE IF surface.latest # surface.applied THEN "resize"
                 ELSE "claim",
          !.pending = surface.latest]
    /\ UNCHANGED <<gateVars, producerVars, hostVars, surfaceVars, session>>

Suspend ==
    /\ At("suspend")
    /\ SetSuspended(TRUE)
    /\ Return
    /\ UNCHANGED <<producerVars, hostVars, surfaceVars, session>>

\* ResizeSwapChain reads the client area before and after its drain; an empty
\* one performs nothing. The extent reached is the window's.
Resize ==
    /\ At("resize")
    /\ \/ /\ window.client = NoExtent
          /\ Go("dropExtent") /\ UNCHANGED host
       \/ /\ DrainProved
          /\ \/ /\ host' = Drained(host)
                /\ IF window.client = NoExtent THEN Go("dropExtent")
                   ELSE pump' = [pump EXCEPT !.pc = "mark",
                                   !.actual = window.client]
             \/ /\ \E h \in PresentFaults : host' =
                      [Drained(host) EXCEPT !.health = Raised(@, h)]
                /\ Go("fail")
       \/ DrainFailed /\ Go("fail")
    /\ UNCHANGED <<gateVars, producerVars, gpu, surfaceVars, session>>

\* The session drops its own request for an empty client area.
DropExtent ==
    /\ At("dropExtent")
    /\ RequestExtent(NoExtent)
    /\ Go("suspend")
    /\ UNCHANGED <<gateVars, producerVars, hostVars, window, session>>

MarkResized ==
    /\ At("mark")
    /\ MarkApplied(pump.actual, pump.pending)
    /\ Go("claim")
    /\ UNCHANGED <<gateVars, producerVars, hostVars, window, session>>

\* A forced repaint claims nothing.
ClaimFrame ==
    /\ At("claim")
    /\ IF pump.force THEN Go("repaint") /\ UNCHANGED gateVars
       ELSE \/ ClaimNone /\ Go("repaint")
            \/ \E t \in Claimable :
                  /\ ClaimNewest(t)
                  /\ pump' = [pump EXCEPT !.pc = "fence", !.lease = t]
    /\ UNCHANGED <<producerVars, hostVars, surfaceVars, session>>

----------------------------------------------------------------------------
(* copyFrame: every early end fails the lease and goes through failure()     *)

\* The producer's fence cannot be behind the value it was offered with; only
\* a removed device is found here.
CheckFence ==
    /\ At("fence")
    /\ IF removed
       THEN /\ host' = [host EXCEPT !.health = "DeviceLost"]
            /\ FailLease(pump.lease) /\ Go("fail")
       ELSE Go("prepare") /\ UNCHANGED <<leases, host>>
    /\ UNCHANGED <<gate, producerVars, gpu, surfaceVars, session>>

\* Creating the display or its view fails, after the drain.
DisplayFailed ==
    /\ DrainProved
    /\ \E h \in PresentFaults :
          host' = [Drained(host) EXCEPT !.health = Raised(@, h)]

\* ensureDisplay drains before it replaces a display of another size; then
\* the copy slot's last work is awaited.
PrepareCopy ==
    /\ At("prepare")
    /\ \/ /\ \/ Proved("copy") /\ host' = Idle("copy")
             \/ DrainProved /\ host' = Drained(host)
          /\ Go("markCopy") /\ UNCHANGED leases
       \/ /\ \/ Fault(WaitFaults) \/ DrainFailed \/ DisplayFailed
          /\ FailLease(pump.lease) /\ Go("fail")
    /\ UNCHANGED <<gate, producerVars, gpu, surfaceVars, session>>

\* The lease may have been terminated since it was claimed.
MarkCopy ==
    /\ At("markCopy")
    /\ \/ /\ Moved(pump.lease, {"Claimed"}, "CopySubmitted")
          /\ Go("submitCopy") /\ UNCHANGED host
       \/ /\ StateOf(pump.lease) # "Claimed"
          /\ Fault({"Failed"}) /\ FailLease(pump.lease) /\ Go("fail")
    /\ UNCHANGED <<gate, producerVars, gpu, surfaceVars, session>>

\* Mutant of Keep: the failed frame's payload is released.
KeepNothing == Go("fail")

\* The payload of a copy not proved finished is kept for the process.
Keep == pump' = [pump EXCEPT !.pc = "fail", !.kept = @ \cup {pump.lease}]

SubmitCopy ==
    /\ At("submitCopy")
    /\ LET source == leases[pump.lease].slot IN
        \/ SubmitOk("copy", source) /\ Go("waitCopy") /\ UNCHANGED leases
        \/ SubmitFailed("copy", source) /\ FailLease(pump.lease) /\ Keep
    /\ UNCHANGED <<gate, producerVars, surfaceVars, session>>

WaitCopy ==
    /\ At("waitCopy")
    /\ \/ /\ Proved("copy") /\ host' = Idle("copy")
          /\ Go("retire") /\ UNCHANGED leases
       \/ Fault(WaitFaults) /\ FailLease(pump.lease) /\ Keep
    /\ UNCHANGED <<gate, producerVars, gpu, surfaceVars, session>>

RetireCopy ==
    /\ At("retire")
    /\ \/ /\ Moved(pump.lease, {"CopySubmitted"}, "Retired")
          /\ pump' = [pump EXCEPT !.pc = "repaint", !.new = TRUE,
                        !.display = pump.lease]
          /\ UNCHANGED host
       \/ /\ StateOf(pump.lease) # "CopySubmitted"
          /\ Fault({"Failed"}) /\ FailLease(pump.lease) /\ Go("fail")
    /\ UNCHANGED <<gate, producerVars, gpu, surfaceVars, session>>

----------------------------------------------------------------------------
(* presentDisplay *)

\* Without a new frame, a repaint or an idle canvas to draw, the pump ends;
\* the session may then force a repaint.
TakeRepaint ==
    /\ At("repaint")
    /\ surface' = [surface EXCEPT !.repaint = FALSE]
    /\ LET wanted == pump.new \/ surface.repaint \/ pump.force IN
        \/ (wanted \/ pump.display = 0) /\ Go("acquire")
        \/ /\ ~wanted
           /\ \/ Return
              \/ pump' = [pump EXCEPT !.pc = "health", !.force = TRUE]
    /\ UNCHANGED <<gateVars, producerVars, hostVars, window, session>>

Acquire ==
    /\ At("acquire")
    /\ \/ Go("draw") /\ UNCHANGED host
       \/ Fault(WaitFaults \cup PresentFaults) /\ Go("fail")
    /\ UNCHANGED <<gateVars, producerVars, gpu, surfaceVars, session>>

\* The draw slots alternate; the next one's last work is awaited first.
Draw ==
    /\ At("draw")
    /\ \/ /\ Proved(host.draw)
          /\ host' = [host EXCEPT !.inFlight = @ \cup {host.draw},
                        !.draw = OtherDraw]
          /\ Issued(host.draw, 0)
          /\ Go("flip")
       \/ /\ Fault(WaitFaults \cup {"Failed"}) /\ UNCHANGED gpu
          /\ Go("fail")
       \/ Proved(host.draw) /\ SubmitFailed(host.draw, 0) /\ Go("fail")
    /\ UNCHANGED <<gateVars, producerVars, surfaceVars, session>>

Flip ==
    /\ At("flip")
    /\ \/ /\ PresentQueued("Healthy") /\ Return
          /\ \/ UNCHANGED gate          \* occluded or out of date
             \/ IF pump.display # 0 THEN OnPresented(pump.display)
                ELSE UNCHANGED gate
       \/ /\ \E h \in PresentFaults : PresentQueued(h)
          /\ Go("fail") /\ UNCHANGED gate
    /\ UNCHANGED <<leases, producerVars, surfaceVars, session>>

\* failure(): admission stops and every pending lease ends.
Fail ==
    /\ At("fail")
    /\ TerminateAdmission
    /\ Return
    /\ UNCHANGED <<producerVars, hostVars, surfaceVars, session>>

----------------------------------------------------------------------------
(* The close *)

\* Close, once: admission closes and both threads are asked to stop.
Close ==
    /\ ~session.stopping
    /\ session' = [session EXCEPT !.stopping = TRUE]
    /\ producer' = [producer EXCEPT !.stop = TRUE]
    /\ CloseGate
    /\ UNCHANGED <<slots, removed, hostVars, surfaceVars, pump>>

SeeStop ==
    /\ At("idle") /\ session.stopping
    /\ Go("join")
    /\ UNCHANGED <<gateVars, producerVars, hostVars, surfaceVars, session>>

\* StopProducer joins the renderer thread.
JoinProducer ==
    /\ At("join") /\ producer.pc = "stopped"
    /\ Go("closeGate")
    /\ UNCHANGED <<gateVars, producerVars, hostVars, surfaceVars, session>>

ShutdownClose ==
    /\ At("closeGate")
    /\ CloseGate
    /\ Go("drain")
    /\ UNCHANGED <<producerVars, hostVars, surfaceVars, session>>

ShutdownDrain ==
    /\ At("drain")
    /\ \/ /\ DrainProved
          /\ host' = [Drained(host) EXCEPT !.health = FinalHealth(TRUE, @)]
          /\ pump' = [pump EXCEPT !.pc = "terminate", !.drained = TRUE]
       \/ /\ \E h \in FailedDrains :
                host' = [h EXCEPT !.health = FinalHealth(FALSE, @)]
          /\ pump' = [pump EXCEPT !.pc = "terminate"]
    /\ UNCHANGED <<gateVars, producerVars, gpu, surfaceVars, session>>

\* The owners of the GPU set are released, or kept until the process exits.
ShutdownEnd ==
    /\ At("terminate")
    /\ TerminateAdmission
    /\ session' = [session EXCEPT !.owners =
                     IF Retains(host.health) THEN "kept" ELSE "released"]
    /\ Go("finished")
    /\ UNCHANGED <<producerVars, hostVars, surfaceVars>>

\* Mutant of Report: a presenter that finished counts as drained.
ReportFinished ==
    /\ session.stopping /\ session.report = "none"
    /\ \E r \in {"drained", "failed"} :
        /\ r = "drained" => At("finished")
        /\ session' = [session EXCEPT !.report = r]
    /\ UNCHANGED <<gateVars, producerVars, hostVars, surfaceVars, pump>>

\* The watcher reports once, at the deadline or when the presenter finished;
\* an expired deadline is a failure even when the drain succeeded.
Report ==
    /\ session.stopping /\ session.report = "none"
    /\ \E r \in {"drained", "failed"} :
        /\ r = "drained" => At("finished") /\ pump.drained
        /\ session' = [session EXCEPT !.report = r]
    /\ UNCHANGED <<gateVars, producerVars, hostVars, surfaceVars, pump>>

----------------------------------------------------------------------------

PumpNext ==
    \/ CheckHealth \/ ReadSurface \/ Suspend \/ Resize \/ DropExtent
    \/ MarkResized \/ ClaimFrame
    \/ CheckFence \/ PrepareCopy \/ MarkCopy \/ SubmitCopy \/ WaitCopy
    \/ RetireCopy
    \/ TakeRepaint \/ Acquire \/ Draw \/ Flip \/ Fail
    \/ SeeStop \/ JoinProducer \/ ShutdownClose \/ ShutdownDrain \/ ShutdownEnd

ProducerNext == ProducerSteps /\ UNCHANGED <<hostVars, surfaceVars, pump, session>>
WindowNext ==
    \/ \E e \in Extents \cup {NoExtent} : WindowResized(e)
    \/ WindowMinimized \/ WindowRestored
WindowCalls == LatchSurface \/ LatchGate
GpuNext ==
    /\ \/ FinishFrame /\ UNCHANGED hostVars
       \/ FinishWork \/ RemoveDevice
    /\ UNCHANGED <<surfaceVars, pump, session>>
NewFrame == BeginFrame /\ UNCHANGED <<hostVars, surfaceVars, pump, session>>

Next ==
    \/ NewFrame \/ ProducerNext
    \/ Wake \/ PumpNext
    \/ WindowNext \/ WindowCalls
    \/ GpuNext
    \/ Close \/ Report

Spec == Init /\ [][Next]_vars

\* Every wait of the two threads is bounded, so each of their steps is taken:
\* the GPU, the window and the app owe nothing.
Fairness ==
    WF_vars(PumpNext) /\ WF_vars(ProducerNext) /\ WF_vars(Report)

----------------------------------------------------------------------------
(* Properties *)

Copying(s) == "copy" \in gpu.busy /\ gpu.source = s

\* The renderer never writes an output while the presenter's copy may read it
\* (AwaitReuse: "never a consumer-owned one").
SourceStable == \A s \in Slots : Copying(s) => slots[s].gpu # "drawing"

\* Both sides keep the memory of an output the copy may read: the presenter
\* holds the lease's payload, for the process once its copy is unproved
\* (retainForProcessLifetime), and a renderer thread that left has given the
\* slot's resource up without releasing it (shutdownOnRendererThread).
SourceHeld ==
    \A s \in Slots : Copying(s) =>
        /\ \/ At("waitCopy") /\ leases[pump.lease].slot = s
           \/ \E t \in pump.kept : leases[t].slot = s
        /\ SlotHeld(s)

\* The GPU owners are released only when none of their work can run: the
\* slots, the presents behind them and the copy (Shutdown, FinalizeDrain).
OwnersOutliveGpu == session.owners = "released" => gpu.busy = {}

\* A close reported as drained left nothing behind: both threads are done,
\* every lease has ended and the GPU is idle (NativeAppDrain::Run).
DrainedIsIdle ==
    session.report = "drained" =>
        /\ producer.pc = "stopped" /\ At("finished") /\ gpu.busy = {}
        /\ \A t \in Tokens : IsTerminal(StateOf(t))

\* Every admitted offer is queued, dropped, claimed or stale exactly once,
\* until a failure ends the pending ones uncounted; the claimed ones are
\* those a consumer owned (PresentationCounters).
OffersAccounted ==
    LET counted == gate.dropped + gate.claimed + gate.stale + Len(gate.queue)
        owned == {t \in Tokens : StateOf(t) \notin {"Published", "Cancelled"}}
    IN  /\ counted <= Len(leases)
        /\ gate.accepting => counted = Len(leases)
        /\ gate.claimed = Cardinality(owned)

\* The frames the ledger counts as presented only move forward, though offers
\* are dropped, cancelled by their producer and claimed newest first.
FramesInOrder == [][gate'.shown >= gate.shown]_vars

\* A gate is suspended when the window is, once the calls that tell it have
\* returned: "A zero extent or a minimized window suspends presentation".
GateFollowsSurface ==
    (Quiet /\ pump.pc \notin {"suspend", "dropExtent"}) =>
        (gate.suspended => SurfaceSuspended)

\* After a close the drain ends and no lease is left pending, whatever the
\* GPU does.
CloseEnds ==
    session.stopping ~>
        At("finished") /\ \A t \in Tokens : IsTerminal(StateOf(t))

----------------------------------------------------------------------------
(* Refinement of OutputOwnership *)

\* A slot with a copy in progress is read, one with an offer pending or a
\* frame done is ready, one whose lease failed is lost.
OwnerOf(s) ==
    LET state == IF slots[s].lease = 0 THEN "Retired"
                 ELSE StateOf(slots[s].lease)
    IN  CASE slots[s].gpu = "drawing" -> "writing"
          [] slots[s].gpu = "done" \/ state \in {"Published", "Claimed"} ->
                "ready"
          [] state = "CopySubmitted" -> "reading"
          [] state = "Failed" -> "lost"
          [] OTHER -> "free"

Ownership == INSTANCE OutputOwnership
    WITH owner <- [s \in Slots |-> OwnerOf(s)]
ImplementsOutputOwnership == Ownership!Spec

=============================================================================
