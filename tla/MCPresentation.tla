---------------------------- MODULE MCPresentation ---------------------------
(***************************************************************************)
(* The presentation on small instances. A behaviour has one workload, which *)
(* bounds the frames begun and the window's events and says whether the     *)
(* host and the device may fail and the app may close it. Pumps and failures *)
(* are not bounded.                                                          *)
(***************************************************************************)
EXTENDS Presentation, TLC

CONSTANT Workloads
VARIABLES
    work,   \* the behaviour's workload
    events  \* window events so far

\* "faults": the app closes around two frames and anything may fail; "brief"
\* the same around one frame; in "loss" only the device may be removed, and what
\* follows from that. "reuse": frames enough for slots to be used again, also
\* after their copy failed. "window": resizes and suspensions around a frame.
\* "restore": a minimized window comes back.
Bounds ==
    LET B(frames, inputs, failures, close) ==
            [frames |-> frames, events |-> inputs, failures |-> failures,
             close |-> close]
    IN  [faults  |-> B(2, 0, {"host", "device"}, TRUE),
         brief   |-> B(1, 0, {"host", "device"}, TRUE),
         loss    |-> B(2, 0, {"device"}, TRUE),
         reuse   |-> B(NumSlots + 1, 0, {"host"}, FALSE),
         window  |-> B(1, 2, {}, FALSE),
         restore |-> B(0, 2, {}, FALSE)]

ASSUME Workloads \subseteq DOMAIN Bounds

Frames == Len(leases) + Len(producer.submitted)
Events ==
    \/ /\ \/ NewFrame /\ Frames < Bounds[work].frames
          \/ ProducerNext \/ Wake \/ PumpNext \/ WindowCalls
          \/ GpuNext \/ Report
          \/ Close /\ Bounds[work].close
       /\ UNCHANGED events
    \/ WindowNext /\ events < Bounds[work].events /\ events' = events + 1

MCInit == Init /\ work \in Workloads /\ events = 0
MCNext ==
    /\ Events /\ UNCHANGED work
    /\ removed' => "device" \in Bounds[work].failures
    /\ host'.health # "Healthy" => removed' \/ "host" \in Bounds[work].failures
MCSpec == MCInit /\ [][MCNext]_<<vars, work, events>>
MCLiveSpec == MCSpec /\ Fairness
Symmetry == Permutations(Extents)

=============================================================================
