----------------------------- MODULE MCCompletion -----------------------------
(***************************************************************************)
(* The completion source on small instances: a behaviour has one workload,  *)
(* which bounds the spans submitted and says which calls are made.          *)
(***************************************************************************)
EXTENDS NativeCompletion, TLC

CONSTANT Workloads
VARIABLES work, spans
mcvars == <<vars, work, spans>>

\* "chains": passes and terminals, the device may be lost. "mixed": frameless
\* spans too, two pollers, and the close. "direct": the same kinds on a direct
\* stream. "images": resolves whose images are taken, discarded and peeked.
B(n, kinds, images, threads, ends) ==
    [spans |-> n, kinds |-> kinds, images |-> images, polls |-> threads, ends |-> ends]
Bounds ==
    [chains |-> B(3, {"prefix", "terminal"}, {}, 1, {"lost"}),
     mixed  |-> B(3, {"inherit", "terminal"}, {}, 2, {"close"}),
     direct |-> B(2, Kinds, {}, 1, {}),
     images |-> B(2, {"prefix", "terminal"}, {"take", "discard", "peek"}, 1, {"close"})]
ASSUME Workloads \subseteq DOMAIN Bounds
Bound == Bounds[work]

MCInit ==
    /\ Init /\ work \in Workloads /\ spans = 0
    /\ stream.direct = (work = "direct")
Calls ==
    \/ /\ spans < Bound.spans /\ spans' = spans + 1
       /\ \E kind \in Bound.kinds :
             StartSubmit(kind, IF Bound.images = {} THEN 0 ELSE spans + 1)
    \/ /\ UNCHANGED spans
       /\ \/ SubmitNext
          \/ \E p \in 1 .. Bound.polls : PollNext(p)
          \/ \E mark \in Marks :
                \/ "take" \in Bound.images /\ TakeGuestImage(mark)
                \/ "discard" \in Bound.images /\ DiscardGuestImagesThrough(mark)
                \/ "peek" \in Bound.images /\ StartPeek(mark)
          \/ PeekNext \/ RendererNext
          \/ GpuCompletes /\ UNCHANGED sourceVars
          \/ "lost" \in Bound.ends /\ DeviceLost /\ UNCHANGED sourceVars
          \/ "close" \in Bound.ends /\ (Close \/ StopProducer)
MCNext == Calls /\ UNCHANGED work
MCSpec == MCInit /\ [][MCNext]_mcvars
MCLiveSpec == MCSpec /\ Fairness

\* Host work that was queued completes, unless the source fails: neither a
\* refusal, a failed recording nor a rejected frame leaves a value behind.
EveryValueCompletes == \A n \in 1 .. 2 : (LastValue >= n) ~> Settles(n)
=============================================================================
