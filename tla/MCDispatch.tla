------------------------------ MODULE MCDispatch ------------------------------
(***************************************************************************)
(* The draw dispatch on small instances: a behaviour has one workload, which *)
(* bounds the draws and says which threads, owners and dispatchers take part *)
(* and which calls the guest makes. Removals and time-outs are not bounded.  *)
(***************************************************************************)
EXTENDS DrawDispatch, TLC

CONSTANTS
    Workloads,
    t1, t2, o1, o2, d1, d2
VARIABLE work \* the behaviour's workload
mcvars == <<vars, work>>

\* "sequence": two threads draw and drain under a removal that cannot reach
\* them. "removal": they draw, hold and exit under a removal with a deadline.
\* "again": two owners remove, and install a second dispatcher.
Bounds ==
    LET B(most, threads, owners, dispatchers, calls) ==
            [most |-> most, threads |-> threads, owners |-> owners,
             dispatchers |-> dispatchers, calls |-> calls]
    IN  [sequence |-> B(3, {t1, t2}, {}, {d1}, {"drain"}),
         removal  |-> B(2, {t1, t2}, {o1}, {d1}, {"lower", "exit"}),
         again    |-> B(2, {t1}, {o1, o2}, {d1, d2}, {"drain", "lower", "exit"})]

ASSUME Workloads \subseteq DOMAIN Bounds

Of == Bounds[work]

GuestMoves(t) ==
    \/ Begin(t) \/ EndDraw(t) \/ Commit(t) \/ HookSteps(t) \/ PostFails(t)
    \/ "exit" \in Of.calls /\ Exit(t)
    \/ "drain" \in Of.calls /\ BeginDrain(t)

MCInit == Init /\ work \in Workloads
\* The bound on the draws, and the draws the workload has.
Within ==
    /\ Len(roots') <= Of.most
    /\ "lower" \notin Of.calls => \A r \in DOMAIN roots' : ~roots'[r].lowerer
    /\ UNCHANGED work
MCNext ==
    /\ \/ \E t \in Of.threads : GuestMoves(t)
       \/ \E d \in Of.dispatchers : Worker(d) \/ Install(d)
       \/ RemoveInside
       \/ \E o \in Of.owners : Remove(o) \/ RemovalSteps(o) \/ TimeOut(o)
    /\ Within
MCSpec == MCInit /\ [][MCNext]_mcvars

\* The specification's fairness, of the steps the bounds leave: a thread that
\* waits at a draw past the bound keeps no other thread from going on.
MCFairness ==
    /\ \A t \in Threads : WF_mcvars(HookSteps(t) /\ Within)
    /\ \A d \in Dispatchers : WF_mcvars(Worker(d) /\ Within)
    /\ \A o \in Owners : WF_mcvars(RemovalSteps(o) /\ Within)
MCLiveSpec == MCSpec /\ MCFairness
=============================================================================
