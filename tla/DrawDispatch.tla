----------------------------- MODULE DrawDispatch -----------------------------
(***************************************************************************)
(* The draw hooks and their dispatcher (native_draw_dispatch.cpp): guest     *)
(* threads that enter, end, commit and abandon draws and drain them before   *)
(* an operation that must follow them, the sequencer's worker that concludes *)
(* the deferred ones, and the owner that installs a dispatcher and removes   *)
(* it with a deadline while hooks are running. One step is one access of a   *)
(* shared atomic, one section under a lock, or one callback.                 *)
(*                                                                           *)
(* A draw's verdict is whether it was reached: which reason it gives, the    *)
(* nested calls that fold into their root and the counters are left out.     *)
(***************************************************************************)
EXTENDS Naturals, Sequences

CONSTANTS
    Threads,      \* guest threads
    Owners,       \* threads that remove a dispatcher
    Dispatchers,
    NoDispatcher,
    NoOwner,
    Capacity      \* sequencerCapacity

ASSUME DispatchConstants ==
    /\ NoDispatcher \notin Dispatchers /\ NoOwner \notin Owners
    /\ Threads \cap Owners = {}
    /\ Capacity \in Nat \ {0}

VARIABLES
    installed, \* nativeDrawDispatcher
    removing,  \* the withdrawn dispatcher that waits for a removal
    lock,      \* removalMutex
    inFlight,  \* nativeDrawInFlight, as the uses it counts
    orphans,   \* the list of held roots whose threads exited, by owner
    jobs,      \* per dispatcher, the sequencer's queue
    running,   \* per dispatcher, the root its worker concludes; 0 for none
    roots,     \* every root so far, in entry order
    hook,      \* per guest thread, `active' and where the thread is
    removal,   \* per owner, where its RemoveNativeDrawDispatcher is
    used,      \* history: dispatchers installed so far
    freed      \* history: dispatchers a removal returned true for

shared == <<installed, removing, lock>>
queues == <<orphans, jobs, running>>
history == <<used, freed>>
vars == <<shared, inFlight, queues, roots, hook, removal, history>>

Actors == Threads \cup Owners
NullableDispatcher == Dispatchers \cup {NoDispatcher}
Roots == [thread : Threads, owner : Dispatchers, lowerer : BOOLEAN,
          deferred : BOOLEAN, built : BOOLEAN, verdicts : Nat]

\* Where a thread goes when its root has ended.
Continuations == {"idle", "enter", "gone"}
HookPcs == Continuations \cup
    {"count", "reload", "orphans", "root", "build", "finish", "refused", "release",
     "drainCount", "drainReload", "drain", "drainLeave"}
RemovalPcs == {"idle", "lock", "wait", "drain", "check", "orphans", "conclude"}

\* Where a thread or an owner is, among the roots so far.
HookStates(rs) ==
    [pc : HookPcs, next : Continuations, root : rs \cup {0}, held : BOOLEAN,
     target : NullableDispatcher, todo : Seq(rs)]
RemovalStates(rs) == [pc : RemovalPcs, target : NullableDispatcher, todo : Seq(rs)]

TypeOK ==
    /\ installed \in NullableDispatcher /\ removing \in NullableDispatcher
    /\ lock \in Owners \cup {NoOwner}
    /\ inFlight \subseteq Actors \X {"root", "drain", "removal"}
    /\ roots \in Seq(Roots)
    /\ orphans \in [Dispatchers -> Seq(DOMAIN roots)]
    /\ jobs \in [Dispatchers -> Seq(DOMAIN roots)]
    /\ \A d \in Dispatchers : Len(jobs[d]) <= Capacity
    /\ running \in [Dispatchers -> DOMAIN roots \cup {0}]
    /\ hook \in [Threads -> HookStates(DOMAIN roots)]
    /\ removal \in [Owners -> RemovalStates(DOMAIN roots)]
    /\ used \subseteq Dispatchers /\ freed \subseteq used

Init ==
    /\ installed = NoDispatcher /\ removing = NoDispatcher /\ lock = NoOwner
    /\ inFlight = {} /\ roots = <<>>
    /\ orphans = [d \in Dispatchers |-> <<>>]
    /\ jobs = [d \in Dispatchers |-> <<>>] /\ running = [d \in Dispatchers |-> 0]
    /\ hook = [t \in Threads |->
                  [pc |-> "idle", next |-> "idle", root |-> 0, held |-> FALSE,
                   target |-> NoDispatcher, todo |-> <<>>]]
    /\ removal = [o \in Owners |->
                     [pc |-> "idle", target |-> NoDispatcher, todo |-> <<>>]]
    /\ used = {} /\ freed = {}

-----------------------------------------------------------------------------
(* The sequencer. *)

\* Mutants of HasRoom: a full queue takes one more; one that would be full takes none.
RoomForOneMore(d) == Len(jobs[d]) <= Capacity
RoomBelow(d) == Len(jobs[d]) + 1 < Capacity
HasRoom(d) == Len(jobs[d]) < Capacity

\* Mutant of Drained: the job its worker took is not waited for.
QueueEmpty(d) == jobs[d] = <<>>
Drained(d) == jobs[d] = <<>> /\ running[d] = 0

Conclude(r) == roots' = [roots EXCEPT ![r].verdicts = @ + 1]

\* The worker takes a job, and concludes its root without the lock.
TakeJob(d) ==
    /\ running[d] = 0 /\ jobs[d] # <<>>
    /\ running' = [running EXCEPT ![d] = Head(jobs[d])]
    /\ jobs' = [jobs EXCEPT ![d] = Tail(@)]
    /\ UNCHANGED <<shared, inFlight, orphans, roots, hook, removal, history>>
RunJob(d) ==
    /\ running[d] # 0 /\ Conclude(running[d])
    /\ running' = [running EXCEPT ![d] = 0]
    /\ UNCHANGED <<shared, inFlight, orphans, jobs, hook, removal, history>>

Worker(d) == TakeJob(d) \/ RunJob(d)

-----------------------------------------------------------------------------
(* A guest thread enters a draw. *)

Becomes(t, h) == hook' = [hook EXCEPT ![t] = h]
Goes(t, pc) == Becomes(t, [hook[t] EXCEPT !.pc = pc])
At(t, pc) == hook[t].pc = pc /\ hook[t].todo = <<>>
Active(t) == hook[t].root
Uses(t, use) == inFlight' = inFlight \cup {<<t, use>>}
Leaves(t, use) == inFlight' = inFlight \ {<<t, use>>}
HookOnly == UNCHANGED <<shared, removal, history>>

\* BeginNativeDraw. A root still active at this stack was abandoned by a
\* skipped scope, or was held and never committed: it ends first.
Begin(t) ==
    /\ At(t, "idle")
    /\ Becomes(t, [hook[t] EXCEPT !.pc = IF Active(t) = 0 THEN "enter" ELSE "finish",
                                  !.next = "enter"])
    /\ UNCHANGED <<inFlight, queues, roots>> /\ HookOnly

\* The load that most draws of a session without a dispatcher end with.
Enter(t) ==
    /\ At(t, "enter")
    /\ Goes(t, IF installed = NoDispatcher THEN "idle" ELSE "count")
    /\ UNCHANGED <<inFlight, queues, roots>> /\ HookOnly

Count(t) ==
    /\ At(t, "count") /\ Uses(t, "root") /\ Goes(t, "reload")
    /\ UNCHANGED <<queues, roots>> /\ HookOnly

\* The dispatcher is read again once the use is counted.
Reload(t) ==
    /\ At(t, "reload")
    /\ IF installed = NoDispatcher
       THEN Leaves(t, "root") /\ Goes(t, "idle")
       ELSE /\ Becomes(t, [hook[t] EXCEPT !.pc = "orphans", !.target = installed])
            /\ UNCHANGED inFlight
    /\ UNCHANGED <<queues, roots>> /\ HookOnly

\* drainOrphans: the dispatcher's orphans leave the list together and are
\* refused one by one.
DrainOrphans(t) ==
    /\ At(t, "orphans")
    /\ orphans' = [orphans EXCEPT ![hook[t].target] = <<>>]
    /\ Becomes(t, [hook[t] EXCEPT !.pc = "root", !.todo = orphans[hook[t].target]])
    /\ UNCHANGED <<inFlight, jobs, running, roots>> /\ HookOnly

\* The root is taken; a direct lowerer root is never deferred, another if
\* `defer' accepts it.
NewRoot(t) ==
    /\ At(t, "root")
    /\ \E lowerer, deferred \in BOOLEAN :
          /\ ~(lowerer /\ deferred)
          /\ roots' = Append(roots, [thread |-> t, owner |-> hook[t].target,
                                     lowerer |-> lowerer, deferred |-> deferred,
                                     built |-> FALSE, verdicts |-> 0])
          /\ Becomes(t, [hook[t] EXCEPT !.root = Len(roots) + 1, !.target = NoDispatcher,
                                        !.pc = IF deferred THEN "idle" ELSE "build"])
    /\ UNCHANGED <<inFlight, queues>> /\ HookOnly

\* Mutant of EntryDrained: a root that is not deferred does not wait.
Unsequenced(d) == TRUE
EntryDrained(d) == Drained(d)

\* A root that is not deferred waits for the sequencer; then `began' builds it.
BuildRoot(t) ==
    /\ At(t, "build") /\ EntryDrained(roots[Active(t)].owner)
    /\ roots' = [roots EXCEPT ![Active(t)].built = TRUE]
    /\ Goes(t, "idle")
    /\ UNCHANGED <<inFlight, queues>> /\ HookOnly

-----------------------------------------------------------------------------
(* A root ends. *)

\* EndNativeDraw: a lowerer root whose lowering succeeded is held for its
\* commit, unless no exit node could be allocated; any other root ends.
EndDraw(t) ==
    /\ At(t, "idle") /\ Active(t) # 0 /\ ~hook[t].held
    /\ \/ roots[Active(t)].lowerer /\ Becomes(t, [hook[t] EXCEPT !.held = TRUE])
       \/ Becomes(t, [hook[t] EXCEPT !.pc = "finish", !.next = "idle"])
    /\ UNCHANGED <<inFlight, queues, roots>> /\ HookOnly

\* ObserveNativeDrawCommit.
Commit(t) ==
    /\ At(t, "idle") /\ Active(t) # 0 /\ hook[t].held
    /\ Becomes(t, [hook[t] EXCEPT !.pc = "finish", !.next = "idle"])
    /\ UNCHANGED <<inFlight, queues, roots>> /\ HookOnly

\* Finish: a deferred root is posted when there is room; if the post fails, it
\* concludes here once the sequencer is idle; any other concludes here.
Post(t) ==
    LET r == Active(t)
        d == roots[r].owner
    IN  /\ At(t, "finish") /\ roots[r].deferred /\ HasRoom(d)
        /\ jobs' = [jobs EXCEPT ![d] = Append(@, r)]
        /\ Goes(t, "release")
        /\ UNCHANGED <<inFlight, orphans, running, roots>> /\ HookOnly

PostFails(t) ==
    /\ At(t, "finish") /\ roots[Active(t)].deferred /\ Goes(t, "refused")
    /\ UNCHANGED <<inFlight, queues, roots>> /\ HookOnly

FinishHere(t) ==
    /\ \/ At(t, "finish") /\ ~roots[Active(t)].deferred
       \/ At(t, "refused") /\ Drained(roots[Active(t)].owner)
    /\ Becomes(t, [hook[t] EXCEPT !.pc = "release", !.todo = <<Active(t)>>])
    /\ UNCHANGED <<inFlight, queues, roots>> /\ HookOnly

\* Conclude, on the guest thread: a root that ended there, or an orphan.
ConcludeHere(t) ==
    /\ hook[t].todo # <<>>
    /\ Conclude(Head(hook[t].todo))
    /\ Becomes(t, [hook[t] EXCEPT !.todo = Tail(@)])
    /\ UNCHANGED <<inFlight, queues>> /\ HookOnly

\* Only then is the use of the dispatcher given back.
Release(t) ==
    /\ At(t, "release") /\ Leaves(t, "root")
    /\ Becomes(t, [hook[t] EXCEPT !.pc = hook[t].next, !.root = 0, !.held = FALSE])
    /\ UNCHANGED <<queues, roots>> /\ HookOnly

\* The thread exits (Pending::~Pending): a held root joins the orphans before
\* its use is given back, unless that fails; any other root is unwound.
Exit(t) ==
    /\ At(t, "idle")
    /\ \/ /\ Active(t) = 0 /\ Goes(t, "gone")
          /\ UNCHANGED orphans
       \/ /\ Active(t) # 0 /\ hook[t].held
          /\ orphans' = [orphans EXCEPT ![roots[Active(t)].owner] = Append(@, Active(t))]
          /\ Becomes(t, [hook[t] EXCEPT !.pc = "release", !.next = "gone"])
       \/ /\ Active(t) # 0
          /\ Becomes(t, [hook[t] EXCEPT !.pc = "finish", !.next = "gone"])
          /\ UNCHANGED orphans
    /\ UNCHANGED <<inFlight, jobs, running, roots>> /\ HookOnly

-----------------------------------------------------------------------------
(* DrainNativeDraws, before a clear, a resolve or a swap. *)

BeginDrain(t) ==
    /\ At(t, "idle") /\ (Active(t) = 0 \/ hook[t].held)
    /\ installed # NoDispatcher /\ Goes(t, "drainCount")
    /\ UNCHANGED <<inFlight, queues, roots>> /\ HookOnly

CountDrain(t) ==
    /\ At(t, "drainCount") /\ Uses(t, "drain") /\ Goes(t, "drainReload")
    /\ UNCHANGED <<queues, roots>> /\ HookOnly

ReloadDrain(t) ==
    /\ At(t, "drainReload")
    /\ Becomes(t, [hook[t] EXCEPT
                       !.pc = IF installed = NoDispatcher THEN "drainLeave" ELSE "drain",
                       !.target = installed])
    /\ UNCHANGED <<inFlight, queues, roots>> /\ HookOnly

AwaitDrain(t) ==
    /\ At(t, "drain") /\ Drained(hook[t].target) /\ Goes(t, "drainLeave")
    /\ UNCHANGED <<inFlight, queues, roots>> /\ HookOnly

LeaveDrain(t) ==
    /\ At(t, "drainLeave") /\ Leaves(t, "drain")
    /\ Becomes(t, [hook[t] EXCEPT !.pc = "idle", !.target = NoDispatcher])
    /\ UNCHANGED <<queues, roots>> /\ HookOnly

-----------------------------------------------------------------------------
(* The owner. *)

\* InstallNativeDrawDispatcher, of a dispatcher built for this session.
Install(d) ==
    /\ d \notin used /\ lock = NoOwner
    /\ removing = NoDispatcher /\ installed = NoDispatcher
    /\ installed' = d /\ used' = used \cup {d}
    /\ UNCHANGED <<removing, lock, inFlight, queues, roots, hook, removal, freed>>

RemovalBecomes(o, r) == removal' = [removal EXCEPT ![o] = r]
RemovalGoes(o, pc) == RemovalBecomes(o, [removal[o] EXCEPT !.pc = pc])
RemovalAt(o, pc) == removal[o].pc = pc /\ removal[o].todo = <<>>
RemovalOnly == UNCHANGED <<jobs, running, hook, used>>

\* withdrawForDrain: what is installed waits for a removal to drain it.
Withdraw ==
    /\ installed' = NoDispatcher
    /\ removing' = IF installed = NoDispatcher THEN removing ELSE installed

\* A removal called by a hook's callback, or by a job's: it withdraws if no
\* other removal is running, and returns false.
InsideHook ==
    \/ \E t \in Threads : Active(t) # 0 \/ hook[t].todo # <<>>
    \/ \E d \in Dispatchers : running[d] # 0
RemoveInside ==
    /\ InsideHook /\ lock = NoOwner /\ Withdraw
    /\ UNCHANGED <<lock, inFlight, orphans, roots, removal, freed>> /\ RemovalOnly

\* RemoveNativeDrawDispatcher, outside any hook.
Remove(o) ==
    /\ RemovalAt(o, "idle") /\ RemovalGoes(o, "lock")
    /\ UNCHANGED <<shared, inFlight, orphans, roots, freed>> /\ RemovalOnly

WithdrawLocked(o) ==
    /\ RemovalAt(o, "lock") /\ lock = NoOwner /\ lock' = o
    /\ Withdraw /\ RemovalGoes(o, "wait")
    /\ UNCHANGED <<inFlight, orphans, roots, freed>> /\ RemovalOnly

AwaitHooks(o) ==
    /\ RemovalAt(o, "wait") /\ inFlight = {} /\ RemovalGoes(o, "drain")
    /\ UNCHANGED <<shared, inFlight, orphans, roots, freed>> /\ RemovalOnly

\* Mutant of SequencerDone: only the hooks are waited for.
HooksDone == TRUE
SequencerDone == removing # NoDispatcher => Drained(removing)

AwaitSequencer(o) ==
    /\ RemovalAt(o, "drain") /\ SequencerDone /\ RemovalGoes(o, "check")
    /\ UNCHANGED <<shared, inFlight, orphans, roots, freed>> /\ RemovalOnly

\* The dispatcher's orphans are refused under a use of this thread's own.
TakeRemoving(o) ==
    /\ RemovalAt(o, "check") /\ removing # NoDispatcher
    /\ removing' = NoDispatcher /\ Uses(o, "removal")
    /\ RemovalBecomes(o, [removal[o] EXCEPT !.pc = "orphans", !.target = removing])
    /\ UNCHANGED <<installed, lock, orphans, roots, freed>> /\ RemovalOnly

RefuseOrphans(o) ==
    /\ RemovalAt(o, "orphans")
    /\ orphans' = [orphans EXCEPT ![removal[o].target] = <<>>]
    /\ RemovalBecomes(o, [removal[o] EXCEPT !.pc = "conclude",
                                            !.todo = orphans[removal[o].target]])
    /\ UNCHANGED <<shared, inFlight, roots, freed>> /\ RemovalOnly

ConcludeOrphan(o) ==
    /\ removal[o].todo # <<>> /\ Conclude(Head(removal[o].todo))
    /\ RemovalBecomes(o, [removal[o] EXCEPT !.todo = Tail(@)])
    /\ UNCHANGED <<shared, inFlight, orphans, freed>> /\ RemovalOnly

\* The removal returns true: its caller may destroy what was withdrawn.
Removed(o) ==
    /\ \/ RemovalAt(o, "check") /\ removing = NoDispatcher
       \/ RemovalAt(o, "conclude")
    /\ Leaves(o, "removal")
    /\ RemovalBecomes(o, [removal[o] EXCEPT !.pc = "idle", !.target = NoDispatcher])
    /\ lock' = NoOwner /\ freed' = used
    /\ UNCHANGED <<installed, removing, orphans, roots>> /\ RemovalOnly

HasOrphans(d) == d # NoDispatcher /\ orphans[d] # <<>>

\* It returns false past its deadline; what it withdrew stays for a later one.
TimeOut(o) ==
    /\ \/ RemovalAt(o, "lock") /\ lock # NoOwner /\ UNCHANGED lock
       \/ /\ \/ RemovalAt(o, "wait") /\ inFlight # {}
             \/ RemovalAt(o, "drain") /\ ~SequencerDone
             \/ RemovalAt(o, "check") /\ HasOrphans(removing)
          /\ lock' = NoOwner
    /\ RemovalGoes(o, "idle")
    /\ UNCHANGED <<installed, removing, inFlight, orphans, roots, freed>> /\ RemovalOnly

-----------------------------------------------------------------------------

\* What a guest thread does on its way through a hook, whatever the guest does.
HookSteps(t) ==
    \/ Enter(t) \/ Count(t) \/ Reload(t) \/ DrainOrphans(t) \/ NewRoot(t)
    \/ BuildRoot(t) \/ Post(t) \/ FinishHere(t) \/ ConcludeHere(t) \/ Release(t)
    \/ CountDrain(t) \/ ReloadDrain(t) \/ AwaitDrain(t) \/ LeaveDrain(t)

GuestCalls(t) ==
    Begin(t) \/ EndDraw(t) \/ Commit(t) \/ Exit(t) \/ BeginDrain(t)

RemovalSteps(o) ==
    \/ WithdrawLocked(o) \/ AwaitHooks(o) \/ AwaitSequencer(o) \/ TakeRemoving(o)
    \/ RefuseOrphans(o) \/ ConcludeOrphan(o) \/ Removed(o)

Next ==
    \/ \E t \in Threads : GuestCalls(t) \/ HookSteps(t) \/ PostFails(t)
    \/ \E d \in Dispatchers : Worker(d) \/ Install(d)
    \/ RemoveInside
    \/ \E o \in Owners : Remove(o) \/ RemovalSteps(o) \/ TimeOut(o)

Spec == Init /\ [][Next]_vars

\* Threads run and callbacks return. The guest need not end a draw, and a
\* removal need not be called again.
Fairness ==
    /\ \A t \in Threads : WF_vars(HookSteps(t))
    /\ \A d \in Dispatchers : WF_vars(Worker(d))
    /\ \A o \in Owners : WF_vars(RemovalSteps(o))
LiveSpec == Spec /\ Fairness

-----------------------------------------------------------------------------
(* Properties. *)

\* Once a removal returned true, nothing uses what its owner may destroy: no
\* hook, drain, job, orphan or callback still reaches the dispatcher
\* (BeginNativeDraw's second load against RemoveNativeDrawDispatcher's waits).
Reaches(list, d) == \E i \in DOMAIN list : roots[list[i]].owner = d
RemovedIsUnused ==
    \A d \in freed :
        /\ d # installed /\ d # removing
        /\ Drained(d) /\ orphans[d] = <<>>
        /\ \A t \in Threads :
              /\ hook[t].target # d /\ ~Reaches(hook[t].todo, d)
              /\ Active(t) # 0 => roots[Active(t)].owner # d
        /\ \A o \in Owners :
              removal[o].target # d /\ ~Reaches(removal[o].todo, d)

\* What a guest thread does after DrainNativeDraws follows every draw it ended
\* before: a drain that found a dispatcher leaves with none of them owed.
DrainedDrawsDone ==
    \A t \in Threads : hook[t].pc = "drainLeave" /\ hook[t].target # NoDispatcher =>
        \A r \in DOMAIN roots \ {Active(t)} :
            roots[r].thread = t => roots[r].verdicts > 0

\* Each draw gets one verdict, in its thread's order, also when its thread
\* exited, its post failed or its dispatcher was removed; and a freed
\* dispatcher owes none (see DrawVerdicts).
Verdicts == INSTANCE DrawVerdicts
    WITH draws <- [r \in DOMAIN roots |-> [thread |-> roots[r].thread,
                                           owner |-> roots[r].owner,
                                           built |-> roots[r].built,
                                           verdicts |-> roots[r].verdicts]]
ImplementsDrawVerdicts == Verdicts!Spec

\* No thread waits for the sequencer for ever: a post gets room, a direct root
\* and a drain see it idle, also while a removal waits for them.
Waiting(t) == hook[t].pc \in {"finish", "refused", "build", "drain"}
WaitsEnd == \A t \in Threads : Waiting(t) ~> ~Waiting(t)

=============================================================================
