---------------------------- MODULE DispatchProofs ----------------------------
(***************************************************************************)
(* Theorems of the draw dispatch for any guest threads, owners, dispatchers *)
(* and capacity.                                                           *)
(*                                                                         *)
(* The argument. A dispatcher is live while it is installed or waits for a *)
(* removal. Whatever reaches a dispatcher (a root, a drain, a job, an       *)
(* orphan, a refusal under way) reaches a live one, because a hook counts   *)
(* its use before it reads `installed' and gives it back after its last     *)
(* access. A removal first makes `installed' empty, under the lock that     *)
(* keeps others from filling it again, so once it saw no use counted every  *)
(* guest thread is out of the hooks and stays out; then only the queue and  *)
(* the orphans are left, and it empties those before it returns.            *)
(*                                                                         *)
(* That the dispatch implements DrawVerdicts rests on where a root without  *)
(* its verdict is kept, in one place only, and on what is ahead of it there *)
(* (OrderInv, in the second half of the module).                           *)
(***************************************************************************)
EXTENDS DrawDispatch, TLAPS, SequenceTheorems

Live == {installed, removing} \ {NoDispatcher}

OwnersIn(list, owners) == \A i \in DOMAIN list : roots[list[i]].owner \in owners

\* Where a guest thread is, and what it counted and reaches there.
HookInv(t) ==
    /\ hook[t].pc \in {"enter", "count", "reload", "orphans", "root"} => Active(t) = 0
    /\ hook[t].pc \in {"build", "finish", "refused", "release"} => Active(t) # 0
    /\ hook[t].pc \in {"orphans", "root", "drain"} => hook[t].target # NoDispatcher
    /\ hook[t].target # NoDispatcher =>
          /\ hook[t].pc \in {"orphans", "root", "drain", "drainLeave"}
          /\ hook[t].target \in Live
    /\ hook[t].todo # <<>> => hook[t].pc \in {"root", "release"}
    /\ Active(t) # 0 \/ hook[t].pc \in {"reload", "orphans", "root"} =>
          <<t, "root">> \in inFlight
    /\ hook[t].pc \in {"drainReload", "drain", "drainLeave"} => <<t, "drain">> \in inFlight
    /\ Active(t) # 0 => roots[Active(t)].owner \in Live
    /\ OwnersIn(hook[t].todo, Live)

\* What waits for a dispatcher is its own, and only a live one is waited for.
QueueInv(d) ==
    /\ ~Drained(d) => d \in Live
    /\ orphans[d] # <<>> =>
          d \in Live \/ \E o \in Owners : removal[o].pc = "orphans" /\ removal[o].target = d
    /\ OwnersIn(orphans[d], {d})

\* A guest thread that reaches no dispatcher.
Out(t) == Active(t) = 0 /\ hook[t].target = NoDispatcher /\ hook[t].todo = <<>>

HooksGone == {"drain", "check", "orphans", "conclude"}
Holding == {"wait"} \cup HooksGone

\* Where a removal is, and what it has waited for there.
RemovalInv(o) ==
    /\ lock = o <=> removal[o].pc \in Holding
    /\ removal[o].pc \in HooksGone => \A t \in Threads : Out(t)
    /\ removal[o].pc = "check" /\ removing # NoDispatcher => Drained(removing)
    /\ removal[o].target # NoDispatcher <=> removal[o].pc \in {"orphans", "conclude"}
    /\ removal[o].pc \in {"orphans", "conclude"} => removing = NoDispatcher
    /\ removal[o].todo # <<>> => removal[o].pc = "conclude"
    /\ OwnersIn(removal[o].todo, {removal[o].target})
    /\ removal[o].target \notin freed

SessionInv ==
    /\ Live \subseteq used /\ Live \cap freed = {}
    /\ installed = NoDispatcher \/ removing = NoDispatcher
    /\ lock # NoOwner => installed = NoDispatcher

IInv ==
    /\ TypeOK /\ SessionInv
    /\ \A t \in Threads : HookInv(t)
    /\ \A d \in Dispatchers : QueueInv(d)
    /\ \A o \in Owners : RemovalInv(o)

\* A root without its verdict is active on its thread, about to get it there,
\* or queued, unless its thread has exited or is about to.
Queued(r) ==
    LET d == roots[r].owner
    IN  running[d] = r \/ \E i \in DOMAIN jobs[d] : jobs[d][i] = r
Owed(r) ==
    LET h == hook[roots[r].thread]
    IN  \/ h.root = r /\ h.pc # "release"
        \/ \E i \in DOMAIN h.todo : h.todo[i] = r
        \/ Queued(r)
        \/ h.pc = "gone"
        \/ h.pc = "release" /\ h.next = "gone"
OwedInv == \A r \in DOMAIN roots : roots[r].verdicts = 0 => Owed(r)

-----------------------------------------------------------------------------
(* Facts about sequences and roots. *)

LEMMA WiderSeq ==
    ASSUME NEW S, NEW T, S \subseteq T, NEW s \in Seq(S)
    PROVE  s \in Seq(T)
OBVIOUS

LEMMA HeadTail ==
    ASSUME NEW S, NEW s \in Seq(S), s # <<>>
    PROVE  /\ Head(s) \in S /\ Head(s) = s[1] /\ 1 \in DOMAIN s
           /\ Tail(s) \in Seq(S) /\ Len(Tail(s)) = Len(s) - 1
           /\ \A i \in DOMAIN Tail(s) : i + 1 \in DOMAIN s /\ Tail(s)[i] = s[i + 1]
           /\ \A i \in DOMAIN s : i = 1 \/ (i - 1 \in DOMAIN Tail(s) /\ Tail(s)[i - 1] = s[i])
<1>1. s \in Seq(S) /\ Len(s) \in Nat /\ Len(s) >= 1 /\ DOMAIN s = 1 .. Len(s)
  BY EmptySeq, LenProperties
<1>2. Head(s) \in S /\ Head(s) = s[1]
  BY <1>1
<1>3. /\ Tail(s) \in Seq(S) /\ Len(Tail(s)) = Len(s) - 1 /\ DOMAIN Tail(s) = 1 .. Len(s) - 1
      /\ \A i \in 1 .. Len(s) - 1 : Tail(s)[i] = s[i + 1]
  BY <1>1, HeadTailProperties, LenProperties
<1>4. 1 \in DOMAIN s /\ \A i \in DOMAIN Tail(s) : i + 1 \in DOMAIN s
  BY <1>1, <1>3
<1>5. ASSUME NEW i \in DOMAIN s, i # 1
      PROVE  i - 1 \in DOMAIN Tail(s) /\ Tail(s)[i - 1] = s[i]
  <2>1. i - 1 \in 1 .. Len(s) - 1 /\ (i - 1) + 1 = i
    BY <1>1, <1>5
  <2> QED BY <1>3, <2>1
<1>6. \A i \in DOMAIN s : i = 1 \/ (i - 1 \in DOMAIN Tail(s) /\ Tail(s)[i - 1] = s[i])
  BY <1>5
<1> QED BY <1>2, <1>3, <1>4, <1>6

\* The roots a list names stay, with their threads and owners.
RootsKept ==
    /\ DOMAIN roots \subseteq DOMAIN roots'
    /\ \A r \in DOMAIN roots :
          /\ roots'[r].owner = roots[r].owner /\ roots'[r].thread = roots[r].thread
          /\ roots[r].verdicts > 0 => roots'[r].verdicts > 0

LEMMA SameRoots ==
    ASSUME roots' = roots
    PROVE  RootsKept
BY DEF RootsKept

LEMMA ConcludedRoots ==
    ASSUME roots \in Seq(Roots), NEW r \in DOMAIN roots, Conclude(r)
    PROVE  /\ RootsKept /\ roots' \in Seq(Roots) /\ DOMAIN roots' = DOMAIN roots
           /\ roots'[r].verdicts > 0
           /\ \A q \in DOMAIN roots \ {r} : roots'[q] = roots[q]
<1>1. /\ roots' = [roots EXCEPT ![r].verdicts = @ + 1]
      /\ \A q \in DOMAIN roots : roots[q] \in Roots
      /\ DOMAIN roots = 1 .. Len(roots) /\ Len(roots) \in Nat
  BY LenProperties, ElementOfSeq DEF Conclude
<1>2. roots' = [roots EXCEPT ![r] = [roots[r] EXCEPT !.verdicts = @ + 1]]
  BY <1>1
<1>3. [roots[r] EXCEPT !.verdicts = @ + 1] \in Roots
  BY <1>1 DEF Roots
<1>4. roots' \in Seq(Roots) /\ DOMAIN roots' = DOMAIN roots
  BY <1>1, <1>2, <1>3, ExceptSeq
<1>5. roots'[r].verdicts = roots[r].verdicts + 1 /\ roots[r].verdicts \in Nat
  BY <1>1 DEF Roots
<1>6. /\ roots'[r].owner = roots[r].owner /\ roots'[r].thread = roots[r].thread
      /\ \A q \in DOMAIN roots \ {r} : roots'[q] = roots[q]
  BY <1>1
<1> QED BY <1>4, <1>5, <1>6 DEF RootsKept

LEMMA BuiltRoots ==
    ASSUME roots \in Seq(Roots), NEW r \in DOMAIN roots,
           roots' = [roots EXCEPT ![r].built = TRUE]
    PROVE  RootsKept /\ roots' \in Seq(Roots) /\ DOMAIN roots' = DOMAIN roots
<1>1. /\ \A q \in DOMAIN roots : roots[q] \in Roots
      /\ DOMAIN roots = 1 .. Len(roots)
  BY LenProperties, ElementOfSeq
<1>2. roots' = [roots EXCEPT ![r] = [roots[r] EXCEPT !.built = TRUE]]
  OBVIOUS
<1>3. [roots[r] EXCEPT !.built = TRUE] \in Roots
  BY <1>1 DEF Roots
<1>4. roots' \in Seq(Roots) /\ DOMAIN roots' = DOMAIN roots
  BY <1>1, <1>2, <1>3, ExceptSeq
<1>5. \A q \in DOMAIN roots :
         /\ roots'[q].owner = roots[q].owner /\ roots'[q].thread = roots[q].thread
         /\ roots'[q].verdicts = roots[q].verdicts
  BY <1>1, <1>2 DEF Roots
<1> QED BY <1>4, <1>5 DEF RootsKept

LEMMA AppendedRoots ==
    ASSUME roots \in Seq(Roots), NEW root \in Roots, roots' = Append(roots, root)
    PROVE  /\ RootsKept /\ roots' \in Seq(Roots)
           /\ Len(roots) + 1 \in DOMAIN roots' /\ Len(roots) + 1 \notin DOMAIN roots
           /\ Len(roots) + 1 # 0
           /\ roots'[Len(roots) + 1] = root
           /\ \A q \in DOMAIN roots : roots'[q] = roots[q]
           /\ DOMAIN roots' = DOMAIN roots \cup {Len(roots) + 1}
<1>1. /\ roots' \in Seq(Roots) /\ Len(roots') = Len(roots) + 1
      /\ \A q \in 1 .. Len(roots) : roots'[q] = roots[q]
      /\ roots'[Len(roots) + 1] = root
  BY AppendProperties
<1>2. /\ DOMAIN roots' = 1 .. Len(roots) + 1 /\ DOMAIN roots = 1 .. Len(roots)
      /\ Len(roots) \in Nat
  BY <1>1, LenProperties
<1> QED BY <1>1, <1>2 DEF RootsKept

LEMMA Places ==
    /\ {"idle", "enter", "gone", "count", "reload", "orphans", "root", "build", "finish",
        "refused", "release", "drainCount", "drainReload", "drain", "drainLeave"}
          \subseteq HookPcs
    /\ {"idle", "enter", "gone"} \subseteq Continuations /\ Continuations \subseteq HookPcs
    /\ {"idle", "lock", "wait", "drain", "check", "orphans", "conclude"} \subseteq RemovalPcs
BY DEF HookPcs, Continuations, RemovalPcs

\* What TypeOK says of a list and a root of a hook.
LEMMA HookTypes ==
    ASSUME TypeOK, NEW t \in Threads
    PROVE  /\ hook[t] \in HookStates(DOMAIN roots)
           /\ Active(t) \in DOMAIN roots \cup {0}
           /\ Active(t) # 0 => /\ roots[Active(t)] \in Roots
                               /\ roots[Active(t)].owner \in Dispatchers
           /\ hook[t].todo \in Seq(DOMAIN roots)
<1>1. hook[t] \in HookStates(DOMAIN roots)
  BY DEF TypeOK
<1>2. roots \in Seq(Roots) /\ DOMAIN roots = 1 .. Len(roots)
  BY LenProperties DEF TypeOK
<1>3. \A q \in DOMAIN roots : roots[q] \in Roots
  BY <1>2, ElementOfSeq
<1>4. \A q \in DOMAIN roots : roots[q].owner \in Dispatchers
  BY <1>3 DEF Roots
<1> QED BY <1>1, <1>3, <1>4 DEF HookStates, Active

-----------------------------------------------------------------------------
(* Types. *)

-----------------------------------------------------------------------------
(* Steps of guest threads. *)

\* A step of a guest thread keeps the invariant if it keeps the thread's own
\* part, counts and lists nothing of others, and neither queues nor orphans a
\* root unless the thread has one.
LEMMA GuestStep ==
    ASSUME IInv, TypeOK', NEW t \in Threads, RootsKept,
           UNCHANGED <<shared, removal, history>>,
           \A u \in Threads \ {t} : hook'[u] = hook[u],
           \A u \in Threads \ {t} : \A use : <<u, use>> \in inFlight => <<u, use>> \in inFlight',
           HookInv(t)', installed = NoDispatcher /\ Out(t) => Out(t)',
           \A d \in Dispatchers :
              /\ Drained(d) /\ (Out(t) \/ d \notin Live) => Drained(d)'
              /\ orphans'[d] = orphans[d] \/ orphans'[d] = <<>> \/ d \in Live
              /\ OwnersIn(orphans[d], {d})'
    PROVE  IInv'
<1>1. Live' = Live
  BY DEF Live, shared
<1>2. SessionInv'
  BY <1>1 DEF IInv, SessionInv, shared, history
<1>3. ASSUME NEW list \in Seq(DOMAIN roots), NEW owners, OwnersIn(list, owners)
      PROVE  OwnersIn(list, owners)'
  <2>1. \A i \in DOMAIN list : list[i] \in DOMAIN roots
    BY ElementOfSeq, LenProperties
  <2> QED BY <1>3, <2>1 DEF OwnersIn, RootsKept
<1>4. ASSUME NEW u \in Threads \ {t} PROVE HookInv(u)'
  <2>1. HookInv(u) /\ hook'[u] = hook[u]
    BY DEF IInv
  <2>2. hook[u].todo \in Seq(DOMAIN roots) /\ Active(u) \in DOMAIN roots \cup {0}
    BY HookTypes DEF IInv
  <2>3. OwnersIn(hook[u].todo, Live)'
    BY <1>1, <1>3, <2>1, <2>2 DEF HookInv, OwnersIn
  <2>4. Active(u) # 0 => roots'[Active(u)].owner = roots[Active(u)].owner
    BY <2>2 DEF RootsKept
  <2> QED BY <1>1, <2>1, <2>3, <2>4 DEF HookInv, Active
<1>5. ASSUME NEW d \in Dispatchers PROVE QueueInv(d)'
  <2>1. QueueInv(d) /\ removal' = removal
    BY DEF IInv
  <2> QED BY <1>1, <2>1 DEF QueueInv
<1>6. ASSUME NEW o \in Owners PROVE RemovalInv(o)'
  <2>1. RemovalInv(o) /\ SessionInv /\ removal' = removal /\ lock' = lock
        /\ removing' = removing /\ freed' = freed /\ installed' = installed
    BY DEF IInv, shared, history
  <2>2. ASSUME removal[o].pc \in HooksGone, NEW u \in Threads PROVE Out(u)'
    <3>1. Out(u) /\ Out(t)
      BY <2>1, <2>2 DEF RemovalInv
    <3>2. lock # NoOwner
      BY <2>1, <2>2, DispatchConstants DEF RemovalInv, Holding
    <3>3. installed = NoDispatcher
      BY <2>1, <3>2 DEF SessionInv
    <3> QED BY <3>1, <3>3 DEF Out, Active
  <2>3. removal[o].todo \in Seq(DOMAIN roots)
    BY DEF IInv, TypeOK, RemovalStates
  <2>4. OwnersIn(removal[o].todo, {removal[o].target})'
    BY <1>3, <2>1, <2>3 DEF RemovalInv, OwnersIn
  <2>5. removal[o].pc = "check" /\ removing # NoDispatcher => Drained(removing)'
    <3>1. removal[o].pc = "check" => Out(t)
      BY <2>1 DEF RemovalInv, HooksGone
    <3>2. removing # NoDispatcher => removing \in Dispatchers
      BY DEF IInv, TypeOK, NullableDispatcher
    <3> QED BY <2>1, <3>1, <3>2 DEF RemovalInv, Drained
  <2> QED BY <2>1, <2>2, <2>4, <2>5 DEF RemovalInv, Drained
<1> QED BY <1>2, <1>4, <1>5, <1>6 DEF IInv

\* A step of a guest thread that changes where it is and what it counts.
LEMMA OwnStep ==
    ASSUME IInv, NEW t \in Threads, NEW h \in HookStates(DOMAIN roots), Becomes(t, h),
           UNCHANGED <<shared, removal, history, queues, roots>>,
           \/ UNCHANGED inFlight
           \/ \E use \in {"root", "drain"} : Uses(t, use) \/ Leaves(t, use),
           HookInv(t)', installed = NoDispatcher /\ Out(t) => Out(t)'
    PROVE  IInv'
<1>1. hook' \in [Threads -> HookStates(DOMAIN roots)]
      /\ \A u \in Threads \ {t} : hook'[u] = hook[u]
  BY DEF IInv, TypeOK, Becomes
<1>2. inFlight' \subseteq Actors \X {"root", "drain", "removal"}
  BY DEF IInv, TypeOK, Uses, Leaves, Actors
<1>3. TypeOK'
  BY <1>1, <1>2 DEF IInv, TypeOK, shared, queues, history
<1>4. \A u \in Threads \ {t} : \A use : <<u, use>> \in inFlight => <<u, use>> \in inFlight'
  BY DEF Uses, Leaves
<1>5. \A d \in Dispatchers :
         /\ Drained(d) => Drained(d)'
         /\ orphans'[d] = orphans[d]
         /\ OwnersIn(orphans[d], {d})'
  BY DEF IInv, QueueInv, queues, Drained, OwnersIn
<1> QED BY <1>1, <1>3, <1>4, <1>5, GuestStep, SameRoots

LEMMA BeginKept ==
    ASSUME IInv, NEW t \in Threads, Begin(t)
    PROVE  IInv'
<1>1. HookInv(t) /\ hook[t] \in HookStates(DOMAIN roots) /\ NoDispatcher \in NullableDispatcher
      /\ installed \in NullableDispatcher
  BY HookTypes DEF IInv, TypeOK, NullableDispatcher
<1>2. PICK h \in HookStates(DOMAIN roots) : Becomes(t, h)
  BY <1>1, Places DEF Begin, Goes, HookStates
<1>3. HookInv(t)' /\ (installed = NoDispatcher /\ Out(t) => Out(t)')
  BY <1>1 DEF Begin, At, Goes, Becomes, HookInv, Active, Out, Live, shared, OwnersIn, HookOnly,
    queues, Uses, Leaves
<1> QED BY <1>2, <1>3, OwnStep DEF Begin, HookOnly

LEMMA EnterKept ==
    ASSUME IInv, NEW t \in Threads, Enter(t)
    PROVE  IInv'
<1>1. HookInv(t) /\ hook[t] \in HookStates(DOMAIN roots) /\ NoDispatcher \in NullableDispatcher
      /\ installed \in NullableDispatcher
  BY HookTypes DEF IInv, TypeOK, NullableDispatcher
<1>2. PICK h \in HookStates(DOMAIN roots) : Becomes(t, h)
  BY <1>1, Places DEF Enter, Goes, HookStates
<1>3. HookInv(t)' /\ (installed = NoDispatcher /\ Out(t) => Out(t)')
  BY <1>1 DEF Enter, At, Goes, Becomes, HookInv, Active, Out, Live, shared, OwnersIn, HookOnly,
    queues, Uses, Leaves
<1> QED BY <1>2, <1>3, OwnStep DEF Enter, HookOnly

LEMMA CountKept ==
    ASSUME IInv, NEW t \in Threads, Count(t)
    PROVE  IInv'
<1>1. HookInv(t) /\ hook[t] \in HookStates(DOMAIN roots) /\ NoDispatcher \in NullableDispatcher
      /\ installed \in NullableDispatcher
  BY HookTypes DEF IInv, TypeOK, NullableDispatcher
<1>2. PICK h \in HookStates(DOMAIN roots) : Becomes(t, h)
  BY <1>1, Places DEF Count, Goes, HookStates
<1>3. HookInv(t)' /\ (installed = NoDispatcher /\ Out(t) => Out(t)')
  BY <1>1 DEF Count, At, Goes, Becomes, HookInv, Active, Out, Live, shared, OwnersIn, HookOnly,
    queues, Uses, Leaves
<1> QED BY <1>2, <1>3, OwnStep DEF Count, HookOnly

LEMMA ReloadKept ==
    ASSUME IInv, NEW t \in Threads, Reload(t)
    PROVE  IInv'
<1>1. HookInv(t) /\ hook[t] \in HookStates(DOMAIN roots) /\ NoDispatcher \in NullableDispatcher
      /\ hook \in [Threads -> HookStates(DOMAIN roots)]
      /\ installed \in NullableDispatcher
  BY HookTypes DEF IInv, TypeOK, NullableDispatcher
<1>2. PICK h \in HookStates(DOMAIN roots) : Becomes(t, h)
  BY <1>1, Places DEF Reload, Goes, HookStates
<1>3. /\ installed' = installed /\ removing' = removing /\ roots' = roots
      /\ hook[t].pc = "reload" /\ hook[t].todo = <<>>
      /\ hook'[t].todo = <<>> /\ hook'[t].root = hook[t].root
      /\ \/ /\ installed = NoDispatcher /\ inFlight' = inFlight \ {<<t, "root">>}
            /\ hook'[t].pc = "idle" /\ hook'[t].target = hook[t].target
         \/ /\ installed # NoDispatcher /\ inFlight' = inFlight
            /\ hook'[t].pc = "orphans" /\ hook'[t].target = installed
  <2>1. /\ installed' = installed /\ removing' = removing /\ roots' = roots
        /\ hook[t].pc = "reload" /\ hook[t].todo = <<>>
    BY DEF Reload, At, HookOnly, shared
  <2>2. CASE installed = NoDispatcher
    <3>1. Leaves(t, "root") /\ Becomes(t, [hook[t] EXCEPT !.pc = "idle"])
      BY <2>2 DEF Reload, Goes
    <3> QED BY <1>1, <2>1, <2>2, <3>1 DEF Becomes, Leaves, HookStates
  <2>3. CASE installed # NoDispatcher
    <3>1. /\ Becomes(t, [hook[t] EXCEPT !.pc = "orphans", !.target = installed])
          /\ inFlight' = inFlight
      BY <2>3 DEF Reload
    <3> QED BY <1>1, <2>1, <2>3, <3>1 DEF Becomes, HookStates
  <2> QED BY <2>2, <2>3
<1>4. HookInv(t)' /\ (installed = NoDispatcher /\ Out(t) => Out(t)')
  BY <1>1, <1>3 DEF HookInv, Active, Out, Live, OwnersIn
<1> QED BY <1>2, <1>4, OwnStep DEF Reload, HookOnly

LEMMA EndDrawKept ==
    ASSUME IInv, NEW t \in Threads, EndDraw(t)
    PROVE  IInv'
<1>1. HookInv(t) /\ hook[t] \in HookStates(DOMAIN roots) /\ NoDispatcher \in NullableDispatcher
      /\ hook \in [Threads -> HookStates(DOMAIN roots)]
      /\ installed \in NullableDispatcher
  BY HookTypes DEF IInv, TypeOK, NullableDispatcher
<1>2. PICK h \in HookStates(DOMAIN roots) : Becomes(t, h)
  BY <1>1, Places DEF EndDraw, Goes, HookStates
<1>3. /\ installed' = installed /\ removing' = removing /\ roots' = roots
      /\ hook[t].pc = "idle" /\ hook[t].root # 0 /\ hook[t].todo = <<>>
      /\ hook'[t].pc \in {"idle", "finish"} /\ hook'[t].root = hook[t].root
      /\ hook'[t].target = hook[t].target /\ hook'[t].todo = <<>> /\ inFlight' = inFlight
  <2>1. /\ installed' = installed /\ removing' = removing /\ roots' = roots
        /\ hook[t].pc = "idle" /\ hook[t].root # 0 /\ hook[t].todo = <<>>
        /\ inFlight' = inFlight
    BY DEF EndDraw, At, HookOnly, shared, Active
  <2>2. \/ Becomes(t, [hook[t] EXCEPT !.held = TRUE])
        \/ Becomes(t, [hook[t] EXCEPT !.pc = "finish", !.next = "idle"])
    BY DEF EndDraw
  <2>3. CASE Becomes(t, [hook[t] EXCEPT !.held = TRUE])
    BY <1>1, <2>1, <2>3 DEF Becomes, HookStates
  <2>4. CASE Becomes(t, [hook[t] EXCEPT !.pc = "finish", !.next = "idle"])
    BY <1>1, <2>1, <2>4 DEF Becomes, HookStates
  <2> QED BY <2>2, <2>3, <2>4
<1>4. HookInv(t)' /\ (installed = NoDispatcher /\ Out(t) => Out(t)')
  BY <1>1, <1>3 DEF HookInv, Active, Out, Live, OwnersIn
<1> QED BY <1>2, <1>4, OwnStep DEF EndDraw, HookOnly

LEMMA CommitKept ==
    ASSUME IInv, NEW t \in Threads, Commit(t)
    PROVE  IInv'
<1>1. HookInv(t) /\ hook[t] \in HookStates(DOMAIN roots) /\ NoDispatcher \in NullableDispatcher
      /\ installed \in NullableDispatcher
  BY HookTypes DEF IInv, TypeOK, NullableDispatcher
<1>2. PICK h \in HookStates(DOMAIN roots) : Becomes(t, h)
  BY <1>1, Places DEF Commit, Goes, HookStates
<1>3. HookInv(t)' /\ (installed = NoDispatcher /\ Out(t) => Out(t)')
  BY <1>1 DEF Commit, At, Goes, Becomes, HookInv, Active, Out, Live, shared, OwnersIn, HookOnly,
    queues, Uses, Leaves
<1> QED BY <1>2, <1>3, OwnStep DEF Commit, HookOnly

LEMMA PostFailsKept ==
    ASSUME IInv, NEW t \in Threads, PostFails(t)
    PROVE  IInv'
<1>1. HookInv(t) /\ hook[t] \in HookStates(DOMAIN roots) /\ NoDispatcher \in NullableDispatcher
      /\ installed \in NullableDispatcher
  BY HookTypes DEF IInv, TypeOK, NullableDispatcher
<1>2. PICK h \in HookStates(DOMAIN roots) : Becomes(t, h)
  BY <1>1, Places DEF PostFails, Goes, HookStates
<1>3. HookInv(t)' /\ (installed = NoDispatcher /\ Out(t) => Out(t)')
  BY <1>1 DEF PostFails, At, Goes, Becomes, HookInv, Active, Out, Live, shared, OwnersIn, HookOnly,
    queues, Uses, Leaves
<1> QED BY <1>2, <1>3, OwnStep DEF PostFails, HookOnly

LEMMA ReleaseKept ==
    ASSUME IInv, NEW t \in Threads, Release(t)
    PROVE  IInv'
<1>1. HookInv(t) /\ hook[t] \in HookStates(DOMAIN roots) /\ NoDispatcher \in NullableDispatcher
      /\ hook \in [Threads -> HookStates(DOMAIN roots)]
      /\ installed \in NullableDispatcher
  BY HookTypes DEF IInv, TypeOK, NullableDispatcher
<1>2. PICK h \in HookStates(DOMAIN roots) : Becomes(t, h)
  BY <1>1, Places DEF Release, Goes, HookStates
<1>3. /\ installed' = installed /\ removing' = removing /\ roots' = roots
      /\ hook[t].pc = "release" /\ hook[t].todo = <<>>
      /\ hook'[t].pc \in {"idle", "enter", "gone"} /\ hook'[t].root = 0
      /\ hook'[t].target = hook[t].target /\ hook'[t].todo = <<>>
      /\ inFlight' = inFlight \ {<<t, "root">>}
  BY <1>1 DEF Release, At, Goes, Becomes, Active, HookOnly, shared, queues, Uses, Leaves,
    HookStates, Continuations
<1>4. HookInv(t)' /\ (installed = NoDispatcher /\ Out(t) => Out(t)')
  BY <1>1, <1>3 DEF HookInv, Active, Out, Live, OwnersIn
<1> QED BY <1>2, <1>4, OwnStep DEF Release, HookOnly

LEMMA BeginDrainKept ==
    ASSUME IInv, NEW t \in Threads, BeginDrain(t)
    PROVE  IInv'
<1>1. HookInv(t) /\ hook[t] \in HookStates(DOMAIN roots) /\ NoDispatcher \in NullableDispatcher
      /\ installed \in NullableDispatcher
  BY HookTypes DEF IInv, TypeOK, NullableDispatcher
<1>2. PICK h \in HookStates(DOMAIN roots) : Becomes(t, h)
  BY <1>1, Places DEF BeginDrain, Goes, HookStates
<1>3. HookInv(t)' /\ (installed = NoDispatcher /\ Out(t) => Out(t)')
  BY <1>1 DEF BeginDrain, At, Goes, Becomes, HookInv, Active, Out, Live, shared, OwnersIn, HookOnly,
    queues, Uses, Leaves
<1> QED BY <1>2, <1>3, OwnStep DEF BeginDrain, HookOnly

LEMMA CountDrainKept ==
    ASSUME IInv, NEW t \in Threads, CountDrain(t)
    PROVE  IInv'
<1>1. HookInv(t) /\ hook[t] \in HookStates(DOMAIN roots) /\ NoDispatcher \in NullableDispatcher
      /\ installed \in NullableDispatcher
  BY HookTypes DEF IInv, TypeOK, NullableDispatcher
<1>2. PICK h \in HookStates(DOMAIN roots) : Becomes(t, h)
  BY <1>1, Places DEF CountDrain, Goes, HookStates
<1>3. HookInv(t)' /\ (installed = NoDispatcher /\ Out(t) => Out(t)')
  BY <1>1 DEF CountDrain, At, Goes, Becomes, HookInv, Active, Out, Live, shared, OwnersIn, HookOnly,
    queues, Uses, Leaves
<1> QED BY <1>2, <1>3, OwnStep DEF CountDrain, HookOnly

LEMMA ReloadDrainKept ==
    ASSUME IInv, NEW t \in Threads, ReloadDrain(t)
    PROVE  IInv'
<1>1. HookInv(t) /\ hook[t] \in HookStates(DOMAIN roots) /\ NoDispatcher \in NullableDispatcher
      /\ installed \in NullableDispatcher
  BY HookTypes DEF IInv, TypeOK, NullableDispatcher
<1>2. PICK h \in HookStates(DOMAIN roots) : Becomes(t, h)
  BY <1>1, Places DEF ReloadDrain, Goes, HookStates
<1>3. HookInv(t)' /\ (installed = NoDispatcher /\ Out(t) => Out(t)')
  BY <1>1 DEF ReloadDrain, At, Goes, Becomes, HookInv, Active, Out, Live, shared, OwnersIn, HookOnly,
    queues, Uses, Leaves
<1> QED BY <1>2, <1>3, OwnStep DEF ReloadDrain, HookOnly

LEMMA AwaitDrainKept ==
    ASSUME IInv, NEW t \in Threads, AwaitDrain(t)
    PROVE  IInv'
<1>1. HookInv(t) /\ hook[t] \in HookStates(DOMAIN roots) /\ NoDispatcher \in NullableDispatcher
      /\ installed \in NullableDispatcher
  BY HookTypes DEF IInv, TypeOK, NullableDispatcher
<1>2. PICK h \in HookStates(DOMAIN roots) : Becomes(t, h)
  BY <1>1, Places DEF AwaitDrain, Goes, HookStates
<1>3. HookInv(t)' /\ (installed = NoDispatcher /\ Out(t) => Out(t)')
  BY <1>1 DEF AwaitDrain, At, Goes, Becomes, HookInv, Active, Out, Live, shared, OwnersIn, HookOnly,
    queues, Uses, Leaves
<1> QED BY <1>2, <1>3, OwnStep DEF AwaitDrain, HookOnly

LEMMA LeaveDrainKept ==
    ASSUME IInv, NEW t \in Threads, LeaveDrain(t)
    PROVE  IInv'
<1>1. HookInv(t) /\ hook[t] \in HookStates(DOMAIN roots) /\ NoDispatcher \in NullableDispatcher
      /\ hook \in [Threads -> HookStates(DOMAIN roots)]
      /\ installed \in NullableDispatcher
  BY HookTypes DEF IInv, TypeOK, NullableDispatcher
<1>2. PICK h \in HookStates(DOMAIN roots) : Becomes(t, h)
  BY <1>1, Places DEF LeaveDrain, Goes, HookStates
<1>3. /\ installed' = installed /\ removing' = removing /\ roots' = roots
      /\ hook[t].pc = "drainLeave" /\ hook[t].todo = <<>>
      /\ hook'[t].pc = "idle" /\ hook'[t].root = hook[t].root
      /\ hook'[t].target = NoDispatcher /\ hook'[t].todo = <<>>
      /\ inFlight' = inFlight \ {<<t, "drain">>}
  BY <1>1 DEF LeaveDrain, At, Goes, Becomes, Active, HookOnly, shared, queues, Uses, Leaves,
    HookStates
<1>4. HookInv(t)' /\ (installed = NoDispatcher /\ Out(t) => Out(t)')
  BY <1>1, <1>3 DEF HookInv, Active, Out, Live, OwnersIn
<1> QED BY <1>2, <1>4, OwnStep DEF LeaveDrain, HookOnly

\* The orphans a hook refuses are its dispatcher's.
LEMMA DrainOrphansKept ==
    ASSUME IInv, NEW t \in Threads, DrainOrphans(t)
    PROVE  IInv'
<1> DEFINE d == hook[t].target
<1>1. HookInv(t) /\ hook \in [Threads -> HookStates(DOMAIN roots)]
      /\ hook[t] \in HookStates(DOMAIN roots) /\ NoDispatcher \in NullableDispatcher
      /\ orphans \in [Dispatchers -> Seq(DOMAIN roots)]
  BY HookTypes DEF IInv, TypeOK, NullableDispatcher
<1>2. /\ hook[t].pc = "orphans" /\ hook[t].todo = <<>> /\ Active(t) = 0
      /\ d \in Dispatchers /\ d \in Live /\ QueueInv(d)
      /\ UNCHANGED <<inFlight, jobs, running, roots, shared, removal, history>>
      /\ orphans' = [orphans EXCEPT ![d] = <<>>]
      /\ Becomes(t, [hook[t] EXCEPT !.pc = "root", !.todo = orphans[d]])
  BY <1>1 DEF DrainOrphans, At, HookInv, HookStates, NullableDispatcher, IInv, HookOnly, Live
<1>3. /\ hook' \in [Threads -> HookStates(DOMAIN roots)]
      /\ hook'[t].pc = "root" /\ hook'[t].root = 0 /\ hook'[t].target = d
      /\ hook'[t].todo = orphans[d]
      /\ \A u \in Threads \ {t} : hook'[u] = hook[u]
  <2>1. orphans[d] \in Seq(DOMAIN roots)
    BY <1>1, <1>2
  <2> QED BY <1>1, <1>2, <2>1, Places DEF Becomes, HookStates, Active
<1>4. orphans' \in [Dispatchers -> Seq(DOMAIN roots)]
  BY <1>1, <1>2
<1>5. TypeOK'
  BY <1>2, <1>3, <1>4 DEF IInv, TypeOK, shared, history
<1>6. HookInv(t)'
  <2>1. OwnersIn(orphans[d], Live)
    BY <1>2 DEF QueueInv, OwnersIn
  <2>2. OwnersIn(hook[t].todo, Live)' /\ Live' = Live /\ inFlight' = inFlight
    BY <1>2, <1>3, <2>1 DEF OwnersIn, Live, shared
  <2>3. <<t, "root">> \in inFlight /\ d \in Live' /\ d # NoDispatcher
    BY <1>1, <1>2, <2>2 DEF HookInv, Live
  <2> QED BY <1>3, <2>2, <2>3 DEF HookInv, Active
<1>7. ~Out(t)
  BY <1>2 DEF Out, Live
<1>8. ASSUME NEW e \in Dispatchers
      PROVE  /\ Drained(e) => Drained(e)'
             /\ orphans'[e] = orphans[e] \/ orphans'[e] = <<>>
             /\ OwnersIn(orphans[e], {e})'
  <2>1. orphans'[e] = orphans[e] \/ orphans'[e] = <<>>
    BY <1>1, <1>2
  <2>2. OwnersIn(<<>>, {e})'
    BY DEF OwnersIn
  <2>3. QueueInv(e)
    BY DEF IInv
  <2> QED BY <1>2, <2>1, <2>2, <2>3 DEF QueueInv, OwnersIn, Drained
<1> QED BY <1>2, <1>3, <1>5, <1>6, <1>7, <1>8, GuestStep, SameRoots

\* A new root's dispatcher is the one the hook read after it counted its use.
LEMMA NewRootKept ==
    ASSUME IInv, NEW t \in Threads, NewRoot(t)
    PROVE  IInv'
<1> DEFINE d == hook[t].target
<1>1. HookInv(t) /\ hook \in [Threads -> HookStates(DOMAIN roots)]
      /\ hook[t] \in HookStates(DOMAIN roots) /\ NoDispatcher \in NullableDispatcher
      /\ roots \in Seq(Roots)
  BY HookTypes DEF IInv, TypeOK, NullableDispatcher
<1>2. PICK lowerer \in BOOLEAN, deferred \in BOOLEAN :
         /\ roots' = Append(roots, [thread |-> t, owner |-> d, lowerer |-> lowerer,
                                    deferred |-> deferred, built |-> FALSE, verdicts |-> 0])
         /\ Becomes(t, [hook[t] EXCEPT !.root = Len(roots) + 1, !.target = NoDispatcher,
                                        !.pc = IF deferred THEN "idle" ELSE "build"])
  BY DEF NewRoot
<1>3. /\ hook[t].pc = "root" /\ hook[t].todo = <<>> /\ Active(t) = 0
      /\ d \in Dispatchers /\ d \in Live
      /\ UNCHANGED <<inFlight, queues, shared, removal, history>>
  BY <1>1 DEF NewRoot, At, HookInv, HookStates, NullableDispatcher, HookOnly, Live
<1>4. /\ RootsKept /\ roots' \in Seq(Roots)
      /\ Len(roots) + 1 \in DOMAIN roots' /\ Len(roots) + 1 # 0
      /\ roots'[Len(roots) + 1].owner = d
      /\ DOMAIN roots \subseteq DOMAIN roots'
      /\ \A q \in DOMAIN roots : roots'[q] = roots[q]
  <2>1. [thread |-> t, owner |-> d, lowerer |-> lowerer, deferred |-> deferred,
         built |-> FALSE, verdicts |-> 0] \in Roots
    BY <1>2, <1>3 DEF Roots
  <2> QED BY <1>1, <1>2, <2>1, AppendedRoots
<1>5. \A s \in Seq(DOMAIN roots) : s \in Seq(DOMAIN roots')
  BY <1>4, WiderSeq
<1>6. /\ hook' \in [Threads -> HookStates(DOMAIN roots')]
      /\ hook'[t].pc \in {"idle", "build"} /\ hook'[t].root = Len(roots) + 1
      /\ hook'[t].target = NoDispatcher /\ hook'[t].todo = <<>>
      /\ \A u \in Threads \ {t} : hook'[u] = hook[u]
  <2>1. \A u \in Threads : hook[u] \in HookStates(DOMAIN roots')
    BY <1>1, <1>4, <1>5 DEF HookStates
  <2> DEFINE h == [hook[t] EXCEPT !.root = Len(roots) + 1, !.target = NoDispatcher,
                                  !.pc = IF deferred THEN "idle" ELSE "build"]
  <2>2. CASE deferred
    <3>1. h = [hook[t] EXCEPT !.root = Len(roots) + 1, !.target = NoDispatcher, !.pc = "idle"]
      BY <2>2
    <3>2. /\ h \in HookStates(DOMAIN roots') /\ h.pc = "idle" /\ h.root = Len(roots) + 1
          /\ h.target = NoDispatcher /\ h.todo = <<>>
      BY <1>1, <1>3, <1>4, <2>1, <3>1, Places DEF HookStates
    <3> HIDE DEF h
    <3> QED BY <1>1, <1>2, <2>1, <3>2 DEF Becomes, h
  <2>3. CASE ~deferred
    <3>1. h = [hook[t] EXCEPT !.root = Len(roots) + 1, !.target = NoDispatcher, !.pc = "build"]
      BY <2>3
    <3>2. /\ h \in HookStates(DOMAIN roots') /\ h.pc = "build" /\ h.root = Len(roots) + 1
          /\ h.target = NoDispatcher /\ h.todo = <<>>
      BY <1>1, <1>3, <1>4, <2>1, <3>1, Places DEF HookStates
    <3> QED BY <1>1, <1>2, <2>1, <3>2 DEF Becomes
  <2> QED BY <2>2, <2>3
<1>7. TypeOK'
  <2>1. /\ orphans' \in [Dispatchers -> Seq(DOMAIN roots')]
        /\ jobs' \in [Dispatchers -> Seq(DOMAIN roots')]
        /\ running' \in [Dispatchers -> DOMAIN roots' \cup {0}]
        /\ \A e \in Dispatchers : Len(jobs'[e]) <= Capacity
    BY <1>3, <1>4, <1>5 DEF IInv, TypeOK, queues
  <2>2. removal' \in [Owners -> RemovalStates(DOMAIN roots')]
    BY <1>3, <1>5 DEF IInv, TypeOK, RemovalStates
  <2> QED BY <1>3, <1>4, <1>6, <2>1, <2>2 DEF IInv, TypeOK, shared, history
<1>8. HookInv(t)'
  <2>1. OwnersIn(hook[t].todo, Live)' /\ Live' = Live /\ inFlight' = inFlight
    BY <1>3, <1>6 DEF OwnersIn, Live, shared
  <2>2. <<t, "root">> \in inFlight
    BY <1>1, <1>3 DEF HookInv
  <2> QED BY <1>3, <1>4, <1>6, <2>1, <2>2 DEF HookInv, Active
<1>9. ~Out(t)
  BY <1>3 DEF Out, Live
<1>10. ASSUME NEW e \in Dispatchers
       PROVE  /\ Drained(e) => Drained(e)'
              /\ orphans'[e] = orphans[e]
              /\ OwnersIn(orphans[e], {e})'
  <2>1. QueueInv(e) /\ orphans[e] \in Seq(DOMAIN roots)
    BY DEF IInv, TypeOK
  <2>2. \A i \in DOMAIN orphans[e] : orphans[e][i] \in DOMAIN roots
    BY <2>1, ElementOfSeq, LenProperties
  <2> QED BY <1>3, <1>4, <2>1, <2>2 DEF QueueInv, OwnersIn, Drained, queues
<1> QED BY <1>3, <1>4, <1>6, <1>7, <1>8, <1>9, <1>10, GuestStep

LEMMA OrphansKept ==
    ASSUME IInv, RootsKept, NEW d \in Dispatchers
    PROVE  OwnersIn(orphans[d], {d}) /\ (orphans' = orphans => OwnersIn(orphans[d], {d})')
<1>1. QueueInv(d) /\ orphans[d] \in Seq(DOMAIN roots)
  BY DEF IInv, TypeOK
<1>2. \A i \in DOMAIN orphans[d] : orphans[d][i] \in DOMAIN roots
  BY <1>1, ElementOfSeq, LenProperties
<1> QED BY <1>1, <1>2 DEF QueueInv, OwnersIn, RootsKept

\* A root is built by the thread that holds its use.
LEMMA BuildRootKept ==
    ASSUME IInv, NEW t \in Threads, BuildRoot(t)
    PROVE  IInv'
<1> DEFINE r == Active(t)
<1>1. HookInv(t) /\ hook \in [Threads -> HookStates(DOMAIN roots)]
      /\ hook[t] \in HookStates(DOMAIN roots) /\ roots \in Seq(Roots)
  BY HookTypes DEF IInv, TypeOK
<1>2. /\ hook[t].pc = "build" /\ hook[t].todo = <<>> /\ r # 0 /\ r \in DOMAIN roots
      /\ UNCHANGED <<inFlight, queues, shared, removal, history>>
      /\ roots' = [roots EXCEPT ![r].built = TRUE]
      /\ Becomes(t, [hook[t] EXCEPT !.pc = "idle"])
  BY <1>1, HookTypes DEF BuildRoot, At, HookInv, HookOnly, Goes, IInv
<1>3. /\ RootsKept /\ roots' \in Seq(Roots) /\ DOMAIN roots' = DOMAIN roots
  BY <1>1, <1>2, BuiltRoots
<1>4. /\ hook' \in [Threads -> HookStates(DOMAIN roots)]
      /\ hook'[t].pc = "idle" /\ hook'[t].root = hook[t].root
      /\ hook'[t].target = hook[t].target /\ hook'[t].todo = <<>>
      /\ \A u \in Threads \ {t} : hook'[u] = hook[u]
  BY <1>1, <1>2, Places DEF Becomes, HookStates
<1>5. TypeOK'
  BY <1>2, <1>3, <1>4 DEF IInv, TypeOK, shared, history, queues
<1>6. HookInv(t)'
  <2>1. OwnersIn(hook[t].todo, Live)' /\ Live' = Live /\ inFlight' = inFlight
    BY <1>2, <1>4 DEF OwnersIn, Live, shared
  <2>2. roots'[r].owner = roots[r].owner
    BY <1>2, <1>3 DEF RootsKept
  <2> QED BY <1>1, <1>2, <1>4, <2>1, <2>2 DEF HookInv, Active
<1>7. \A d \in Dispatchers :
         (Drained(d) => Drained(d)') /\ orphans'[d] = orphans[d] /\ OwnersIn(orphans[d], {d})'
  BY <1>2, <1>3, OrphansKept DEF Drained, queues
<1>8. ~Out(t)
  BY <1>2 DEF Out
<1> QED BY <1>2, <1>3, <1>4, <1>5, <1>6, <1>7, <1>8, GuestStep

\* A root is posted to the sequencer of a live dispatcher.
LEMMA PostKept ==
    ASSUME IInv, NEW t \in Threads, Post(t)
    PROVE  IInv'
<1> DEFINE r == Active(t)
           d == roots[r].owner
<1>1. HookInv(t) /\ hook \in [Threads -> HookStates(DOMAIN roots)]
      /\ hook[t] \in HookStates(DOMAIN roots)
      /\ jobs \in [Dispatchers -> Seq(DOMAIN roots)]
      /\ \A e \in Dispatchers : Len(jobs[e]) <= Capacity
  BY HookTypes DEF IInv, TypeOK
<1>2. /\ hook[t].pc = "finish" /\ hook[t].todo = <<>> /\ r # 0 /\ r \in DOMAIN roots
      /\ d \in Dispatchers /\ d \in Live /\ Len(jobs[d]) < Capacity
      /\ UNCHANGED <<inFlight, orphans, running, roots, shared, removal, history>>
      /\ jobs' = [jobs EXCEPT ![d] = Append(@, r)]
      /\ Becomes(t, [hook[t] EXCEPT !.pc = "release"])
  BY <1>1, HookTypes DEF Post, At, HookInv, HookOnly, Goes, IInv, HasRoom
<1>3. /\ jobs' \in [Dispatchers -> Seq(DOMAIN roots)]
      /\ \A e \in Dispatchers : Len(jobs'[e]) <= Capacity
  <2>1. /\ jobs[d] \in Seq(DOMAIN roots)
        /\ Append(jobs[d], r) \in Seq(DOMAIN roots) /\ Len(jobs[d]) \in Nat
        /\ Len(Append(jobs[d], r)) = Len(jobs[d]) + 1
    BY <1>1, <1>2, AppendProperties, LenProperties
  <2>2. Len(Append(jobs[d], r)) <= Capacity
    BY <1>2, <2>1, DispatchConstants
  <2> QED BY <1>1, <1>2, <2>1, <2>2
<1>4. /\ hook' \in [Threads -> HookStates(DOMAIN roots)]
      /\ hook'[t].pc = "release" /\ hook'[t].root = hook[t].root
      /\ hook'[t].target = hook[t].target /\ hook'[t].todo = <<>>
      /\ \A u \in Threads \ {t} : hook'[u] = hook[u]
  BY <1>1, <1>2, Places DEF Becomes, HookStates
<1>5. TypeOK'
  BY <1>2, <1>3, <1>4 DEF IInv, TypeOK, shared, history
<1>6. HookInv(t)'
  <2>1. OwnersIn(hook[t].todo, Live)' /\ Live' = Live /\ inFlight' = inFlight
    BY <1>2, <1>4 DEF OwnersIn, Live, shared
  <2> QED BY <1>1, <1>2, <1>4, <2>1 DEF HookInv, Active
<1>7. ASSUME NEW e \in Dispatchers
      PROVE  /\ Drained(e) /\ e \notin Live => Drained(e)'
             /\ orphans'[e] = orphans[e] /\ OwnersIn(orphans[e], {e})'
  <2>1. RootsKept
    BY <1>2, SameRoots
  <2>2. e # d => jobs'[e] = jobs[e]
    BY <1>1, <1>2
  <2> QED BY <1>2, <2>1, <2>2, OrphansKept DEF Drained
<1>8. ~Out(t)
  BY <1>2 DEF Out
<1> QED BY <1>2, <1>4, <1>5, <1>6, <1>7, <1>8, GuestStep, SameRoots

LEMMA FinishHereKept ==
    ASSUME IInv, NEW t \in Threads, FinishHere(t)
    PROVE  IInv'
<1> DEFINE r == Active(t)
<1>1. HookInv(t) /\ hook \in [Threads -> HookStates(DOMAIN roots)]
      /\ hook[t] \in HookStates(DOMAIN roots)
  BY HookTypes DEF IInv, TypeOK
<1>2. /\ hook[t].pc \in {"finish", "refused"} /\ hook[t].todo = <<>>
      /\ r # 0 /\ r \in DOMAIN roots /\ roots[r].owner \in Live
      /\ UNCHANGED <<inFlight, queues, roots, shared, removal, history>>
      /\ Becomes(t, [hook[t] EXCEPT !.pc = "release", !.todo = <<r>>])
  BY <1>1, HookTypes DEF FinishHere, At, HookInv, HookOnly, IInv
<1>3. <<r>> \in Seq(DOMAIN roots) /\ DOMAIN <<r>> = {1} /\ <<r>>[1] = r
  BY <1>2
<1>4. /\ [hook[t] EXCEPT !.pc = "release", !.todo = <<r>>] \in HookStates(DOMAIN roots)
      /\ hook'[t].pc = "release" /\ hook'[t].root = hook[t].root
      /\ hook'[t].target = hook[t].target /\ hook'[t].todo = <<r>>
  BY <1>1, <1>2, <1>3, Places DEF Becomes, HookStates
<1>5. HookInv(t)'
  <2>1. Live' = Live /\ inFlight' = inFlight /\ roots' = roots
    BY <1>2 DEF Live, shared
  <2>2. OwnersIn(hook[t].todo, Live)'
    BY <1>2, <1>3, <1>4, <2>1 DEF OwnersIn
  <2> QED BY <1>1, <1>2, <1>4, <2>1, <2>2 DEF HookInv, Active
<1>6. ~Out(t)
  BY <1>2 DEF Out
<1> QED BY <1>2, <1>4, <1>5, <1>6, OwnStep

LEMMA ConcludeHereKept ==
    ASSUME IInv, NEW t \in Threads, ConcludeHere(t)
    PROVE  IInv'
<1> DEFINE list == hook[t].todo
<1>1. HookInv(t) /\ hook \in [Threads -> HookStates(DOMAIN roots)]
      /\ hook[t] \in HookStates(DOMAIN roots) /\ roots \in Seq(Roots)
      /\ list \in Seq(DOMAIN roots)
  BY HookTypes DEF IInv, TypeOK
<1>2. /\ list # <<>> /\ Conclude(Head(list))
      /\ UNCHANGED <<inFlight, queues, shared, removal, history>>
      /\ Becomes(t, [hook[t] EXCEPT !.todo = Tail(list)])
  BY DEF ConcludeHere, HookOnly
<1>3. /\ Head(list) \in DOMAIN roots /\ Tail(list) \in Seq(DOMAIN roots)
      /\ \A i \in DOMAIN Tail(list) : i + 1 \in DOMAIN list /\ Tail(list)[i] = list[i + 1]
  BY <1>1, <1>2, HeadTail
<1>4. RootsKept /\ roots' \in Seq(Roots) /\ DOMAIN roots' = DOMAIN roots
  BY <1>1, <1>2, <1>3, ConcludedRoots
<1>5. /\ hook' \in [Threads -> HookStates(DOMAIN roots)]
      /\ hook'[t].pc = hook[t].pc /\ hook'[t].root = hook[t].root
      /\ hook'[t].target = hook[t].target /\ hook'[t].todo = Tail(list)
      /\ \A u \in Threads \ {t} : hook'[u] = hook[u]
  BY <1>1, <1>2, <1>3 DEF Becomes, HookStates
<1>6. TypeOK'
  BY <1>2, <1>4, <1>5 DEF IInv, TypeOK, shared, history, queues
<1>7. HookInv(t)'
  <2>1. Live' = Live /\ inFlight' = inFlight
    BY <1>2 DEF Live, shared
  <2>2. \A i \in DOMAIN list : list[i] \in DOMAIN roots /\ roots[list[i]].owner \in Live
    BY <1>1, ElementOfSeq, LenProperties DEF HookInv, OwnersIn
  <2>3. \A i \in DOMAIN Tail(list) : roots'[Tail(list)[i]].owner \in Live
    BY SMTT(30), <1>3, <1>4, <2>2 DEF RootsKept
  <2>4. OwnersIn(hook[t].todo, Live)'
    BY <1>5, <2>1, <2>3 DEF OwnersIn
  <2>5. Active(t) # 0 => roots'[Active(t)].owner = roots[Active(t)].owner
    BY <1>4, HookTypes DEF RootsKept, IInv
  <2> QED BY <1>1, <1>2, <1>5, <2>1, <2>4, <2>5 DEF HookInv, Active
<1>8. \A d \in Dispatchers :
         (Drained(d) => Drained(d)') /\ orphans'[d] = orphans[d] /\ OwnersIn(orphans[d], {d})'
  BY <1>2, <1>4, OrphansKept DEF Drained, queues
<1>9. ~Out(t)
  BY <1>2 DEF Out
<1> QED BY <1>2, <1>4, <1>5, <1>6, <1>7, <1>8, <1>9, GuestStep

\* A held root outlives its thread among its dispatcher's orphans.
LEMMA HeldExitKept ==
    ASSUME IInv, NEW t \in Threads, At(t, "idle"), Active(t) # 0,
           orphans' = [orphans EXCEPT ![roots[Active(t)].owner] = Append(@, Active(t))],
           Becomes(t, [hook[t] EXCEPT !.pc = "release", !.next = "gone"]),
           UNCHANGED <<inFlight, jobs, running, roots, shared, removal, history>>
    PROVE  IInv'
<1> DEFINE r == Active(t)
           d == roots[r].owner
<1>1. HookInv(t) /\ hook \in [Threads -> HookStates(DOMAIN roots)]
      /\ hook[t] \in HookStates(DOMAIN roots)
      /\ orphans \in [Dispatchers -> Seq(DOMAIN roots)]
      /\ r \in DOMAIN roots /\ d \in Dispatchers /\ d \in Live
  BY HookTypes DEF IInv, TypeOK, HookInv
<1>2. /\ Append(orphans[d], r) \in Seq(DOMAIN roots)
      /\ \A i \in DOMAIN Append(orphans[d], r) :
            Append(orphans[d], r)[i] = r \/ (i \in DOMAIN orphans[d]
                                             /\ Append(orphans[d], r)[i] = orphans[d][i])
  <2>1. orphans[d] \in Seq(DOMAIN roots)
    BY <1>1
  <2> QED BY <1>1, <2>1, AppendProperties, LenProperties
<1>3. /\ hook' \in [Threads -> HookStates(DOMAIN roots)]
      /\ hook'[t].pc = "release" /\ hook'[t].root = hook[t].root
      /\ hook'[t].target = hook[t].target /\ hook'[t].todo = <<>>
      /\ \A u \in Threads \ {t} : hook'[u] = hook[u]
  BY <1>1, Places DEF Becomes, HookStates, At
<1>4. orphans' \in [Dispatchers -> Seq(DOMAIN roots)]
  BY <1>1, <1>2
<1>5. TypeOK'
  BY <1>3, <1>4 DEF IInv, TypeOK, shared, history
<1>6. HookInv(t)'
  <2>1. OwnersIn(hook[t].todo, Live)' /\ Live' = Live
    BY <1>3 DEF OwnersIn, Live, shared
  <2> QED BY <1>1, <1>3, <2>1 DEF HookInv, Active, At
<1>7. ASSUME NEW e \in Dispatchers
      PROVE  /\ Drained(e) => Drained(e)'
             /\ orphans'[e] = orphans[e] \/ e \in Live
             /\ OwnersIn(orphans[e], {e})'
  <2>1. OwnersIn(orphans[e], {e})
    BY SameRoots, OrphansKept
  <2>2. CASE e = d
    BY <1>1, <1>2, <2>1, <2>2 DEF OwnersIn, Drained
  <2>3. CASE e # d
    <3>1. orphans'[e] = orphans[e]
      BY <1>1, <2>3
    <3> QED BY <2>1, <3>1 DEF OwnersIn, Drained
  <2> QED BY <2>2, <2>3
<1>8. ~Out(t)
  BY DEF Out
<1> QED BY <1>3, <1>5, <1>6, <1>7, <1>8, GuestStep, SameRoots

LEMMA ExitKept ==
    ASSUME IInv, NEW t \in Threads, Exit(t)
    PROVE  IInv'
<1>1. HookInv(t) /\ hook[t] \in HookStates(DOMAIN roots) /\ At(t, "idle")
      /\ UNCHANGED <<inFlight, jobs, running, roots, shared, removal, history>>
  BY HookTypes DEF IInv, Exit, HookOnly
<1>2. CASE Active(t) = 0 /\ Goes(t, "gone") /\ UNCHANGED orphans
  <2>1. /\ [hook[t] EXCEPT !.pc = "gone"] \in HookStates(DOMAIN roots)
        /\ Becomes(t, [hook[t] EXCEPT !.pc = "gone"])
    BY <1>1, <1>2, Places DEF Goes, HookStates
  <2>2. HookInv(t)' /\ (installed = NoDispatcher /\ Out(t) => Out(t)')
    BY <1>1, <1>2, <2>1 DEF Becomes, HookInv, Active, Out, Live, shared, OwnersIn, At,
      IInv, TypeOK
  <2> QED BY <1>1, <1>2, <2>1, <2>2, OwnStep DEF queues
<1>3. CASE /\ Active(t) # 0
           /\ orphans' = [orphans EXCEPT ![roots[Active(t)].owner] = Append(@, Active(t))]
           /\ Becomes(t, [hook[t] EXCEPT !.pc = "release", !.next = "gone"])
  BY <1>1, <1>3, HeldExitKept
<1>4. CASE /\ Active(t) # 0 /\ UNCHANGED orphans
           /\ Becomes(t, [hook[t] EXCEPT !.pc = "finish", !.next = "gone"])
  <2>1. [hook[t] EXCEPT !.pc = "finish", !.next = "gone"] \in HookStates(DOMAIN roots)
    BY <1>1, Places DEF HookStates
  <2>2. HookInv(t)' /\ ~Out(t)
    BY <1>1, <1>4, <2>1 DEF Becomes, HookInv, Active, Out, Live, shared, OwnersIn, At,
      IInv, TypeOK
  <2> QED BY <1>1, <1>4, <2>1, <2>2, OwnStep DEF queues
<1> QED BY <1>2, <1>3, <1>4 DEF Exit

-----------------------------------------------------------------------------
(* Steps of a sequencer's worker. *)

LEMMA ListKept ==
    ASSUME RootsKept, NEW list \in Seq(DOMAIN roots), NEW owners, OwnersIn(list, owners)
    PROVE  \A i \in DOMAIN list : roots'[list[i]].owner \in owners
<1>1. \A i \in DOMAIN list : list[i] \in DOMAIN roots
  BY ElementOfSeq, LenProperties
<1> QED BY <1>1 DEF OwnersIn, RootsKept

LEMMA WorkerStep ==
    ASSUME IInv, TypeOK', RootsKept,
           UNCHANGED <<shared, inFlight, orphans, hook, removal, history>>,
           \A d \in Dispatchers : Drained(d) => Drained(d)'
    PROVE  IInv'
<1>1. Live' = Live /\ SessionInv'
  BY DEF IInv, SessionInv, Live, shared, history
<1>2. ASSUME NEW u \in Threads PROVE HookInv(u)'
  <2>1. HookInv(u) /\ hook'[u] = hook[u] /\ inFlight' = inFlight
        /\ hook[u].todo \in Seq(DOMAIN roots) /\ Active(u) \in DOMAIN roots \cup {0}
    BY HookTypes DEF IInv
  <2>2. OwnersIn(hook[u].todo, Live)'
    BY <1>1, <2>1, ListKept DEF HookInv, OwnersIn
  <2>3. Active(u) # 0 => roots'[Active(u)].owner = roots[Active(u)].owner
    BY <2>1 DEF RootsKept
  <2> QED BY <1>1, <2>1, <2>2, <2>3 DEF HookInv, Active
<1>3. ASSUME NEW d \in Dispatchers PROVE QueueInv(d)'
  <2>1. QueueInv(d) /\ removal' = removal /\ orphans' = orphans
    BY DEF IInv
  <2>2. OwnersIn(orphans[d], {d})'
    BY OrphansKept
  <2> QED BY <1>1, <2>1, <2>2 DEF QueueInv
<1>4. ASSUME NEW o \in Owners PROVE RemovalInv(o)'
  <2>1. RemovalInv(o) /\ removal' = removal /\ hook' = hook /\ lock' = lock
        /\ removing' = removing /\ freed' = freed
        /\ removal[o].todo \in Seq(DOMAIN roots)
    BY DEF IInv, shared, history, TypeOK, RemovalStates
  <2>2. OwnersIn(removal[o].todo, {removal[o].target})'
    BY <2>1, ListKept DEF RemovalInv, OwnersIn
  <2>3. removing # NoDispatcher => removing \in Dispatchers
    BY DEF IInv, TypeOK, NullableDispatcher
  <2>4. removal[o].pc = "check" /\ removing # NoDispatcher => Drained(removing)'
    BY <2>1, <2>3 DEF RemovalInv, Drained
  <2>5. \A t \in Threads : Out(t)' <=> Out(t)
    BY <2>1 DEF Out, Active
  <2> QED BY <2>1, <2>2, <2>4, <2>5 DEF RemovalInv, Drained
<1> QED BY <1>1, <1>2, <1>3, <1>4 DEF IInv

LEMMA TakeJobKept ==
    ASSUME IInv, NEW d \in Dispatchers, TakeJob(d)
    PROVE  IInv'
<1>1. /\ jobs \in [Dispatchers -> Seq(DOMAIN roots)]
      /\ running \in [Dispatchers -> DOMAIN roots \cup {0}]
      /\ \A e \in Dispatchers : Len(jobs[e]) <= Capacity
  BY DEF IInv, TypeOK
<1>2. /\ running[d] = 0 /\ jobs[d] # <<>> /\ roots' = roots
      /\ running' = [running EXCEPT ![d] = Head(jobs[d])]
      /\ jobs' = [jobs EXCEPT ![d] = Tail(jobs[d])]
      /\ UNCHANGED <<shared, inFlight, orphans, hook, removal, history>>
  BY DEF TakeJob
<1>3. /\ Head(jobs[d]) \in DOMAIN roots /\ Tail(jobs[d]) \in Seq(DOMAIN roots)
      /\ Len(Tail(jobs[d])) = Len(jobs[d]) - 1 /\ Len(jobs[d]) \in Nat
  <2>1. jobs[d] \in Seq(DOMAIN roots)
    BY <1>1
  <2> QED BY <1>2, <2>1, HeadTail, LenProperties
<1>4. /\ jobs' \in [Dispatchers -> Seq(DOMAIN roots)]
      /\ running' \in [Dispatchers -> DOMAIN roots \cup {0}]
      /\ \A e \in Dispatchers : Len(jobs'[e]) <= Capacity
  <2>1. Len(Tail(jobs[d])) <= Capacity
    BY <1>1, <1>3, DispatchConstants
  <2> QED BY <1>1, <1>2, <1>3, <2>1
<1>5. TypeOK'
  BY <1>2, <1>4 DEF IInv, TypeOK, shared, history
<1>6. \A e \in Dispatchers : Drained(e) => Drained(e)'
  BY <1>1, <1>2 DEF Drained
<1> QED BY <1>2, <1>5, <1>6, SameRoots, WorkerStep

LEMMA RunJobKept ==
    ASSUME IInv, NEW d \in Dispatchers, RunJob(d)
    PROVE  IInv'
<1>1. roots \in Seq(Roots) /\ running \in [Dispatchers -> DOMAIN roots \cup {0}]
  BY DEF IInv, TypeOK
<1>2. /\ running[d] \in DOMAIN roots /\ Conclude(running[d])
      /\ running' = [running EXCEPT ![d] = 0]
      /\ UNCHANGED <<shared, inFlight, orphans, jobs, hook, removal, history>>
  BY <1>1 DEF RunJob
<1>3. RootsKept /\ roots' \in Seq(Roots) /\ DOMAIN roots' = DOMAIN roots
  BY <1>1, <1>2, ConcludedRoots
<1>4. running' \in [Dispatchers -> DOMAIN roots \cup {0}]
  BY <1>1, <1>2
<1>5. TypeOK'
  BY <1>2, <1>3, <1>4 DEF IInv, TypeOK, shared, history
<1>6. \A e \in Dispatchers : Drained(e) => Drained(e)'
  BY <1>1, <1>2 DEF Drained
<1> QED BY <1>2, <1>3, <1>5, <1>6, WorkerStep

-----------------------------------------------------------------------------
(* Steps of owners. *)

LEMMA RemovalTypes ==
    ASSUME IInv, NEW o \in Owners
    PROVE  /\ RemovalInv(o) /\ removal \in [Owners -> RemovalStates(DOMAIN roots)]
           /\ removal[o] \in RemovalStates(DOMAIN roots)
           /\ NoDispatcher \in NullableDispatcher /\ NoDispatcher \notin Dispatchers
           /\ removing \in NullableDispatcher /\ installed \in NullableDispatcher
           /\ removal[o].todo \in Seq(DOMAIN roots)
           /\ lock = o => lock # NoOwner /\ installed = NoDispatcher
           /\ lock = NoOwner => lock # o
           /\ used \subseteq Dispatchers /\ freed \subseteq used
           /\ Live \subseteq used /\ Live \cap freed = {}
           /\ installed = NoDispatcher \/ removing = NoDispatcher
BY DispatchConstants DEF IInv, TypeOK, RemovalStates, NullableDispatcher, SessionInv

\* A step of an owner that neither adds to what is live nor frees it, and that
\* leaves the hooks and the queues alone.
LEMMA OwnerStep ==
    ASSUME IInv, NEW o \in Owners, NEW r \in RemovalStates(DOMAIN roots),
           RemovalBecomes(o, r), Live' = Live, SessionInv',
           installed' \in NullableDispatcher, removing' \in NullableDispatcher,
           lock' \in Owners \cup {NoOwner},
           \A p \in Owners \ {o} : lock' = p <=> lock = p,
           \A p \in Owners \ {o} : lock = p => removing' = removing,
           UNCHANGED <<inFlight, orphans, roots, jobs, running, hook, used, freed>>,
           removal[o].pc # "orphans", RemovalInv(o)'
    PROVE  IInv'
<1>1. /\ removal' \in [Owners -> RemovalStates(DOMAIN roots)] /\ removal'[o] = r
      /\ \A p \in Owners \ {o} : removal'[p] = removal[p]
  BY DEF IInv, TypeOK, RemovalBecomes
<1>2. TypeOK'
  BY <1>1 DEF IInv, TypeOK
<1>3. ASSUME NEW t \in Threads PROVE HookInv(t)'
  <2>1. HookInv(t)
    BY DEF IInv
  <2> QED BY <2>1 DEF HookInv, OwnersIn, Active
<1>4. ASSUME NEW d \in Dispatchers PROVE QueueInv(d)'
  <2>1. QueueInv(d)
    BY DEF IInv
  <2>2. ASSUME NEW p \in Owners, removal[p].pc = "orphans" /\ removal[p].target = d
        PROVE  \E q \in Owners : removal'[q].pc = "orphans" /\ removal'[q].target = d
    BY <1>1, <2>2
  <2> QED BY <2>1, <2>2 DEF QueueInv, OwnersIn, Drained
<1>5. ASSUME NEW p \in Owners \ {o} PROVE RemovalInv(p)'
  <2>1. RemovalInv(p) /\ removal'[p] = removal[p] /\ (lock' = p <=> lock = p)
        /\ (lock = p => removing' = removing)
    BY <1>1 DEF IInv
  <2>2. \A t \in Threads : Out(t)' <=> Out(t)
    BY DEF Out, Active
  <2> QED BY <2>1, <2>2 DEF RemovalInv, OwnersIn, Drained, HooksGone, Holding
<1> QED BY <1>2, <1>3, <1>4, <1>5 DEF IInv

LEMMA RemoveKept ==
    ASSUME IInv, NEW o \in Owners, Remove(o)
    PROVE  IInv'
<1>1. RemovalInv(o) /\ removal[o] \in RemovalStates(DOMAIN roots)
      /\ removal[o].pc = "idle" /\ removal[o].todo = <<>>
      /\ removal \in [Owners -> RemovalStates(DOMAIN roots)]
      /\ UNCHANGED <<shared, inFlight, orphans, roots, freed, jobs, running, hook, used>>
  BY RemovalTypes DEF Remove, RemovalAt, RemovalOnly
<1> DEFINE r == [removal[o] EXCEPT !.pc = "lock"]
<1>2. /\ r \in RemovalStates(DOMAIN roots) /\ RemovalBecomes(o, r)
      /\ removal'[o].pc = "lock" /\ removal'[o].target = removal[o].target
      /\ removal'[o].todo = <<>>
  BY <1>1, Places DEF Remove, RemovalGoes, RemovalBecomes, RemovalStates
<1>3. RemovalInv(o)'
  BY <1>1, <1>2 DEF RemovalInv, Holding, HooksGone, OwnersIn, shared
<1>4. SessionInv' /\ Live' = Live
  BY <1>1 DEF IInv, SessionInv, Live, shared
<1> HIDE DEF r
<1> QED BY <1>1, <1>2, <1>3, <1>4, OwnerStep DEF shared, IInv, TypeOK

\* The lock keeps `installed' empty until the removal lets it go.
LEMMA WithdrawLockedKept ==
    ASSUME IInv, NEW o \in Owners, WithdrawLocked(o)
    PROVE  IInv'
<1>1. RemovalInv(o) /\ removal[o] \in RemovalStates(DOMAIN roots)
      /\ removal[o].pc = "lock" /\ removal[o].todo = <<>>
      /\ removal \in [Owners -> RemovalStates(DOMAIN roots)]
      /\ lock = NoOwner /\ lock' = o /\ installed' = NoDispatcher
      /\ removing' = (IF installed = NoDispatcher THEN removing ELSE installed)
      /\ UNCHANGED <<inFlight, orphans, roots, freed, jobs, running, hook, used>>
  BY RemovalTypes DEF WithdrawLocked, RemovalAt, RemovalOnly, Withdraw
<1> DEFINE r == [removal[o] EXCEPT !.pc = "wait"]
<1>2. /\ r \in RemovalStates(DOMAIN roots) /\ RemovalBecomes(o, r)
      /\ removal'[o].pc = "wait" /\ removal'[o].target = removal[o].target
      /\ removal'[o].todo = <<>>
  BY <1>1, Places DEF WithdrawLocked, RemovalGoes, RemovalBecomes, RemovalStates
<1>3. RemovalInv(o)'
  BY <1>1, <1>2 DEF RemovalInv, Holding, HooksGone, OwnersIn
<1>4. SessionInv' /\ Live' = Live
  BY <1>1 DEF IInv, SessionInv, Live
<1>5. removing' \in NullableDispatcher /\ installed' \in NullableDispatcher
  BY <1>1, RemovalTypes
<1>6. \A p \in Owners \ {o} : lock # p /\ lock' # p
  BY <1>1, DispatchConstants
<1> HIDE DEF r
<1> QED BY <1>1, <1>2, <1>3, <1>4, <1>5, <1>6, OwnerStep

\* With no use counted and `installed' empty, every guest thread is out.
LEMMA AwaitHooksKept ==
    ASSUME IInv, NEW o \in Owners, AwaitHooks(o)
    PROVE  IInv'
<1>1. RemovalInv(o) /\ removal[o] \in RemovalStates(DOMAIN roots)
      /\ removal[o].pc = "wait" /\ removal[o].todo = <<>> /\ inFlight = {}
      /\ removal \in [Owners -> RemovalStates(DOMAIN roots)]
      /\ UNCHANGED <<shared, inFlight, orphans, roots, freed, jobs, running, hook, used>>
  BY RemovalTypes DEF AwaitHooks, RemovalAt, RemovalOnly
<1> DEFINE r == [removal[o] EXCEPT !.pc = "drain"]
<1>2. /\ r \in RemovalStates(DOMAIN roots) /\ RemovalBecomes(o, r)
      /\ removal'[o].pc = "drain" /\ removal'[o].target = removal[o].target
      /\ removal'[o].todo = <<>>
  BY <1>1, Places DEF AwaitHooks, RemovalGoes, RemovalBecomes, RemovalStates
<1>3. ASSUME NEW t \in Threads PROVE Out(t)'
  <2>1. HookInv(t)
    BY DEF IInv
  <2>2. Out(t)
    BY <1>1, <2>1 DEF HookInv, Out
  <2> QED BY <1>1, <2>2 DEF Out, Active
<1>4. RemovalInv(o)'
  BY <1>1, <1>2, <1>3 DEF RemovalInv, Holding, HooksGone, OwnersIn, shared
<1>5. SessionInv' /\ Live' = Live
  BY <1>1 DEF IInv, SessionInv, Live, shared
<1> HIDE DEF r
<1> QED BY <1>1, <1>2, <1>4, <1>5, OwnerStep DEF shared, IInv, TypeOK

LEMMA AwaitSequencerKept ==
    ASSUME IInv, NEW o \in Owners, AwaitSequencer(o)
    PROVE  IInv'
<1>1. RemovalInv(o) /\ removal[o] \in RemovalStates(DOMAIN roots)
      /\ removal[o].pc = "drain" /\ removal[o].todo = <<>>
      /\ (removing # NoDispatcher => Drained(removing))
      /\ removal \in [Owners -> RemovalStates(DOMAIN roots)]
      /\ UNCHANGED <<shared, inFlight, orphans, roots, freed, jobs, running, hook, used>>
  BY RemovalTypes DEF AwaitSequencer, RemovalAt, RemovalOnly, SequencerDone
<1> DEFINE r == [removal[o] EXCEPT !.pc = "check"]
<1>2. /\ r \in RemovalStates(DOMAIN roots) /\ RemovalBecomes(o, r)
      /\ removal'[o].pc = "check" /\ removal'[o].target = removal[o].target
      /\ removal'[o].todo = <<>>
  BY <1>1, Places DEF AwaitSequencer, RemovalGoes, RemovalBecomes, RemovalStates
<1>3. RemovalInv(o)'
  <2>1. \A t \in Threads : Out(t)' <=> Out(t)
    BY <1>1 DEF Out, Active
  <2>2. removing' # NoDispatcher => Drained(removing)'
    BY <1>1 DEF Drained, shared
  <2> QED BY <1>1, <1>2, <2>1, <2>2 DEF RemovalInv, Holding, HooksGone, OwnersIn, shared
<1>4. SessionInv' /\ Live' = Live
  BY <1>1 DEF IInv, SessionInv, Live, shared
<1> HIDE DEF r
<1> QED BY <1>1, <1>2, <1>3, <1>4, OwnerStep DEF shared, IInv, TypeOK

LEMMA TimeOutKept ==
    ASSUME IInv, NEW o \in Owners, TimeOut(o)
    PROVE  IInv'
<1>1. RemovalInv(o) /\ removal[o] \in RemovalStates(DOMAIN roots)
      /\ removal[o].pc \in {"lock", "wait", "drain", "check"} /\ removal[o].todo = <<>>
      /\ removal \in [Owners -> RemovalStates(DOMAIN roots)]
      /\ UNCHANGED <<installed, removing, inFlight, orphans, roots, freed, jobs, running,
                     hook, used>>
      /\ (removal[o].pc = "lock" => lock' = lock) /\ (removal[o].pc # "lock" => lock' = NoOwner)
  BY RemovalTypes DEF TimeOut, RemovalAt, RemovalOnly
<1> DEFINE r == [removal[o] EXCEPT !.pc = "idle"]
<1>2. /\ r \in RemovalStates(DOMAIN roots) /\ RemovalBecomes(o, r)
      /\ removal'[o].pc = "idle" /\ removal'[o].target = removal[o].target
      /\ removal'[o].todo = <<>>
  BY <1>1, Places DEF TimeOut, RemovalGoes, RemovalBecomes, RemovalStates
<1>3. lock' # o /\ (lock' = lock \/ (lock = o /\ lock' = NoOwner))
  BY <1>1, RemovalTypes, DispatchConstants DEF RemovalInv, Holding, HooksGone
<1>4. RemovalInv(o)'
  BY <1>1, <1>2, <1>3 DEF RemovalInv, Holding, HooksGone, OwnersIn
<1>5. SessionInv' /\ Live' = Live
  BY <1>1, <1>3 DEF IInv, SessionInv, Live
<1>6. lock' \in Owners \cup {NoOwner} /\ \A p \in Owners \ {o} : lock' = p <=> lock = p
  BY <1>3, DispatchConstants DEF IInv, TypeOK
<1> HIDE DEF r
<1> QED BY <1>1, <1>2, <1>4, <1>5, <1>6, OwnerStep DEF IInv, TypeOK

\* Without the lock, changes of what is live that lose nothing keep the rest.
LEMMA UnlockedStep ==
    ASSUME IInv, lock = NoOwner, Live \subseteq Live', SessionInv',
           installed' \in NullableDispatcher, removing' \in NullableDispatcher,
           used' \subseteq Dispatchers, used \subseteq used',
           UNCHANGED <<lock, inFlight, queues, roots, hook, removal, freed>>
    PROVE  IInv'
<1>1. TypeOK'
  BY DEF IInv, TypeOK, queues
<1>2. ASSUME NEW t \in Threads PROVE HookInv(t)'
  <2>1. HookInv(t)
    BY DEF IInv
  <2>2. OwnersIn(hook[t].todo, Live)'
    BY <2>1 DEF HookInv, OwnersIn
  <2> QED BY <2>1, <2>2 DEF HookInv, Active
<1>3. ASSUME NEW d \in Dispatchers PROVE QueueInv(d)'
  <2>1. QueueInv(d)
    BY DEF IInv
  <2> QED BY <2>1 DEF QueueInv, OwnersIn, Drained, queues
<1>4. ASSUME NEW o \in Owners PROVE RemovalInv(o)'
  <2>1. RemovalInv(o) /\ lock # o /\ lock' # o
    BY RemovalTypes
  <2> QED BY <2>1 DEF RemovalInv, OwnersIn, Holding, HooksGone
<1> QED BY <1>1, <1>2, <1>3, <1>4 DEF IInv

LEMMA InstallKept ==
    ASSUME IInv, NEW d \in Dispatchers, Install(d)
    PROVE  IInv'
<1>1. /\ d \notin used /\ lock = NoOwner /\ removing = NoDispatcher
      /\ installed = NoDispatcher /\ installed' = d /\ used' = used \cup {d}
      /\ UNCHANGED <<removing, lock, inFlight, queues, roots, hook, removal, freed>>
  BY DEF Install
<1>2. Live = {} /\ Live' = {d}
  BY <1>1, DispatchConstants DEF Live
<1>3. SessionInv' /\ used \subseteq Dispatchers
  BY <1>1, <1>2 DEF IInv, SessionInv, TypeOK
<1> QED BY <1>1, <1>2, <1>3, UnlockedStep DEF NullableDispatcher

LEMMA RemoveInsideKept ==
    ASSUME IInv, RemoveInside
    PROVE  IInv'
<1>1. /\ lock = NoOwner /\ installed' = NoDispatcher
      /\ removing' = (IF installed = NoDispatcher THEN removing ELSE installed)
      /\ UNCHANGED <<lock, inFlight, queues, roots, hook, removal, freed, used>>
  BY DEF RemoveInside, RemovalOnly, Withdraw, queues
<1>2. SessionInv' /\ Live' = Live
  BY <1>1 DEF IInv, SessionInv, Live
<1>3. installed \in NullableDispatcher /\ removing \in NullableDispatcher
      /\ NoDispatcher \in NullableDispatcher /\ used \subseteq Dispatchers
  BY DEF IInv, TypeOK, NullableDispatcher
<1>4. installed' \in NullableDispatcher /\ removing' \in NullableDispatcher
  BY <1>1, <1>3
<1> QED BY <1>1, <1>2, <1>3, <1>4, UnlockedStep

\* While a removal is past its waits, every guest thread is out, and other
\* owners wait for the lock.
LEMMA Alone ==
    ASSUME IInv, NEW o \in Owners, removal[o].pc \in HooksGone
    PROVE  /\ lock = o /\ installed = NoDispatcher
           /\ \A t \in Threads : HookInv(t) /\ Out(t)
           /\ \A p \in Owners \ {o} :
                 RemovalInv(p) /\ lock # p /\ removal[p].pc \notin Holding
                 /\ removal[p].target = NoDispatcher /\ removal[p].todo = <<>>
<1>1. RemovalInv(o) /\ lock = o /\ installed = NoDispatcher
  BY RemovalTypes DEF RemovalInv, Holding
<1>2. ASSUME NEW p \in Owners \ {o}
      PROVE  RemovalInv(p) /\ lock # p /\ removal[p].pc \notin Holding
             /\ removal[p].target = NoDispatcher /\ removal[p].todo = <<>>
  BY <1>1, RemovalTypes DEF RemovalInv, Holding, HooksGone
<1> QED BY <1>1, <1>2 DEF RemovalInv, IInv

\* A step of such a removal leaves the hooks out.
LEMMA AloneStep ==
    ASSUME IInv, NEW o \in Owners, removal[o].pc \in HooksGone,
           NEW r \in RemovalStates(DOMAIN roots), RemovalBecomes(o, r), RootsKept,
           roots' \in Seq(Roots), DOMAIN roots' = DOMAIN roots,
           UNCHANGED <<installed, jobs, running, hook, used>>,
           removing' \in {removing, NoDispatcher},
           inFlight' \subseteq Actors \X {"root", "drain", "removal"},
           \A t \in Threads : \A use : <<t, use>> \in inFlight => <<t, use>> \in inFlight',
           lock' \in {o, NoOwner}, freed' \subseteq used,
           orphans' \in [Dispatchers -> Seq(DOMAIN roots)],
           freed' = freed \/ (freed' = used /\ Live = {}),
           \A d \in Dispatchers : QueueInv(d)',
           RemovalInv(o)'
    PROVE  IInv'
<1>1. /\ removal' \in [Owners -> RemovalStates(DOMAIN roots)] /\ removal'[o] = r
      /\ \A p \in Owners \ {o} : removal'[p] = removal[p]
  BY DEF IInv, TypeOK, RemovalBecomes
<1>2. removing' \in NullableDispatcher
  BY DEF IInv, TypeOK, NullableDispatcher
<1>3. TypeOK'
  BY <1>1, <1>2 DEF IInv, TypeOK
<1>4. installed = NoDispatcher
  BY Alone
<1>5. SessionInv'
  BY <1>4, RemovalTypes DEF SessionInv, Live
<1>6. ASSUME NEW t \in Threads PROVE HookInv(t)'
  <2>1. HookInv(t) /\ Out(t)
    BY Alone
  <2> QED BY <2>1 DEF HookInv, OwnersIn, Active, Out
<1>7. ASSUME NEW p \in Owners \ {o} PROVE RemovalInv(p)'
  <2>1. RemovalInv(p) /\ lock' # p /\ removal[p].pc \notin Holding
        /\ removal[p].target = NoDispatcher /\ removal[p].todo = <<>>
        /\ removal'[p] = removal[p]
    BY <1>1, Alone, DispatchConstants
  <2>2. NoDispatcher \notin freed'
    BY RemovalTypes
  <2> QED BY <2>1, <2>2 DEF RemovalInv, OwnersIn, Holding, HooksGone
<1> QED BY <1>3, <1>5, <1>6, <1>7 DEF IInv

LEMMA TakeRemovingKept ==
    ASSUME IInv, NEW o \in Owners, TakeRemoving(o)
    PROVE  IInv'
<1>1. RemovalInv(o) /\ removal[o] \in RemovalStates(DOMAIN roots)
      /\ removal[o].pc = "check" /\ removal[o].todo = <<>> /\ removal[o].pc \in HooksGone
      /\ removing # NoDispatcher /\ removing \in Dispatchers /\ removing' = NoDispatcher
      /\ removal \in [Owners -> RemovalStates(DOMAIN roots)]
      /\ inFlight' = inFlight \cup {<<o, "removal">>}
      /\ UNCHANGED <<installed, lock, orphans, roots, freed, jobs, running, hook, used>>
  BY RemovalTypes DEF TakeRemoving, RemovalAt, RemovalOnly, Uses, HooksGone, NullableDispatcher
<1> DEFINE r == [removal[o] EXCEPT !.pc = "orphans", !.target = removing]
<1>2. /\ r \in RemovalStates(DOMAIN roots) /\ RemovalBecomes(o, r)
      /\ removal'[o].pc = "orphans" /\ removal'[o].target = removing
      /\ removal'[o].todo = <<>>
  <2>1. removing \in NullableDispatcher
    BY RemovalTypes
  <2> QED BY <1>1, <2>1, Places DEF TakeRemoving, RemovalBecomes, RemovalStates
<1>3. installed = NoDispatcher /\ lock = o /\ Live = {removing} /\ Live' = {}
  BY <1>1, Alone DEF Live
<1>4. removing \notin freed /\ Drained(removing)
  BY <1>1, <1>3, RemovalTypes DEF RemovalInv
<1>5. ASSUME NEW d \in Dispatchers PROVE QueueInv(d)'
  <2>1. QueueInv(d) /\ orphans' = orphans /\ roots' = roots
    BY <1>1 DEF IInv
  <2>2. Drained(d)'
    BY <1>1, <1>3, <1>4, <2>1 DEF QueueInv, Drained
  <2>3. orphans[d] # <<>> => d = removing
    <3>1. ~(\E p \in Owners : removal[p].pc = "orphans" /\ removal[p].target = d)
      BY <1>1, Alone DEF Holding, HooksGone
    <3> QED BY <1>3, <2>1, <3>1 DEF QueueInv
  <2> QED BY <1>2, <2>1, <2>2, <2>3 DEF QueueInv, OwnersIn
<1>6. \A t \in Threads : Out(t)'
  BY <1>1, Alone DEF Out, Active
<1>7. RemovalInv(o)'
  BY <1>1, <1>2, <1>3, <1>4, <1>6 DEF RemovalInv, Holding, HooksGone, OwnersIn
<1>8. /\ inFlight' \subseteq Actors \X {"root", "drain", "removal"}
      /\ \A t \in Threads : \A use : <<t, use>> \in inFlight => <<t, use>> \in inFlight'
      /\ orphans' \in [Dispatchers -> Seq(DOMAIN roots)] /\ roots' \in Seq(Roots)
      /\ freed' \subseteq used
  BY <1>1 DEF Actors, IInv, TypeOK
<1> HIDE DEF r
<1> QED BY <1>1, <1>2, <1>3, <1>5, <1>7, <1>8, SameRoots, AloneStep

LEMMA RefuseOrphansKept ==
    ASSUME IInv, NEW o \in Owners, RefuseOrphans(o)
    PROVE  IInv'
<1> DEFINE d == removal[o].target
<1>1. RemovalInv(o) /\ removal[o] \in RemovalStates(DOMAIN roots)
      /\ removal[o].pc = "orphans" /\ removal[o].todo = <<>> /\ removal[o].pc \in HooksGone
      /\ d \in Dispatchers
      /\ removal \in [Owners -> RemovalStates(DOMAIN roots)]
      /\ orphans \in [Dispatchers -> Seq(DOMAIN roots)]
      /\ orphans' = [orphans EXCEPT ![d] = <<>>]
      /\ UNCHANGED <<shared, inFlight, roots, freed, jobs, running, hook, used>>
  BY RemovalTypes DEF RefuseOrphans, RemovalAt, RemovalOnly, HooksGone, RemovalInv,
    RemovalStates, NullableDispatcher, IInv, TypeOK
<1> DEFINE r == [removal[o] EXCEPT !.pc = "conclude", !.todo = orphans[d]]
<1>2. /\ r \in RemovalStates(DOMAIN roots) /\ RemovalBecomes(o, r)
      /\ removal'[o].pc = "conclude" /\ removal'[o].target = d
      /\ removal'[o].todo = orphans[d] /\ orphans[d] \in Seq(DOMAIN roots)
  <2>1. orphans[d] \in Seq(DOMAIN roots)
    BY <1>1
  <2> QED BY <1>1, <2>1, Places DEF RefuseOrphans, RemovalBecomes, RemovalStates
<1>3. removing = NoDispatcher /\ installed = NoDispatcher /\ lock = o /\ Live = {}
      /\ Live' = {}
  BY <1>1, Alone DEF Live, RemovalInv, shared
<1>4. ASSUME NEW e \in Dispatchers PROVE QueueInv(e)'
  <2>1. QueueInv(e)
    BY DEF IInv
  <2>2. Drained(e)'
    BY <1>1, <1>3, <2>1 DEF QueueInv, Drained
  <2>3. orphans'[e] = <<>>
    <3>1. \A p \in Owners : removal[p].pc = "orphans" => p = o
      BY <1>1, Alone DEF Holding, HooksGone
    <3> QED BY <1>1, <1>3, <2>1, <3>1 DEF QueueInv
  <2> QED BY <2>2, <2>3 DEF QueueInv, OwnersIn
<1>5. \A t \in Threads : Out(t)'
  BY <1>1, Alone DEF Out, Active
<1>6. OwnersIn(removal[o].todo, {removal[o].target})'
  <2>1. OwnersIn(orphans[d], {d})
    BY <1>1 DEF IInv, QueueInv
  <2> QED BY <1>1, <1>2, <2>1 DEF OwnersIn
<1>7. RemovalInv(o)'
  BY <1>1, <1>2, <1>3, <1>5, <1>6 DEF RemovalInv, Holding, HooksGone, shared
<1>8. orphans' \in [Dispatchers -> Seq(DOMAIN roots)]
  BY <1>1
<1>9. /\ inFlight' \subseteq Actors \X {"root", "drain", "removal"}
      /\ roots' \in Seq(Roots) /\ freed' \subseteq used
  BY <1>1 DEF IInv, TypeOK
<1> HIDE DEF r
<1> QED BY <1>1, <1>2, <1>3, <1>4, <1>7, <1>8, <1>9, SameRoots, AloneStep DEF shared

LEMMA ConcludeOrphanKept ==
    ASSUME IInv, NEW o \in Owners, ConcludeOrphan(o)
    PROVE  IInv'
<1> DEFINE list == removal[o].todo
<1>1. RemovalInv(o) /\ removal[o] \in RemovalStates(DOMAIN roots)
      /\ removal[o].pc = "conclude" /\ removal[o].pc \in HooksGone
      /\ list # <<>> /\ list \in Seq(DOMAIN roots) /\ roots \in Seq(Roots)
      /\ removal \in [Owners -> RemovalStates(DOMAIN roots)]
      /\ Conclude(Head(list))
      /\ UNCHANGED <<shared, inFlight, orphans, freed, jobs, running, hook, used>>
  BY RemovalTypes DEF ConcludeOrphan, RemovalOnly, HooksGone, RemovalInv, IInv, TypeOK
<1>2. /\ Head(list) \in DOMAIN roots /\ Tail(list) \in Seq(DOMAIN roots)
      /\ \A i \in DOMAIN Tail(list) : i + 1 \in DOMAIN list /\ Tail(list)[i] = list[i + 1]
  BY <1>1, HeadTail
<1>3. RootsKept /\ roots' \in Seq(Roots) /\ DOMAIN roots' = DOMAIN roots
  BY <1>1, <1>2, ConcludedRoots
<1> DEFINE r == [removal[o] EXCEPT !.todo = Tail(list)]
<1>4. /\ r \in RemovalStates(DOMAIN roots) /\ RemovalBecomes(o, r)
      /\ removal'[o].pc = "conclude" /\ removal'[o].target = removal[o].target
      /\ removal'[o].todo = Tail(list)
  BY <1>1, <1>2 DEF ConcludeOrphan, RemovalBecomes, RemovalStates
<1>5. removing = NoDispatcher /\ installed = NoDispatcher /\ lock = o /\ Live = {}
      /\ Live' = {}
  BY <1>1, Alone DEF Live, RemovalInv, shared
<1>6. ASSUME NEW e \in Dispatchers PROVE QueueInv(e)'
  <2>1. QueueInv(e)
    BY DEF IInv
  <2>2. \A p \in Owners : ~(removal[p].pc = "orphans")
    BY <1>1, Alone DEF Holding, HooksGone
  <2>3. Drained(e)' /\ orphans'[e] = <<>>
    BY <1>1, <1>5, <2>1, <2>2 DEF QueueInv, Drained
  <2> QED BY <2>3 DEF QueueInv, OwnersIn
<1>7. OwnersIn(removal[o].todo, {removal[o].target})'
  <2>1. \A i \in DOMAIN list : roots'[list[i]].owner = removal[o].target
    BY <1>1, <1>3, ListKept DEF RemovalInv
  <2>2. \A i \in DOMAIN Tail(list) : roots'[Tail(list)[i]].owner = removal[o].target
    BY <1>2, <2>1
  <2> QED BY <1>4, <2>2 DEF OwnersIn
<1>8. \A t \in Threads : Out(t)'
  BY <1>1, Alone DEF Out, Active
<1>9. RemovalInv(o)'
  BY <1>1, <1>4, <1>5, <1>7, <1>8 DEF RemovalInv, Holding, HooksGone, shared
<1>10. /\ inFlight' \subseteq Actors \X {"root", "drain", "removal"}
       /\ orphans' \in [Dispatchers -> Seq(DOMAIN roots)] /\ freed' \subseteq used
  BY <1>1 DEF IInv, TypeOK
<1> HIDE DEF r
<1> QED BY <1>1, <1>3, <1>4, <1>5, <1>6, <1>9, <1>10, AloneStep DEF shared

LEMMA RemovedKept ==
    ASSUME IInv, NEW o \in Owners, Removed(o)
    PROVE  IInv'
<1>1. RemovalInv(o) /\ removal[o] \in RemovalStates(DOMAIN roots)
      /\ removal[o].pc \in {"check", "conclude"} /\ removal[o].pc \in HooksGone
      /\ removal[o].todo = <<>> /\ removing = NoDispatcher
      /\ removal \in [Owners -> RemovalStates(DOMAIN roots)]
      /\ inFlight' = inFlight \ {<<o, "removal">>} /\ lock' = NoOwner /\ freed' = used
      /\ UNCHANGED <<installed, removing, orphans, roots, jobs, running, hook, used>>
  BY RemovalTypes DEF Removed, RemovalAt, RemovalOnly, HooksGone, RemovalInv, Leaves
<1> DEFINE r == [removal[o] EXCEPT !.pc = "idle", !.target = NoDispatcher]
<1>2. /\ r \in RemovalStates(DOMAIN roots) /\ RemovalBecomes(o, r)
      /\ removal'[o].pc = "idle" /\ removal'[o].target = NoDispatcher
      /\ removal'[o].todo = <<>>
  <2>1. NoDispatcher \in NullableDispatcher
    BY RemovalTypes
  <2> QED BY <1>1, <2>1, Places DEF Removed, RemovalBecomes, RemovalStates
<1>3. installed = NoDispatcher /\ Live = {} /\ Live' = {}
  BY <1>1, Alone DEF Live
<1>4. ASSUME NEW e \in Dispatchers PROVE QueueInv(e)'
  <2>1. QueueInv(e)
    BY DEF IInv
  <2>2. \A p \in Owners : ~(removal[p].pc = "orphans")
    BY <1>1, Alone DEF Holding, HooksGone
  <2>3. Drained(e)' /\ orphans'[e] = <<>>
    BY <1>1, <1>3, <2>1, <2>2 DEF QueueInv, Drained
  <2> QED BY <2>3 DEF QueueInv, OwnersIn
<1>5. NoDispatcher \notin freed' /\ lock' # o
  BY <1>1, RemovalTypes, DispatchConstants
<1>6. RemovalInv(o)'
  BY <1>1, <1>2, <1>5 DEF RemovalInv, Holding, HooksGone, OwnersIn
<1>7. /\ inFlight' \subseteq Actors \X {"root", "drain", "removal"}
      /\ \A t \in Threads : \A use : <<t, use>> \in inFlight => <<t, use>> \in inFlight'
      /\ orphans' \in [Dispatchers -> Seq(DOMAIN roots)] /\ roots' \in Seq(Roots)
  BY <1>1, DispatchConstants DEF IInv, TypeOK
<1> HIDE DEF r
<1> QED BY <1>1, <1>2, <1>3, <1>4, <1>6, <1>7, SameRoots, AloneStep

-----------------------------------------------------------------------------
(* Every step keeps the invariant. *)

LEMMA GuestCallsKept ==
    ASSUME IInv, NEW t \in Threads, GuestCalls(t)
    PROVE  IInv'
BY BeginKept, EndDrawKept, CommitKept, ExitKept, BeginDrainKept DEF GuestCalls

LEMMA HookStepsKept ==
    ASSUME IInv, NEW t \in Threads, HookSteps(t)
    PROVE  IInv'
BY EnterKept, CountKept, ReloadKept, DrainOrphansKept, NewRootKept, BuildRootKept, PostKept,
   FinishHereKept, ConcludeHereKept, ReleaseKept, CountDrainKept, ReloadDrainKept,
   AwaitDrainKept, LeaveDrainKept
DEF HookSteps

LEMMA RemovalStepsKept ==
    ASSUME IInv, NEW o \in Owners, RemovalSteps(o)
    PROVE  IInv'
BY WithdrawLockedKept, AwaitHooksKept, AwaitSequencerKept, TakeRemovingKept,
   RefuseOrphansKept, ConcludeOrphanKept, RemovedKept
DEF RemovalSteps

LEMMA Stutters ==
    ASSUME IInv, UNCHANGED vars
    PROVE  IInv'
<1>1. TypeOK'
  BY DEF IInv, TypeOK, vars, shared, queues, history
<1>2. RootsKept
  BY SameRoots DEF vars
<1>3. \A d \in Dispatchers : Drained(d) => Drained(d)'
  BY DEF Drained, vars, queues
<1> QED BY <1>1, <1>2, <1>3, WorkerStep DEF vars, queues

LEMMA Steps ==
    ASSUME IInv, [Next]_vars
    PROVE  IInv'
<1>1. ASSUME NEW t \in Threads, GuestCalls(t) \/ HookSteps(t) \/ PostFails(t) PROVE IInv'
  BY <1>1, GuestCallsKept, HookStepsKept, PostFailsKept
<1>2. ASSUME NEW d \in Dispatchers, Worker(d) \/ Install(d) PROVE IInv'
  BY <1>2, TakeJobKept, RunJobKept, InstallKept DEF Worker
<1>3. ASSUME NEW o \in Owners, Remove(o) \/ RemovalSteps(o) \/ TimeOut(o) PROVE IInv'
  BY <1>3, RemoveKept, RemovalStepsKept, TimeOutKept
<1>4. CASE RemoveInside
  BY <1>4, RemoveInsideKept
<1> QED BY <1>1, <1>2, <1>3, <1>4, Stutters DEF Next

LEMMA Starts == Init => IInv
<1> SUFFICES ASSUME Init PROVE IInv
  OBVIOUS
<1>1. /\ NoDispatcher \in NullableDispatcher /\ <<>> \in Seq(DOMAIN roots)
      /\ roots \in Seq(Roots) /\ Len(<<>>) = 0 /\ 0 <= Capacity /\ DOMAIN <<>> = {}
  BY EmptySeq, DispatchConstants DEF Init, NullableDispatcher
<1>2. /\ hook \in [Threads -> HookStates(DOMAIN roots)]
      /\ removal \in [Owners -> RemovalStates(DOMAIN roots)]
  BY <1>1, Places DEF Init, HookStates, RemovalStates
<1>3. TypeOK
  BY <1>1, <1>2 DEF Init, TypeOK
<1>4. SessionInv /\ Live = {}
  BY DEF Init, SessionInv, Live
<1>5. ASSUME NEW t \in Threads PROVE HookInv(t)
  BY <1>1 DEF Init, HookInv, Active, OwnersIn
<1>6. ASSUME NEW d \in Dispatchers PROVE QueueInv(d)
  BY <1>1 DEF Init, QueueInv, Drained, OwnersIn
<1>7. ASSUME NEW o \in Owners PROVE RemovalInv(o)
  BY <1>1, DispatchConstants DEF Init, RemovalInv, Holding, HooksGone, OwnersIn
<1> QED BY <1>3, <1>4, <1>5, <1>6, <1>7 DEF IInv

LEMMA DispatchInvariant == Spec => []IInv
BY Starts, Steps, PTL DEF Spec

-----------------------------------------------------------------------------
(* Results. *)

\* The dispatch keeps its types for any constants: no queue outgrows
\* sequencerCapacity and every list names roots that exist.
THEOREM DispatchTypeCorrect == Spec => []TypeOK
<1>1. IInv => TypeOK
  BY DEF IInv
<1> QED BY <1>1, DispatchInvariant, PTL

\* Once RemoveNativeDrawDispatcher returned true, no hook, drain, job, orphan
\* or callback reaches the dispatcher, for any threads, owners and removals,
\* timed out or not.
THEOREM RemovedStaysUnused == Spec => []RemovedIsUnused
<1>1. ASSUME IInv PROVE RemovedIsUnused
  <2> SUFFICES ASSUME NEW d \in freed
               PROVE  /\ d # installed /\ d # removing
                      /\ Drained(d) /\ orphans[d] = <<>>
                      /\ \A t \in Threads :
                            /\ hook[t].target # d /\ ~Reaches(hook[t].todo, d)
                            /\ Active(t) # 0 => roots[Active(t)].owner # d
                      /\ \A o \in Owners :
                            removal[o].target # d /\ ~Reaches(removal[o].todo, d)
    BY DEF RemovedIsUnused
  <2>1. d \in Dispatchers /\ d \notin Live /\ d # NoDispatcher
    BY <1>1, DispatchConstants DEF IInv, TypeOK, SessionInv
  <2>2. d # installed /\ d # removing
    BY <2>1 DEF Live
  <2>3. ASSUME NEW o \in Owners
        PROVE  removal[o].target # d /\ ~Reaches(removal[o].todo, d)
    <3>1. RemovalInv(o)
      BY <1>1 DEF IInv
    <3> QED BY <3>1 DEF RemovalInv, Reaches, OwnersIn
  <2>4. Drained(d) /\ orphans[d] = <<>>
    <3>1. QueueInv(d)
      BY <1>1, <2>1 DEF IInv
    <3> QED BY <2>1, <2>3, <3>1 DEF QueueInv
  <2>5. ASSUME NEW t \in Threads
        PROVE  /\ hook[t].target # d /\ ~Reaches(hook[t].todo, d)
               /\ Active(t) # 0 => roots[Active(t)].owner # d
    <3>1. HookInv(t)
      BY <1>1 DEF IInv
    <3> QED BY <2>1, <3>1 DEF HookInv, Reaches, OwnersIn
  <2> QED BY <2>2, <2>3, <2>4, <2>5
<1> QED BY <1>1, DispatchInvariant, PTL

-----------------------------------------------------------------------------
(* Drains. *)

\* Steps of t between calls, counts and waits: its root, and whether it is
\* owed there, stay as they are.
Moves(t) ==
    \/ Begin(t) \/ Enter(t) \/ Count(t) \/ Reload(t) \/ EndDraw(t) \/ Commit(t)
    \/ PostFails(t) \/ BeginDrain(t) \/ CountDrain(t) \/ ReloadDrain(t) \/ AwaitDrain(t)
    \/ LeaveDrain(t)

LEMMA MovesStay ==
    ASSUME IInv, NEW t \in Threads, Moves(t)
    PROVE  /\ UNCHANGED <<queues, roots>>
           /\ \A u \in Threads \ {t} : hook'[u] = hook[u]
           /\ hook[t].todo = <<>> /\ hook[t].pc \notin {"release", "gone"}
           /\ hook'[t].pc # "release" /\ hook'[t].root = hook[t].root
           /\ hook'[t].todo = <<>>
           /\ hook'[t].pc = "drainLeave" /\ hook'[t].target # NoDispatcher => AwaitDrain(t)
<1> DEFINE Stay ==
           /\ UNCHANGED <<queues, roots>>
           /\ \A u \in Threads \ {t} : hook'[u] = hook[u]
           /\ hook[t].todo = <<>> /\ hook[t].pc \notin {"release", "gone"}
           /\ hook'[t].pc # "release" /\ hook'[t].root = hook[t].root
           /\ hook'[t].todo = <<>>
           /\ hook'[t].pc = "drainLeave" /\ hook'[t].target # NoDispatcher => AwaitDrain(t)
<1>1. hook \in [Threads -> HookStates(DOMAIN roots)]
  BY DEF IInv, TypeOK
<1>2. ASSUME Begin(t) PROVE Stay
  BY <1>1, <1>2 DEF Begin, At, Becomes, HookStates
<1>3. ASSUME Enter(t) PROVE Stay
  BY <1>1, <1>3 DEF Enter, At, Goes, Becomes, HookStates
<1>4. ASSUME Count(t) PROVE Stay
  BY <1>1, <1>4 DEF Count, At, Goes, Becomes, HookStates
<1>5. ASSUME Reload(t) PROVE Stay
  BY ZenonT(30), <1>1, <1>5 DEF Reload, At, Goes, Becomes, HookStates
<1>6. ASSUME EndDraw(t) PROVE Stay
  <2>1. \/ Becomes(t, [hook[t] EXCEPT !.held = TRUE])
        \/ Becomes(t, [hook[t] EXCEPT !.pc = "finish", !.next = "idle"])
    BY <1>6 DEF EndDraw
  <2>2. At(t, "idle") /\ UNCHANGED <<queues, roots>>
    BY <1>6 DEF EndDraw
  <2>3. CASE Becomes(t, [hook[t] EXCEPT !.held = TRUE])
    BY <1>1, <2>2, <2>3 DEF At, Becomes, HookStates
  <2>4. CASE Becomes(t, [hook[t] EXCEPT !.pc = "finish", !.next = "idle"])
    BY <1>1, <2>2, <2>4 DEF At, Becomes, HookStates
  <2> QED BY <2>1, <2>3, <2>4
<1>7. ASSUME Commit(t) PROVE Stay
  BY <1>1, <1>7 DEF Commit, At, Becomes, HookStates
<1>8. ASSUME PostFails(t) PROVE Stay
  BY <1>1, <1>8 DEF PostFails, At, Goes, Becomes, HookStates
<1>9. ASSUME BeginDrain(t) PROVE Stay
  BY <1>1, <1>9 DEF BeginDrain, At, Goes, Becomes, HookStates
<1>10. ASSUME CountDrain(t) PROVE Stay
  BY <1>1, <1>10 DEF CountDrain, At, Goes, Becomes, HookStates
<1>11. ASSUME ReloadDrain(t) PROVE Stay
  BY <1>1, <1>11 DEF ReloadDrain, At, Becomes, HookStates
<1>12. ASSUME AwaitDrain(t) PROVE Stay
  BY <1>1, <1>12 DEF AwaitDrain, At, Goes, Becomes, HookStates
<1>13. ASSUME LeaveDrain(t) PROVE Stay
  BY <1>1, <1>13 DEF LeaveDrain, At, Becomes, HookStates
<1> HIDE DEF Stay
<1>14. Stay
  BY <1>2, <1>3, <1>4, <1>5, <1>6, <1>7, <1>8, <1>9, <1>10, <1>11, <1>12, <1>13 DEF Moves
<1> QED BY <1>14 DEF Stay

\* Who owes a root: what a step must keep of each.
LEMMA OwedStep ==
    ASSUME IInv, OwedInv, RootsKept, DOMAIN roots' = DOMAIN roots,
           \A r \in DOMAIN roots :
              roots'[r].verdicts = 0 /\ Owed(r) => Owed(r)'
    PROVE  OwedInv'
<1>1. \A r \in DOMAIN roots : roots'[r].verdicts = 0 => roots[r].verdicts = 0
  <2>1. \A r \in DOMAIN roots : roots[r] \in Roots
    BY ElementOfSeq, LenProperties DEF IInv, TypeOK
  <2> QED BY <2>1 DEF RootsKept, Roots
<1> QED BY <1>1 DEF OwedInv

LEMMA MovesOwed ==
    ASSUME IInv, OwedInv, NEW t \in Threads, Moves(t)
    PROVE  OwedInv'
<1>1. ASSUME NEW r \in DOMAIN roots, Owed(r) PROVE Owed(r)'
  <2>1. roots'[r] = roots[r] /\ roots[r].thread \in Threads
    <3>1. roots[r] \in Roots
      BY ElementOfSeq, LenProperties DEF IInv, TypeOK
    <3> QED BY <3>1, MovesStay DEF Roots
  <2>2. Queued(r)' <=> Queued(r)
    BY <2>1, MovesStay DEF Queued, queues
  <2>3. CASE roots[r].thread = t
    BY <1>1, <2>1, <2>2, <2>3, MovesStay DEF Owed
  <2>4. CASE roots[r].thread # t
    BY <1>1, <2>1, <2>2, <2>4, MovesStay DEF Owed
  <2> QED BY <2>3, <2>4
<1>2. RootsKept /\ DOMAIN roots' = DOMAIN roots
  BY MovesStay, SameRoots
<1> QED BY <1>1, <1>2, OwedStep

\* A step that changes one thread's place and nothing queued.
LEMMA PlaceOwed ==
    ASSUME IInv, OwedInv, NEW t \in Threads, RootsKept, DOMAIN roots' = DOMAIN roots,
           UNCHANGED <<jobs, running>>, \A u \in Threads \ {t} : hook'[u] = hook[u],
           \A r \in DOMAIN roots :
              roots'[r].verdicts = 0 /\ roots[r].thread = t /\ Owed(r) =>
                 \/ hook'[t].root = r /\ hook'[t].pc # "release"
                 \/ \E i \in DOMAIN hook'[t].todo : hook'[t].todo[i] = r
                 \/ Queued(r) \/ hook'[t].pc = "gone"
                 \/ hook'[t].pc = "release" /\ hook'[t].next = "gone"
    PROVE  OwedInv'
<1>1. ASSUME NEW r \in DOMAIN roots, roots'[r].verdicts = 0, Owed(r) PROVE Owed(r)'
  <2>1. roots'[r].thread = roots[r].thread /\ roots'[r].owner = roots[r].owner
        /\ roots[r].thread \in Threads
    <3>1. roots[r] \in Roots
      BY ElementOfSeq, LenProperties DEF IInv, TypeOK
    <3> QED BY <3>1 DEF Roots, RootsKept
  <2>2. Queued(r)' <=> Queued(r)
    BY <2>1 DEF Queued
  <2>3. CASE roots[r].thread = t
    BY <1>1, <2>1, <2>2, <2>3 DEF Owed
  <2>4. CASE roots[r].thread # t
    BY <1>1, <2>1, <2>2, <2>4 DEF Owed
  <2> QED BY <2>3, <2>4
<1> QED BY <1>1, OwedStep

LEMMA ReleaseOwed ==
    ASSUME IInv, OwedInv, NEW t \in Threads, Release(t) \/ Exit(t) \/ FinishHere(t)
    PROVE  OwedInv'
<1>1. hook \in [Threads -> HookStates(DOMAIN roots)] /\ RootsKept
      /\ DOMAIN roots' = DOMAIN roots /\ UNCHANGED <<jobs, running>>
  BY SameRoots DEF IInv, TypeOK, Release, Exit, FinishHere, queues
<1>2. CASE Release(t)
  <2>1. /\ hook[t].pc = "release" /\ hook[t].todo = <<>>
        /\ hook'[t].pc = hook[t].next
        /\ \A u \in Threads \ {t} : hook'[u] = hook[u]
    BY <1>1, <1>2 DEF Release, At, Becomes, HookStates
  <2> QED BY <1>1, <2>1, PlaceOwed DEF Owed
<1>3. CASE FinishHere(t)
  <2>1. /\ hook[t].pc \notin {"release", "gone"} /\ hook[t].todo = <<>>
        /\ hook'[t].pc = "release" /\ hook'[t].todo = <<hook[t].root>>
        /\ \A u \in Threads \ {t} : hook'[u] = hook[u]
    BY <1>1, <1>3 DEF FinishHere, At, Becomes, HookStates, Active
  <2>2. \E i \in DOMAIN hook'[t].todo : hook'[t].todo[i] = hook[t].root
    BY <2>1
  <2> QED BY <1>1, <2>1, <2>2, PlaceOwed DEF Owed
<1>4. CASE Exit(t)
  <2>1. /\ hook[t].pc \notin {"release", "gone"} /\ hook[t].todo = <<>>
        /\ hook'[t].pc = "gone" \/ (hook'[t].pc = "release" /\ hook'[t].next = "gone")
           \/ (hook'[t].pc = "finish" /\ hook'[t].root = hook[t].root)
        /\ \A u \in Threads \ {t} : hook'[u] = hook[u]
    <3>1. \/ Becomes(t, [hook[t] EXCEPT !.pc = "gone"])
          \/ Becomes(t, [hook[t] EXCEPT !.pc = "release", !.next = "gone"])
          \/ Becomes(t, [hook[t] EXCEPT !.pc = "finish", !.next = "gone"])
      BY <1>4 DEF Exit, Goes
    <3>2. At(t, "idle")
      BY <1>4 DEF Exit
    <3>3. CASE Becomes(t, [hook[t] EXCEPT !.pc = "gone"])
      BY <1>1, <3>2, <3>3 DEF At, Becomes, HookStates
    <3>4. CASE Becomes(t, [hook[t] EXCEPT !.pc = "release", !.next = "gone"])
      BY <1>1, <3>2, <3>4 DEF At, Becomes, HookStates
    <3>5. CASE Becomes(t, [hook[t] EXCEPT !.pc = "finish", !.next = "gone"])
      BY <1>1, <3>2, <3>5 DEF At, Becomes, HookStates
    <3> QED BY <3>1, <3>3, <3>4, <3>5
  <2> QED BY <1>1, <2>1, PlaceOwed DEF Owed
<1> QED BY <1>2, <1>3, <1>4

LEMMA ListsOwed ==
    ASSUME IInv, OwedInv, NEW t \in Threads,
           DrainOrphans(t) \/ BuildRoot(t) \/ ConcludeHere(t)
    PROVE  OwedInv'
<1>1. hook \in [Threads -> HookStates(DOMAIN roots)] /\ roots \in Seq(Roots)
      /\ hook[t].todo \in Seq(DOMAIN roots) /\ HookInv(t)
      /\ (Active(t) # 0 => Active(t) \in DOMAIN roots)
  BY HookTypes DEF IInv, TypeOK
<1>2. CASE DrainOrphans(t)
  <2>1. /\ hook[t].pc = "orphans" /\ hook[t].todo = <<>> /\ hook[t].root = 0
        /\ UNCHANGED <<jobs, running, roots>>
        /\ \A u \in Threads \ {t} : hook'[u] = hook[u]
    BY <1>1, <1>2 DEF DrainOrphans, At, Becomes, HookInv, Active
  <2>2. \A r \in DOMAIN roots : r # 0
    BY <1>1, LenProperties
  <2> QED BY <2>1, <2>2, SameRoots, PlaceOwed DEF Owed
<1>3. CASE BuildRoot(t)
  <2>1. /\ hook[t].pc = "build" /\ hook[t].todo = <<>> /\ hook[t].root # 0
        /\ hook'[t].pc = "idle" /\ hook'[t].root = hook[t].root
        /\ UNCHANGED <<jobs, running>>
        /\ roots' = [roots EXCEPT ![Active(t)].built = TRUE]
        /\ \A u \in Threads \ {t} : hook'[u] = hook[u]
    BY <1>1, <1>3 DEF BuildRoot, At, Goes, Becomes, HookStates, HookInv, Active, queues
  <2>2. RootsKept /\ DOMAIN roots' = DOMAIN roots
    BY <1>1, <2>1, BuiltRoots DEF Active
  <2> QED BY <2>1, <2>2, PlaceOwed DEF Owed
<1>4. CASE ConcludeHere(t)
  <2> DEFINE list == hook[t].todo
  <2>1. /\ list # <<>> /\ Conclude(Head(list)) /\ UNCHANGED <<jobs, running>>
        /\ hook'[t].pc = hook[t].pc /\ hook'[t].root = hook[t].root
        /\ hook'[t].next = hook[t].next /\ hook'[t].todo = Tail(list)
        /\ \A u \in Threads \ {t} : hook'[u] = hook[u]
    BY <1>1, <1>4 DEF ConcludeHere, Becomes, HookStates, queues
  <2>2. /\ Head(list) \in DOMAIN roots /\ Head(list) = list[1]
        /\ \A i \in DOMAIN list :
              i = 1 \/ (i - 1 \in DOMAIN Tail(list) /\ Tail(list)[i - 1] = list[i])
    BY <1>1, <2>1, HeadTail
  <2>3. /\ RootsKept /\ DOMAIN roots' = DOMAIN roots
        /\ roots'[Head(list)].verdicts > 0
    BY <1>1, <2>1, <2>2, ConcludedRoots
  <2>4. ASSUME NEW r \in DOMAIN roots, roots'[r].verdicts = 0, NEW i \in DOMAIN list,
               list[i] = r
        PROVE  \E j \in DOMAIN Tail(list) : Tail(list)[j] = r
    <3>1. i # 1
      BY <2>2, <2>3, <2>4
    <3> QED BY <2>2, <2>4, <3>1
  <2>5. ASSUME NEW r \in DOMAIN roots, roots'[r].verdicts = 0, roots[r].thread = t, Owed(r)
        PROVE  \/ hook'[t].root = r /\ hook'[t].pc # "release"
               \/ \E i \in DOMAIN hook'[t].todo : hook'[t].todo[i] = r
               \/ Queued(r) \/ hook'[t].pc = "gone"
               \/ hook'[t].pc = "release" /\ hook'[t].next = "gone"
    <3>1. CASE \E i \in DOMAIN list : list[i] = r
      BY <2>1, <2>4, <2>5, <3>1
    <3>2. CASE ~(\E i \in DOMAIN list : list[i] = r)
      BY <2>1, <2>5, <3>2 DEF Owed
    <3> QED BY <3>1, <3>2
  <2> HIDE DEF list
  <2> QED BY <2>1, <2>3, <2>5, PlaceOwed
<1> QED BY <1>2, <1>3, <1>4

LEMMA NewRootOwed ==
    ASSUME IInv, OwedInv, NEW t \in Threads, NewRoot(t)
    PROVE  /\ OwedInv' /\ RootsKept /\ hook'[t].pc \in {"idle", "build"}
           /\ \A u \in Threads \ {t} : hook'[u] = hook[u]
           /\ \A r \in DOMAIN roots' \ DOMAIN roots : roots'[r].thread = t
<1> DEFINE new == Len(roots) + 1
<1>1. HookInv(t) /\ hook \in [Threads -> HookStates(DOMAIN roots)] /\ roots \in Seq(Roots)
      /\ hook[t] \in HookStates(DOMAIN roots)
      /\ \A r \in DOMAIN roots : roots[r] \in Roots /\ r # 0
  BY HookTypes, ElementOfSeq, LenProperties DEF IInv, TypeOK
<1>2. PICK lowerer \in BOOLEAN, deferred \in BOOLEAN :
         /\ roots' = Append(roots, [thread |-> t, owner |-> hook[t].target,
                                    lowerer |-> lowerer, deferred |-> deferred,
                                    built |-> FALSE, verdicts |-> 0])
         /\ Becomes(t, [hook[t] EXCEPT !.root = new, !.target = NoDispatcher,
                                        !.pc = IF deferred THEN "idle" ELSE "build"])
  BY DEF NewRoot
<1>3. /\ hook[t].pc = "root" /\ hook[t].todo = <<>> /\ hook[t].root = 0
      /\ hook[t].target \in Dispatchers /\ UNCHANGED <<jobs, running>>
  BY <1>1 DEF NewRoot, At, HookInv, HookStates, NullableDispatcher, Active, queues
<1>4. /\ RootsKept /\ new \in DOMAIN roots' /\ roots'[new].thread = t
      /\ DOMAIN roots' = DOMAIN roots \cup {new}
      /\ \A q \in DOMAIN roots : roots'[q] = roots[q]
  <2>1. [thread |-> t, owner |-> hook[t].target, lowerer |-> lowerer,
         deferred |-> deferred, built |-> FALSE, verdicts |-> 0] \in Roots
    BY <1>2, <1>3 DEF Roots
  <2> QED BY <1>1, <1>2, <2>1, AppendedRoots
<1> HIDE DEF new
<1>5. /\ hook'[t].pc \in {"idle", "build"} /\ hook'[t].root = new
      /\ \A u \in Threads \ {t} : hook'[u] = hook[u]
  <2>1. CASE deferred
    <3>1. Becomes(t, [hook[t] EXCEPT !.root = new, !.target = NoDispatcher, !.pc = "idle"])
      BY <1>2, <2>1
    <3> QED BY <1>1, <3>1 DEF Becomes, HookStates
  <2>2. CASE ~deferred
    <3>1. Becomes(t, [hook[t] EXCEPT !.root = new, !.target = NoDispatcher, !.pc = "build"])
      BY <1>2, <2>2
    <3> QED BY <1>1, <3>1 DEF Becomes, HookStates
  <2> QED BY <2>1, <2>2
<1>6. ASSUME NEW r \in DOMAIN roots', roots'[r].verdicts = 0 PROVE Owed(r)'
  <2>1. CASE r = new
    BY <1>4, <1>5, <2>1 DEF Owed
  <2>2. CASE r \in DOMAIN roots
    <3>1. Owed(r) /\ roots'[r] = roots[r] /\ roots[r].thread \in Threads
      BY <1>1, <1>4, <1>6, <2>2 DEF OwedInv, Roots
    <3>2. Queued(r)' <=> Queued(r)
      BY <1>3, <3>1 DEF Queued
    <3>3. CASE roots[r].thread = t
      <4>1. Queued(r)
        BY <1>1, <1>3, <2>2, <3>1, <3>3 DEF Owed
      <4> QED BY <3>2, <4>1 DEF Owed
    <3>4. CASE roots[r].thread # t
      BY <1>5, <3>1, <3>2, <3>4 DEF Owed
    <3> QED BY <3>3, <3>4
  <2> QED BY <1>4, <1>6, <2>1, <2>2
<1> QED BY <1>4, <1>5, <1>6 DEF OwedInv

LEMMA PostOwed ==
    ASSUME IInv, OwedInv, NEW t \in Threads, Post(t)
    PROVE  OwedInv'
<1>p. PICK p : p = Active(t)
  OBVIOUS
<1>d. PICK d : d = roots[p].owner
  OBVIOUS
<1>1. HookInv(t) /\ hook \in [Threads -> HookStates(DOMAIN roots)]
      /\ jobs \in [Dispatchers -> Seq(DOMAIN roots)] /\ roots' = roots
      /\ \A r \in DOMAIN roots :
            roots[r].thread \in Threads /\ roots[r].owner \in Dispatchers
  <2>1. \A r \in DOMAIN roots : roots[r] \in Roots
    BY ElementOfSeq, LenProperties DEF IInv, TypeOK
  <2> QED BY <2>1 DEF IInv, TypeOK, Post, Roots
<1>2. /\ hook[t].pc = "finish" /\ hook[t].todo = <<>> /\ p \in DOMAIN roots
      /\ d \in Dispatchers /\ running' = running
      /\ jobs' = [jobs EXCEPT ![d] = Append(@, p)]
      /\ \A u \in Threads \ {t} : hook'[u] = hook[u]
  BY <1>p, <1>d, <1>1, HookTypes DEF Post, At, HookInv, Goes, Becomes, IInv
<1>3. /\ \A i \in DOMAIN jobs[d] : i \in DOMAIN jobs'[d] /\ jobs'[d][i] = jobs[d][i]
      /\ \E i \in DOMAIN jobs'[d] : jobs'[d][i] = p
      /\ \A e \in Dispatchers \ {d} : jobs'[e] = jobs[e]
  <2> DEFINE longer == Append(jobs[d], p)
  <2>1. jobs[d] \in Seq(DOMAIN roots) /\ jobs'[d] = longer
        /\ \A e \in Dispatchers \ {d} : jobs'[e] = jobs[e]
    BY <1>1, <1>2
  <2>2. /\ \A i \in 1 .. Len(jobs[d]) : longer[i] = jobs[d][i]
        /\ longer[Len(jobs[d]) + 1] = p
        /\ Len(longer) = Len(jobs[d]) + 1 /\ longer \in Seq(DOMAIN roots)
    BY <1>2, <2>1, AppendProperties
  <2> HIDE DEF longer
  <2>3. /\ DOMAIN jobs[d] = 1 .. Len(jobs[d]) /\ DOMAIN longer = 1 .. Len(jobs[d]) + 1
        /\ Len(jobs[d]) \in Nat
    BY <2>1, <2>2, LenProperties
  <2>4. /\ \A i \in DOMAIN jobs[d] : i \in DOMAIN longer /\ longer[i] = jobs[d][i]
        /\ Len(jobs[d]) + 1 \in DOMAIN longer
    BY <2>2, <2>3
  <2> QED BY <2>1, <2>2, <2>4
<1>4. ASSUME NEW r \in DOMAIN roots, Queued(r) PROVE Queued(r)'
  <2>1. CASE roots[r].owner = d
    BY <1>1, <1>2, <1>3, <1>4, <2>1 DEF Queued
  <2>2. CASE roots[r].owner # d
    BY <1>1, <1>2, <1>3, <1>4, <2>2 DEF Queued
  <2> QED BY <2>1, <2>2
<1>5. Queued(p)'
  BY <1>d, <1>1, <1>2, <1>3 DEF Queued
<1>6. ASSUME NEW r \in DOMAIN roots, Owed(r) PROVE Owed(r)'
  <2>1. CASE r = p
    BY <1>5, <2>1 DEF Owed
  <2>2. CASE r # p /\ roots[r].thread = t
    <3>1. Queued(r)
      BY <1>p, <1>2, <1>6, <2>2 DEF Owed, Active
    <3> QED BY <1>4, <3>1 DEF Owed
  <2>3. CASE r # p /\ roots[r].thread # t
    BY <1>1, <1>2, <1>4, <1>6, <2>3 DEF Owed
  <2> QED BY <2>1, <2>2, <2>3
<1> QED BY <1>1, <1>6, SameRoots, OwedStep

LEMMA WorkerOwed ==
    ASSUME IInv, OwedInv, NEW d \in Dispatchers, Worker(d)
    PROVE  OwedInv'
<1>1. /\ jobs \in [Dispatchers -> Seq(DOMAIN roots)] /\ roots \in Seq(Roots)
      /\ running \in [Dispatchers -> DOMAIN roots \cup {0}] /\ hook' = hook
      /\ \A r \in DOMAIN roots : roots[r].owner \in Dispatchers /\ r # 0
  <2>1. \A r \in DOMAIN roots : roots[r] \in Roots /\ r # 0
    BY ElementOfSeq, LenProperties DEF IInv, TypeOK
  <2> QED BY <2>1 DEF IInv, TypeOK, Worker, TakeJob, RunJob, Roots
<1>2. ASSUME RootsKept, DOMAIN roots' = DOMAIN roots,
             \A r \in DOMAIN roots : roots'[r].verdicts = 0 /\ Queued(r) => Queued(r)'
      PROVE  OwedInv'
  <2>1. ASSUME NEW r \in DOMAIN roots, roots'[r].verdicts = 0, Owed(r) PROVE Owed(r)'
    <3>1. roots'[r].thread = roots[r].thread
      BY <1>2 DEF RootsKept
    <3> QED BY <1>1, <1>2, <2>1, <3>1 DEF Owed
  <2> QED BY <1>2, <2>1, OwedStep
<1>3. CASE TakeJob(d)
  <2>1. /\ running[d] = 0 /\ jobs[d] # <<>> /\ jobs[d] \in Seq(DOMAIN roots) /\ roots' = roots
        /\ running' = [running EXCEPT ![d] = Head(jobs[d])]
        /\ jobs' = [jobs EXCEPT ![d] = Tail(jobs[d])]
    BY <1>1, <1>3 DEF TakeJob
  <2>2. /\ Head(jobs[d]) = jobs[d][1]
        /\ \A i \in DOMAIN jobs[d] :
              i = 1 \/ (i - 1 \in DOMAIN Tail(jobs[d]) /\ Tail(jobs[d])[i - 1] = jobs[d][i])
    BY <2>1, HeadTail
  <2>3. running'[d] = Head(jobs[d]) /\ jobs'[d] = Tail(jobs[d])
        /\ \A e \in Dispatchers \ {d} : running'[e] = running[e] /\ jobs'[e] = jobs[e]
    BY <1>1, <2>1
  <2>4. ASSUME NEW r \in DOMAIN roots, Queued(r) PROVE Queued(r)'
    <3>1. CASE roots[r].owner = d
      <4>1. PICK i \in DOMAIN jobs[d] : jobs[d][i] = r
        BY <1>1, <2>1, <2>4, <3>1 DEF Queued
      <4>2. CASE i = 1
        BY <2>1, <2>2, <2>3, <3>1, <4>1, <4>2 DEF Queued
      <4>3. CASE i # 1
        <5>1. i - 1 \in DOMAIN jobs'[d] /\ jobs'[d][i - 1] = r
          BY <2>2, <2>3, <4>1, <4>3
        <5>2. roots'[r].owner = d
          BY <2>1, <3>1
        <5> QED BY <5>1, <5>2 DEF Queued
      <4> QED BY <4>2, <4>3
    <3>2. CASE roots[r].owner # d
      BY <1>1, <2>1, <2>3, <2>4, <3>2 DEF Queued
    <3> QED BY <3>1, <3>2
  <2> QED BY <1>2, <2>1, <2>4, SameRoots
<1>4. CASE RunJob(d)
  <2>1. /\ running[d] \in DOMAIN roots /\ Conclude(running[d]) /\ jobs' = jobs
        /\ running' = [running EXCEPT ![d] = 0]
    BY <1>1, <1>4 DEF RunJob
  <2>2. /\ RootsKept /\ DOMAIN roots' = DOMAIN roots
        /\ roots'[running[d]].verdicts > 0
    BY <1>1, <2>1, ConcludedRoots
  <2>3. ASSUME NEW r \in DOMAIN roots, roots'[r].verdicts = 0, Queued(r) PROVE Queued(r)'
    <3>1. roots'[r].owner = roots[r].owner /\ roots[r].owner \in Dispatchers
      BY <1>1, <2>2 DEF RootsKept
    <3>2. r # running[d]
      BY <2>2, <2>3
    <3>3. \A e \in Dispatchers \ {d} : running'[e] = running[e]
      BY <1>1, <2>1
    <3> QED BY <2>1, <2>3, <3>1, <3>2, <3>3 DEF Queued
  <2> QED BY <1>2, <2>2, <2>3
<1> QED BY <1>3, <1>4 DEF Worker

LEMMA OwnersOwed ==
    ASSUME IInv, OwedInv,
           \/ RemoveInside \/ \E d \in Dispatchers : Install(d)
           \/ \E o \in Owners : Remove(o) \/ RemovalSteps(o) \/ TimeOut(o)
           \/ UNCHANGED vars
    PROVE  OwedInv' /\ RootsKept /\ DOMAIN roots' = DOMAIN roots /\ hook' = hook
<1>1. UNCHANGED <<hook, jobs, running>>
  BY DEF RemoveInside, Install, Remove, RemovalSteps, TimeOut, WithdrawLocked, AwaitHooks,
    AwaitSequencer, TakeRemoving, RefuseOrphans, ConcludeOrphan, Removed, RemovalOnly,
    queues, vars
<1>2. RootsKept /\ DOMAIN roots' = DOMAIN roots
  <2>1. ASSUME NEW o \in Owners, ConcludeOrphan(o)
        PROVE  RootsKept /\ DOMAIN roots' = DOMAIN roots
    <3>1. /\ removal[o].todo # <<>> /\ removal[o].todo \in Seq(DOMAIN roots)
          /\ Conclude(Head(removal[o].todo)) /\ roots \in Seq(Roots)
      BY <2>1, RemovalTypes DEF ConcludeOrphan, IInv, TypeOK
    <3>2. Head(removal[o].todo) \in DOMAIN roots
      BY <3>1, HeadTail
    <3> QED BY <3>1, <3>2, ConcludedRoots
  <2>2. ASSUME ~(\E o \in Owners : ConcludeOrphan(o)) PROVE roots' = roots
    BY <2>2 DEF RemoveInside, Install, Remove, RemovalSteps, TimeOut, WithdrawLocked,
      AwaitHooks, AwaitSequencer, TakeRemoving, RefuseOrphans, Removed, RemovalOnly, queues,
      vars
  <2> QED BY <2>1, <2>2, SameRoots
<1>3. ASSUME NEW r \in DOMAIN roots, Owed(r) PROVE Owed(r)'
  <2>1. roots'[r].thread = roots[r].thread /\ roots'[r].owner = roots[r].owner
    BY <1>2 DEF RootsKept
  <2> QED BY <1>1, <1>3, <2>1 DEF Owed, Queued
<1> QED BY <1>1, <1>2, <1>3, OwedStep

\* The other steps of a guest thread do not end a drain.
LEMMA NoDrain ==
    ASSUME IInv, NEW t \in Threads,
           \/ Release(t) \/ Exit(t) \/ FinishHere(t) \/ DrainOrphans(t) \/ BuildRoot(t)
           \/ ConcludeHere(t) \/ Post(t)
    PROVE  /\ RootsKept /\ DOMAIN roots' = DOMAIN roots /\ hook'[t].pc # "drainLeave"
           /\ \A u \in Threads \ {t} : hook'[u] = hook[u]
<1>1. hook \in [Threads -> HookStates(DOMAIN roots)] /\ roots \in Seq(Roots)
      /\ hook[t].todo \in Seq(DOMAIN roots) /\ HookInv(t)
      /\ (Active(t) # 0 => Active(t) \in DOMAIN roots)
  BY HookTypes DEF IInv, TypeOK
<1>2. CASE Release(t) \/ FinishHere(t) \/ DrainOrphans(t) \/ Post(t)
  <2>1. roots' = roots
    BY <1>2 DEF Release, FinishHere, DrainOrphans, Post
  <2>2. hook'[t].pc # "drainLeave"
    <3>1. CASE Release(t)
      BY <1>1, <3>1 DEF Release, Becomes, HookStates, Continuations
    <3>2. CASE FinishHere(t)
      BY <1>1, <3>2 DEF FinishHere, Becomes, HookStates
    <3>3. CASE DrainOrphans(t)
      BY <1>1, <3>3 DEF DrainOrphans, Becomes, HookStates
    <3>4. CASE Post(t)
      BY <1>1, <3>4 DEF Post, Goes, Becomes, HookStates
    <3> QED BY <1>2, <3>1, <3>2, <3>3, <3>4
  <2>3. \A u \in Threads \ {t} : hook'[u] = hook[u]
    BY <1>1, <1>2 DEF Release, FinishHere, DrainOrphans, Post, Goes, Becomes
  <2> QED BY <2>1, <2>2, <2>3, SameRoots
<1>3. CASE Exit(t)
  <2>1. \/ Becomes(t, [hook[t] EXCEPT !.pc = "gone"])
        \/ Becomes(t, [hook[t] EXCEPT !.pc = "release", !.next = "gone"])
        \/ Becomes(t, [hook[t] EXCEPT !.pc = "finish", !.next = "gone"])
    BY <1>3 DEF Exit, Goes
  <2>2. roots' = roots
    BY <1>3 DEF Exit
  <2>3. hook'[t].pc # "drainLeave" /\ \A u \in Threads \ {t} : hook'[u] = hook[u]
    <3>1. CASE Becomes(t, [hook[t] EXCEPT !.pc = "gone"])
      BY <1>1, <3>1 DEF Becomes, HookStates
    <3>2. CASE Becomes(t, [hook[t] EXCEPT !.pc = "release", !.next = "gone"])
      BY <1>1, <3>2 DEF Becomes, HookStates
    <3>3. CASE Becomes(t, [hook[t] EXCEPT !.pc = "finish", !.next = "gone"])
      BY <1>1, <3>3 DEF Becomes, HookStates
    <3> QED BY <2>1, <3>1, <3>2, <3>3
  <2> QED BY <2>2, <2>3, SameRoots
<1>4. CASE BuildRoot(t)
  <2>1. /\ hook[t].pc = "build" /\ hook'[t].pc = "idle"
        /\ roots' = [roots EXCEPT ![Active(t)].built = TRUE]
        /\ \A u \in Threads \ {t} : hook'[u] = hook[u]
    BY <1>1, <1>4 DEF BuildRoot, At, Goes, Becomes, HookStates
  <2>2. Active(t) \in DOMAIN roots
    BY <1>1, <2>1 DEF HookInv
  <2> QED BY <1>1, <2>1, <2>2, BuiltRoots
<1>5. CASE ConcludeHere(t)
  <2>1. /\ hook[t].todo # <<>> /\ Conclude(Head(hook[t].todo))
        /\ hook'[t].pc = hook[t].pc
        /\ \A u \in Threads \ {t} : hook'[u] = hook[u]
    BY <1>1, <1>5 DEF ConcludeHere, Becomes, HookStates
  <2>2. Head(hook[t].todo) \in DOMAIN roots
    BY <1>1, <2>1, HeadTail
  <2>3. hook[t].pc # "drainLeave"
    BY <1>1, <2>1 DEF HookInv
  <2> QED BY <1>1, <2>1, <2>2, <2>3, ConcludedRoots
<1> QED BY <1>2, <1>3, <1>4, <1>5

\* Where a drain has ended, t owes nothing.
DrainDone(t) ==
    hook[t].pc = "drainLeave" /\ hook[t].target # NoDispatcher =>
        \A r \in DOMAIN roots \ {Active(t)} : roots[r].thread = t => roots[r].verdicts > 0

\* A step after which t has ended no new drain and entered no new root.
LEMMA DrainStays ==
    ASSUME IInv, NEW t \in Threads, DrainDone(t), RootsKept,
           hook'[t] = hook[t] \/ hook'[t].pc # "drainLeave" \/ hook'[t].target = NoDispatcher,
           \A r \in DOMAIN roots' \ DOMAIN roots : roots'[r].thread # t
    PROVE  DrainDone(t)'
<1> SUFFICES ASSUME hook'[t].pc = "drainLeave", hook'[t].target # NoDispatcher,
                    NEW r \in DOMAIN roots', r # hook'[t].root, roots'[r].thread = t
             PROVE  roots'[r].verdicts > 0
  BY DEF DrainDone, Active
<1>1. hook'[t] = hook[t] /\ r \in DOMAIN roots
  OBVIOUS
<1>2. roots[r].thread = t /\ roots[r].verdicts > 0
  BY <1>1 DEF RootsKept, DrainDone, Active
<1> QED BY <1>1, <1>2 DEF RootsKept

\* A drain ends when its dispatcher's sequencer is idle, and no other is live.
LEMMA DrainEnds ==
    ASSUME IInv, OwedInv, NEW t \in Threads, AwaitDrain(t)
    PROVE  DrainDone(t)'
<1> DEFINE d == hook[t].target
<1>1. HookInv(t) /\ hook \in [Threads -> HookStates(DOMAIN roots)] /\ roots \in Seq(Roots)
      /\ SessionInv
  BY DEF IInv, TypeOK
<1>2. /\ hook[t].pc = "drain" /\ hook[t].todo = <<>> /\ Drained(d)
      /\ hook'[t].root = hook[t].root /\ roots' = roots
      /\ d \in Live /\ Live \subseteq {d}
  BY <1>1 DEF AwaitDrain, At, Goes, Becomes, HookStates, HookInv, SessionInv, Live
<1>3. ASSUME NEW r \in DOMAIN roots \ {Active(t)}, roots[r].thread = t
      PROVE  roots[r].verdicts > 0
  <2>1. roots[r] \in Roots /\ r # 0
    BY <1>1, ElementOfSeq, LenProperties
  <2>2. roots[r].verdicts = 0 => Queued(r)
    BY <1>2, <1>3 DEF OwedInv, Owed, Active
  <2>3. Drained(roots[r].owner)
    <3>1. QueueInv(roots[r].owner)
      BY <2>1 DEF IInv, Roots
    <3> QED BY <1>2, <3>1 DEF QueueInv
  <2>4. ~Queued(r)
    BY <2>1, <2>3 DEF Queued, Drained
  <2> QED BY <2>1, <2>2, <2>4 DEF Roots
<1> QED BY <1>2, <1>3 DEF DrainDone, Active

DrainInv == OwedInv /\ \A t \in Threads : DrainDone(t)

LEMMA DrainStep ==
    ASSUME IInv, DrainInv, [Next]_vars
    PROVE  DrainInv'
<1>1. OwedInv /\ \A t \in Threads : DrainDone(t)
  BY DEF DrainInv
<1>2. ASSUME NEW t \in Threads, Moves(t) PROVE DrainInv'
  <2>1. RootsKept /\ roots' = roots
    BY <1>2, MovesStay, SameRoots
  <2>2. ASSUME NEW u \in Threads \ {t} PROVE DrainDone(u)'
    BY <1>1, <1>2, <2>1, MovesStay, DrainStays
  <2>3. DrainDone(t)'
    <3>1. CASE AwaitDrain(t)
      BY <1>1, <3>1, DrainEnds
    <3>2. CASE ~AwaitDrain(t)
      BY <1>1, <1>2, <2>1, <3>2, MovesStay, DrainStays
    <3> QED BY <3>1, <3>2
  <2>4. OwedInv'
    BY <1>1, <1>2, MovesOwed
  <2> QED BY <2>2, <2>3, <2>4 DEF DrainInv
<1>3. ASSUME NEW t \in Threads,
             \/ Release(t) \/ Exit(t) \/ FinishHere(t) \/ DrainOrphans(t) \/ BuildRoot(t)
             \/ ConcludeHere(t) \/ Post(t)
      PROVE  DrainInv'
  <2>1. /\ RootsKept /\ DOMAIN roots' = DOMAIN roots /\ hook'[t].pc # "drainLeave"
        /\ \A u \in Threads \ {t} : hook'[u] = hook[u]
    BY <1>3, NoDrain
  <2>2. ASSUME NEW u \in Threads PROVE DrainDone(u)'
    BY <1>1, <2>1, DrainStays
  <2>3. OwedInv'
    BY <1>1, <1>3, ReleaseOwed, ListsOwed, PostOwed
  <2> QED BY <2>2, <2>3 DEF DrainInv
<1>4. ASSUME NEW t \in Threads, NewRoot(t) PROVE DrainInv'
  <2>1. ASSUME NEW u \in Threads PROVE DrainDone(u)'
    <3>1. CASE u = t
      BY <1>1, <1>4, <3>1, NewRootOwed DEF DrainDone
    <3>2. CASE u # t
      BY <1>1, <1>4, <3>2, NewRootOwed, DrainStays
    <3> QED BY <3>1, <3>2
  <2>2. OwedInv'
    BY <1>1, <1>4, NewRootOwed
  <2> QED BY <2>1, <2>2 DEF DrainInv
<1>5. ASSUME NEW d \in Dispatchers, Worker(d) PROVE DrainInv'
  <2>1. hook' = hook /\ RootsKept /\ DOMAIN roots' = DOMAIN roots
    <3>1. CASE TakeJob(d)
      BY <3>1, SameRoots DEF TakeJob
    <3>2. CASE RunJob(d)
      <4>1. running[d] \in DOMAIN roots /\ roots \in Seq(Roots)
        BY <3>2 DEF RunJob, IInv, TypeOK
      <4> QED BY <3>2, <4>1, ConcludedRoots DEF RunJob
    <3> QED BY <1>5, <3>1, <3>2 DEF Worker
  <2>2. ASSUME NEW u \in Threads PROVE DrainDone(u)'
    BY <1>1, <2>1, DrainStays
  <2>3. OwedInv'
    BY <1>1, <1>5, WorkerOwed
  <2> QED BY <2>2, <2>3 DEF DrainInv
<1>6. ASSUME \/ RemoveInside \/ \E d \in Dispatchers : Install(d)
             \/ \E o \in Owners : Remove(o) \/ RemovalSteps(o) \/ TimeOut(o)
             \/ UNCHANGED vars
      PROVE  DrainInv'
  <2>1. OwedInv' /\ RootsKept /\ DOMAIN roots' = DOMAIN roots /\ hook' = hook
    BY <1>1, <1>6, OwnersOwed
  <2>2. ASSUME NEW u \in Threads PROVE DrainDone(u)'
    BY <1>1, <2>1, DrainStays
  <2> QED BY <2>1, <2>2 DEF DrainInv
<1>7. ASSUME NEW t \in Threads, GuestCalls(t) \/ HookSteps(t) \/ PostFails(t) PROVE DrainInv'
  BY <1>2, <1>3, <1>4, <1>7 DEF GuestCalls, HookSteps, Moves
<1> QED BY <1>5, <1>6, <1>7 DEF Next

\* A DrainNativeDraws that found a dispatcher returns only when every draw its
\* thread ended before has its verdict, for any threads and any removals in
\* between: what the thread does next follows them all.
THEOREM DrainsWait == Spec => []DrainedDrawsDone
<1>1. Init => DrainInv
  <2> SUFFICES ASSUME Init PROVE DrainInv
    OBVIOUS
  <2>1. DOMAIN roots = {}
    BY EmptySeq, LenProperties DEF Init
  <2> QED BY <2>1 DEF DrainInv, OwedInv, DrainDone
<1>2. IInv /\ DrainInv /\ [Next]_vars => DrainInv'
  BY DrainStep
<1>3. DrainInv => DrainedDrawsDone
  BY DEF DrainInv, DrainDone, DrainedDrawsDone
<1> QED BY <1>1, <1>2, <1>3, DispatchInvariant, PTL DEF Spec

-----------------------------------------------------------------------------
(* Verdicts. Where a root without its verdict is kept, and what is before it *)
(* there: on its thread until it ends; then in the sequencer's line, behind  *)
(* the earlier deferred ones of its thread; or with the orphans of a thread  *)
(* that exited, until one actor takes the list and refuses it. It is kept in *)
(* one place only, so it gets one verdict, and in its turn.                  *)

InTurn(r) ==
    \A q \in DOMAIN roots :
        q < r /\ roots[q].thread = roots[r].thread => roots[q].verdicts = 1

RootInv(r) ==
    /\ roots[r].verdicts \in {0, 1}
    /\ roots[r].lowerer => ~roots[r].deferred
    /\ roots[r].built => ~roots[r].deferred /\ InTurn(r)

\* r is active on t, which has still to pass it on or to conclude it.
InHand(t, r) ==
    /\ Active(t) = r /\ r # 0
    /\ hook[t].pc \notin {"release", "gone"} \/ hook[t].todo # <<>>

HandInv(t) ==
    /\ hook[t].held => Active(t) # 0
    /\ \A r \in DOMAIN roots : InHand(t, r) =>
          /\ roots[r].thread = t /\ roots[r].verdicts = 0
          /\ hook[t].pc = "build" => ~roots[r].deferred /\ ~roots[r].built
          /\ hook[t].pc # "build" /\ ~roots[r].deferred => roots[r].built
          /\ hook[t].held => ~roots[r].deferred
          /\ hook[t].pc = "release" => hook[t].todo = <<r>> /\ InTurn(r)

\* r waits for the sequencer of d, and its thread has passed it on.
Waits(d, r) ==
    /\ roots[r].owner = d /\ roots[r].deferred /\ roots[r].verdicts = 0
    /\ ~InHand(roots[r].thread, r)

Distinct(list) == \A i, k \in DOMAIN list : list[i] = list[k] => i = k

LineInv(d) ==
    /\ running[d] # 0 => Waits(d, running[d]) /\ InTurn(running[d])
    /\ Distinct(jobs[d])
    /\ \A i \in DOMAIN jobs[d] :
          /\ Waits(d, jobs[d][i]) /\ jobs[d][i] # running[d]
          /\ \A q \in DOMAIN roots :
                q < jobs[d][i] /\ roots[q].thread = roots[jobs[d][i]].thread =>
                    \/ roots[q].verdicts = 1 \/ q = running[d]
                    \/ \E k \in DOMAIN jobs[d] : k < i /\ jobs[d][k] = q

\* The thread exits, or has, with no root left in hand.
Left(t) ==
    \/ hook[t].pc = "gone"
    \/ hook[t].pc = "release" /\ hook[t].next = "gone" /\ hook[t].todo = <<>>

Abandoned(r) == roots[r].verdicts = 0 /\ roots[r].built /\ Left(roots[r].thread)

Elems(list) == {list[i] : i \in DOMAIN list}
AbandonedIn(list) == Distinct(list) /\ \A r \in Elems(list) : Abandoned(r)

\* The orphans t took, and refuses before it enters its root.
Refused(t) == IF hook[t].pc = "root" THEN hook[t].todo ELSE <<>>

\* Who has orphans has them for itself.
Apart(one, other) == Elems(one) \cap Elems(other) = {}
ListsInv ==
    /\ \A d \in Dispatchers : AbandonedIn(orphans[d])
    /\ \A t \in Threads : AbandonedIn(Refused(t))
    /\ \A o \in Owners : AbandonedIn(removal[o].todo)
    /\ \A d \in Dispatchers, t \in Threads : Apart(orphans[d], Refused(t))
    /\ \A d \in Dispatchers, o \in Owners : Apart(orphans[d], removal[o].todo)
    /\ \A t, u \in Threads : t # u => Apart(Refused(t), Refused(u))

Kept(r) ==
    \/ InHand(roots[r].thread, r) \/ Queued(r)
    \/ \E d \in Dispatchers : r \in Elems(orphans[d])
    \/ \E t \in Threads : r \in Elems(Refused(t))
    \/ \E o \in Owners : r \in Elems(removal[o].todo)
KeptInv == \A r \in DOMAIN roots : roots[r].verdicts = 0 => Kept(r)

OrderInv ==
    /\ \A r \in DOMAIN roots : RootInv(r)
    /\ \A t \in Threads : HandInv(t)
    /\ \A d \in Dispatchers : LineInv(d)
    /\ ListsInv /\ KeptInv

LEMMA ElemsSmall ==
    /\ Elems(<<>>) = {} /\ Distinct(<<>>)
    /\ \A x : Elems(<<x>>) = {x} /\ Distinct(<<x>>)
BY DEF Elems, Distinct

LEMMA ElemsTail ==
    ASSUME NEW S, NEW list \in Seq(S), list # <<>>
    PROVE  /\ Head(list) \in S /\ Tail(list) \in Seq(S)
           /\ Elems(list) = Elems(Tail(list)) \cup {Head(list)}
           /\ Distinct(list) => Distinct(Tail(list)) /\ Head(list) \notin Elems(Tail(list))
<1> DEFINE tail == Tail(list)
<1>1. /\ Head(list) \in S /\ Head(list) = list[1] /\ 1 \in DOMAIN list
      /\ tail \in Seq(S)
      /\ \A i \in DOMAIN tail : i + 1 \in DOMAIN list /\ tail[i] = list[i + 1]
      /\ \A i \in DOMAIN list : i = 1 \/ (i - 1 \in DOMAIN tail /\ tail[i - 1] = list[i])
  BY HeadTail
<1>2. \A i \in DOMAIN tail : i \in Nat /\ i >= 1
  BY <1>1, LenProperties
<1> HIDE DEF tail
<1>3. Elems(list) \subseteq Elems(tail) \cup {Head(list)}
  BY <1>1 DEF Elems
<1>4. Elems(tail) \cup {Head(list)} \subseteq Elems(list)
  BY <1>1 DEF Elems
<1>5. ASSUME Distinct(list)
      PROVE  Distinct(tail) /\ Head(list) \notin Elems(tail)
  <2>1. ASSUME NEW i \in DOMAIN tail, NEW k \in DOMAIN tail, tail[i] = tail[k] PROVE i = k
    BY <1>1, <1>2, <1>5, <2>1 DEF Distinct
  <2>2. ASSUME NEW i \in DOMAIN tail PROVE tail[i] # Head(list)
    <3>1. i + 1 # 1 /\ i + 1 \in DOMAIN list
      BY <1>1, <1>2
    <3> QED BY <1>1, <1>5, <3>1 DEF Distinct
  <2> QED BY <2>1, <2>2 DEF Distinct, Elems
<1> QED BY <1>1, <1>3, <1>4, <1>5 DEF tail

LEMMA ElemsAppend ==
    ASSUME NEW S, NEW list \in Seq(S), NEW x \in S
    PROVE  /\ Append(list, x) \in Seq(S)
           /\ \A i \in DOMAIN list : i \in DOMAIN Append(list, x) /\ Append(list, x)[i] = list[i]
           /\ \A i \in DOMAIN Append(list, x) :
                 i \in DOMAIN list \/ (Append(list, x)[i] = x /\ \A k \in DOMAIN list : k < i)
           /\ \A i \in DOMAIN Append(list, x) \ DOMAIN list :
                 \A k \in DOMAIN Append(list, x) \ DOMAIN list : i = k
           /\ Elems(Append(list, x)) = Elems(list) \cup {x}
           /\ Distinct(list) /\ x \notin Elems(list) => Distinct(Append(list, x))
<1> DEFINE longer == Append(list, x)
           n == Len(list)
<1>1. /\ \A i \in 1 .. n : longer[i] = list[i]
      /\ longer[n + 1] = x
      /\ Len(longer) = n + 1 /\ longer \in Seq(S)
  BY AppendProperties
<1> HIDE DEF longer
<1>2. /\ DOMAIN list = 1 .. n /\ DOMAIN longer = 1 .. n + 1 /\ n \in Nat
  BY <1>1, LenProperties
<1> HIDE DEF n
<1>3. /\ \A i \in DOMAIN list : i \in DOMAIN longer /\ longer[i] = list[i]
      /\ \A i \in DOMAIN longer :
            i \in DOMAIN list \/ (longer[i] = x /\ \A k \in DOMAIN list : k < i)
      /\ \A i \in DOMAIN longer \ DOMAIN list : i = n + 1
      /\ n + 1 \in DOMAIN longer /\ n + 1 \notin DOMAIN list
  BY <1>1, <1>2
<1>4. Elems(longer) = Elems(list) \cup {x}
  BY <1>1, <1>3 DEF Elems
<1>5. ASSUME Distinct(list), x \notin Elems(list), NEW i \in DOMAIN longer,
             NEW k \in DOMAIN longer, longer[i] = longer[k]
      PROVE  i = k
  <2>1. CASE i \in DOMAIN list /\ k \in DOMAIN list
    BY <1>3, <1>5, <2>1 DEF Distinct
  <2>2. CASE i \notin DOMAIN list \/ k \notin DOMAIN list
    BY <1>3, <1>5, <2>2 DEF Elems
  <2> QED BY <2>1, <2>2
<1>6. Distinct(list) /\ x \notin Elems(list) => Distinct(longer)
  BY <1>5 DEF Distinct
<1> QED BY <1>1, <1>3, <1>4, <1>6 DEF longer

\* What TypeOK says of the roots and of the lists.
LEMMA ListTypes ==
    ASSUME TypeOK
    PROVE  /\ roots \in Seq(Roots)
           /\ \A r \in DOMAIN roots : roots[r] \in Roots /\ r \in Nat /\ r # 0
           /\ \A d \in Dispatchers :
                 /\ orphans[d] \in Seq(DOMAIN roots) /\ jobs[d] \in Seq(DOMAIN roots)
                 /\ running[d] \in DOMAIN roots \cup {0}
           /\ \A t \in Threads : Refused(t) \in Seq(DOMAIN roots)
           /\ \A o \in Owners : removal[o].todo \in Seq(DOMAIN roots)
           /\ \A list \in Seq(DOMAIN roots) : Elems(list) \subseteq DOMAIN roots
<1>1. \A r \in DOMAIN roots : roots[r] \in Roots /\ r \in Nat /\ r # 0
  BY ElementOfSeq, LenProperties DEF TypeOK
<1>2. \A t \in Threads : Refused(t) \in Seq(DOMAIN roots)
  BY HookTypes, EmptySeq DEF Refused
<1>3. \A o \in Owners : removal[o].todo \in Seq(DOMAIN roots)
  BY DEF TypeOK, RemovalStates
<1>4. \A list \in Seq(DOMAIN roots) : Elems(list) \subseteq DOMAIN roots
  BY ElementOfSeq, LenProperties DEF Elems
<1> QED BY <1>1, <1>2, <1>3, <1>4 DEF TypeOK

-----------------------------------------------------------------------------
(* What a step leaves of the roots, and of the order they are kept in. *)

\* Roots are added at the end, and verdicts and builds stay.
RootsGrow ==
    /\ DOMAIN roots \subseteq DOMAIN roots'
    /\ \A r \in DOMAIN roots :
          /\ roots'[r].thread = roots[r].thread /\ roots'[r].owner = roots[r].owner
          /\ roots'[r].lowerer = roots[r].lowerer /\ roots'[r].deferred = roots[r].deferred
          /\ roots[r].verdicts = 1 => roots'[r].verdicts = 1
          /\ roots[r].built => roots'[r].built
    /\ \A q \in DOMAIN roots' \ DOMAIN roots : \A r \in DOMAIN roots : r < q

\* r gets its first verdict.
Concluded(r) ==
    /\ RootsGrow /\ DOMAIN roots' = DOMAIN roots
    /\ roots'[r].verdicts = 1 /\ roots'[r].built = roots[r].built
    /\ \A q \in DOMAIN roots \ {r} : roots'[q] = roots[q]

LEMMA SameGrow ==
    ASSUME roots' = roots
    PROVE  RootsGrow
BY DEF RootsGrow

LEMMA ConcludeGrow ==
    ASSUME roots \in Seq(Roots), NEW r \in DOMAIN roots, Conclude(r), roots[r].verdicts = 0
    PROVE  Concluded(r)
<1>1. /\ DOMAIN roots' = DOMAIN roots /\ \A q \in DOMAIN roots \ {r} : roots'[q] = roots[q]
      /\ \A q \in DOMAIN roots : roots[q] \in Roots
  BY ConcludedRoots, ElementOfSeq, LenProperties
<1>2. roots' = [roots EXCEPT ![r] = [roots[r] EXCEPT !.verdicts = 1]]
  BY DEF Conclude
<1>3. roots'[r] = [roots[r] EXCEPT !.verdicts = 1]
  BY <1>2
<1>4. /\ roots'[r].verdicts = 1 /\ roots'[r].built = roots[r].built
      /\ roots'[r].thread = roots[r].thread /\ roots'[r].owner = roots[r].owner
      /\ roots'[r].lowerer = roots[r].lowerer /\ roots'[r].deferred = roots[r].deferred
  BY <1>1, <1>3 DEF Roots
<1> QED BY <1>1, <1>4 DEF Concluded, RootsGrow

LEMMA BuiltGrow ==
    ASSUME roots \in Seq(Roots), NEW r \in DOMAIN roots,
           roots' = [roots EXCEPT ![r].built = TRUE]
    PROVE  /\ RootsGrow /\ DOMAIN roots' = DOMAIN roots
           /\ roots'[r].built /\ roots'[r].verdicts = roots[r].verdicts
           /\ \A q \in DOMAIN roots \ {r} : roots'[q] = roots[q]
<1>1. /\ DOMAIN roots' = DOMAIN roots /\ \A q \in DOMAIN roots \ {r} : roots'[q] = roots[q]
      /\ \A q \in DOMAIN roots : roots[q] \in Roots
  BY BuiltRoots, ElementOfSeq, LenProperties
<1>2. roots'[r] = [roots[r] EXCEPT !.built = TRUE]
  OBVIOUS
<1>3. /\ roots'[r].built /\ roots'[r].verdicts = roots[r].verdicts
      /\ roots'[r].thread = roots[r].thread /\ roots'[r].owner = roots[r].owner
      /\ roots'[r].lowerer = roots[r].lowerer /\ roots'[r].deferred = roots[r].deferred
  BY <1>1, <1>2 DEF Roots
<1> QED BY <1>1, <1>3 DEF RootsGrow

LEMMA AppendGrow ==
    ASSUME roots \in Seq(Roots), NEW root \in Roots, roots' = Append(roots, root)
    PROVE  /\ RootsGrow /\ DOMAIN roots' = DOMAIN roots \cup {Len(roots) + 1}
           /\ Len(roots) + 1 \notin DOMAIN roots /\ roots'[Len(roots) + 1] = root
           /\ \A q \in DOMAIN roots : roots'[q] = roots[q]
<1>1. /\ Len(roots) + 1 \notin DOMAIN roots /\ roots'[Len(roots) + 1] = root
      /\ \A q \in DOMAIN roots : roots'[q] = roots[q]
      /\ DOMAIN roots' = DOMAIN roots \cup {Len(roots) + 1}
  BY AppendedRoots
<1>2. \A r \in DOMAIN roots : r < Len(roots) + 1
  BY LenProperties
<1> QED BY <1>1, <1>2 DEF RootsGrow

LEMMA TurnStays ==
    ASSUME RootsGrow, NEW r \in DOMAIN roots, r \in Nat,
           \A q \in DOMAIN roots' : q \in Nat, InTurn(r)
    PROVE  InTurn(r)'
<1> SUFFICES ASSUME NEW q \in DOMAIN roots', q < r, roots'[q].thread = roots'[r].thread
             PROVE  roots'[q].verdicts = 1
  BY DEF InTurn
<1>1. q \in DOMAIN roots
  BY DEF RootsGrow
<1> QED BY <1>1 DEF InTurn, RootsGrow

\* A step that builds no root keeps the roots' own part.
LEMMA RootsFrame ==
    ASSUME TypeOK, TypeOK', OrderInv, RootsGrow, NEW r \in DOMAIN roots,
           roots'[r].verdicts \in {0, 1}, roots'[r].built = roots[r].built
    PROVE  RootInv(r)'
<1>1. r \in Nat /\ (\A q \in DOMAIN roots' : q \in Nat) /\ RootInv(r)
  BY ListTypes, ElementOfSeq, LenProperties DEF OrderInv, TypeOK
<1>2. roots[r].built => InTurn(r)'
  BY <1>1, TurnStays DEF RootInv
<1> QED BY <1>1, <1>2 DEF RootInv, RootsGrow

LEMMA HandFrame ==
    ASSUME TypeOK, TypeOK', OrderInv, RootsGrow, NEW t \in Threads, hook'[t] = hook[t],
           \A r \in DOMAIN roots : InHand(t, r) => roots'[r] = roots[r]
    PROVE  HandInv(t)'
<1>1. ASSUME NEW r \in DOMAIN roots', InHand(t, r)'
      PROVE  /\ r \in DOMAIN roots /\ r \in Nat /\ InHand(t, r) /\ roots'[r] = roots[r]
             /\ \A q \in DOMAIN roots' : q \in Nat
  <2>1. InHand(t, r)
    BY <1>1 DEF InHand, Active
  <2>2. Active(t) \in DOMAIN roots \cup {0}
    BY HookTypes
  <2>3. r \in DOMAIN roots
    BY <2>1, <2>2 DEF InHand
  <2>4. \A q \in DOMAIN roots' : q \in Nat
    BY ElementOfSeq, LenProperties DEF TypeOK
  <2>5. r \in Nat
    BY <2>3, ListTypes
  <2> QED BY <2>1, <2>3, <2>4, <2>5
<1>2. HandInv(t)
  BY DEF OrderInv
<1>3. ASSUME NEW r \in DOMAIN roots', InHand(t, r)', hook[t].pc = "release"
      PROVE  InTurn(r)'
  BY <1>1, <1>2, <1>3, TurnStays DEF HandInv
<1> QED BY <1>1, <1>2, <1>3 DEF HandInv, Active

LEMMA LineFrame ==
    ASSUME TypeOK, TypeOK', OrderInv, RootsGrow, NEW d \in Dispatchers,
           jobs'[d] = jobs[d], running'[d] = running[d],
           \A r \in DOMAIN roots : Waits(d, r) => Waits(d, r)'
    PROVE  LineInv(d)'
<1>1. /\ LineInv(d) /\ running[d] \in DOMAIN roots \cup {0}
      /\ \A i \in DOMAIN jobs[d] : jobs[d][i] \in DOMAIN roots
      /\ \A r \in DOMAIN roots : r \in Nat
      /\ \A r \in DOMAIN roots' : r \in Nat
  <2>1. jobs[d] \in Seq(DOMAIN roots) /\ \A r \in DOMAIN roots : r \in Nat
    BY ListTypes
  <2>2. \A r \in DOMAIN roots' : r \in Nat
    BY ElementOfSeq, LenProperties DEF TypeOK
  <2> QED BY <2>1, <2>2, ListTypes, ElementOfSeq, LenProperties DEF OrderInv
<1>2. running'[d] # 0 => Waits(d, running[d])' /\ InTurn(running[d])'
  BY <1>1, TurnStays DEF LineInv
<1>3. ASSUME NEW i \in DOMAIN jobs[d], NEW q \in DOMAIN roots', q < jobs[d][i],
             roots'[q].thread = roots'[jobs[d][i]].thread
      PROVE  \/ roots'[q].verdicts = 1 \/ q = running[d]
             \/ \E k \in DOMAIN jobs[d] : k < i /\ jobs[d][k] = q
  <2>1. q \in DOMAIN roots /\ roots[q].thread = roots[jobs[d][i]].thread
    BY <1>1, <1>3 DEF RootsGrow
  <2> QED BY <1>1, <1>3, <2>1 DEF LineInv, RootsGrow
<1>4. \A i \in DOMAIN jobs[d] : Waits(d, jobs[d][i])' /\ jobs[d][i] # running[d]
  BY <1>1 DEF LineInv
<1>5. Distinct(jobs[d])
  BY <1>1 DEF LineInv
<1>6. /\ jobs'[d] = jobs[d] /\ running'[d] = running[d]
  OBVIOUS
<1> QED BY <1>2, <1>3, <1>4, <1>5, <1>6 DEF LineInv, Waits, InTurn

LEMMA ListsFrame ==
    ASSUME TypeOK, OrderInv, orphans' = orphans,
           \A t \in Threads : Refused(t)' = Refused(t),
           \A o \in Owners : removal'[o].todo = removal[o].todo,
           \A r \in DOMAIN roots : Abandoned(r) => Abandoned(r)'
    PROVE  ListsInv'
<1>1. ListsInv
  BY DEF OrderInv
<1>2. /\ \A d \in Dispatchers : Elems(orphans[d]) \subseteq DOMAIN roots
      /\ \A t \in Threads : Elems(Refused(t)) \subseteq DOMAIN roots
      /\ \A o \in Owners : Elems(removal[o].todo) \subseteq DOMAIN roots
  BY ListTypes
<1>3. \A d \in Dispatchers : AbandonedIn(orphans[d])'
  BY <1>1, <1>2 DEF ListsInv, AbandonedIn
<1>4. \A t \in Threads : AbandonedIn(Refused(t))'
  BY <1>1, <1>2 DEF ListsInv, AbandonedIn
<1>5. \A o \in Owners : AbandonedIn(removal[o].todo)'
  BY <1>1, <1>2 DEF ListsInv, AbandonedIn
<1> QED BY <1>1, <1>3, <1>4, <1>5 DEF ListsInv

\* A step of t that changes nothing but where t is, and keeps its root in hand.
LEMMA HookFrame ==
    ASSUME IInv, TypeOK', OrderInv, NEW t \in Threads,
           UNCHANGED <<queues, roots, removal>>,
           \A u \in Threads \ {t} : hook'[u] = hook[u],
           Refused(t) = <<>>, Refused(t)' = <<>>,
           \A r \in DOMAIN roots : InHand(t, r)' <=> InHand(t, r),
           Left(t) => Left(t)', HandInv(t)'
    PROVE  OrderInv'
<1>1. TypeOK /\ RootsGrow /\ UNCHANGED <<orphans, jobs, running>>
  BY SameGrow DEF IInv, queues
<1>2. \A u \in Threads : /\ Refused(u)' = Refused(u)
                         /\ Left(u) => Left(u)'
                         /\ \A r \in DOMAIN roots : InHand(u, r)' <=> InHand(u, r)
  BY DEF Refused, Left, InHand, Active
<1>3. \A r \in DOMAIN roots : roots[r].thread \in Threads
  BY <1>1, ListTypes DEF Roots
<1>4. \A r \in DOMAIN roots : RootInv(r)'
  <2>1. ASSUME NEW r \in DOMAIN roots PROVE RootInv(r)'
    <3>1. roots'[r].verdicts \in {0, 1}
      BY DEF OrderInv, RootInv
    <3> QED BY <1>1, <3>1, RootsFrame
  <2> QED BY <2>1
<1>5. \A u \in Threads : HandInv(u)'
  BY <1>1, HandFrame
<1>6. \A d \in Dispatchers : LineInv(d)'
  <2>1. \A d \in Dispatchers : \A r \in DOMAIN roots : Waits(d, r) => Waits(d, r)'
    BY <1>2, <1>3 DEF Waits
  <2> QED BY <1>1, <2>1, LineFrame
<1>7. ListsInv'
  <2>1. \A r \in DOMAIN roots : Abandoned(r) => Abandoned(r)'
    BY <1>2, <1>3 DEF Abandoned
  <2>2. \A o \in Owners : removal'[o].todo = removal[o].todo
    OBVIOUS
  <2> QED BY <1>1, <1>2, <2>1, <2>2, ListsFrame
<1>8. KeptInv'
  <2>1. ASSUME NEW r \in DOMAIN roots, Kept(r) PROVE Kept(r)'
    <3>1. InHand(roots[r].thread, r)' <=> InHand(roots[r].thread, r)
      BY <1>2, <1>3
    <3>2. Queued(r)' <=> Queued(r)
      BY <1>1 DEF Queued
    <3> QED BY <1>1, <1>2, <2>1, <3>1, <3>2 DEF Kept
  <2> QED BY <2>1 DEF OrderInv, KeptInv
<1> QED BY <1>4, <1>5, <1>6, <1>7, <1>8 DEF OrderInv

\* What Moves leaves, besides: it neither builds nor refuses, and holds only a
\* root of a lowerer.
LEMMA MovesHold ==
    ASSUME IInv, NEW t \in Threads, Moves(t)
    PROVE  /\ {hook[t].pc, hook'[t].pc} \cap {"root", "build", "release", "gone"} = {}
           /\ hook'[t].held => hook[t].held \/ (Active(t) # 0 /\ roots[Active(t)].lowerer)
           /\ removal' = removal
<1> DEFINE Holds ==
           /\ {hook[t].pc, hook'[t].pc} \cap {"root", "build", "release", "gone"} = {}
           /\ hook'[t].held => hook[t].held \/ (Active(t) # 0 /\ roots[Active(t)].lowerer)
           /\ removal' = removal
<1>1. hook \in [Threads -> HookStates(DOMAIN roots)]
  BY DEF IInv, TypeOK
<1>2. ASSUME Begin(t) PROVE Holds
  BY <1>1, <1>2 DEF Begin, At, Becomes, HookStates, HookOnly
<1>3. ASSUME Enter(t) PROVE Holds
  BY <1>1, <1>3 DEF Enter, At, Goes, Becomes, HookStates, HookOnly
<1>4. ASSUME Count(t) PROVE Holds
  BY <1>1, <1>4 DEF Count, At, Goes, Becomes, HookStates, HookOnly
<1>5. ASSUME Reload(t) PROVE Holds
  <2>1. hook[t].pc = "reload" /\ removal' = removal
    BY <1>5 DEF Reload, At, HookOnly
  <2>2. CASE Goes(t, "idle")
    BY <1>1, <2>1, <2>2 DEF Goes, Becomes, HookStates
  <2>3. CASE Becomes(t, [hook[t] EXCEPT !.pc = "orphans", !.target = installed])
    <3>1. hook'[t].pc = "orphans" /\ hook'[t].held = hook[t].held
      BY <1>1, <2>3 DEF Becomes, HookStates
    <3> QED BY <2>1, <3>1
  <2> QED BY <1>5, <2>2, <2>3 DEF Reload
<1>6. ASSUME EndDraw(t) PROVE Holds
  <2>1. /\ \/ roots[Active(t)].lowerer /\ Becomes(t, [hook[t] EXCEPT !.held = TRUE])
           \/ Becomes(t, [hook[t] EXCEPT !.pc = "finish", !.next = "idle"])
        /\ hook[t].pc = "idle" /\ Active(t) # 0 /\ removal' = removal
    BY <1>6 DEF EndDraw, At, HookOnly
  <2>2. CASE roots[Active(t)].lowerer /\ Becomes(t, [hook[t] EXCEPT !.held = TRUE])
    <3>1. hook'[t].pc = "idle"
      BY <1>1, <2>1, <2>2 DEF Becomes, HookStates
    <3> QED BY <2>1, <2>2, <3>1
  <2>3. CASE Becomes(t, [hook[t] EXCEPT !.pc = "finish", !.next = "idle"])
    <3>1. hook'[t].pc = "finish" /\ hook'[t].held = hook[t].held
      BY <1>1, <2>3 DEF Becomes, HookStates
    <3> QED BY <2>1, <3>1
  <2> QED BY <2>1, <2>2, <2>3
<1>7. ASSUME Commit(t) PROVE Holds
  BY <1>1, <1>7 DEF Commit, At, Becomes, HookStates, HookOnly
<1>8. ASSUME PostFails(t) PROVE Holds
  BY <1>1, <1>8 DEF PostFails, At, Goes, Becomes, HookStates, HookOnly
<1>9. ASSUME BeginDrain(t) PROVE Holds
  BY <1>1, <1>9 DEF BeginDrain, At, Goes, Becomes, HookStates, HookOnly
<1>10. ASSUME CountDrain(t) PROVE Holds
  BY <1>1, <1>10 DEF CountDrain, At, Goes, Becomes, HookStates, HookOnly
<1>11. ASSUME ReloadDrain(t) PROVE Holds
  BY <1>1, <1>11 DEF ReloadDrain, At, Becomes, HookStates, HookOnly
<1>12. ASSUME AwaitDrain(t) PROVE Holds
  BY <1>1, <1>12 DEF AwaitDrain, At, Goes, Becomes, HookStates, HookOnly
<1>13. ASSUME LeaveDrain(t) PROVE Holds
  BY <1>1, <1>13 DEF LeaveDrain, At, Becomes, HookStates, HookOnly
<1> HIDE DEF Holds
<1>14. Holds
  BY <1>2, <1>3, <1>4, <1>5, <1>6, <1>7, <1>8, <1>9, <1>10, <1>11, <1>12, <1>13
     DEF Moves
<1> QED BY <1>14 DEF Holds

LEMMA MovesOrder ==
    ASSUME IInv, TypeOK', OrderInv, NEW t \in Threads, Moves(t)
    PROVE  OrderInv'
<1>1. /\ UNCHANGED <<queues, roots, removal>>
      /\ \A u \in Threads \ {t} : hook'[u] = hook[u]
      /\ hook[t].todo = <<>> /\ hook'[t].todo = <<>> /\ hook'[t].root = hook[t].root
      /\ hook[t].pc \notin {"root", "build", "release", "gone"}
      /\ hook'[t].pc \notin {"root", "build", "release", "gone"}
      /\ hook'[t].held => hook[t].held \/ roots[Active(t)].lowerer
  BY MovesStay, MovesHold
<1>2. Refused(t) = <<>> /\ Refused(t)' = <<>>
  BY <1>1 DEF Refused
<1>3. \A r \in DOMAIN roots : InHand(t, r)' <=> InHand(t, r)
  BY <1>1 DEF InHand, Active
<1>4. ~Left(t)
  BY <1>1 DEF Left
<1>5. HandInv(t)'
  <2>1. ASSUME NEW r \in DOMAIN roots, InHand(t, r)'
        PROVE  /\ roots[r].thread = t /\ roots[r].verdicts = 0
               /\ ~roots[r].deferred => roots[r].built
               /\ hook'[t].held => ~roots[r].deferred
    <3>1. HandInv(t) /\ RootInv(r) /\ InHand(t, r) /\ Active(t) = r
      BY <1>3, <2>1 DEF OrderInv, InHand
    <3> QED BY <1>1, <3>1 DEF HandInv, RootInv
  <2>2. hook'[t].held => hook'[t].root # 0
    <3>1. HandInv(t)
      BY DEF OrderInv
    <3>2. hook'[t].held => hook[t].held \/ Active(t) # 0
      BY MovesHold
    <3> QED BY <1>1, <3>1, <3>2 DEF HandInv, Active
  <2> QED BY <1>1, <2>1, <2>2 DEF HandInv, Active
<1> QED BY <1>1, <1>2, <1>3, <1>4, <1>5, HookFrame

\* What a thread that ends a root still owes, beside it, waits for the same
\* sequencer: only one dispatcher is live.
LEMMA OwesQueued ==
    ASSUME IInv, OrderInv, NEW t \in Threads,
           hook[t].pc \in {"build", "finish", "refused"}, hook[t].todo = <<>>,
           NEW q \in DOMAIN roots, roots[q].thread = t, q # Active(t), roots[q].verdicts = 0
    PROVE  /\ Queued(q) /\ roots[q].owner = roots[Active(t)].owner
           /\ roots[q].owner \in Dispatchers
<1>1. Kept(q) /\ ListsInv /\ HookInv(t) /\ SessionInv /\ TypeOK
  BY DEF OrderInv, KeptInv, IInv
<1>2. ~Left(t) /\ ~InHand(t, q)
  BY DEF Left, InHand
<1>3. ~Abandoned(q)
  BY <1>2 DEF Abandoned
<1>4. Queued(q)
  BY <1>1, <1>2, <1>3 DEF Kept, ListsInv, AbandonedIn
<1>5. roots[q].owner \in Dispatchers /\ q # 0
  BY <1>1, ListTypes DEF Roots
<1>6. ~Drained(roots[q].owner)
  BY <1>4, <1>5 DEF Queued, Drained
<1>7. roots[q].owner \in Live
  BY <1>5, <1>6 DEF IInv, QueueInv
<1>8. roots[Active(t)].owner \in Live
  BY <1>1 DEF HookInv
<1> QED BY <1>1, <1>4, <1>5, <1>7, <1>8 DEF SessionInv, Live

\* So once that is idle, the root's turn has come.
LEMMA DrainedTurn ==
    ASSUME IInv, OrderInv, NEW t \in Threads,
           hook[t].pc \in {"build", "finish", "refused"}, hook[t].todo = <<>>,
           Drained(roots[Active(t)].owner)
    PROVE  Active(t) \in DOMAIN roots /\ roots[Active(t)].thread = t /\ InTurn(Active(t))
<1>1. Active(t) \in DOMAIN roots
  BY HookTypes DEF IInv, HookInv
<1>2. Active(t) # 0 /\ HandInv(t)
  BY DEF IInv, HookInv, OrderInv
<1>3. InHand(t, Active(t))
  BY <1>2 DEF InHand
<1>4. roots[Active(t)].thread = t
  BY <1>1, <1>2, <1>3 DEF HandInv
<1>5. ASSUME NEW q \in DOMAIN roots, q < Active(t), roots[q].thread = t
      PROVE  roots[q].verdicts = 1
  <2>1. q # Active(t) /\ RootInv(q) /\ q # 0
    BY <1>1, <1>5, ListTypes DEF OrderInv, IInv
  <2>2. ASSUME roots[q].verdicts = 0 PROVE FALSE
    <3>1. Queued(q) /\ roots[q].owner = roots[Active(t)].owner
      BY <1>5, <2>1, <2>2, OwesQueued
    <3> QED BY <2>1, <3>1 DEF Queued, Drained
  <2> QED BY <2>1, <2>2 DEF RootInv
<1> QED BY <1>1, <1>4, <1>5 DEF InTurn

LEMMA FinishHereOrder ==
    ASSUME IInv, TypeOK', OrderInv, NEW t \in Threads, FinishHere(t)
    PROVE  OrderInv'
<1>a. PICK a : a = Active(t)
  OBVIOUS
<1>1. /\ hook \in [Threads -> HookStates(DOMAIN roots)] /\ hook[t].todo = <<>>
      /\ \/ hook[t].pc = "finish" /\ ~roots[a].deferred
         \/ hook[t].pc = "refused" /\ Drained(roots[a].owner)
      /\ UNCHANGED <<queues, roots, removal>>
      /\ Becomes(t, [hook[t] EXCEPT !.pc = "release", !.todo = <<a>>])
  BY <1>a DEF FinishHere, At, HookOnly, IInv, TypeOK
<1>2. /\ \A u \in Threads \ {t} : hook'[u] = hook[u]
      /\ hook'[t].pc = "release" /\ hook'[t].todo = <<a>> /\ hook'[t].root = a
      /\ hook'[t].held = hook[t].held
  BY <1>a, <1>1 DEF Becomes, HookStates, Active
<1>3. a # 0 /\ a \in DOMAIN roots
  BY <1>a, <1>1, HookTypes DEF IInv, HookInv
<1>4. InHand(t, a)
  BY <1>a, <1>1, <1>3 DEF InHand
<1>5. HandInv(t) /\ RootInv(a)
  BY <1>3 DEF OrderInv
<1>6. roots[a].thread = t /\ roots[a].verdicts = 0
      /\ (~roots[a].deferred => roots[a].built)
      /\ (hook[t].held => ~roots[a].deferred)
  BY <1>1, <1>3, <1>4, <1>5 DEF HandInv
<1>7. InTurn(a)
  BY <1>a, <1>1, <1>5, <1>6, DrainedTurn DEF RootInv
<1>8. \A r \in DOMAIN roots : InHand(t, r)' <=> InHand(t, r)
  BY <1>a, <1>1, <1>2, <1>3 DEF InHand, Active
<1>9. \A r \in DOMAIN roots : InHand(t, r)' => r = a
  BY <1>2 DEF InHand, Active
<1>10. InTurn(a)'
  BY <1>1, <1>7 DEF InTurn
<1>11. HandInv(t)'
  BY <1>1, <1>2, <1>3, <1>6, <1>9, <1>10 DEF HandInv, Active
<1>12. Refused(t) = <<>> /\ Refused(t)' = <<>> /\ ~Left(t)
  BY <1>1, <1>2 DEF Refused, Left
<1> QED BY <1>1, <1>2, <1>8, <1>11, <1>12, HookFrame

LEMMA ReleaseOrder ==
    ASSUME IInv, TypeOK', OrderInv, NEW t \in Threads, Release(t)
    PROVE  OrderInv'
<1>1. /\ hook \in [Threads -> HookStates(DOMAIN roots)] /\ hook[t].todo = <<>>
      /\ hook[t].pc = "release" /\ hook[t].next \in Continuations
      /\ UNCHANGED <<queues, roots, removal>>
      /\ Becomes(t, [hook[t] EXCEPT !.pc = hook[t].next, !.root = 0, !.held = FALSE])
  BY DEF Release, At, HookOnly, IInv, TypeOK, HookStates
<1>2. /\ \A u \in Threads \ {t} : hook'[u] = hook[u]
      /\ hook'[t].pc = hook[t].next /\ hook'[t].root = 0 /\ hook'[t].todo = <<>>
      /\ ~hook'[t].held
  BY <1>1 DEF Becomes, HookStates
<1>3. \A r \in DOMAIN roots : InHand(t, r)' <=> InHand(t, r)
  BY <1>1, <1>2 DEF InHand, Active
<1>4. HandInv(t)'
  BY <1>2 DEF HandInv, InHand, Active
<1>5. Refused(t) = <<>> /\ Refused(t)' = <<>> /\ (Left(t) => Left(t)')
  BY <1>1, <1>2 DEF Refused, Left
<1> QED BY <1>1, <1>2, <1>3, <1>4, <1>5, HookFrame

\* A thread exits with no root, or with one that it ends first.
LEMMA BareExitOrder ==
    ASSUME IInv, TypeOK', OrderInv, NEW t \in Threads, At(t, "idle"),
           UNCHANGED <<queues, roots, removal>>,
           \/ Active(t) = 0 /\ Goes(t, "gone")
           \/ /\ Active(t) # 0
              /\ Becomes(t, [hook[t] EXCEPT !.pc = "finish", !.next = "gone"])
    PROVE  OrderInv'
<1>1. hook \in [Threads -> HookStates(DOMAIN roots)] /\ hook[t].todo = <<>>
      /\ hook[t].pc = "idle"
  BY DEF At, IInv, TypeOK
<1>2. /\ \A u \in Threads \ {t} : hook'[u] = hook[u]
      /\ (hook'[t].pc = "gone" /\ Active(t) = 0) \/ hook'[t].pc = "finish"
      /\ hook'[t].root = hook[t].root /\ hook'[t].todo = <<>>
      /\ hook'[t].held = hook[t].held
  <2>1. CASE Active(t) = 0 /\ Goes(t, "gone")
    BY <1>1, <2>1 DEF Goes, Becomes, HookStates
  <2>2. CASE Becomes(t, [hook[t] EXCEPT !.pc = "finish", !.next = "gone"])
    BY <1>1, <2>2 DEF Becomes, HookStates
  <2> QED BY <2>1, <2>2
<1>3. \A r \in DOMAIN roots : InHand(t, r)' <=> InHand(t, r)
  BY <1>1, <1>2 DEF InHand, Active
<1>4. HandInv(t)'
  <2>1. HandInv(t)
    BY DEF OrderInv
  <2> QED BY <1>1, <1>2, <1>3, <2>1 DEF HandInv, Active
<1>5. Refused(t) = <<>> /\ Refused(t)' = <<>> /\ ~Left(t)
  BY <1>1, <1>2 DEF Refused, Left
<1> QED BY <1>1, <1>2, <1>3, <1>4, <1>5, HookFrame

LEMMA OrphansApart ==
    ASSUME IInv, NEW d \in Dispatchers, NEW e \in Dispatchers, d # e
    PROVE  Apart(orphans[d], orphans[e])
<1>1. OwnersIn(orphans[d], {d}) /\ OwnersIn(orphans[e], {e})
  BY DEF IInv, QueueInv
<1> QED BY <1>1 DEF OwnersIn, Apart, Elems

\* A step that leaves the roots and the sequencers, and puts no root in hand.
LEMMA PassFrame ==
    ASSUME IInv, TypeOK', OrderInv, UNCHANGED <<jobs, running, roots>>,
           \A u \in Threads : \A r \in DOMAIN roots : InHand(u, r)' => InHand(u, r),
           \A u \in Threads :
              \/ hook'[u] = hook[u]
              \/ /\ hook'[u].held => hook'[u].root # 0
                 /\ \A r \in DOMAIN roots : ~InHand(u, r)'
    PROVE  /\ \A r \in DOMAIN roots : RootInv(r)'
           /\ \A u \in Threads : HandInv(u)'
           /\ \A d \in Dispatchers : LineInv(d)'
<1>1. TypeOK /\ RootsGrow
  BY SameGrow DEF IInv
<1>2. \A r \in DOMAIN roots : roots[r].thread \in Threads
  BY <1>1, ListTypes DEF Roots
<1>3. \A r \in DOMAIN roots : RootInv(r)'
  <2>1. ASSUME NEW r \in DOMAIN roots PROVE RootInv(r)'
    <3>1. roots'[r].verdicts \in {0, 1}
      BY DEF OrderInv, RootInv
    <3> QED BY <1>1, <3>1, RootsFrame
  <2> QED BY <2>1
<1>4. ASSUME NEW u \in Threads PROVE HandInv(u)'
  <2>1. CASE hook'[u] = hook[u]
    BY <1>1, <2>1, HandFrame
  <2>2. CASE /\ hook'[u].held => hook'[u].root # 0
             /\ \A r \in DOMAIN roots : ~InHand(u, r)'
    BY <2>2 DEF HandInv, Active
  <2> QED BY <2>1, <2>2
<1>5. \A d \in Dispatchers : LineInv(d)'
  <2>1. \A d \in Dispatchers : \A r \in DOMAIN roots : Waits(d, r) => Waits(d, r)'
    BY <1>2 DEF Waits
  <2> QED BY <1>1, <2>1, LineFrame
<1> QED BY <1>3, <1>4, <1>5

\* The thread of a held root exits: the root joins the orphans.
LEMMA HeldExitOrder ==
    ASSUME IInv, TypeOK', OrderInv, NEW t \in Threads, At(t, "idle"), Active(t) # 0,
           hook[t].held, UNCHANGED <<jobs, running, roots, removal>>,
           orphans' = [orphans EXCEPT ![roots[Active(t)].owner] = Append(@, Active(t))],
           Becomes(t, [hook[t] EXCEPT !.pc = "release", !.next = "gone"])
    PROVE  OrderInv'
<1>a. PICK a : a = Active(t)
  OBVIOUS
<1>d. PICK d : d = roots[a].owner
  OBVIOUS
<1>1. /\ hook \in [Threads -> HookStates(DOMAIN roots)] /\ hook[t].todo = <<>>
      /\ hook[t].pc = "idle" /\ TypeOK /\ a # 0 /\ a \in DOMAIN roots /\ d \in Dispatchers
      /\ orphans \in [Dispatchers -> Seq(DOMAIN roots)] /\ ListsInv
      /\ orphans' = [orphans EXCEPT ![d] = Append(@, a)]
      /\ \A r \in DOMAIN roots : roots[r].thread \in Threads
  BY <1>a, <1>d, HookTypes, ListTypes DEF At, IInv, TypeOK, OrderInv, Roots
<1>2. /\ \A u \in Threads \ {t} : hook'[u] = hook[u]
      /\ hook'[t].pc = "release" /\ hook'[t].next = "gone" /\ hook'[t].todo = <<>>
      /\ hook'[t].root = a
  BY <1>a, <1>1 DEF Becomes, HookStates, Active
<1>3. InHand(t, a) /\ HandInv(t) /\ RootInv(a)
  BY <1>a, <1>1 DEF InHand, OrderInv
<1>4. roots[a].thread = t /\ roots[a].verdicts = 0 /\ roots[a].built
  BY <1>1, <1>3 DEF HandInv
<1>5. /\ \A u \in Threads : Refused(u)' = Refused(u) /\ (Left(u) => Left(u)')
      /\ ~Left(t) /\ Left(t)'
  BY <1>1, <1>2 DEF Refused, Left
<1>6. /\ \A u \in Threads : \A r \in DOMAIN roots : InHand(u, r)' => InHand(u, r)
      /\ \A u \in Threads :
            \/ hook'[u] = hook[u]
            \/ /\ hook'[u].held => hook'[u].root # 0
               /\ \A r \in DOMAIN roots : ~InHand(u, r)'
  BY <1>a, <1>1, <1>2 DEF InHand, Active
<1>7. \A r \in DOMAIN roots : Abandoned(r) => Abandoned(r)'
  BY <1>1, <1>5 DEF Abandoned
<1>8. Abandoned(a)' /\ ~Abandoned(a)
  BY <1>4, <1>5 DEF Abandoned
<1>9. /\ \A e \in Dispatchers \ {d} : orphans'[e] = orphans[e]
      /\ Elems(orphans'[d]) = Elems(orphans[d]) \cup {a}
      /\ Distinct(orphans'[d])
  <2>1. orphans[d] \in Seq(DOMAIN roots) /\ orphans'[d] = Append(orphans[d], a)
        /\ \A e \in Dispatchers \ {d} : orphans'[e] = orphans[e]
    BY <1>1
  <2>2. Distinct(orphans[d]) /\ a \notin Elems(orphans[d])
    BY <1>1, <1>8 DEF ListsInv, AbandonedIn
  <2> QED BY <1>1, <2>1, <2>2, ElemsAppend
<1>10. /\ \A e \in Dispatchers : Elems(orphans[e]) \subseteq DOMAIN roots
       /\ \A u \in Threads : Elems(Refused(u)) \subseteq DOMAIN roots
       /\ \A o \in Owners : Elems(removal[o].todo) \subseteq DOMAIN roots
  BY <1>1, ListTypes
<1>11. ListsInv'
  <2>1. \A e \in Dispatchers : AbandonedIn(orphans[e])'
    BY <1>1, <1>7, <1>8, <1>9, <1>10 DEF ListsInv, AbandonedIn
  <2>2. \A u \in Threads : AbandonedIn(Refused(u))'
    BY <1>1, <1>5, <1>7, <1>10 DEF ListsInv, AbandonedIn
  <2>3. \A o \in Owners : AbandonedIn(removal[o].todo)'
    BY <1>1, <1>7, <1>10 DEF ListsInv, AbandonedIn
  <2>4. /\ \A u \in Threads : a \notin Elems(Refused(u))
        /\ \A o \in Owners : a \notin Elems(removal[o].todo)
    BY <1>1, <1>8 DEF ListsInv, AbandonedIn
  <2>5. \A e \in Dispatchers, u \in Threads : Apart(orphans[e], Refused(u))'
    BY <1>1, <1>5, <1>9, <2>4 DEF ListsInv, Apart
  <2>6. \A e \in Dispatchers, o \in Owners : Apart(orphans[e], removal[o].todo)'
    BY <1>1, <1>9, <2>4 DEF ListsInv, Apart
  <2>7. \A u, v \in Threads : u # v => Apart(Refused(u), Refused(v))'
    BY <1>1, <1>5 DEF ListsInv, Apart
  <2> QED BY <2>1, <2>2, <2>3, <2>5, <2>6, <2>7 DEF ListsInv
<1>12. KeptInv'
  <2>1. ASSUME NEW r \in DOMAIN roots, Kept(r) PROVE Kept(r)'
    <3>1. CASE InHand(roots[r].thread, r)
      <4>1. r # a => roots[r].thread # t
        BY <1>a, <3>1 DEF InHand
      <4>2. r # a => InHand(roots[r].thread, r)'
        BY <1>1, <1>2, <3>1, <4>1 DEF InHand, Active
      <4> QED BY <1>1, <1>9, <4>2 DEF Kept
    <3>2. CASE Queued(r)
      BY <3>2 DEF Queued, Kept
    <3>3. CASE \E e \in Dispatchers : r \in Elems(orphans[e])
      BY <1>9, <3>3 DEF Kept
    <3>4. CASE \/ \E u \in Threads : r \in Elems(Refused(u))
               \/ \E o \in Owners : r \in Elems(removal[o].todo)
      BY <1>5, <3>4 DEF Kept
    <3> QED BY <2>1, <3>1, <3>2, <3>3, <3>4 DEF Kept
  <2> QED BY <2>1 DEF OrderInv, KeptInv
<1>13. /\ \A r \in DOMAIN roots : RootInv(r)'
       /\ \A u \in Threads : HandInv(u)'
       /\ \A e \in Dispatchers : LineInv(e)'
  BY <1>6, PassFrame
<1> QED BY <1>11, <1>12, <1>13 DEF OrderInv

LEMMA ExitOrder ==
    ASSUME IInv, TypeOK', OrderInv, NEW t \in Threads, Exit(t)
    PROVE  OrderInv'
<1>1. At(t, "idle") /\ UNCHANGED <<jobs, running, roots, removal>>
  BY DEF Exit, HookOnly
<1>2. \/ Active(t) = 0 /\ Goes(t, "gone") /\ UNCHANGED orphans
      \/ /\ Active(t) # 0 /\ hook[t].held
         /\ orphans' = [orphans EXCEPT ![roots[Active(t)].owner] = Append(@, Active(t))]
         /\ Becomes(t, [hook[t] EXCEPT !.pc = "release", !.next = "gone"])
      \/ /\ Active(t) # 0
         /\ Becomes(t, [hook[t] EXCEPT !.pc = "finish", !.next = "gone"])
         /\ UNCHANGED orphans
  BY DEF Exit
<1>3. CASE UNCHANGED orphans /\ \/ Active(t) = 0 /\ Goes(t, "gone")
                                \/ /\ Active(t) # 0
                                   /\ Becomes(t, [hook[t] EXCEPT !.pc = "finish",
                                                                 !.next = "gone"])
  BY <1>1, <1>3, BareExitOrder DEF queues
<1>4. CASE /\ Active(t) # 0 /\ hook[t].held
           /\ orphans' = [orphans EXCEPT ![roots[Active(t)].owner] = Append(@, Active(t))]
           /\ Becomes(t, [hook[t] EXCEPT !.pc = "release", !.next = "gone"])
  BY <1>1, <1>4, HeldExitOrder
<1> QED BY <1>2, <1>3, <1>4

\* A thread takes the orphans of the dispatcher it enters.
LEMMA DrainOrphansOrder ==
    ASSUME IInv, TypeOK', OrderInv, NEW t \in Threads, DrainOrphans(t)
    PROVE  OrderInv'
<1>e. PICK e : e = hook[t].target
  OBVIOUS
<1>1. /\ hook \in [Threads -> HookStates(DOMAIN roots)] /\ hook[t].todo = <<>>
      /\ hook[t].pc = "orphans" /\ TypeOK /\ e \in Dispatchers /\ Active(t) = 0
      /\ orphans \in [Dispatchers -> Seq(DOMAIN roots)] /\ ListsInv
      /\ orphans' = [orphans EXCEPT ![e] = <<>>]
      /\ UNCHANGED <<jobs, running, roots, removal>>
      /\ Becomes(t, [hook[t] EXCEPT !.pc = "root", !.todo = orphans[e]])
      /\ \A r \in DOMAIN roots : roots[r].thread \in Threads /\ r # 0
  BY <1>e, ListTypes
     DEF DrainOrphans, At, HookOnly, IInv, HookInv, TypeOK, HookStates, NullableDispatcher,
         OrderInv, Roots
<1>2. /\ \A u \in Threads \ {t} : hook'[u] = hook[u]
      /\ hook'[t].pc = "root" /\ hook'[t].todo = orphans[e] /\ hook'[t].root = 0
      /\ ~hook'[t].held
  <2>1. ~hook[t].held
    BY <1>1 DEF OrderInv, HandInv
  <2> QED BY <1>1, <2>1 DEF Becomes, HookStates, Active
<1>3. /\ \A d \in Dispatchers \ {e} : orphans'[d] = orphans[d]
      /\ orphans'[e] = <<>> /\ Elems(orphans'[e]) = {} /\ Distinct(orphans'[e])
  BY <1>1, ElemsSmall
<1>4. /\ \A u \in Threads \ {t} : Refused(u)' = Refused(u)
      /\ \A u \in Threads : Left(u) => Left(u)'
      /\ Refused(t) = <<>> /\ Elems(Refused(t)) = {} /\ Refused(t)' = orphans[e]
  BY <1>1, <1>2, ElemsSmall DEF Refused, Left
<1>5. /\ \A u \in Threads : \A r \in DOMAIN roots : InHand(u, r)' => InHand(u, r)
      /\ \A u \in Threads :
            \/ hook'[u] = hook[u]
            \/ /\ hook'[u].held => hook'[u].root # 0
               /\ \A r \in DOMAIN roots : ~InHand(u, r)'
      /\ \A r \in DOMAIN roots : ~InHand(t, r)
  BY <1>1, <1>2 DEF InHand, Active
<1>6. \A r \in DOMAIN roots : Abandoned(r) => Abandoned(r)'
  BY <1>1, <1>4 DEF Abandoned
<1>7. /\ \A d \in Dispatchers : Elems(orphans[d]) \subseteq DOMAIN roots
      /\ \A u \in Threads : Elems(Refused(u)) \subseteq DOMAIN roots
      /\ \A o \in Owners : Elems(removal[o].todo) \subseteq DOMAIN roots
  BY <1>1, ListTypes
<1>8. ListsInv'
  <2>1. \A d \in Dispatchers : AbandonedIn(orphans[d])'
    BY <1>1, <1>3, <1>6, <1>7 DEF ListsInv, AbandonedIn
  <2>2. \A u \in Threads : AbandonedIn(Refused(u))'
    BY <1>1, <1>4, <1>6, <1>7 DEF ListsInv, AbandonedIn
  <2>3. \A o \in Owners : AbandonedIn(removal[o].todo)'
    BY <1>1, <1>6, <1>7 DEF ListsInv, AbandonedIn
  <2>4. \A d \in Dispatchers \ {e} : Apart(orphans[d], orphans[e])
    BY <1>1, OrphansApart
  <2>5. \A d \in Dispatchers, u \in Threads : Apart(orphans[d], Refused(u))'
    BY <1>1, <1>3, <1>4, <2>4 DEF ListsInv, Apart
  <2>6. \A d \in Dispatchers, o \in Owners : Apart(orphans[d], removal[o].todo)'
    BY <1>1, <1>3 DEF ListsInv, Apart
  <2>7. \A u, v \in Threads : u # v => Apart(Refused(u), Refused(v))'
    BY <1>1, <1>4 DEF ListsInv, Apart
  <2> QED BY <2>1, <2>2, <2>3, <2>5, <2>6, <2>7 DEF ListsInv
<1>9. KeptInv'
  <2>1. ASSUME NEW r \in DOMAIN roots, Kept(r) PROVE Kept(r)'
    <3>1. CASE InHand(roots[r].thread, r)
      <4>1. roots[r].thread # t
        BY <1>5, <3>1
      <4>2. InHand(roots[r].thread, r)'
        BY <1>1, <1>2, <3>1, <4>1 DEF InHand, Active
      <4> QED BY <4>2 DEF Kept
    <3>2. CASE Queued(r)
      BY <1>1, <3>2 DEF Queued, Kept
    <3>3. CASE \E d \in Dispatchers : r \in Elems(orphans[d])
      BY <1>3, <1>4, <3>3 DEF Kept
    <3>4. CASE \E u \in Threads : r \in Elems(Refused(u))
      BY <1>4, <3>4 DEF Kept
    <3>5. CASE \E o \in Owners : r \in Elems(removal[o].todo)
      BY <1>1, <3>5 DEF Kept
    <3> QED BY <2>1, <3>1, <3>2, <3>3, <3>4, <3>5 DEF Kept
  <2> QED BY <1>1, <2>1 DEF OrderInv, KeptInv
<1>10. /\ \A r \in DOMAIN roots : RootInv(r)'
       /\ \A u \in Threads : HandInv(u)'
       /\ \A d \in Dispatchers : LineInv(d)'
  BY <1>1, <1>5, PassFrame
<1> QED BY <1>1, <1>8, <1>9, <1>10 DEF OrderInv

\* A removal takes those of the dispatcher it withdrew.
LEMMA RefuseOrphansOrder ==
    ASSUME IInv, TypeOK', OrderInv, NEW o \in Owners, RefuseOrphans(o)
    PROVE  OrderInv'
<1>e. PICK e : e = removal[o].target
  OBVIOUS
<1>1. /\ removal \in [Owners -> RemovalStates(DOMAIN roots)] /\ removal[o].todo = <<>>
      /\ removal[o].pc = "orphans" /\ TypeOK /\ e \in Dispatchers /\ RemovalInv(o)
      /\ orphans \in [Dispatchers -> Seq(DOMAIN roots)] /\ ListsInv
      /\ orphans' = [orphans EXCEPT ![e] = <<>>]
      /\ UNCHANGED <<jobs, running, roots, hook>>
      /\ removal' = [removal EXCEPT ![o] = [removal[o] EXCEPT !.pc = "conclude",
                                                               !.todo = orphans[e]]]
      /\ \A r \in DOMAIN roots : roots[r].thread \in Threads
  BY <1>e, ListTypes
     DEF RefuseOrphans, RemovalAt, RemovalOnly, RemovalBecomes, IInv, RemovalInv, TypeOK,
         RemovalStates, NullableDispatcher, OrderInv, Roots
<1>2. /\ \A p \in Owners \ {o} : removal'[p] = removal[p]
      /\ removal'[o].todo = orphans[e] /\ Elems(removal[o].todo) = {}
  BY <1>1, ElemsSmall DEF RemovalStates
<1>3. /\ \A d \in Dispatchers \ {e} : orphans'[d] = orphans[d]
      /\ orphans'[e] = <<>> /\ Elems(orphans'[e]) = {} /\ Distinct(orphans'[e])
  BY <1>1, ElemsSmall
<1>4. \A u \in Threads : Refused(u)' = Refused(u) /\ (Left(u) <=> Left(u)')
  BY <1>1 DEF Refused, Left
<1>5. /\ \A u \in Threads : \A r \in DOMAIN roots : InHand(u, r)' <=> InHand(u, r)
      /\ \A u \in Threads : hook'[u] = hook[u]
  BY <1>1 DEF InHand, Active
<1>6. \A r \in DOMAIN roots : Abandoned(r) => Abandoned(r)'
  BY <1>1, <1>4 DEF Abandoned
<1>7. /\ \A d \in Dispatchers : Elems(orphans[d]) \subseteq DOMAIN roots
      /\ \A u \in Threads : Elems(Refused(u)) \subseteq DOMAIN roots
      /\ \A p \in Owners : Elems(removal[p].todo) \subseteq DOMAIN roots
  BY <1>1, ListTypes
<1>8. ListsInv'
  <2>1. \A d \in Dispatchers : AbandonedIn(orphans[d])'
    BY <1>1, <1>3, <1>6, <1>7 DEF ListsInv, AbandonedIn
  <2>2. \A u \in Threads : AbandonedIn(Refused(u))'
    BY <1>1, <1>4, <1>6, <1>7 DEF ListsInv, AbandonedIn
  <2>3. \A p \in Owners : AbandonedIn(removal[p].todo)'
    BY <1>1, <1>2, <1>6, <1>7 DEF ListsInv, AbandonedIn
  <2>4. \A d \in Dispatchers \ {e} : Apart(orphans[d], orphans[e])
    BY <1>1, OrphansApart
  <2>5. \A d \in Dispatchers, u \in Threads : Apart(orphans[d], Refused(u))'
    BY <1>1, <1>3, <1>4 DEF ListsInv, Apart
  <2>6. \A d \in Dispatchers, p \in Owners : Apart(orphans[d], removal[p].todo)'
    BY <1>1, <1>2, <1>3, <2>4 DEF ListsInv, Apart
  <2>7. \A u, v \in Threads : u # v => Apart(Refused(u), Refused(v))'
    BY <1>1, <1>4 DEF ListsInv, Apart
  <2> QED BY <2>1, <2>2, <2>3, <2>5, <2>6, <2>7 DEF ListsInv
<1>9. KeptInv'
  <2>1. ASSUME NEW r \in DOMAIN roots, Kept(r) PROVE Kept(r)'
    <3>1. CASE InHand(roots[r].thread, r) \/ Queued(r)
      BY <1>1, <1>5, <3>1 DEF Queued, Kept
    <3>2. CASE \E d \in Dispatchers : r \in Elems(orphans[d])
      BY <1>2, <1>3, <3>2 DEF Kept
    <3>3. CASE \E u \in Threads : r \in Elems(Refused(u))
      BY <1>4, <3>3 DEF Kept
    <3>4. CASE \E p \in Owners : r \in Elems(removal[p].todo)
      BY <1>2, <3>4 DEF Kept
    <3> QED BY <2>1, <3>1, <3>2, <3>3, <3>4 DEF Kept
  <2> QED BY <1>1, <2>1 DEF OrderInv, KeptInv
<1>10. /\ \A r \in DOMAIN roots : RootInv(r)'
       /\ \A u \in Threads : HandInv(u)'
       /\ \A d \in Dispatchers : LineInv(d)'
  BY <1>1, <1>5, PassFrame
<1> QED BY <1>1, <1>8, <1>9, <1>10 DEF OrderInv

LEMMA NewRootOrder ==
    ASSUME IInv, TypeOK', OrderInv, NEW t \in Threads, NewRoot(t)
    PROVE  OrderInv'
<1>n. PICK new : new = Len(roots) + 1
  OBVIOUS
<1>1. /\ HookInv(t) /\ hook \in [Threads -> HookStates(DOMAIN roots)] /\ TypeOK
      /\ HandInv(t) /\ hook[t].pc = "root" /\ hook[t].todo = <<>> /\ Active(t) = 0
      /\ hook[t].target \in Dispatchers /\ ~hook[t].held
      /\ UNCHANGED <<orphans, jobs, running, removal>>
      /\ \A r \in DOMAIN roots : roots[r].thread \in Threads /\ r # 0
  <2>1. /\ HookInv(t) /\ TypeOK /\ HandInv(t)
        /\ hook \in [Threads -> HookStates(DOMAIN roots)]
    BY DEF IInv, TypeOK, OrderInv
  <2>2. /\ hook[t].pc = "root" /\ hook[t].todo = <<>>
        /\ UNCHANGED <<orphans, jobs, running, removal>>
    BY DEF NewRoot, At, HookOnly, queues
  <2>3. Active(t) = 0 /\ ~hook[t].held
    BY <2>1, <2>2 DEF HookInv, HandInv
  <2>4. hook[t].target \in Dispatchers
    BY <2>1, <2>2 DEF HookInv, HookStates, NullableDispatcher
  <2>5. \A r \in DOMAIN roots : roots[r].thread \in Threads /\ r # 0
    BY <2>1, ListTypes DEF Roots
  <2> QED BY <2>1, <2>2, <2>3, <2>4, <2>5
<1>2. PICK lowerer \in BOOLEAN, deferred \in BOOLEAN :
         /\ ~(lowerer /\ deferred)
         /\ roots' = Append(roots, [thread |-> t, owner |-> hook[t].target,
                                    lowerer |-> lowerer, deferred |-> deferred,
                                    built |-> FALSE, verdicts |-> 0])
         /\ Becomes(t, [hook[t] EXCEPT !.root = new, !.target = NoDispatcher,
                                       !.pc = IF deferred THEN "idle" ELSE "build"])
  BY <1>n DEF NewRoot
<1>3. /\ RootsGrow /\ DOMAIN roots' = DOMAIN roots \cup {new} /\ new \notin DOMAIN roots
      /\ \A q \in DOMAIN roots : roots'[q] = roots[q]
      /\ roots'[new].thread = t /\ roots'[new].verdicts = 0 /\ ~roots'[new].built
      /\ roots'[new].lowerer = lowerer /\ roots'[new].deferred = deferred
  <2> DEFINE root == [thread |-> t, owner |-> hook[t].target, lowerer |-> lowerer,
                      deferred |-> deferred, built |-> FALSE, verdicts |-> 0]
  <2>1. root \in Roots /\ roots \in Seq(Roots) /\ roots' = Append(roots, root)
    BY <1>1, <1>2 DEF Roots, TypeOK
  <2>2. /\ root.thread = t /\ root.verdicts = 0 /\ ~root.built
        /\ root.lowerer = lowerer /\ root.deferred = deferred
    OBVIOUS
  <2> HIDE DEF root
  <2> QED BY <1>n, <2>1, <2>2, AppendGrow
<1>4. /\ \A u \in Threads \ {t} : hook'[u] = hook[u]
      /\ hook'[t].root = new /\ hook'[t].todo = <<>> /\ ~hook'[t].held
      /\ hook'[t].pc = (IF deferred THEN "idle" ELSE "build")
  BY <1>1, <1>2 DEF Becomes, HookStates
<1>5. new # 0
  BY <1>n, <1>1, LenProperties DEF TypeOK
<1>6. /\ \A u \in Threads : Refused(u)' = Refused(u) /\ (Left(u) => Left(u)')
      /\ \A u \in Threads : \A r \in DOMAIN roots : InHand(u, r)' <=> InHand(u, r)
      /\ InHand(t, new)' /\ \A r : InHand(t, r)' => r = new
  <2>1. hook'[t].pc \in {"idle", "build"}
    BY <1>4
  <2> QED BY <1>1, <1>3, <1>4, <1>5, <2>1 DEF Refused, Left, InHand, Active
<1>7. ASSUME NEW r \in DOMAIN roots' PROVE RootInv(r)'
  <2>1. CASE r \in DOMAIN roots
    <3>1. roots'[r].verdicts \in {0, 1}
      BY <1>3, <2>1 DEF OrderInv, RootInv
    <3> QED BY <1>1, <1>3, <2>1, <3>1, RootsFrame
  <2>2. CASE r = new
    BY <1>2, <1>3, <2>2 DEF RootInv
  <2> QED BY <1>3, <2>1, <2>2
<1>8. ASSUME NEW u \in Threads PROVE HandInv(u)'
  <2>1. CASE u = t
    BY <1>2, <1>3, <1>4, <1>5, <1>6, <2>1 DEF HandInv, Active
  <2>2. CASE u # t
    BY <1>1, <1>3, <1>4, <2>2, HandFrame
  <2> QED BY <2>1, <2>2
<1>9. \A d \in Dispatchers : LineInv(d)'
  <2>1. \A d \in Dispatchers : \A r \in DOMAIN roots : Waits(d, r) => Waits(d, r)'
    BY <1>1, <1>3, <1>6 DEF Waits
  <2> QED BY <1>1, <1>3, <2>1, LineFrame
<1>10. ListsInv'
  <2>1. \A r \in DOMAIN roots : Abandoned(r) => Abandoned(r)'
    BY <1>1, <1>3, <1>6 DEF Abandoned
  <2> QED BY <1>1, <1>6, <2>1, ListsFrame
<1>11. KeptInv'
  <2>1. ASSUME NEW r \in DOMAIN roots, Kept(r) PROVE Kept(r)'
    <3>1. (InHand(roots[r].thread, r)' <=> InHand(roots[r].thread, r)) /\ roots'[r] = roots[r]
      BY <1>1, <1>3, <1>6
    <3>2. Queued(r)' <=> Queued(r)
      BY <1>1, <3>1 DEF Queued
    <3> QED BY <1>1, <1>6, <2>1, <3>1, <3>2 DEF Kept
  <2>2. Kept(new)'
    BY <1>3, <1>6 DEF Kept
  <2>3. \A r \in DOMAIN roots : roots'[r].verdicts = 0 => Kept(r)
    BY <1>3 DEF OrderInv, KeptInv
  <2> QED BY <1>3, <2>1, <2>2, <2>3 DEF KeptInv
<1> QED BY <1>7, <1>8, <1>9, <1>10, <1>11 DEF OrderInv

\* A root is built in its turn.
LEMMA BuildTurn ==
    ASSUME IInv, OrderInv, NEW t \in Threads, BuildRoot(t)
    PROVE  /\ Active(t) \in DOMAIN roots /\ InHand(t, Active(t)) /\ InTurn(Active(t))
           /\ roots[Active(t)].thread = t /\ roots[Active(t)].verdicts = 0
           /\ ~roots[Active(t)].deferred /\ ~roots[Active(t)].built
<1>1. hook[t].pc = "build" /\ hook[t].todo = <<>> /\ Drained(roots[Active(t)].owner)
  BY DEF BuildRoot, At, EntryDrained
<1>2. Active(t) \in DOMAIN roots /\ roots[Active(t)].thread = t /\ InTurn(Active(t))
  BY <1>1, DrainedTurn
<1>3. InHand(t, Active(t)) /\ HandInv(t)
  BY <1>1 DEF InHand, IInv, HookInv, OrderInv
<1> QED BY <1>1, <1>2, <1>3 DEF HandInv

LEMMA BuildRootOrder ==
    ASSUME IInv, TypeOK', OrderInv, NEW t \in Threads, BuildRoot(t)
    PROVE  OrderInv'
<1>a. PICK a : a = Active(t)
  OBVIOUS
<1>1. /\ a \in DOMAIN roots /\ InHand(t, a) /\ InTurn(a) /\ roots[a].thread = t
      /\ roots[a].verdicts = 0 /\ ~roots[a].deferred /\ ~roots[a].built
  BY <1>a, BuildTurn
<1>2. /\ hook \in [Threads -> HookStates(DOMAIN roots)] /\ TypeOK
      /\ hook[t].pc = "build" /\ hook[t].todo = <<>> /\ HandInv(t)
      /\ UNCHANGED <<orphans, jobs, running, removal>>
      /\ roots' = [roots EXCEPT ![a].built = TRUE]
      /\ Becomes(t, [hook[t] EXCEPT !.pc = "idle"])
      /\ \A r \in DOMAIN roots : roots[r].thread \in Threads /\ r \in Nat
  BY <1>a, ListTypes
     DEF BuildRoot, At, Goes, IInv, TypeOK, OrderInv, HookOnly, queues, Roots
<1>3. /\ RootsGrow /\ DOMAIN roots' = DOMAIN roots
      /\ roots'[a].built /\ roots'[a].verdicts = roots[a].verdicts
      /\ \A q \in DOMAIN roots \ {a} : roots'[q] = roots[q]
  BY <1>1, <1>2, BuiltGrow DEF TypeOK
<1>4. /\ \A u \in Threads \ {t} : hook'[u] = hook[u]
      /\ hook'[t].root = a /\ hook'[t].todo = <<>> /\ hook'[t].held = hook[t].held
      /\ hook'[t].pc = "idle"
  BY <1>a, <1>2 DEF Becomes, HookStates, Active
<1>5. /\ \A u \in Threads : Refused(u)' = Refused(u) /\ (Left(u) => Left(u)')
      /\ ~Left(t)
      /\ \A u \in Threads : \A r \in DOMAIN roots : InHand(u, r)' <=> InHand(u, r)
      /\ \A r : InHand(t, r) => r = a
  BY <1>a, <1>2, <1>4 DEF Refused, Left, InHand, Active
<1>6. InTurn(a)'
  BY <1>1, <1>2, <1>3, TurnStays
<1>7. ASSUME NEW r \in DOMAIN roots PROVE RootInv(r)'
  <2>1. CASE r # a
    <3>1. roots'[r].verdicts \in {0, 1} /\ roots'[r].built = roots[r].built
      BY <1>3, <2>1 DEF OrderInv, RootInv
    <3> QED BY <1>2, <1>3, <3>1, RootsFrame
  <2>2. CASE r = a
    BY <1>1, <1>3, <1>6, <2>2 DEF RootInv, RootsGrow, OrderInv
  <2> QED BY <2>1, <2>2
<1>8. ASSUME NEW u \in Threads PROVE HandInv(u)'
  <2>1. CASE u = t
    <3>1. roots'[a].thread = t /\ roots'[a].verdicts = 0 /\ ~roots'[a].deferred
      BY <1>1, <1>3 DEF RootsGrow
    <3>2. a # 0
      BY <1>1 DEF InHand
    <3>3. \A r \in DOMAIN roots' : InHand(t, r)' => r = a
      BY <1>3, <1>5
    <3> QED BY <1>3, <1>4, <2>1, <3>1, <3>2, <3>3 DEF HandInv, Active
  <2>2. CASE u # t
    <3>1. \A r \in DOMAIN roots : InHand(u, r) => r # a
      BY <1>1, <2>2 DEF OrderInv, HandInv
    <3> QED BY <1>2, <1>3, <1>4, <2>2, <3>1, HandFrame
  <2> QED BY <2>1, <2>2
<1>9. \A d \in Dispatchers : LineInv(d)'
  <2>1. \A d \in Dispatchers : \A r \in DOMAIN roots : Waits(d, r) => Waits(d, r)'
    BY <1>1, <1>2, <1>3, <1>5 DEF Waits
  <2> QED BY <1>2, <1>3, <2>1, LineFrame
<1>10. ListsInv'
  <2>1. \A r \in DOMAIN roots : Abandoned(r) => Abandoned(r)'
    BY <1>1, <1>2, <1>3, <1>5 DEF Abandoned
  <2> QED BY <1>2, <1>5, <2>1, ListsFrame
<1>11. KeptInv'
  <2>1. ASSUME NEW r \in DOMAIN roots, Kept(r) PROVE Kept(r)'
    <3>1. /\ roots'[r].thread = roots[r].thread /\ roots'[r].owner = roots[r].owner
          /\ InHand(roots[r].thread, r)' <=> InHand(roots[r].thread, r)
      BY <1>2, <1>3, <1>5 DEF RootsGrow
    <3>2. Queued(r)' <=> Queued(r)
      BY <1>2, <3>1 DEF Queued
    <3> QED BY <1>2, <1>5, <2>1, <3>1, <3>2 DEF Kept
  <2>2. \A r \in DOMAIN roots : roots'[r].verdicts = 0 => Kept(r)
    BY <1>1, <1>3 DEF OrderInv, KeptInv
  <2> QED BY <1>3, <2>1, <2>2 DEF KeptInv
<1> QED BY <1>3, <1>7, <1>8, <1>9, <1>10, <1>11 DEF OrderInv

\* A root joins the sequencer's line behind the others of its thread.
LEMMA PostOrder ==
    ASSUME IInv, TypeOK', OrderInv, NEW t \in Threads, Post(t)
    PROVE  OrderInv'
<1>a. PICK a : a = Active(t)
  OBVIOUS
<1>d. PICK d : d = roots[a].owner
  OBVIOUS
<1>1. /\ TypeOK /\ HookInv(t) /\ HandInv(t) /\ LineInv(d)
      /\ a \in DOMAIN roots /\ a # 0 /\ d \in Dispatchers
      /\ hook \in [Threads -> HookStates(DOMAIN roots)]
      /\ jobs \in [Dispatchers -> Seq(DOMAIN roots)]
      /\ \A r \in DOMAIN roots : roots[r].thread \in Threads /\ r \in Nat /\ RootInv(r)
  <2>1. TypeOK /\ HookInv(t) /\ HandInv(t) /\ hook[t].pc = "finish"
    BY DEF IInv, OrderInv, Post, At
  <2>2. a \in DOMAIN roots /\ a # 0 /\ d \in Dispatchers
    BY <1>a, <1>d, <2>1, HookTypes DEF HookInv
  <2>3. \A r \in DOMAIN roots : roots[r].thread \in Threads /\ r \in Nat /\ RootInv(r)
    BY <2>1, ListTypes DEF Roots, OrderInv
  <2> QED BY <2>1, <2>2, <2>3 DEF TypeOK, OrderInv
<1>2. /\ hook[t].pc = "finish" /\ hook[t].todo = <<>> /\ roots[a].deferred
      /\ UNCHANGED <<orphans, running, roots, removal>>
      /\ jobs' = [jobs EXCEPT ![d] = Append(@, a)]
      /\ Becomes(t, [hook[t] EXCEPT !.pc = "release"])
  BY <1>a, <1>d DEF Post, At, Goes, HookOnly
<1>3. /\ \A u \in Threads \ {t} : hook'[u] = hook[u]
      /\ hook'[t].pc = "release" /\ hook'[t].todo = <<>> /\ hook'[t].root = a
  BY <1>a, <1>1, <1>2 DEF Becomes, HookStates, Active
<1>4. /\ InHand(t, a) /\ \A r \in DOMAIN roots : ~InHand(t, r)'
      /\ \A u \in Threads : \A r \in DOMAIN roots : InHand(u, r)' => InHand(u, r)
      /\ \A u \in Threads : Refused(u)' = Refused(u) /\ (Left(u) => Left(u)')
      /\ \A r \in DOMAIN roots : InHand(t, r) => r = a
      /\ RootsGrow
  BY <1>a, <1>1, <1>2, <1>3, SameGrow DEF InHand, Active, Refused, Left
<1>5. roots[a].thread = t /\ roots[a].verdicts = 0 /\ Waits(d, a)' /\ ~Waits(d, a)
  BY <1>d, <1>1, <1>2, <1>4 DEF HandInv, Waits
<1>6. \A e \in Dispatchers : \A r \in DOMAIN roots : Waits(e, r) => Waits(e, r)'
  BY <1>1, <1>2, <1>4 DEF Waits
<1>o. PICK old : old = jobs[d]
  OBVIOUS
<1>w. PICK new : new = jobs'[d]
  OBVIOUS
<1>7. /\ \A e \in Dispatchers \ {d} : jobs'[e] = jobs[e]
      /\ \A i \in DOMAIN old : i \in DOMAIN new /\ new[i] = old[i] /\ old[i] \in DOMAIN roots
      /\ \A i \in DOMAIN new :
            i \in DOMAIN old \/ (new[i] = a /\ \A k \in DOMAIN old : k < i)
      /\ Distinct(new)
      /\ \E i \in DOMAIN new : new[i] = a
  <2>1. old \in Seq(DOMAIN roots) /\ new = Append(old, a)
        /\ \A e \in Dispatchers \ {d} : jobs'[e] = jobs[e]
    BY <1>o, <1>w, <1>1, <1>2
  <2>2. Distinct(old) /\ \A i \in DOMAIN old : Waits(d, old[i]) /\ old[i] \in DOMAIN roots
    BY <1>o, <1>1, <2>1, ElementOfSeq, LenProperties DEF LineInv
  <2>3. a \notin Elems(old)
    BY <1>5, <2>2 DEF Elems
  <2>4. a \in Elems(new)
    BY <1>1, <2>1, ElemsAppend
  <2> QED BY <1>1, <2>1, <2>2, <2>3, <2>4, ElemsAppend DEF Elems
<1>8. LineInv(d)'
  <2>1. running[d] # 0 => Waits(d, running[d])' /\ InTurn(running[d])' /\ running[d] # a
    <3>1. running[d] \in DOMAIN roots \cup {0}
      BY <1>1, ListTypes
    <3>2. running[d] # 0 => Waits(d, running[d])'
      BY <1>1, <1>2, <1>6, <3>1 DEF LineInv
    <3>3. running[d] # 0 => InTurn(running[d])'
      BY <1>1, <1>2 DEF LineInv, InTurn
    <3> QED BY <1>1, <1>5, <3>2, <3>3 DEF LineInv
  <2>2. ASSUME NEW i \in DOMAIN new
        PROVE  /\ Waits(d, new[i])' /\ new[i] # running[d]
               /\ \A q \in DOMAIN roots :
                     q < new[i] /\ roots[q].thread = roots[new[i]].thread =>
                         \/ roots[q].verdicts = 1 \/ q = running[d]
                         \/ \E k \in DOMAIN new : k < i /\ new[k] = q
    <3>1. CASE i \in DOMAIN old
      <4>1. new[i] = old[i] /\ old[i] \in DOMAIN roots
        BY <1>7, <3>1
      <4>2. /\ Waits(d, old[i]) /\ old[i] # running[d]
            /\ \A q \in DOMAIN roots :
                  q < old[i] /\ roots[q].thread = roots[old[i]].thread =>
                      \/ roots[q].verdicts = 1 \/ q = running[d]
                      \/ \E k \in DOMAIN old : k < i /\ old[k] = q
        BY <1>o, <1>1, <3>1 DEF LineInv
      <4>3. Waits(d, old[i])'
        BY <1>1, <1>6, <4>1, <4>2
      <4>4. \A q : (\E k \in DOMAIN old : k < i /\ old[k] = q)
                    => \E k \in DOMAIN new : k < i /\ new[k] = q
        BY <1>7
      <4>5. Waits(d, new[i])'
        BY <4>1, <4>3
      <4> QED BY <4>1, <4>2, <4>4, <4>5
    <3>2. CASE i \notin DOMAIN old
      <4>1. new[i] = a /\ \A k \in DOMAIN old : k < i
        BY <1>7, <3>2
      <4>2. a # running[d]
        BY <1>1, <2>1
      <4>3. ASSUME NEW q \in DOMAIN roots, q < a, roots[q].thread = t,
                   roots[q].verdicts # 1
            PROVE  q = running[d] \/ \E k \in DOMAIN old : old[k] = q
        <5>1. roots[q].verdicts = 0 /\ q # a
          BY <1>1, <4>3 DEF RootInv
        <5>2. Queued(q) /\ roots[q].owner = d
          BY <1>a, <1>d, <1>2, <4>3, <5>1, OwesQueued
        <5> QED BY <1>o, <5>2 DEF Queued
      <4>4. Waits(d, new[i])'
        BY <1>5, <4>1
      <4>5. \A q : (\E k \in DOMAIN old : old[k] = q)
                    => \E k \in DOMAIN new : k < i /\ new[k] = q
        BY <1>7, <4>1
      <4> QED BY <1>5, <4>1, <4>2, <4>3, <4>4, <4>5
    <3> QED BY <3>1, <3>2
  <2>3. Distinct(new)
    BY <1>7
  <2>4. running'[d] # 0 => Waits(d, running[d])' /\ InTurn(running[d])'
    BY <1>2, <2>1
  <2>5. /\ new = jobs'[d] /\ running'[d] = running[d] /\ roots' = roots
    BY <1>w, <1>2
  <2> QED BY <2>2, <2>3, <2>4, <2>5 DEF LineInv
<1>9. \A r \in DOMAIN roots : RootInv(r)'
  <2>1. ASSUME NEW r \in DOMAIN roots PROVE RootInv(r)'
    <3>1. roots'[r].verdicts \in {0, 1}
      BY <1>1, <1>2 DEF RootInv
    <3> QED BY <1>1, <1>2, <1>4, <3>1, RootsFrame
  <2> QED BY <2>1
<1>10. ASSUME NEW u \in Threads PROVE HandInv(u)'
  <2>1. CASE u = t
    BY <1>1, <1>2, <1>3, <1>4, <2>1 DEF HandInv, Active
  <2>2. CASE u # t
    BY <1>1, <1>2, <1>3, <1>4, <2>2, HandFrame
  <2> QED BY <2>1, <2>2
<1>11. ASSUME NEW e \in Dispatchers PROVE LineInv(e)'
  <2>1. CASE e = d
    BY <1>8, <2>1
  <2>2. CASE e # d
    BY <1>1, <1>2, <1>4, <1>6, <1>7, <2>2, LineFrame
  <2> QED BY <2>1, <2>2
<1>12. ListsInv'
  <2>1. \A r \in DOMAIN roots : Abandoned(r) => Abandoned(r)'
    BY <1>1, <1>2, <1>4 DEF Abandoned
  <2> QED BY <1>1, <1>2, <1>4, <2>1, ListsFrame
<1>13. KeptInv'
  <2>1. ASSUME NEW r \in DOMAIN roots, Queued(r) PROVE Queued(r)'
    <3>1. roots[r].owner \in Dispatchers
      BY <1>1, ListTypes DEF Roots
    <3>2. CASE roots[r].owner = d
      BY <1>o, <1>w, <1>2, <1>7, <2>1, <3>2 DEF Queued
    <3>3. CASE roots[r].owner # d
      BY <1>2, <1>7, <2>1, <3>1, <3>3 DEF Queued
    <3> QED BY <3>2, <3>3
  <2>2. Queued(a)'
    BY <1>d, <1>w, <1>2, <1>7 DEF Queued
  <2>3. ASSUME NEW r \in DOMAIN roots, Kept(r) PROVE Kept(r)'
    <3>1. CASE InHand(roots[r].thread, r)
      <4>1. roots[r].thread = t => r = a
        BY <1>4, <3>1
      <4>2. roots[r].thread # t => InHand(roots[r].thread, r)'
        BY <1>1, <1>2, <1>3, <3>1 DEF InHand, Active
      <4> QED BY <2>2, <4>1, <4>2 DEF Kept
    <3>2. CASE Queued(r)
      BY <2>1, <3>2 DEF Kept
    <3>3. CASE ~InHand(roots[r].thread, r) /\ ~Queued(r)
      BY <1>2, <1>4, <2>3, <3>3 DEF Kept
    <3> QED BY <3>1, <3>2, <3>3
  <2> QED BY <1>2, <2>3 DEF OrderInv, KeptInv
<1> QED BY <1>2, <1>9, <1>10, <1>11, <1>12, <1>13 DEF OrderInv

\* The worker takes the first of its line.
LEMMA TakeJobOrder ==
    ASSUME IInv, TypeOK', OrderInv, NEW d \in Dispatchers, TakeJob(d)
    PROVE  OrderInv'
<1>o. PICK old : old = jobs[d]
  OBVIOUS
<1>w. PICK new : new = jobs'[d]
  OBVIOUS
<1>j. PICK j : j = running'[d]
  OBVIOUS
<1>1. /\ TypeOK /\ LineInv(d) /\ ListsInv /\ old \in Seq(DOMAIN roots)
      /\ jobs \in [Dispatchers -> Seq(DOMAIN roots)]
      /\ running \in [Dispatchers -> DOMAIN roots \cup {0}]
      /\ \A r \in DOMAIN roots :
            roots[r].thread \in Threads /\ roots[r].owner \in Dispatchers /\ r \in Nat /\ r # 0
  <2>1. \A r \in DOMAIN roots :
           roots[r].thread \in Threads /\ roots[r].owner \in Dispatchers /\ r \in Nat /\ r # 0
    BY ListTypes DEF IInv, Roots
  <2> QED BY <1>o, <2>1 DEF IInv, OrderInv, TypeOK
<1>2. /\ running[d] = 0 /\ old # <<>> /\ UNCHANGED <<orphans, roots, hook, removal>>
      /\ running' = [running EXCEPT ![d] = Head(old)]
      /\ jobs' = [jobs EXCEPT ![d] = Tail(old)]
  BY <1>o DEF TakeJob
<1>3. /\ j = Head(old) /\ new = Tail(old)
      /\ \A e \in Dispatchers \ {d} : jobs'[e] = jobs[e] /\ running'[e] = running[e]
  BY <1>w, <1>j, <1>1, <1>2
<1>4. /\ j = old[1] /\ 1 \in DOMAIN old /\ j \in DOMAIN roots
      /\ \A i \in DOMAIN old : i \in Nat /\ i >= 1 /\ old[i] \in DOMAIN roots
      /\ \A i \in DOMAIN new :
            i \in Nat /\ i >= 1 /\ i + 1 \in DOMAIN old /\ new[i] = old[i + 1]
      /\ \A i \in DOMAIN old : i = 1 \/ (i - 1 \in DOMAIN new /\ new[i - 1] = old[i])
  <2>1. new \in Seq(DOMAIN roots)
    BY <1>1, <1>2, <1>3, HeadTail
  <2>2. \A i \in DOMAIN new : i \in Nat /\ i >= 1
    BY <2>1, LenProperties
  <2>3. \A i \in DOMAIN old : i \in Nat /\ i >= 1 /\ old[i] \in DOMAIN roots
    BY <1>1, LenProperties, ElementOfSeq
  <2> QED BY <1>1, <1>2, <1>3, <2>2, <2>3, HeadTail
<1>5. Distinct(old) /\ Distinct(new) /\ j \notin Elems(new)
  <2>1. Distinct(old)
    BY <1>o, <1>1 DEF LineInv
  <2> QED BY <1>1, <1>2, <1>3, <2>1, ElemsTail
<1>6. /\ \A u \in Threads : Refused(u)' = Refused(u)
      /\ \A u \in Threads : \A r \in DOMAIN roots : InHand(u, r)' <=> InHand(u, r)
      /\ \A e \in Dispatchers : \A r \in DOMAIN roots : Waits(e, r) => Waits(e, r)'
      /\ \A r \in DOMAIN roots : InTurn(r) => InTurn(r)'
      /\ \A r \in DOMAIN roots : Abandoned(r) => Abandoned(r)'
      /\ RootsGrow
  BY <1>1, <1>2, SameGrow
     DEF Refused, InHand, Active, Waits, Abandoned, Left, InTurn
<1>7. \A i \in DOMAIN old :
         /\ Waits(d, old[i])
         /\ \A q \in DOMAIN roots :
               q < old[i] /\ roots[q].thread = roots[old[i]].thread =>
                   \/ roots[q].verdicts = 1
                   \/ \E k \in DOMAIN old : k < i /\ old[k] = q
  BY <1>o, <1>1, <1>2 DEF LineInv
<1>8. LineInv(d)'
  <2>1. Waits(d, j)' /\ InTurn(j)'
    <3>1. InTurn(j)
      BY <1>4, <1>7 DEF InTurn
    <3> QED BY <1>4, <1>6, <1>7, <3>1
  <2>2. ASSUME NEW i \in DOMAIN new
        PROVE  /\ Waits(d, new[i])' /\ new[i] # j
               /\ \A q \in DOMAIN roots :
                     q < new[i] /\ roots[q].thread = roots[new[i]].thread =>
                         \/ roots[q].verdicts = 1 \/ q = j
                         \/ \E k \in DOMAIN new : k < i /\ new[k] = q
    <3>1. i + 1 \in DOMAIN old /\ new[i] = old[i + 1] /\ i \in Nat /\ new[i] \in DOMAIN roots
      BY <1>4
    <3>2. Waits(d, new[i])'
      BY <1>6, <1>7, <3>1
    <3>3. new[i] # j
      BY <1>5 DEF Elems
    <3>4. ASSUME NEW k \in DOMAIN old, k < i + 1
          PROVE  old[k] = j \/ \E m \in DOMAIN new : m < i /\ new[m] = old[k]
      <4>1. k = 1 \/ (k - 1 \in DOMAIN new /\ new[k - 1] = old[k] /\ k - 1 < i)
        BY <1>4, <3>1, <3>4
      <4> QED BY <1>4, <4>1
    <3> QED BY <1>7, <3>1, <3>2, <3>3, <3>4
  <2>3. roots' = roots
    BY <1>2
  <2>4. running'[d] # 0 => Waits(d, running[d])' /\ InTurn(running[d])'
    BY <1>j, <2>1 DEF Waits, InTurn
  <2> QED BY <1>w, <1>j, <1>5, <2>2, <2>3, <2>4 DEF LineInv
<1>9. ASSUME NEW e \in Dispatchers PROVE LineInv(e)'
  <2>1. CASE e = d
    BY <1>8, <2>1
  <2>2. CASE e # d
    BY <1>1, <1>3, <1>6, <2>2, LineFrame
  <2> QED BY <2>1, <2>2
<1>10. \A r \in DOMAIN roots : RootInv(r)'
  <2>1. ASSUME NEW r \in DOMAIN roots PROVE RootInv(r)'
    <3>1. roots'[r].verdicts \in {0, 1}
      BY <1>2 DEF OrderInv, RootInv
    <3> QED BY <1>1, <1>2, <1>6, <3>1, RootsFrame
  <2> QED BY <2>1
<1>11. \A u \in Threads : HandInv(u)'
  BY <1>1, <1>2, <1>6, HandFrame
<1>12. ListsInv'
  BY <1>1, <1>2, <1>6, ListsFrame
<1>13. KeptInv'
  <2>1. ASSUME NEW r \in DOMAIN roots, Queued(r) PROVE Queued(r)'
    <3>1. CASE roots[r].owner = d
      <4>1. PICK i \in DOMAIN old : old[i] = r
        BY <1>o, <1>1, <1>2, <2>1, <3>1 DEF Queued
      <4>2. r = j \/ \E k \in DOMAIN new : new[k] = r
        BY <1>4, <4>1
      <4> QED BY <1>w, <1>j, <1>2, <3>1, <4>2 DEF Queued
    <3>2. CASE roots[r].owner # d
      BY <1>1, <1>2, <1>3, <2>1, <3>2 DEF Queued
    <3> QED BY <3>1, <3>2
  <2>2. ASSUME NEW r \in DOMAIN roots, Kept(r) PROVE Kept(r)'
    <3>1. InHand(roots[r].thread, r)' <=> InHand(roots[r].thread, r)
      BY <1>1, <1>2, <1>6
    <3> QED BY <1>2, <1>6, <2>1, <2>2, <3>1 DEF Kept
  <2> QED BY <1>2, <2>2 DEF OrderInv, KeptInv
<1> QED BY <1>2, <1>9, <1>10, <1>11, <1>12, <1>13 DEF OrderInv

LEMMA ConcludedInv ==
    ASSUME IInv, TypeOK', OrderInv, NEW c \in DOMAIN roots, Concluded(c)
    PROVE  \A r \in DOMAIN roots' : RootInv(r)'
<1>1. ASSUME NEW r \in DOMAIN roots PROVE RootInv(r)'
  <2>1. roots'[r].verdicts \in {0, 1} /\ roots'[r].built = roots[r].built
    BY DEF OrderInv, RootInv, Concluded
  <2> QED BY <2>1, RootsFrame DEF IInv, Concluded
<1> QED BY <1>1 DEF Concluded

\* What the worker has taken comes in its turn.
LEMMA RunTurn ==
    ASSUME IInv, OrderInv, NEW d \in Dispatchers, RunJob(d)
    PROVE  /\ running[d] \in DOMAIN roots /\ Waits(d, running[d]) /\ InTurn(running[d])
           /\ Concluded(running[d])
<1>1. running[d] \in DOMAIN roots /\ roots \in Seq(Roots) /\ Conclude(running[d])
  BY ListTypes DEF IInv, RunJob
<1>2. Waits(d, running[d]) /\ InTurn(running[d])
  BY DEF OrderInv, LineInv, RunJob
<1> QED BY <1>1, <1>2, ConcludeGrow DEF Waits

LEMMA RunJobOrder ==
    ASSUME IInv, TypeOK', OrderInv, NEW d \in Dispatchers, RunJob(d)
    PROVE  OrderInv'
<1>c. PICK c : c = running[d]
  OBVIOUS
<1>1. /\ c \in DOMAIN roots /\ Waits(d, c) /\ Concluded(c) /\ RootsGrow
      /\ DOMAIN roots' = DOMAIN roots
      /\ roots'[c].verdicts = 1
      /\ \A q \in DOMAIN roots \ {c} : roots'[q] = roots[q]
  BY <1>c, RunTurn DEF Concluded
<1>2. /\ TypeOK /\ UNCHANGED <<orphans, jobs, hook, removal>>
      /\ running \in [Dispatchers -> DOMAIN roots \cup {0}]
      /\ running' = [running EXCEPT ![d] = 0]
      /\ \A r \in DOMAIN roots :
            roots[r].thread \in Threads /\ roots[r].owner \in Dispatchers /\ r \in Nat /\ r # 0
  <2>1. \A r \in DOMAIN roots :
           roots[r].thread \in Threads /\ roots[r].owner \in Dispatchers /\ r \in Nat /\ r # 0
    BY ListTypes DEF IInv, Roots
  <2> QED BY <2>1 DEF IInv, TypeOK, RunJob
<1>3. running'[d] = 0 /\ \A e \in Dispatchers \ {d} : running'[e] = running[e]
  BY <1>2
<1>4. /\ \A u \in Threads : Refused(u)' = Refused(u)
      /\ \A u \in Threads : \A r \in DOMAIN roots : InHand(u, r)' <=> InHand(u, r)
      /\ \A u \in Threads : Left(u)' <=> Left(u)
  BY <1>2 DEF Refused, InHand, Active, Left
<1>5. \A e \in Dispatchers : \A r \in DOMAIN roots \ {c} : Waits(e, r) => Waits(e, r)'
  BY <1>1, <1>2, <1>4 DEF Waits
<1>6. \A r \in DOMAIN roots : RootInv(r)'
  BY <1>1, ConcludedInv
<1>7. ASSUME NEW u \in Threads PROVE HandInv(u)'
  <2>1. \A r \in DOMAIN roots : InHand(u, r) => r # c
    BY <1>1 DEF OrderInv, HandInv, Waits
  <2> QED BY <1>1, <1>2, <2>1, HandFrame
<1>8. LineInv(d)'
  <2>1. LineInv(d) /\ \A i \in DOMAIN jobs[d] : jobs[d][i] \in DOMAIN roots
    BY <1>2, ListTypes, ElementOfSeq, LenProperties DEF OrderInv
  <2>2. ASSUME NEW i \in DOMAIN jobs[d]
        PROVE  /\ Waits(d, jobs[d][i])' /\ jobs[d][i] # 0
               /\ \A q \in DOMAIN roots' :
                     q < jobs[d][i] /\ roots'[q].thread = roots'[jobs[d][i]].thread =>
                         \/ roots'[q].verdicts = 1
                         \/ \E k \in DOMAIN jobs[d] : k < i /\ jobs[d][k] = q
    <3>1. jobs[d][i] \in DOMAIN roots \ {c} /\ Waits(d, jobs[d][i])
      BY <1>c, <2>1 DEF LineInv
    <3>2. Waits(d, jobs[d][i])'
      BY <1>2, <1>5, <3>1
    <3>3. ASSUME NEW q \in DOMAIN roots', q < jobs[d][i],
                 roots'[q].thread = roots'[jobs[d][i]].thread
          PROVE  \/ roots'[q].verdicts = 1
                 \/ \E k \in DOMAIN jobs[d] : k < i /\ jobs[d][k] = q
      <4>1. q \in DOMAIN roots /\ roots[q].thread = roots[jobs[d][i]].thread
        BY <1>1, <3>1, <3>3 DEF RootsGrow
      <4>2. \/ roots[q].verdicts = 1 \/ q = c
            \/ \E k \in DOMAIN jobs[d] : k < i /\ jobs[d][k] = q
        BY <1>c, <2>1, <3>3, <4>1 DEF LineInv
      <4> QED BY <1>1, <4>1, <4>2 DEF RootsGrow
    <3> QED BY <1>2, <3>1, <3>2, <3>3
  <2>3. jobs' = jobs /\ Distinct(jobs[d])
    BY <1>2, <2>1 DEF LineInv
  <2> QED BY <1>3, <2>2, <2>3 DEF LineInv
<1>9. ASSUME NEW e \in Dispatchers PROVE LineInv(e)'
  <2>1. CASE e = d
    BY <1>8, <2>1
  <2>2. CASE e # d
    <3>1. \A r \in DOMAIN roots : Waits(e, r) => Waits(e, r)'
      BY <1>1, <1>5, <2>2 DEF Waits
    <3> QED BY <1>1, <1>2, <1>3, <2>2, <3>1, LineFrame
  <2> QED BY <2>1, <2>2
<1>10. ListsInv'
  <2>1. \A r \in DOMAIN roots : Abandoned(r) => r # c
    BY <1>1 DEF Abandoned, OrderInv, RootInv, Waits
  <2>2. \A r \in DOMAIN roots : Abandoned(r) => Abandoned(r)'
    BY <1>1, <1>2, <1>4, <2>1 DEF Abandoned
  <2> QED BY <1>2, <1>4, <2>2, ListsFrame
<1>11. KeptInv'
  <2>1. ASSUME NEW r \in DOMAIN roots \ {c}, Kept(r) PROVE Kept(r)'
    <3>1. /\ roots'[r] = roots[r]
          /\ InHand(roots[r].thread, r)' <=> InHand(roots[r].thread, r)
      BY <1>1, <1>2, <1>4
    <3>2. Queued(r) => Queued(r)'
      BY <1>c, <1>2, <1>3, <3>1 DEF Queued
    <3> QED BY <1>2, <1>4, <2>1, <3>1, <3>2 DEF Kept
  <2> QED BY <1>1, <2>1 DEF OrderInv, KeptInv
<1> QED BY <1>1, <1>6, <1>7, <1>9, <1>10, <1>11 DEF OrderInv

\* An abandoned root is in no hand and waits for no sequencer, and its turn has come.
LEMMA AbandonedAlone ==
    ASSUME IInv, OrderInv, NEW r \in DOMAIN roots, Abandoned(r)
    PROVE  /\ \A u \in Threads : ~InHand(u, r)
           /\ \A d \in Dispatchers : ~Waits(d, r)
           /\ InTurn(r) /\ roots[r].verdicts = 0
<1>1. ASSUME NEW u \in Threads, InHand(u, r) PROVE FALSE
  <2>1. roots[r].thread = u /\ HookInv(u)
    BY <1>1 DEF OrderInv, HandInv, IInv
  <2>2. Left(u)
    BY <2>1 DEF Abandoned
  <2> QED BY <1>1, <2>1, <2>2 DEF Left, InHand, HookInv
<1> QED BY <1>1 DEF Abandoned, OrderInv, RootInv, Waits

\* A step that refuses an abandoned root.
LEMMA RefuseFrame ==
    ASSUME IInv, TypeOK', OrderInv, NEW c \in DOMAIN roots, Abandoned(c), Concluded(c),
           UNCHANGED <<jobs, running>>,
           \A u \in Threads : \A r \in DOMAIN roots : InHand(u, r)' <=> InHand(u, r),
           \A u \in Threads :
              \/ hook'[u] = hook[u]
              \/ /\ hook'[u].held => hook'[u].root # 0
                 /\ \A r \in DOMAIN roots : ~InHand(u, r)
    PROVE  /\ \A r \in DOMAIN roots' : RootInv(r)'
           /\ \A u \in Threads : HandInv(u)'
           /\ \A d \in Dispatchers : LineInv(d)'
<1>1. /\ TypeOK /\ RootsGrow /\ DOMAIN roots' = DOMAIN roots
      /\ \A q \in DOMAIN roots \ {c} : roots'[q] = roots[q]
      /\ \A r \in DOMAIN roots : roots[r].thread \in Threads
  BY ListTypes DEF IInv, Concluded, Roots
<1>2. /\ \A u \in Threads : ~InHand(u, c)
      /\ \A d \in Dispatchers : ~Waits(d, c)
  BY AbandonedAlone
<1>3. ASSUME NEW u \in Threads PROVE HandInv(u)'
  <2>1. CASE hook'[u] = hook[u]
    BY <1>1, <1>2, <2>1, HandFrame
  <2>2. CASE /\ hook'[u].held => hook'[u].root # 0
             /\ \A r \in DOMAIN roots : ~InHand(u, r)
    BY <1>1, <2>2 DEF HandInv, Active
  <2> QED BY <2>1, <2>2
<1>4. \A d \in Dispatchers : LineInv(d)'
  <2>1. \A d \in Dispatchers : \A r \in DOMAIN roots : Waits(d, r) => Waits(d, r)'
    BY <1>1, <1>2 DEF Waits
  <2> QED BY <1>1, <2>1, LineFrame
<1> QED BY <1>3, <1>4, ConcludedInv

\* What a thread concludes is its own root, or an orphan; either in its turn.
LEMMA HereTurn ==
    ASSUME IInv, OrderInv, NEW t \in Threads, ConcludeHere(t)
    PROVE  LET c == Head(hook[t].todo)
           IN  /\ c \in DOMAIN roots /\ InTurn(c) /\ Concluded(c) /\ roots[c].verdicts = 0
               /\ \/ /\ hook[t].pc = "release" /\ Tail(hook[t].todo) = <<>>
                     /\ InHand(t, c) /\ Active(t) = c
                  \/ hook[t].pc = "root" /\ Abandoned(c) /\ c \in Elems(Refused(t))
<1> DEFINE c == Head(hook[t].todo)
<1>1. /\ hook[t].todo # <<>> /\ hook[t].todo \in Seq(DOMAIN roots) /\ Conclude(c)
      /\ HookInv(t) /\ HandInv(t) /\ TypeOK /\ ListsInv
  BY HookTypes DEF ConcludeHere, IInv, OrderInv
<1>2. c \in DOMAIN roots /\ c \in Elems(hook[t].todo)
  BY <1>1, ElemsTail
<1>3. CASE hook[t].pc = "release"
  <2>1. Active(t) # 0 /\ Active(t) \in DOMAIN roots
    BY <1>1, <1>3, HookTypes DEF HookInv
  <2>2. InHand(t, Active(t))
    BY <1>1, <2>1 DEF InHand
  <2>3. /\ hook[t].todo = <<Active(t)>> /\ InTurn(Active(t))
        /\ roots[Active(t)].verdicts = 0
    BY <1>1, <1>3, <2>1, <2>2 DEF HandInv
  <2>4. c = Active(t) /\ Tail(hook[t].todo) = <<>>
    BY <2>3
  <2>5. Concluded(c)
    BY <1>1, <1>2, <2>3, <2>4, ConcludeGrow DEF TypeOK
  <2> QED BY <1>2, <1>3, <2>2, <2>3, <2>4, <2>5
<1>4. CASE hook[t].pc = "root"
  <2>1. c \in Elems(Refused(t))
    BY <1>2, <1>4 DEF Refused
  <2>2. Abandoned(c)
    BY <1>1, <2>1 DEF ListsInv, AbandonedIn
  <2>3. InTurn(c) /\ roots[c].verdicts = 0
    BY <1>2, <2>2, AbandonedAlone
  <2>4. Concluded(c)
    BY <1>1, <1>2, <2>3, ConcludeGrow DEF TypeOK
  <2> QED BY <1>2, <1>4, <2>1, <2>2, <2>3, <2>4
<1> QED BY <1>1, <1>3, <1>4 DEF HookInv

LEMMA ConcludeHereOrder ==
    ASSUME IInv, TypeOK', OrderInv, NEW t \in Threads, ConcludeHere(t)
    PROVE  OrderInv'
<1>c. PICK c : c = Head(hook[t].todo)
  OBVIOUS
<1>l. PICK tail : tail = Tail(hook[t].todo)
  OBVIOUS
<1>1. /\ c \in DOMAIN roots /\ InTurn(c) /\ Concluded(c) /\ roots[c].verdicts = 0
      /\ \/ /\ hook[t].pc = "release" /\ tail = <<>> /\ InHand(t, c) /\ Active(t) = c
         \/ hook[t].pc = "root" /\ Abandoned(c) /\ c \in Elems(Refused(t))
  BY <1>c, <1>l, HereTurn
<1>2. /\ hook \in [Threads -> HookStates(DOMAIN roots)] /\ TypeOK /\ HookInv(t)
      /\ HandInv(t) /\ ListsInv
      /\ hook[t].todo # <<>> /\ UNCHANGED <<orphans, jobs, running, removal>>
      /\ Becomes(t, [hook[t] EXCEPT !.todo = tail])
      /\ \A r \in DOMAIN roots : roots[r].thread \in Threads
  BY <1>l, ListTypes DEF ConcludeHere, IInv, TypeOK, OrderInv, HookOnly, queues, Roots
<1>3. /\ RootsGrow /\ DOMAIN roots' = DOMAIN roots /\ roots'[c].verdicts = 1
      /\ \A q \in DOMAIN roots \ {c} : roots'[q] = roots[q]
  BY <1>1 DEF Concluded
<1>4. /\ \A u \in Threads \ {t} : hook'[u] = hook[u]
      /\ hook'[t].pc = hook[t].pc /\ hook'[t].root = hook[t].root
      /\ hook'[t].held = hook[t].held /\ hook'[t].next = hook[t].next
      /\ hook'[t].todo = tail
  BY <1>2 DEF Becomes, HookStates
<1>5. \A u \in Threads : Left(u) => Left(u)'
  BY <1>2, <1>4 DEF Left, HookInv
<1>6. \A r \in DOMAIN roots \ {c} : Abandoned(r) => Abandoned(r)'
  BY <1>2, <1>3, <1>5 DEF Abandoned
<1>7. \A r \in DOMAIN roots \ {c} : Queued(r) => Queued(r)'
  BY <1>2, <1>3 DEF Queued
<1>8. CASE hook[t].pc = "release" /\ tail = <<>> /\ InHand(t, c) /\ Active(t) = c
  <2>1. /\ \A r \in DOMAIN roots : ~InHand(t, r)'
        /\ \A r \in DOMAIN roots \ {c} : ~InHand(t, r)
        /\ \A u \in Threads \ {t} : \A r \in DOMAIN roots : InHand(u, r)' <=> InHand(u, r)
        /\ \A u \in Threads : Refused(u)' = Refused(u)
        /\ ~Left(t) /\ roots[c].thread = t
    BY <1>1, <1>2, <1>4, <1>8 DEF InHand, Active, Refused, Left, HandInv
  <2>2. ASSUME NEW u \in Threads PROVE HandInv(u)'
    <3>1. CASE u = t
      BY <1>2, <1>3, <1>4, <2>1, <3>1 DEF HandInv, Active
    <3>2. CASE u # t
      <4>1. \A r \in DOMAIN roots : InHand(u, r) => r # c
        BY <2>1, <3>2 DEF OrderInv, HandInv
      <4> QED BY <1>2, <1>3, <1>4, <3>2, <4>1, HandFrame
    <3> QED BY <3>1, <3>2
  <2>3. \A d \in Dispatchers : LineInv(d)'
    <3>1. \A d \in Dispatchers : \A r \in DOMAIN roots : Waits(d, r) => Waits(d, r)'
      BY <1>2, <1>3, <1>8, <2>1 DEF Waits
    <3> QED BY <1>2, <1>3, <3>1, LineFrame
  <2>4. ListsInv'
    <3>1. ~Abandoned(c)
      BY <2>1 DEF Abandoned
    <3>2. \A r \in DOMAIN roots : Abandoned(r) => Abandoned(r)'
      BY <1>6, <3>1
    <3> QED BY <1>2, <2>1, <3>2, ListsFrame
  <2>5. KeptInv'
    <3>1. ASSUME NEW r \in DOMAIN roots \ {c}, Kept(r) PROVE Kept(r)'
      <4>1. InHand(roots[r].thread, r) => InHand(roots[r].thread, r)'
        BY <1>2, <1>3, <2>1
      <4>2. roots'[r].thread = roots[r].thread
        BY <1>3
      <4> QED BY <1>2, <1>7, <2>1, <3>1, <4>1, <4>2 DEF Kept
    <3> QED BY <1>3, <3>1 DEF OrderInv, KeptInv
  <2> QED BY <1>1, <2>2, <2>3, <2>4, <2>5, ConcludedInv DEF OrderInv
<1>9. CASE hook[t].pc = "root" /\ Abandoned(c) /\ c \in Elems(Refused(t))
  <2>1. /\ Active(t) = 0 /\ ~hook[t].held
        /\ \A r \in DOMAIN roots : ~InHand(t, r)
        /\ \A u \in Threads : \A r \in DOMAIN roots : InHand(u, r)' <=> InHand(u, r)
        /\ \A u \in Threads \ {t} : Refused(u)' = Refused(u)
        /\ Refused(t)' = tail
    BY <1>2, <1>4, <1>9 DEF InHand, Active, Refused, HandInv, HookInv
  <2>2. /\ \A r \in DOMAIN roots' : RootInv(r)'
        /\ \A u \in Threads : HandInv(u)'
        /\ \A d \in Dispatchers : LineInv(d)'
    BY <1>1, <1>2, <1>4, <1>9, <2>1, RefuseFrame
  <2>3. /\ Elems(Refused(t)) = Elems(tail) \cup {c} /\ c \notin Elems(tail)
        /\ Distinct(tail)
    <3>1. Refused(t) \in Seq(DOMAIN roots) /\ Refused(t) # <<>>
          /\ c = Head(Refused(t)) /\ tail = Tail(Refused(t)) /\ Distinct(Refused(t))
      BY <1>c, <1>l, <1>2, <1>9, ListTypes DEF Refused, ListsInv, AbandonedIn
    <3> QED BY <3>1, ElemsTail
  <2>4. \A o \in Owners : removal[o].todo = <<>>
    BY <1>2 DEF IInv, RemovalInv, Out, HooksGone
  <2>5. /\ \A d \in Dispatchers : Elems(orphans[d]) \subseteq DOMAIN roots \ {c}
        /\ \A u \in Threads \ {t} : Elems(Refused(u)) \subseteq DOMAIN roots \ {c}
        /\ Elems(tail) \subseteq DOMAIN roots \ {c}
    BY <1>2, <1>9, <2>3, ListTypes DEF ListsInv, Apart
  <2>6. ListsInv'
    <3>1. \A d \in Dispatchers : AbandonedIn(orphans[d])'
      BY <1>2, <1>6, <2>5 DEF ListsInv, AbandonedIn
    <3>2. ASSUME NEW u \in Threads PROVE AbandonedIn(Refused(u))'
      <4>1. CASE u = t
        BY <1>2, <1>6, <2>1, <2>3, <2>5, <4>1 DEF ListsInv, AbandonedIn
      <4>2. CASE u # t
        BY <1>2, <1>6, <2>1, <2>5, <4>2 DEF ListsInv, AbandonedIn
      <4> QED BY <4>1, <4>2
    <3>3. \A o \in Owners : AbandonedIn(removal[o].todo)'
      BY <1>2, <2>4, ElemsSmall DEF AbandonedIn
    <3>4. \A d \in Dispatchers, u \in Threads : Apart(orphans[d], Refused(u))'
      BY <1>2, <2>1, <2>3 DEF ListsInv, Apart
    <3>5. \A d \in Dispatchers, o \in Owners : Apart(orphans[d], removal[o].todo)'
      BY <1>2 DEF ListsInv
    <3>6. \A u, v \in Threads : u # v => Apart(Refused(u), Refused(v))'
      BY <1>2, <2>1, <2>3 DEF ListsInv, Apart
    <3> QED BY <3>1, <3>2, <3>3, <3>4, <3>5, <3>6 DEF ListsInv
  <2>7. KeptInv'
    <3>1. ASSUME NEW r \in DOMAIN roots \ {c}, Kept(r) PROVE Kept(r)'
      <4>1. InHand(roots[r].thread, r) => InHand(roots[r].thread, r)'
        BY <1>2, <1>3, <2>1
      <4>2. roots'[r].thread = roots[r].thread
        BY <1>3
      <4>3. CASE \E u \in Threads : r \in Elems(Refused(u))
        BY <2>1, <2>3, <4>3 DEF Kept
      <4>4. CASE ~\E u \in Threads : r \in Elems(Refused(u))
        BY <1>2, <1>7, <3>1, <4>1, <4>2, <4>4 DEF Kept
      <4> QED BY <4>3, <4>4
    <3> QED BY <1>3, <3>1 DEF OrderInv, KeptInv
  <2> QED BY <2>2, <2>6, <2>7 DEF OrderInv
<1> QED BY <1>1, <1>8, <1>9

\* So is what a removal concludes: no other actor has a list then.
LEMMA OrphanTurn ==
    ASSUME IInv, OrderInv, NEW o \in Owners, ConcludeOrphan(o)
    PROVE  LET c == Head(removal[o].todo)
           IN  /\ c \in DOMAIN roots /\ InTurn(c) /\ Concluded(c) /\ roots[c].verdicts = 0
               /\ Abandoned(c) /\ c \in Elems(removal[o].todo)
               /\ \A u \in Threads : Refused(u) = <<>>
               /\ \A p \in Owners \ {o} : removal[p].todo = <<>>
<1> DEFINE c == Head(removal[o].todo)
<1>1. /\ removal[o].todo # <<>> /\ removal[o].todo \in Seq(DOMAIN roots) /\ Conclude(c)
      /\ RemovalInv(o) /\ TypeOK /\ ListsInv
  BY ListTypes DEF ConcludeOrphan, IInv, OrderInv
<1>2. c \in DOMAIN roots /\ c \in Elems(removal[o].todo)
  BY <1>1, ElemsTail
<1>3. Abandoned(c)
  BY <1>1, <1>2 DEF ListsInv, AbandonedIn
<1>4. InTurn(c) /\ roots[c].verdicts = 0
  BY <1>2, <1>3, AbandonedAlone
<1>5. Concluded(c)
  BY <1>1, <1>2, <1>4, ConcludeGrow DEF TypeOK
<1>6. \A u \in Threads : Refused(u) = <<>>
  BY <1>1 DEF RemovalInv, HooksGone, Out, Refused
<1>7. \A p \in Owners \ {o} : removal[p].todo = <<>>
  <2>1. ASSUME NEW p \in Owners, removal[p].todo # <<>> PROVE lock = p
    BY <2>1 DEF IInv, RemovalInv, Holding, HooksGone
  <2> QED BY <1>1, <2>1
<1> QED BY <1>2, <1>3, <1>4, <1>5, <1>6, <1>7

LEMMA ConcludeOrphanOrder ==
    ASSUME IInv, TypeOK', OrderInv, NEW o \in Owners, ConcludeOrphan(o)
    PROVE  OrderInv'
<1>c. PICK c : c = Head(removal[o].todo)
  OBVIOUS
<1>l. PICK tail : tail = Tail(removal[o].todo)
  OBVIOUS
<1>1. /\ c \in DOMAIN roots /\ Concluded(c) /\ Abandoned(c)
      /\ \A u \in Threads : Refused(u) = <<>>
      /\ \A p \in Owners \ {o} : removal[p].todo = <<>>
  BY <1>c, OrphanTurn
<1>2. /\ removal \in [Owners -> RemovalStates(DOMAIN roots)] /\ TypeOK /\ ListsInv
      /\ removal[o].todo # <<>> /\ UNCHANGED <<orphans, jobs, running, hook>>
      /\ removal' = [removal EXCEPT ![o] = [removal[o] EXCEPT !.todo = tail]]
      /\ \A r \in DOMAIN roots : roots[r].thread \in Threads
  BY <1>l, ListTypes
     DEF ConcludeOrphan, RemovalBecomes, RemovalOnly, IInv, TypeOK, OrderInv, Roots
<1>3. /\ RootsGrow /\ DOMAIN roots' = DOMAIN roots /\ roots'[c].verdicts = 1
      /\ \A q \in DOMAIN roots \ {c} : roots'[q] = roots[q]
  BY <1>1 DEF Concluded
<1>4. removal'[o].todo = tail /\ \A p \in Owners \ {o} : removal'[p] = removal[p]
  BY <1>2 DEF RemovalStates
<1>5. /\ \A u \in Threads : Refused(u)' = Refused(u) /\ (Left(u)' <=> Left(u))
      /\ \A u \in Threads : \A r \in DOMAIN roots : InHand(u, r)' <=> InHand(u, r)
  BY <1>2 DEF Refused, Left, InHand, Active
<1>6. \A r \in DOMAIN roots \ {c} : Abandoned(r) => Abandoned(r)'
  BY <1>2, <1>3, <1>5 DEF Abandoned
<1>7. /\ \A r \in DOMAIN roots' : RootInv(r)'
      /\ \A u \in Threads : HandInv(u)'
      /\ \A d \in Dispatchers : LineInv(d)'
  BY <1>1, <1>2, <1>5, RefuseFrame
<1>8. /\ Elems(removal[o].todo) = Elems(tail) \cup {c} /\ c \notin Elems(tail)
      /\ Distinct(tail)
  <2>1. removal[o].todo \in Seq(DOMAIN roots) /\ Distinct(removal[o].todo)
    BY <1>2, ListTypes DEF ListsInv, AbandonedIn
  <2> QED BY <1>c, <1>l, <1>2, <2>1, ElemsTail
<1>9. /\ \A d \in Dispatchers : Elems(orphans[d]) \subseteq DOMAIN roots \ {c}
      /\ Elems(tail) \subseteq DOMAIN roots \ {c}
  BY <1>2, <1>8, ListTypes DEF ListsInv, Apart
<1>10. ListsInv'
  <2>1. \A d \in Dispatchers : AbandonedIn(orphans[d])'
    BY <1>2, <1>6, <1>9 DEF ListsInv, AbandonedIn
  <2>2. \A u \in Threads : AbandonedIn(Refused(u))'
    BY <1>1, <1>5, ElemsSmall DEF AbandonedIn
  <2>3. ASSUME NEW p \in Owners PROVE AbandonedIn(removal[p].todo)'
    <3>1. CASE p = o
      BY <1>2, <1>4, <1>6, <1>8, <1>9, <3>1 DEF ListsInv, AbandonedIn
    <3>2. CASE p # o
      BY <1>1, <1>4, <3>2, ElemsSmall DEF AbandonedIn
    <3> QED BY <3>1, <3>2
  <2>4. \A d \in Dispatchers, u \in Threads : Apart(orphans[d], Refused(u))'
    BY <1>2, <1>5 DEF ListsInv, Apart
  <2>5. \A d \in Dispatchers, p \in Owners : Apart(orphans[d], removal[p].todo)'
    BY <1>2, <1>4, <1>8 DEF ListsInv, Apart
  <2>6. \A u, v \in Threads : u # v => Apart(Refused(u), Refused(v))'
    BY <1>2, <1>5 DEF ListsInv, Apart
  <2> QED BY <2>1, <2>2, <2>3, <2>4, <2>5, <2>6 DEF ListsInv
<1>11. KeptInv'
  <2>1. ASSUME NEW r \in DOMAIN roots \ {c}, Kept(r) PROVE Kept(r)'
    <3>1. roots'[r] = roots[r] /\ (InHand(roots[r].thread, r) => InHand(roots[r].thread, r)')
      BY <1>2, <1>3, <1>5
    <3>2. Queued(r) => Queued(r)'
      BY <1>2, <3>1 DEF Queued
    <3>3. CASE \E p \in Owners : r \in Elems(removal[p].todo)
      BY <1>4, <1>8, <3>3 DEF Kept
    <3>4. CASE ~\E p \in Owners : r \in Elems(removal[p].todo)
      BY <1>2, <1>5, <2>1, <3>1, <3>2, <3>4 DEF Kept
    <3> QED BY <3>3, <3>4
  <2> QED BY <1>3, <2>1 DEF OrderInv, KeptInv
<1> QED BY <1>7, <1>10, <1>11 DEF OrderInv

\* The steps of owners that conclude nothing.
OwnersElse ==
    \/ RemoveInside \/ \E d \in Dispatchers : Install(d)
    \/ \E o \in Owners :
          \/ Remove(o) \/ WithdrawLocked(o) \/ AwaitHooks(o) \/ AwaitSequencer(o)
          \/ TakeRemoving(o) \/ Removed(o) \/ TimeOut(o)
    \/ UNCHANGED vars

LEMMA OwnersElseKeep ==
    ASSUME IInv, OwnersElse
    PROVE  /\ UNCHANGED <<queues, roots, hook>>
           /\ \A p \in Owners : removal'[p].todo = removal[p].todo
<1>1. removal \in [Owners -> RemovalStates(DOMAIN roots)]
  BY DEF IInv, TypeOK
<1>2. CASE RemoveInside \/ \E d \in Dispatchers : Install(d)
  BY <1>2 DEF RemoveInside, Install, RemovalOnly, queues
<1>3. CASE UNCHANGED vars
  BY <1>3 DEF vars
<1>4. ASSUME NEW o \in Owners,
             \/ Remove(o) \/ WithdrawLocked(o) \/ AwaitHooks(o) \/ AwaitSequencer(o)
             \/ TakeRemoving(o) \/ Removed(o) \/ TimeOut(o)
      PROVE  /\ UNCHANGED <<queues, roots, hook>>
             /\ \A p \in Owners : removal'[p].todo = removal[p].todo
  <2>1. UNCHANGED <<queues, roots, hook>>
    BY <1>4 DEF Remove, WithdrawLocked, AwaitHooks, AwaitSequencer, TakeRemoving, Removed,
      TimeOut, RemovalOnly, queues
  <2>2. \/ \E pc : RemovalGoes(o, pc)
        \/ \E d : RemovalBecomes(o, [removal[o] EXCEPT !.pc = "orphans", !.target = d])
        \/ RemovalBecomes(o, [removal[o] EXCEPT !.pc = "idle", !.target = NoDispatcher])
    BY <1>4 DEF Remove, WithdrawLocked, AwaitHooks, AwaitSequencer, TakeRemoving, Removed,
      TimeOut
  <2>3. CASE \E pc : RemovalGoes(o, pc)
    BY <1>1, <2>1, <2>3 DEF RemovalGoes, RemovalBecomes, RemovalStates
  <2>4. CASE \E d : RemovalBecomes(o, [removal[o] EXCEPT !.pc = "orphans", !.target = d])
    BY <1>1, <2>1, <2>4 DEF RemovalBecomes, RemovalStates
  <2>5. CASE RemovalBecomes(o, [removal[o] EXCEPT !.pc = "idle", !.target = NoDispatcher])
    BY <1>1, <2>1, <2>5 DEF RemovalBecomes, RemovalStates
  <2> QED BY <2>2, <2>3, <2>4, <2>5
<1> QED BY <1>2, <1>3, <1>4 DEF OwnersElse

LEMMA OwnersOrder ==
    ASSUME IInv, TypeOK', OrderInv, OwnersElse
    PROVE  OrderInv'
<1>1. /\ UNCHANGED <<orphans, jobs, running, roots, hook>> /\ TypeOK
      /\ \A p \in Owners : removal'[p].todo = removal[p].todo
      /\ \A r \in DOMAIN roots : roots[r].thread \in Threads
  BY OwnersElseKeep, ListTypes DEF queues, IInv, Roots
<1>2. /\ \A u \in Threads : Refused(u)' = Refused(u) /\ (Left(u)' <=> Left(u))
      /\ \A u \in Threads : \A r \in DOMAIN roots : InHand(u, r)' <=> InHand(u, r)
  BY <1>1 DEF Refused, Left, InHand, Active
<1>3. \A r \in DOMAIN roots : Abandoned(r) => Abandoned(r)'
  BY <1>1, <1>2 DEF Abandoned
<1>4. ListsInv'
  BY <1>1, <1>2, <1>3, ListsFrame
<1>5. KeptInv'
  <2>1. ASSUME NEW r \in DOMAIN roots, Kept(r) PROVE Kept(r)'
    <3>1. InHand(roots[r].thread, r)' <=> InHand(roots[r].thread, r)
      BY <1>1, <1>2
    <3>2. Queued(r)' <=> Queued(r)
      BY <1>1 DEF Queued
    <3> QED BY <1>1, <1>2, <2>1, <3>1, <3>2 DEF Kept
  <2> QED BY <1>1, <2>1 DEF OrderInv, KeptInv
<1>6. /\ \A r \in DOMAIN roots : RootInv(r)'
      /\ \A u \in Threads : HandInv(u)'
      /\ \A d \in Dispatchers : LineInv(d)'
  BY <1>1, <1>2, PassFrame
<1> QED BY <1>1, <1>4, <1>5, <1>6 DEF OrderInv

LEMMA OrderStep ==
    ASSUME IInv, IInv', OrderInv, [Next]_vars
    PROVE  OrderInv'
<1>1. TypeOK'
  BY DEF IInv
<1>2. ASSUME NEW t \in Threads, GuestCalls(t) \/ HookSteps(t) \/ PostFails(t)
      PROVE  OrderInv'
  <2>1. CASE Moves(t)
    BY <1>1, <2>1, MovesOrder
  <2>2. CASE Release(t) \/ Exit(t) \/ FinishHere(t)
    BY <1>1, <2>2, ReleaseOrder, ExitOrder, FinishHereOrder
  <2>3. CASE DrainOrphans(t) \/ NewRoot(t) \/ BuildRoot(t)
    BY <1>1, <2>3, DrainOrphansOrder, NewRootOrder, BuildRootOrder
  <2>4. CASE Post(t) \/ ConcludeHere(t)
    BY <1>1, <2>4, PostOrder, ConcludeHereOrder
  <2> QED BY <1>2, <2>1, <2>2, <2>3, <2>4 DEF GuestCalls, HookSteps, Moves
<1>3. ASSUME NEW d \in Dispatchers, Worker(d) PROVE OrderInv'
  BY <1>1, <1>3, TakeJobOrder, RunJobOrder DEF Worker
<1>4. ASSUME NEW o \in Owners, RefuseOrphans(o) \/ ConcludeOrphan(o) PROVE OrderInv'
  BY <1>1, <1>4, RefuseOrphansOrder, ConcludeOrphanOrder
<1>5. CASE OwnersElse
  BY <1>1, <1>5, OwnersOrder
<1> QED BY <1>2, <1>3, <1>4, <1>5 DEF Next, RemovalSteps, OwnersElse

LEMMA OrderStarts == Init => OrderInv
<1> SUFFICES ASSUME Init PROVE OrderInv
  OBVIOUS
<1>1. DOMAIN roots = {}
  BY EmptySeq, LenProperties DEF Init
<1>2. /\ \A t \in Threads : Refused(t) = <<>> /\ ~hook[t].held
      /\ \A d \in Dispatchers : orphans[d] = <<>> /\ jobs[d] = <<>> /\ running[d] = 0
      /\ \A o \in Owners : removal[o].todo = <<>>
  BY DEF Init, Refused
<1>3. Elems(<<>>) = {} /\ Distinct(<<>>)
  BY ElemsSmall
<1>4. ListsInv
  BY <1>2, <1>3 DEF ListsInv, AbandonedIn, Apart
<1>5. \A d \in Dispatchers : LineInv(d)
  BY <1>2, <1>3, EmptySeq, LenProperties DEF LineInv
<1> QED BY <1>1, <1>2, <1>4, <1>5 DEF OrderInv, HandInv, KeptInv

LEMMA OrderInvariant == Spec => [](IInv /\ OrderInv)
<1>1. IInv /\ IInv' /\ OrderInv /\ [Next]_vars => OrderInv'
  BY OrderStep
<1> QED BY <1>1, OrderStarts, DispatchInvariant, PTL DEF Spec

-----------------------------------------------------------------------------
(* The dispatch implements DrawVerdicts. *)

LEMMA FunctionSeq ==
    ASSUME NEW S, NEW n \in Nat, NEW f \in [1 .. n -> S]
    PROVE  f \in Seq(S) /\ Len(f) = n
<1>1. f \in Seq(S)
  BY SeqDef
<1>2. DOMAIN f = 1 .. n /\ DOMAIN f = 1 .. Len(f) /\ Len(f) \in Nat
  BY <1>1, LenProperties
<1> QED BY <1>1, <1>2

\* What a root shows of itself.
Draw(r) == [thread |-> roots[r].thread, owner |-> roots[r].owner,
            built |-> roots[r].built, verdicts |-> roots[r].verdicts]
Draws == [r \in DOMAIN roots |-> Draw(r)]

\* The step a step is, seen from outside.
Seen == [Verdicts!Next]_<<Draws, freed>>

LEMMA StartMapped ==
    /\ Verdicts!Spec <=> Verdicts!Init /\ [][Verdicts!Next]_<<Draws, freed>>
    /\ Verdicts!Init <=> Draws = <<>> /\ freed = {}
BY DEF Verdicts!Spec, Verdicts!Init, Draws, Draw

LEMMA TurnOfDraws ==
    ASSUME NEW i, \A j \in 1 .. i - 1 :
                     Draws[j].thread = Draws[i].thread => Draws[j].verdicts = 1
    PROVE  Verdicts!Turn(i)
BY DEF Verdicts!Turn, Draws, Draw

LEMMA EnterMapped ==
    ASSUME NEW t \in Threads, NEW d \in Dispatchers, d \notin freed, UNCHANGED freed,
           Draws' = Append(Draws, [thread |-> t, owner |-> d,
                                   built |-> FALSE, verdicts |-> 0])
    PROVE  Seen
<1>1. Verdicts!Enter(t, d)
  BY DEF Verdicts!Enter, Draws, Draw
<1> QED BY <1>1 DEF Seen, Verdicts!Next

LEMMA BuildMapped ==
    ASSUME NEW i \in DOMAIN Draws, ~Draws[i].built, Draws[i].verdicts = 0,
           Verdicts!Turn(i), Draws' = [Draws EXCEPT ![i].built = TRUE], UNCHANGED freed
    PROVE  Seen
<1>1. Verdicts!Build(i)
  BY DEF Verdicts!Build, Draws, Draw
<1>2. i \in DOMAIN roots
  BY DEF Draws
<1> QED BY <1>1, <1>2 DEF Seen, Verdicts!Next

LEMMA ConcludeMapped ==
    ASSUME NEW i \in DOMAIN Draws, Draws[i].verdicts = 0,
           Verdicts!Turn(i), Draws' = [Draws EXCEPT ![i].verdicts = 1], UNCHANGED freed
    PROVE  Seen
<1>1. Verdicts!Conclude(i)
  BY DEF Verdicts!Conclude, Draws, Draw
<1>2. i \in DOMAIN roots
  BY DEF Draws
<1> QED BY <1>1, <1>2 DEF Seen, Verdicts!Next

LEMMA FreeMapped ==
    ASSUME freed' \in SUBSET Dispatchers, freed \subseteq freed',
           \A i \in DOMAIN Draws : Draws[i].owner \in freed' => Draws[i].verdicts = 1,
           UNCHANGED Draws
    PROVE  Seen
<1>1. Verdicts!Free
  BY DEF Verdicts!Free, Draws, Draw
<1> QED BY <1>1 DEF Seen, Verdicts!Next

\* A root whose turn has come has it as a draw.
LEMMA TurnMapped ==
    ASSUME TypeOK, NEW r \in DOMAIN roots, InTurn(r)
    PROVE  /\ Verdicts!Turn(r) /\ r \in DOMAIN Draws
           /\ Draws[r].verdicts = roots[r].verdicts /\ Draws[r].built = roots[r].built
<1>1. \A q \in 1 .. r - 1 : q \in DOMAIN roots /\ q < r
  BY LenProperties DEF TypeOK
<1>2. \A q \in DOMAIN roots :
         /\ Draws[q].thread = roots[q].thread /\ Draws[q].verdicts = roots[q].verdicts
         /\ Draws[q].built = roots[q].built
  BY DEF Draws, Draw
<1>3. \A j \in 1 .. r - 1 :
         Draws[j].thread = Draws[r].thread => Draws[j].verdicts = 1
  BY <1>1, <1>2 DEF InTurn
<1>4. Verdicts!Turn(r)
  BY <1>3, TurnOfDraws
<1>5. r \in DOMAIN Draws
  BY DEF Draws
<1> QED BY <1>2, <1>4, <1>5

LEMMA ConcludedSeen ==
    ASSUME TypeOK, NEW r \in DOMAIN roots, InTurn(r), roots[r].verdicts = 0, Concluded(r),
           freed' = freed
    PROVE  Seen
<1>1. /\ DOMAIN Draws' = DOMAIN Draws /\ DOMAIN Draws = DOMAIN roots
      /\ \A q \in DOMAIN roots \ {r} : Draws'[q] = Draws[q]
  BY DEF Draws, Draw, Concluded
<1>2. Draws'[r] = [Draws[r] EXCEPT !.verdicts = 1]
  <2>1. Draw(r)' = [Draw(r) EXCEPT !.verdicts = 1]
    BY DEF Draw, Concluded, RootsGrow
  <2> QED BY <2>1 DEF Draws, Concluded
<1>3. Draws' = [Draws EXCEPT ![r].verdicts = 1]
  BY <1>1, <1>2 DEF Draws
<1>4. /\ Verdicts!Turn(r) /\ r \in DOMAIN Draws /\ Draws[r].verdicts = 0
  BY TurnMapped
<1> QED BY <1>3, <1>4, ConcludeMapped

LEMMA BuiltRecord ==
    ASSUME NEW thread, NEW owner, NEW built, NEW verdicts, NEW now, NEW draw,
           draw = [thread |-> thread, owner |-> owner, built |-> built, verdicts |-> verdicts]
    PROVE  [draw EXCEPT !.built = now]
           = [thread |-> thread, owner |-> owner, built |-> now, verdicts |-> verdicts]
OBVIOUS

LEMMA BuildSeen ==
    ASSUME IInv, OrderInv, NEW t \in Threads, BuildRoot(t)
    PROVE  Seen
<1>a. PICK a : a = Active(t)
  OBVIOUS
<1>1. /\ a \in DOMAIN roots /\ InTurn(a) /\ roots[a].verdicts = 0 /\ ~roots[a].built
      /\ TypeOK /\ freed' = freed
      /\ roots' = [roots EXCEPT ![a].built = TRUE]
  BY <1>a, BuildTurn DEF IInv, BuildRoot, HookOnly, history
<1>2. /\ RootsGrow /\ DOMAIN roots' = DOMAIN roots
      /\ roots'[a].built /\ roots'[a].verdicts = roots[a].verdicts
      /\ roots'[a].thread = roots[a].thread /\ roots'[a].owner = roots[a].owner
      /\ \A q \in DOMAIN roots \ {a} : roots'[q] = roots[q]
  BY <1>1, BuiltGrow DEF TypeOK, RootsGrow
<1>3. /\ DOMAIN Draws' = DOMAIN Draws /\ DOMAIN Draws = DOMAIN roots
      /\ \A q \in DOMAIN roots \ {a} : Draws'[q] = Draws[q]
  BY <1>2 DEF Draws, Draw
<1>4. Draws'[a] = [Draws[a] EXCEPT !.built = TRUE]
  <2>1. roots'[a].built = TRUE
    <3>1. roots[a] \in Roots
      BY <1>1, ListTypes
    <3> QED BY <1>1, <3>1 DEF Roots
  <2>2. Draw(a)' = [Draw(a) EXCEPT !.built = TRUE]
    <3>1. Draw(a)' = [thread |-> roots'[a].thread, owner |-> roots'[a].owner,
                      built |-> roots'[a].built, verdicts |-> roots'[a].verdicts]
      BY DEF Draw
    <3>2. Draw(a)' = [thread |-> roots[a].thread, owner |-> roots[a].owner,
                      built |-> TRUE, verdicts |-> roots[a].verdicts]
      BY <1>2, <2>1, <3>1
    <3>3. PICK draw : draw = Draw(a)
      OBVIOUS
    <3>4. draw = [thread |-> roots[a].thread, owner |-> roots[a].owner,
                  built |-> roots[a].built, verdicts |-> roots[a].verdicts]
      BY <3>3 DEF Draw
    <3>5. \A now : [draw EXCEPT !.built = now]
                      = [thread |-> roots[a].thread, owner |-> roots[a].owner,
                         built |-> now, verdicts |-> roots[a].verdicts]
      BY <3>4, BuiltRecord
    <3>6. [draw EXCEPT !.built = TRUE]
             = [thread |-> roots[a].thread, owner |-> roots[a].owner,
                built |-> TRUE, verdicts |-> roots[a].verdicts]
      BY <3>5, Zenon
    <3> QED BY <3>2, <3>3, <3>6, Zenon
  <2> QED BY <1>1, <1>2, <2>2 DEF Draws
<1>5. Draws' = [Draws EXCEPT ![a].built = TRUE]
  BY <1>3, <1>4 DEF Draws
<1>6. /\ Verdicts!Turn(a) /\ a \in DOMAIN Draws
      /\ Draws[a].verdicts = 0 /\ ~Draws[a].built
  BY <1>1, TurnMapped
<1> QED BY <1>1, <1>5, <1>6, BuildMapped

LEMMA NewRootSeen ==
    ASSUME IInv, NEW t \in Threads, NewRoot(t)
    PROVE  Seen
<1>d. PICK d : d = hook[t].target
  OBVIOUS
<1>1. /\ d \in Dispatchers /\ d \notin freed /\ freed' = freed /\ roots \in Seq(Roots)
  <2>1. hook[t].pc = "root" /\ HookInv(t) /\ SessionInv /\ TypeOK
    BY DEF NewRoot, At, IInv
  <2>2. hook[t].target # NoDispatcher /\ hook[t].target \in Live
    BY <2>1 DEF HookInv
  <2>3. Live \subseteq Dispatchers
    BY <2>1 DEF Live, TypeOK, NullableDispatcher
  <2> QED BY <1>d, <2>1, <2>2, <2>3 DEF SessionInv, TypeOK, NewRoot, HookOnly, history
<1>2. PICK lowerer \in BOOLEAN, deferred \in BOOLEAN :
         roots' = Append(roots, [thread |-> t, owner |-> d, lowerer |-> lowerer,
                                 deferred |-> deferred, built |-> FALSE, verdicts |-> 0])
  BY <1>d DEF NewRoot
<1> DEFINE n == Len(roots)
           root == [thread |-> t, owner |-> d, lowerer |-> lowerer,
                    deferred |-> deferred, built |-> FALSE, verdicts |-> 0]
           draw == [thread |-> t, owner |-> d, built |-> FALSE, verdicts |-> 0]
<1>3. /\ root \in Roots /\ root.thread = t /\ root.owner = d
      /\ root.built = FALSE /\ root.verdicts = 0
  BY <1>1 DEF Roots
<1>4. roots' = Append(roots, root)
  BY <1>2
<1> HIDE DEF root
<1>5. /\ DOMAIN roots' = 1 .. n + 1 /\ DOMAIN roots = 1 .. n /\ n \in Nat
      /\ roots'[n + 1] = root /\ \A q \in 1 .. n : roots'[q] = roots[q]
  BY <1>1, <1>3, <1>4, AppendProperties, LenProperties
<1>6. /\ DOMAIN Draws = 1 .. n /\ DOMAIN Draws' = 1 .. n + 1
      /\ \A q \in 1 .. n : Draws'[q] = Draws[q]
      /\ Draws'[n + 1] = draw
  <2>1. Draws' = [r \in 1 .. n + 1 |-> Draw(r)'] /\ Draws = [r \in 1 .. n |-> Draw(r)]
    BY <1>5 DEF Draws
  <2>2. n + 1 \in 1 .. n + 1 /\ \A q \in 1 .. n : q \in 1 .. n + 1
    BY <1>5
  <2>3. \A q \in 1 .. n : Draw(q)' = Draw(q)
    BY <1>5 DEF Draw
  <2>4. \A q : roots'[q] = root => Draw(q)' = draw
    BY <1>3 DEF Draw
  <2> QED BY <1>5, <2>1, <2>2, <2>3, <2>4
<1> DEFINE Drawn == [thread : Threads, owner : Dispatchers, built : BOOLEAN, verdicts : Nat]
<1>7. draw \in Drawn /\ \A q \in 1 .. n : Draws[q] \in Drawn
  <2>1. \A q \in 1 .. n : roots[q] \in Roots
    BY <1>1, <1>5, ElementOfSeq
  <2> QED BY <1>1, <1>5, <2>1 DEF Draws, Draw, Roots
<1> HIDE DEF n, draw, Drawn
<1>8. /\ Draws \in [1 .. n -> Drawn] /\ Draws' \in [1 .. n + 1 -> Drawn]
  <2>1. \A q \in 1 .. n + 1 : q \in 1 .. n \/ q = n + 1
    BY <1>5
  <2>2. \A q \in 1 .. n + 1 : Draws'[q] \in Drawn
    BY <1>6, <1>7, <2>1
  <2> QED BY <1>6, <1>7, <2>2 DEF Draws
<1>9. Draws \in Seq(Drawn) /\ Len(Draws) = n /\ Draws' \in Seq(Drawn) /\ Len(Draws') = n + 1
  BY <1>5, <1>8, FunctionSeq
<1>10. Draws' = Append(Draws, draw)
  <2>1. /\ Append(Draws, draw) \in Seq(Drawn) /\ Len(Append(Draws, draw)) = n + 1
        /\ \A q \in 1 .. n : Append(Draws, draw)[q] = Draws[q]
        /\ Append(Draws, draw)[n + 1] = draw
    BY <1>7, <1>9, AppendProperties
  <2>2. \A q \in 1 .. n + 1 : q \in 1 .. n \/ q = n + 1
    BY <1>5
  <2>3. \A q \in 1 .. n + 1 : Draws'[q] = Append(Draws, draw)[q]
    BY <1>6, <2>1, <2>2
  <2> QED BY <1>9, <2>1, <2>3, SeqEqual
<1> QED BY <1>1, <1>10, EnterMapped DEF draw

LEMMA SameSeen ==
    ASSUME UNCHANGED <<roots, freed>>
    PROVE  Seen
BY DEF Seen, Draws, Draw

\* Once no dispatcher is live and no hook holds a root, every root has its verdict.
LEMMA AllConcluded ==
    ASSUME IInv, OrderInv, NEW o \in Owners, Removed(o), NEW r \in DOMAIN roots
    PROVE  roots[r].verdicts = 1
<1>1. /\ removal[o].pc \in {"check", "conclude"} /\ removal[o].todo = <<>>
      /\ removal[o].pc = "check" => removing = NoDispatcher
  BY DEF Removed, RemovalAt
<1>2. /\ lock = o /\ removing = NoDispatcher /\ \A t \in Threads : Out(t)
  BY <1>1 DEF IInv, RemovalInv, Holding, HooksGone
<1>3. installed = NoDispatcher /\ Live = {}
  BY <1>2, DispatchConstants DEF IInv, SessionInv, Live
<1>4. \A p \in Owners \ {o} : removal[p].pc \notin {"orphans", "conclude"}
  BY <1>2 DEF IInv, RemovalInv, Holding, HooksGone
<1>5. \A p \in Owners : removal[p].pc # "orphans" /\ removal[p].todo = <<>>
  BY <1>1, <1>4 DEF IInv, RemovalInv
<1>6. \A d \in Dispatchers : Drained(d) /\ orphans[d] = <<>>
  BY <1>3, <1>5 DEF IInv, QueueInv
<1>7. \A t \in Threads : Refused(t) = <<>> /\ ~InHand(t, r)
  BY <1>2 DEF Out, Refused, InHand
<1>8. /\ roots[r].thread \in Threads /\ roots[r].owner \in Dispatchers /\ r # 0
      /\ roots[r].verdicts \in {0, 1}
  BY ListTypes DEF IInv, Roots, OrderInv, RootInv
<1>9. ~Queued(r)
  <2>1. /\ jobs[roots[r].owner] = <<>> /\ running[roots[r].owner] = 0
        /\ DOMAIN jobs[roots[r].owner] = {}
    BY <1>6, <1>8, EmptySeq, LenProperties DEF Drained
  <2> QED BY <1>8, <2>1 DEF Queued
<1>10. ~Kept(r)
  BY <1>5, <1>6, <1>7, <1>8, <1>9, ElemsSmall DEF Kept
<1> QED BY <1>8, <1>10 DEF OrderInv, KeptInv

LEMMA RemovedSeen ==
    ASSUME IInv, OrderInv, NEW o \in Owners, Removed(o)
    PROVE  Seen
<1>1. freed' = used /\ roots' = roots /\ used \subseteq Dispatchers /\ freed \subseteq used
  BY DEF Removed, IInv, TypeOK
<1>2. UNCHANGED Draws
  BY <1>1 DEF Draws, Draw
<1>3. \A i \in DOMAIN Draws : Draws[i].verdicts = 1
  BY AllConcluded DEF Draws, Draw
<1> QED BY <1>1, <1>2, <1>3, FreeMapped

\* Each step is one of the specification's, or changes nothing it shows.
LEMMA GuestSeen ==
    ASSUME IInv, OrderInv, NEW t \in Threads, GuestCalls(t) \/ HookSteps(t) \/ PostFails(t)
    PROVE  Seen
<1>1. freed' = freed
  BY DEF GuestCalls, HookSteps, PostFails, Begin, EndDraw, Commit, Exit, BeginDrain, Enter,
    Count, Reload, DrainOrphans, NewRoot, BuildRoot, Post, FinishHere, ConcludeHere, Release,
    CountDrain, ReloadDrain, AwaitDrain, LeaveDrain, HookOnly, history
<1>2. CASE Moves(t)
  BY <1>1, <1>2, MovesStay, SameSeen
<1>3. CASE Release(t) \/ Exit(t) \/ FinishHere(t) \/ DrainOrphans(t) \/ Post(t)
  <2>1. roots' = roots
    BY <1>3 DEF Release, Exit, FinishHere, DrainOrphans, Post
  <2> QED BY <1>1, <2>1, SameSeen
<1>4. CASE NewRoot(t) \/ BuildRoot(t)
  BY <1>4, NewRootSeen, BuildSeen
<1>5. CASE ConcludeHere(t)
  <2>c. PICK c : c = Head(hook[t].todo)
    OBVIOUS
  <2>1. c \in DOMAIN roots /\ InTurn(c) /\ Concluded(c) /\ roots[c].verdicts = 0 /\ TypeOK
    BY <1>5, <2>c, HereTurn DEF IInv
  <2> QED BY <1>1, <2>1, ConcludedSeen
<1> QED BY <1>2, <1>3, <1>4, <1>5 DEF GuestCalls, HookSteps, Moves

LEMMA WorkerSeen ==
    ASSUME IInv, OrderInv, NEW d \in Dispatchers, Worker(d)
    PROVE  Seen
<1>1. CASE TakeJob(d)
  BY <1>1, SameSeen DEF TakeJob, history
<1>2. CASE RunJob(d)
  <2>c. PICK c : c = running[d]
    OBVIOUS
  <2>1. c \in DOMAIN roots /\ InTurn(c) /\ Concluded(c) /\ roots[c].verdicts = 0
        /\ TypeOK /\ freed' = freed
    BY <1>2, <2>c, RunTurn DEF IInv, Waits, RunJob, history
  <2> QED BY <2>1, ConcludedSeen
<1> QED BY <1>1, <1>2 DEF Worker

LEMMA OwnerSeen ==
    ASSUME IInv, OrderInv, NEW o \in Owners, Remove(o) \/ RemovalSteps(o) \/ TimeOut(o)
    PROVE  Seen
<1>1. CASE \/ Remove(o) \/ WithdrawLocked(o) \/ AwaitHooks(o) \/ AwaitSequencer(o)
           \/ TakeRemoving(o) \/ RefuseOrphans(o) \/ TimeOut(o)
  <2>1. UNCHANGED <<roots, freed>>
    BY <1>1 DEF Remove, WithdrawLocked, AwaitHooks, AwaitSequencer, TakeRemoving,
      RefuseOrphans, TimeOut
  <2> QED BY <2>1, SameSeen
<1>2. CASE ConcludeOrphan(o)
  <2>c. PICK c : c = Head(removal[o].todo)
    OBVIOUS
  <2>1. c \in DOMAIN roots /\ InTurn(c) /\ Concluded(c) /\ roots[c].verdicts = 0
        /\ TypeOK /\ freed' = freed
    BY <1>2, <2>c, OrphanTurn DEF IInv, ConcludeOrphan
  <2> QED BY <2>1, ConcludedSeen
<1>3. CASE Removed(o)
  BY <1>3, RemovedSeen
<1> QED BY <1>1, <1>2, <1>3 DEF RemovalSteps

LEMMA DispatchSeen ==
    ASSUME IInv, OrderInv, [Next]_vars
    PROVE  Seen
<1>1. ASSUME NEW d \in Dispatchers, Install(d) PROVE Seen
  BY <1>1, SameSeen DEF Install
<1>2. CASE RemoveInside \/ UNCHANGED vars
  <2>1. UNCHANGED <<roots, freed>>
    BY <1>2 DEF RemoveInside, vars, history
  <2> QED BY <2>1, SameSeen
<1> QED BY <1>1, <1>2, GuestSeen, WorkerSeen, OwnerSeen DEF Next

\* Each draw entered gets one verdict, after every earlier draw of its thread
\* has its own, and one built on its guest thread is built in that order; a
\* dispatcher is given back only when every draw that entered it has its
\* verdict. Any number of guest threads, workers and removals, exits with a
\* held root and failed posts included (BeginNativeDraw, Finish,
\* Pending::~Pending, RemoveNativeDrawDispatcher).
THEOREM DispatchKeepsVerdicts == Spec => ImplementsDrawVerdicts
<1>1. Init => Verdicts!Init
  <2>1. Init => roots = <<>> /\ freed = {}
    BY DEF Init
  <2>2. roots = <<>> => Draws = <<>>
    BY EmptySeq, LenProperties DEF Draws
  <2> QED BY <2>1, <2>2, StartMapped
<1>2. IInv /\ OrderInv /\ [Next]_vars => [Verdicts!Next]_<<Draws, freed>>
  BY DispatchSeen DEF Seen
<1>3. ImplementsDrawVerdicts <=> Verdicts!Init /\ [][Verdicts!Next]_<<Draws, freed>>
  BY StartMapped DEF ImplementsDrawVerdicts
<1> QED BY <1>1, <1>2, <1>3, OrderInvariant, PTL DEF Spec

=============================================================================
