------------------------- MODULE PresentationProofs -------------------------
(***************************************************************************)
(* Theorems of the presentation for any number of output slots, any queue   *)
(* capacity and any window extents.                                        *)
(*                                                                         *)
(* The argument. A lease that is not retired or cancelled is the lease of   *)
(* its slot, and a slot the GPU writes or has written has none: the copy    *)
(* reads the slot of a lease the presenter owns or keeps, so never one      *)
(* being written. Work the GPU has not finished is in flight in the host,   *)
(* so a drain that proved every slot in flight left the GPU idle. The queue *)
(* holds unclaimed leases in the order of their offers, all newer than the  *)
(* frame on display, so each of its offers is counted once and a claim only *)
(* goes forward.                                                           *)
(***************************************************************************)
EXTENDS Presentation, SequenceTheorems, FiniteSetTheorems, TLAPS

CopyPcs == {"fence", "prepare", "markCopy", "submitCopy", "waitCopy", "retire"}
HealthyPcs == {"surface", "resize", "mark", "claim"} \cup CopyPcs
Closing == {"closeGate", "drain", "terminate", "finished"}
Unclaimed == {"Published", "Cancelled"}
Spent == {"Retired", "Cancelled"}

\* A lease not yet given back is the lease of its slot.
LeaseInv ==
    /\ \A t \in Tokens : StateOf(t) \notin Spent => slots[leases[t].slot].lease = t
    /\ \A s \in Slots : slots[s].lease # 0 =>
          slots[s].lease \in Tokens /\ leases[slots[s].lease].slot = s

\* A slot the GPU writes or has written is in the producer's queue only.
SlotInv ==
    \A s \in Slots : slots[s].gpu # "idle" =>
        slots[s].lease = 0 /\ s \in ToSet(producer.submitted)

\* The queue holds unclaimed leases, oldest first, newer than what is shown.
QueueInv ==
    /\ Len(gate.queue) <= Capacity
    /\ \A i \in DOMAIN gate.queue :
          /\ gate.queue[i] \in Tokens /\ StateOf(gate.queue[i]) \in Unclaimed
          /\ gate.queue[i] > pump.lease /\ gate.queue[i] > pump.display
          /\ \A j \in 1 .. i - 1 : gate.queue[j] < gate.queue[i]

ShownInv ==
    /\ gate.shown <= pump.display /\ pump.display <= Len(leases)
    /\ pump.pc \in CopyPcs => pump.display < pump.lease

\* What the presenter knows of its lease, and of the host, where it is.
PumpInv ==
    /\ pump.lease <= Len(leases)
    /\ pump.pc \in CopyPcs => pump.lease \in Tokens
    /\ pump.pc \in {"fence", "prepare", "markCopy"} =>
          StateOf(pump.lease) \in {"Claimed", "Failed"}
    /\ pump.pc \in {"submitCopy", "waitCopy", "retire"} =>
          StateOf(pump.lease) \in {"CopySubmitted", "Failed"}
    /\ pump.pc \in HealthyPcs => Healthy
    /\ pump.kept # {} => ~Healthy
    /\ \A t \in pump.kept : t \in Tokens /\ StateOf(t) = "Failed"

\* A copy in progress reads the slot of the lease in hand or of a kept one.
CopyInv ==
    "copy" \in gpu.busy =>
        /\ gpu.source \in Slots
        /\ \/ At("waitCopy") /\ leases[pump.lease].slot = gpu.source
           \/ \E t \in pump.kept : leases[t].slot = gpu.source

\* The host knows of all the GPU's work.
BusyInv ==
    /\ gpu.busy \cap WorkSlots \subseteq host.inFlight
    /\ "present" \in gpu.busy => host.presents
    /\ removed => gpu.busy = {}

\* A renderer thread that leaves gave up the slots it did not get back.
AwaitInv ==
    /\ producer.pc \in {"slots", "stopped"} =>
          \A s \in producer.awaited :
              Returned(slots[s].lease) \/ removed \/ s \in producer.abandoned
    /\ producer.pc = "stopped" => producer.awaited = Slots
    /\ producer.pc \notin {"slots", "stopped"} => producer.awaited = {}

\* What each step of the close has established.
CloseInv ==
    /\ pump.pc \in Closing => producer.pc = "stopped"
    /\ At("finished") => \A t \in Tokens : IsTerminal(StateOf(t))
    /\ At("terminate") /\ ~Retains(host.health) => gpu.busy = {}
    /\ pump.drained => pump.pc \in {"terminate", "finished"} /\ gpu.busy = {}
    /\ session.owners = "released" => At("finished") /\ gpu.busy = {}
    /\ session.report = "drained" => At("finished") /\ pump.drained

IInv ==
    /\ TypeOK /\ LeaseInv /\ SlotInv /\ QueueInv /\ ShownInv /\ OffersAccounted
    /\ PumpInv /\ CopyInv /\ BusyInv /\ AwaitInv /\ CloseInv

-----------------------------------------------------------------------------
(* Leases.                                                                 *)

\* How one lease may change.
StepsTo(old, new) ==
    \/ new = old
    \/ old = "Published" /\ new \in {"Cancelled", "Claimed"}
    \/ old = "Claimed" /\ new \in {"CopySubmitted", "Failed"}
    \/ old = "CopySubmitted" /\ new \in {"Retired", "Failed"}
EndsTo(old, new) ==
    \/ new = old
    \/ old = "Published" /\ new = "Cancelled"
    \/ old \in {"Claimed", "CopySubmitted"} /\ new = "Failed"

\* No lease is made, and those there are change as they may.
Stepped ==
    /\ leases' \in Seq(Lease) /\ DOMAIN leases' = DOMAIN leases
    /\ \A t \in Tokens : /\ leases'[t].slot = leases[t].slot
                         /\ StepsTo(leases[t].state, leases'[t].state)
\* Those that change end.
Ended ==
    /\ leases' \in Seq(Lease) /\ DOMAIN leases' = DOMAIN leases
    /\ \A t \in Tokens : /\ leases'[t].slot = leases[t].slot
                         /\ EndsTo(leases[t].state, leases'[t].state)
\* Only one changes.
Others(t) == \A u \in Tokens \ {t} : leases'[u] = leases[u]

LEMMA LeaseFacts ==
    ASSUME leases \in Seq(Lease)
    PROVE  /\ Len(leases) \in Nat /\ Tokens = 1 .. Len(leases)
           /\ \A t \in Tokens : /\ t \in Nat /\ t # 0
                                /\ leases[t] \in Lease
                                /\ leases[t].slot \in Slots
                                /\ StateOf(t) \in LeaseStates
<1>1. /\ Len(leases) \in Nat /\ Tokens = 1 .. Len(leases)
      /\ \A t \in Tokens : leases[t] \in Lease
  BY LenProperties, ElementOfSeq DEF Tokens
<1> QED BY <1>1 DEF Lease, StateOf

LEMMA EndedStepped ==
    ASSUME Ended
    PROVE  Stepped
BY DEF Ended, Stepped, EndsTo, StepsTo

LEMMA SameEnded ==
    ASSUME leases \in Seq(Lease), leases' = leases
    PROVE  Ended
BY DEF Ended, EndsTo

LEMMA SetStateIn ==
    ASSUME NEW ls \in Seq(Lease), NEW t \in DOMAIN ls, NEW to \in LeaseStates,
           NEW new, new = [ls EXCEPT ![t].state = to]
    PROVE  /\ new \in Seq(Lease) /\ DOMAIN new = DOMAIN ls
           /\ new[t].slot = ls[t].slot /\ new[t].state = to
           /\ \A u \in DOMAIN ls \ {t} : new[u] = ls[u]
<1>1. ls[t] \in Lease
  BY LenProperties, ElementOfSeq
<1>2. new = [ls EXCEPT ![t] = [ls[t] EXCEPT !.state = to]]
  OBVIOUS
<1>3. /\ [ls[t] EXCEPT !.state = to] \in Lease
      /\ [ls[t] EXCEPT !.state = to].slot = ls[t].slot
      /\ [ls[t] EXCEPT !.state = to].state = to
  BY <1>1 DEF Lease
<1>4. new \in Seq(Lease) /\ DOMAIN new = DOMAIN ls
  BY <1>1, <1>2, <1>3, ExceptSeq
<1>5. /\ new[t] = [ls[t] EXCEPT !.state = to]
      /\ \A u \in DOMAIN ls \ {t} : new[u] = ls[u]
  BY <1>2
<1> QED BY <1>3, <1>4, <1>5

LEMMA SetState ==
    ASSUME leases \in Seq(Lease), NEW t \in Tokens, NEW to \in LeaseStates,
           leases' = [leases EXCEPT ![t].state = to]
    PROVE  /\ leases' \in Seq(Lease) /\ DOMAIN leases' = DOMAIN leases
           /\ leases'[t].slot = leases[t].slot /\ leases'[t].state = to
           /\ Others(t)
BY SetStateIn DEF Others, Tokens

LEMMA MovedOne ==
    ASSUME leases \in Seq(Lease), NEW t \in Tokens, NEW from, NEW to \in LeaseStates,
           Moved(t, from, to)
    PROVE  /\ leases' \in Seq(Lease) /\ DOMAIN leases' = DOMAIN leases
           /\ leases'[t].slot = leases[t].slot /\ leases'[t].state = to
           /\ Others(t) /\ StateOf(t) \in from
BY SetState DEF Moved

LEMMA MovedStepped ==
    ASSUME leases \in Seq(Lease), NEW t \in Tokens, NEW from, NEW to \in LeaseStates,
           Moved(t, from, to), \A s \in from : StepsTo(s, to)
    PROVE  Stepped
<1>1. /\ leases' \in Seq(Lease) /\ DOMAIN leases' = DOMAIN leases
      /\ leases'[t].slot = leases[t].slot /\ leases'[t].state = to
      /\ Others(t) /\ leases[t].state \in from
  BY MovedOne DEF StateOf
<1> QED BY <1>1 DEF Stepped, Others, StepsTo

LEMMA MovedEnded ==
    ASSUME leases \in Seq(Lease), NEW t \in Tokens, NEW from, NEW to \in LeaseStates,
           Moved(t, from, to), \A s \in from : EndsTo(s, to)
    PROVE  Ended
<1>1. /\ leases' \in Seq(Lease) /\ DOMAIN leases' = DOMAIN leases
      /\ leases'[t].slot = leases[t].slot /\ leases'[t].state = to
      /\ Others(t) /\ leases[t].state \in from
  BY MovedOne DEF StateOf
<1> QED BY <1>1 DEF Ended, Others, EndsTo

LEMMA FailEnded ==
    ASSUME leases \in Seq(Lease), NEW t \in Tokens, FailLease(t)
    PROVE  /\ Ended /\ Others(t)
           /\ StateOf(t) \in {"Claimed", "CopySubmitted", "Failed"} =>
                 leases'[t].state = "Failed"
<1>1. CASE StateOf(t) \in {"Claimed", "CopySubmitted"}
  <2>1. /\ leases' = [leases EXCEPT ![t].state = "Failed"]
        /\ "Failed" \in LeaseStates
    BY <1>1 DEF FailLease, LeaseStates
  <2>2. /\ leases' \in Seq(Lease) /\ DOMAIN leases' = DOMAIN leases
        /\ leases'[t].slot = leases[t].slot /\ leases'[t].state = "Failed"
        /\ Others(t)
    BY <2>1, SetState
  <2> QED BY <1>1, <2>2 DEF Ended, Others, EndsTo, StateOf
<1>2. CASE StateOf(t) \notin {"Claimed", "CopySubmitted"}
  <2>1. leases' = leases
    BY <1>2 DEF FailLease
  <2> QED BY <1>2, <2>1, SameEnded DEF Others, StateOf
<1> QED BY <1>1, <1>2

LEMMA CancelInSeq ==
    ASSUME NEW ls \in Seq(Lease), NEW tokens, NEW new, new = CancelIn(ls, tokens)
    PROVE  /\ new \in Seq(Lease) /\ DOMAIN new = DOMAIN ls
           /\ \A t \in DOMAIN ls :
                 /\ new[t].slot = ls[t].slot
                 /\ new[t].state # ls[t].state =>
                       ls[t].state = "Published" /\ new[t].state = "Cancelled"
                 /\ t \notin tokens => new[t] = ls[t]
<1>1. /\ Len(ls) \in Nat /\ DOMAIN ls = 1 .. Len(ls)
      /\ \A t \in DOMAIN ls : ls[t] \in Lease
  BY LenProperties, ElementOfSeq
<1>2. DOMAIN new = DOMAIN ls
  BY DEF CancelIn
<1>3. ASSUME NEW t \in DOMAIN ls
      PROVE  /\ new[t] \in Lease /\ new[t].slot = ls[t].slot
             /\ new[t].state # ls[t].state =>
                   ls[t].state = "Published" /\ new[t].state = "Cancelled"
             /\ t \notin tokens => new[t] = ls[t]
  <2>1. new[t] = IF t \in tokens /\ ls[t].state = "Published"
                 THEN [ls[t] EXCEPT !.state = "Cancelled"] ELSE ls[t]
    BY DEF CancelIn
  <2> QED BY <1>1, <2>1 DEF Lease, LeaseStates
<1>4. new \in [1 .. Len(ls) -> Lease]
  BY <1>1, <1>2, <1>3 DEF CancelIn
<1>5. new \in Seq(Lease)
  BY <1>1, <1>4, IsASeq
<1> QED BY <1>2, <1>3, <1>5

LEMMA CancelEnded ==
    ASSUME leases \in Seq(Lease), NEW tokens, leases' = CancelIn(leases, tokens)
    PROVE  Ended
BY CancelInSeq DEF Ended, EndsTo, Tokens

LEMMA TerminateEnded ==
    ASSUME leases \in Seq(Lease), leases' = TerminateIn(leases)
    PROVE  Ended /\ \A t \in Tokens : IsTerminal(leases'[t].state)
<1>1. Len(leases) \in Nat /\ DOMAIN leases = 1 .. Len(leases) /\ Tokens = DOMAIN leases
  BY LeaseFacts DEF Tokens
<1>2. DOMAIN leases' = DOMAIN leases
  BY DEF TerminateIn
<1>3. ASSUME NEW t \in DOMAIN leases
      PROVE  /\ leases'[t] \in Lease /\ leases'[t].slot = leases[t].slot
             /\ EndsTo(leases[t].state, leases'[t].state)
             /\ IsTerminal(leases'[t].state)
  <2>1. leases[t] \in Lease
    BY <1>1, LeaseFacts
  <2>2. leases'[t] =
          CASE leases[t].state = "Published" -> [leases[t] EXCEPT !.state = "Cancelled"]
            [] leases[t].state \in {"Claimed", "CopySubmitted"} ->
                  [leases[t] EXCEPT !.state = "Failed"]
            [] OTHER -> leases[t]
    BY DEF TerminateIn
  <2>3. CASE leases[t].state = "Published"
    BY <2>1, <2>2, <2>3 DEF Lease, LeaseStates, EndsTo, IsTerminal
  <2>4. CASE leases[t].state \in {"Claimed", "CopySubmitted"}
    BY <2>1, <2>2, <2>4 DEF Lease, LeaseStates, EndsTo, IsTerminal
  <2>5. CASE leases[t].state \in {"Retired", "Cancelled", "Failed"}
    BY <2>1, <2>2, <2>5 DEF Lease, LeaseStates, EndsTo, IsTerminal
  <2> QED BY <2>1, <2>3, <2>4, <2>5 DEF Lease, LeaseStates
<1>4. leases' \in [1 .. Len(leases) -> Lease]
  BY <1>1, <1>2, <1>3 DEF TerminateIn
<1>5. leases' \in Seq(Lease)
  BY <1>1, <1>4, IsASeq
<1> QED BY <1>1, <1>2, <1>3, <1>5 DEF Ended

-----------------------------------------------------------------------------
(* The ledger of offers.                                                   *)

Owned == {t \in Tokens : StateOf(t) \notin Unclaimed}
Counted == gate.dropped + gate.claimed + gate.stale + Len(gate.queue)

LEMMA Accounts ==
    OffersAccounted <=> /\ Counted <= Len(leases)
                        /\ gate.accepting => Counted = Len(leases)
                        /\ gate.claimed = Cardinality(Owned)
BY DEF OffersAccounted, Counted, Owned, Unclaimed

LEMMA AccountsNext ==
    OffersAccounted' <=> /\ Counted' <= Len(leases')
                         /\ gate'.accepting => Counted' = Len(leases')
                         /\ gate'.claimed = Cardinality(Owned')
BY DEF OffersAccounted, Counted, Owned, Unclaimed

LEMMA OwnedSame ==
    ASSUME DOMAIN leases' = DOMAIN leases,
           \A t \in Tokens : leases[t].state \in Unclaimed <=> leases'[t].state \in Unclaimed
    PROVE  Owned' = Owned
BY DEF Owned, Tokens, StateOf

LEMMA EndedOwned ==
    ASSUME Ended
    PROVE  Owned' = Owned /\ Tokens' = Tokens
<1>1. \A t \in Tokens : leases[t].state \in Unclaimed <=> leases'[t].state \in Unclaimed
  BY DEF Ended, EndsTo, Unclaimed
<1> QED BY <1>1, OwnedSame DEF Ended, Tokens

LEMMA SteppedLen ==
    ASSUME leases \in Seq(Lease), Stepped
    PROVE  Len(leases') = Len(leases) /\ Tokens' = Tokens
<1>1. /\ Len(leases) \in Nat /\ DOMAIN leases = 1 .. Len(leases)
      /\ Len(leases') \in Nat /\ DOMAIN leases' = 1 .. Len(leases')
  BY LenProperties DEF Stepped
<1>2. 1 .. Len(leases) = 1 .. Len(leases')
  BY <1>1 DEF Stepped
<1> QED BY <1>1, <1>2 DEF Stepped, Tokens

LEMMA QueueFacts ==
    ASSUME GateType, QueueInv
    PROVE  /\ Len(gate.queue) \in Nat /\ DOMAIN gate.queue = 1 .. Len(gate.queue)
           /\ ToSet(gate.queue) \subseteq Tokens /\ IsFiniteSet(ToSet(gate.queue))
           /\ \A t \in ToSet(gate.queue) : StateOf(t) \in Unclaimed
           /\ Cardinality(ToSet(gate.queue)) = Len(gate.queue)
           /\ \A T : T \subseteq ToSet(gate.queue) => DropCount(T) = Cardinality(T)
<1> DEFINE q == gate.queue
<1>1. q \in Seq(Nat) /\ Len(q) \in Nat /\ DOMAIN q = 1 .. Len(q)
  BY LenProperties DEF GateType
<1>2. \A i \in DOMAIN q : q[i] \in Tokens /\ StateOf(q[i]) \in Unclaimed
  BY DEF QueueInv
<1>3. ToSet(q) \subseteq Tokens /\ \A t \in ToSet(q) : StateOf(t) \in Unclaimed
  BY <1>2 DEF ToSet
<1>4. \A T : T \subseteq ToSet(q) => DropCount(T) = Cardinality(T)
  <2>1. ASSUME NEW T, T \subseteq ToSet(q)
        PROVE  {t \in T : StateOf(t) \in {"Published", "Cancelled"}} = T
    BY <1>3, <2>1 DEF Unclaimed
  <2> QED BY <2>1 DEF DropCount
<1>5. ExistsBijection(1 .. Len(q), ToSet(q))
  <2>1. q \in [1 .. Len(q) -> ToSet(q)]
    <3>1. \A i \in DOMAIN q : q[i] \in ToSet(q)
      BY DEF ToSet
    <3> QED BY <1>1, <3>1
  <2>2. \A i, j \in 1 .. Len(q) : q[i] = q[j] => i = j
    <3>1. ASSUME NEW i \in 1 .. Len(q), NEW j \in 1 .. Len(q), j < i
          PROVE  q[j] < q[i] /\ q[i] \in Nat /\ q[j] \in Nat
      <4>1. j \in 1 .. i - 1
        BY <1>1, <3>1
      <4> QED BY <1>1, <4>1, ElementOfSeq DEF QueueInv
    <3>2. \A i, j \in 1 .. Len(q) : j < i => q[i] # q[j]
      BY <3>1
    <3> QED BY <1>1, <3>2
  <2>3. \A t \in ToSet(q) : \E i \in 1 .. Len(q) : q[i] = t
    BY <1>1 DEF ToSet
  <2>4. q \in Bijection(1 .. Len(q), ToSet(q))
    BY <2>1, <2>2, <2>3 DEF Bijection, Injection, Surjection, IsInjective
  <2> QED BY <2>4 DEF ExistsBijection
<1>6. /\ IsFiniteSet(1 .. Len(q)) /\ Cardinality(1 .. Len(q)) = Len(q)
  <2>1. 1 \in Int /\ Len(q) \in Int /\ Len(q) - 1 + 1 = Len(q) /\ (1 > Len(q) => Len(q) = 0)
    BY <1>1
  <2> QED BY <2>1, FS_Interval
<1>7. IsFiniteSet(ToSet(q)) /\ Cardinality(ToSet(q)) = Len(q)
  BY <1>5, <1>6, FS_Bijection
<1> QED BY <1>1, <1>3, <1>4, <1>7

\* What a call of the gate that makes and claims no lease leaves behind.
GateRecords ==
    [queue : Seq(Nat), accepting : BOOLEAN, suspended : BOOLEAN, lost : BOOLEAN,
     dropped : Nat, claimed : Nat, stale : Nat, shown : Nat]
GateKept ==
    /\ Ended /\ GateType' /\ OffersAccounted' /\ gate'.shown = gate.shown
    /\ gate'.queue \in {<<>>, gate.queue}

\* A gate with other switches.
Switched(g) ==
    /\ g \in GateRecords /\ g.queue = gate.queue /\ g.shown = gate.shown
    /\ g.dropped = gate.dropped /\ g.claimed = gate.claimed /\ g.stale = gate.stale
    /\ g.accepting => gate.accepting

LEMMA Switches ==
    ASSUME GateType
    PROVE  /\ Switched([gate EXCEPT !.accepting = FALSE])
           /\ Switched([gate EXCEPT !.suspended = TRUE])
           /\ Switched([gate EXCEPT !.suspended = FALSE])
           /\ Switched([gate EXCEPT !.lost = TRUE, !.accepting = FALSE])
BY DEF GateType, GateRecords, Switched

LEMMA CancelQueuedKept ==
    ASSUME GateType, QueueInv, OffersAccounted, NEW g, Switched(g), CancelQueued(g)
    PROVE  GateKept
<1> DEFINE queued == ToSet(gate.queue)
<1>1. leases \in Seq(Lease) /\ gate \in GateRecords
  BY DEF GateType, GateRecords
<1>2. /\ leases' = CancelIn(leases, queued)
      /\ gate' = [g EXCEPT !.queue = <<>>, !.dropped = @ + DropCount(queued)]
  BY DEF CancelQueued
<1>3. Len(gate.queue) \in Nat /\ DropCount(queued) = Len(gate.queue)
  BY QueueFacts
<1>4. Ended /\ Owned' = Owned /\ Len(leases') = Len(leases)
  BY <1>1, <1>2, CancelEnded, EndedOwned, EndedStepped, SteppedLen
<1>5. /\ gate' \in GateRecords /\ gate'.queue = <<>> /\ gate'.shown = gate.shown
      /\ gate'.dropped = gate.dropped + Len(gate.queue)
      /\ gate'.claimed = gate.claimed /\ gate'.stale = gate.stale
      /\ gate'.accepting => gate.accepting
  <2>1. g \in GateRecords /\ <<>> \in Seq(Nat)
    BY EmptySeq DEF Switched
  <2>2. g.dropped + DropCount(queued) \in Nat
    BY <1>3, <2>1 DEF GateRecords
  <2>3. gate' \in GateRecords
    BY <1>2, <2>1, <2>2 DEF GateRecords
  <2>4. /\ gate'.queue = <<>> /\ gate'.shown = g.shown
        /\ gate'.dropped = g.dropped + DropCount(queued)
        /\ gate'.claimed = g.claimed /\ gate'.stale = g.stale
        /\ gate'.accepting = g.accepting
    BY <1>2, <2>1 DEF GateRecords
  <2> QED BY <1>3, <2>3, <2>4 DEF Switched
<1>6. Counted' = Counted /\ Counted' \in Nat
  BY SMTT(30), <1>1, <1>3, <1>5 DEF Counted, GateRecords
<1>7. OffersAccounted'
  BY <1>4, <1>5, <1>6, Accounts, AccountsNext
<1> QED BY <1>4, <1>5, <1>7 DEF GateKept, GateType, GateRecords, Ended

LEMMA TerminateAllKept ==
    ASSUME GateType, QueueInv, OffersAccounted, NEW g, Switched(g),
           g.accepting = FALSE, TerminateAll(g)
    PROVE  GateKept /\ gate'.queue = <<>> /\ \A t \in Tokens : IsTerminal(leases'[t].state)
<1>1. leases \in Seq(Lease) /\ gate \in GateRecords
  BY DEF GateType, GateRecords
<1>2. leases' = TerminateIn(leases) /\ gate' = [g EXCEPT !.queue = <<>>]
  BY DEF TerminateAll
<1>3. Len(gate.queue) \in Nat
  BY QueueFacts
<1>4. /\ Ended /\ Owned' = Owned /\ Len(leases') = Len(leases)
      /\ \A t \in Tokens : IsTerminal(leases'[t].state)
  BY <1>1, <1>2, TerminateEnded, EndedOwned, EndedStepped, SteppedLen
<1>5. /\ gate' \in GateRecords /\ gate'.queue = <<>> /\ gate'.shown = gate.shown
      /\ gate'.dropped = gate.dropped /\ gate'.claimed = gate.claimed
      /\ gate'.stale = gate.stale /\ ~gate'.accepting
  <2>1. g \in GateRecords /\ <<>> \in Seq(Nat)
    BY EmptySeq DEF Switched
  <2>2. gate' \in GateRecords
    BY <1>2, <2>1 DEF GateRecords
  <2>3. /\ gate'.queue = <<>> /\ gate'.shown = g.shown
        /\ gate'.dropped = g.dropped
        /\ gate'.claimed = g.claimed /\ gate'.stale = g.stale
        /\ gate'.accepting = g.accepting
    BY <1>2, <2>1 DEF GateRecords
  <2> QED BY <2>2, <2>3 DEF Switched
<1>6. Counted' <= Counted /\ Counted' \in Nat /\ Counted \in Nat
  BY <1>1, <1>3, <1>5 DEF Counted, GateRecords
<1>7. OffersAccounted'
  <2>1. Len(leases) \in Nat
    BY <1>1, LeaseFacts
  <2> QED BY <1>4, <1>5, <1>6, <2>1, Accounts, AccountsNext
<1> QED BY <1>4, <1>5, <1>7 DEF GateKept, GateType, GateRecords, Ended

LEMMA GateUnchanged ==
    ASSUME GateType, OffersAccounted, Ended, gate' = gate
    PROVE  GateKept
<1>1. Owned' = Owned /\ Len(leases') = Len(leases)
  BY EndedOwned, EndedStepped, SteppedLen DEF GateType
<1>2. Counted' = Counted
  BY DEF Counted
<1>3. OffersAccounted'
  BY <1>1, <1>2, Accounts, AccountsNext
<1> QED BY <1>3 DEF GateKept, GateType, Ended

LEMMA CloseGateKept ==
    ASSUME GateType, QueueInv, OffersAccounted, CloseGate
    PROVE  GateKept
BY Switches, CancelQueuedKept DEF CloseGate

LEMMA SetSuspendedKept ==
    ASSUME GateType, QueueInv, OffersAccounted, NEW value \in BOOLEAN, SetSuspended(value)
    PROVE  GateKept
<1>1. CASE value
  BY <1>1, Switches, CancelQueuedKept DEF SetSuspended
<1>2. CASE ~value
  <2>1. leases' = leases /\ gate' = [gate EXCEPT !.suspended = FALSE]
    BY <1>2 DEF SetSuspended
  <2>2. /\ gate' \in GateRecords /\ gate'.queue = gate.queue /\ gate'.shown = gate.shown
        /\ gate'.dropped = gate.dropped /\ gate'.claimed = gate.claimed
        /\ gate'.stale = gate.stale /\ (gate'.accepting => gate.accepting)
    BY <2>1, Switches DEF Switched
  <2>3. Ended /\ Owned' = Owned
    BY <2>1, SameEnded, EndedOwned DEF GateType
  <2>4. Counted' = Counted
    BY <2>2 DEF Counted
  <2>5. OffersAccounted'
    BY <2>1, <2>2, <2>3, <2>4, Accounts, AccountsNext
  <2> QED BY <2>1, <2>2, <2>3, <2>5 DEF GateKept, GateType, GateRecords
<1> QED BY <1>1, <1>2

LEMMA TerminateAdmissionKept ==
    ASSUME GateType, QueueInv, OffersAccounted, TerminateAdmission
    PROVE  GateKept /\ gate'.queue = <<>> /\ \A t \in Tokens : IsTerminal(leases'[t].state)
<1>1. [gate EXCEPT !.accepting = FALSE].accepting = FALSE
  BY DEF GateType
<1> QED BY <1>1, Switches, TerminateAllKept DEF TerminateAdmission

LEMMA OfferLostKept ==
    ASSUME GateType, QueueInv, OffersAccounted, OfferLost
    PROVE  GateKept /\ gate'.queue = <<>>
<1>1. [gate EXCEPT !.lost = TRUE, !.accepting = FALSE].accepting = FALSE
  BY DEF GateType
<1> QED BY <1>1, Switches, TerminateAllKept DEF OfferLost

\* A claim takes the newest published offer and empties the queue.
LEMMA ClaimNewestKept ==
    ASSUME GateType, QueueInv, OffersAccounted, NEW t, ClaimNewest(t)
    PROVE  /\ Stepped /\ GateType' /\ OffersAccounted'
           /\ gate'.queue = <<>> /\ gate'.shown = gate.shown
           /\ t \in ToSet(gate.queue) /\ t \in Tokens /\ StateOf(t) = "Published"
           /\ leases'[t].state = "Claimed"
           /\ \A u \in Tokens \ {t} : leases'[u].state # leases[u].state =>
                 leases[u].state = "Published" /\ leases'[u].state = "Cancelled"
<1> DEFINE rest == ToSet(gate.queue) \ {t}
           new == CancelIn(leases, rest)
<1>1. /\ t \in ToSet(gate.queue) /\ StateOf(t) = "Published"
      /\ leases' = [new EXCEPT ![t].state = "Claimed"]
      /\ gate' = [gate EXCEPT !.queue = <<>>, !.claimed = @ + 1,
                    !.dropped = @ + DropCount(rest),
                    !.stale = @ + Cardinality(rest) - DropCount(rest)]
  BY DEF ClaimNewest, Claimable
<1>2. /\ leases \in Seq(Lease) /\ gate \in GateRecords /\ Tokens = DOMAIN leases
      /\ t \in Tokens /\ t \in DOMAIN leases
  BY <1>1, QueueFacts DEF GateType, GateRecords, Tokens
<1>3. /\ new \in Seq(Lease) /\ DOMAIN new = DOMAIN leases
      /\ \A u \in DOMAIN leases :
            /\ new[u].slot = leases[u].slot
            /\ new[u].state # leases[u].state =>
                  leases[u].state = "Published" /\ new[u].state = "Cancelled"
            /\ u \notin rest => new[u] = leases[u]
  BY <1>2, CancelInSeq
<1>4. /\ leases' \in Seq(Lease) /\ DOMAIN leases' = DOMAIN new
      /\ leases'[t].slot = new[t].slot /\ leases'[t].state = "Claimed"
      /\ \A u \in DOMAIN new \ {t} : leases'[u] = new[u]
  <2>1. t \in DOMAIN new /\ "Claimed" \in LeaseStates
    BY <1>2, <1>3 DEF LeaseStates
  <2>2. new \in Seq(Lease) /\ leases' = [new EXCEPT ![t].state = "Claimed"]
    BY <1>1, <1>3
  <2> HIDE DEF new
  <2> QED BY <2>1, <2>2, SetStateIn
<1>5. /\ \A u \in Tokens \ {t} : leases'[u].state # leases[u].state =>
            leases[u].state = "Published" /\ leases'[u].state = "Cancelled"
      /\ \A u \in Tokens : leases'[u].slot = leases[u].slot
  BY <1>2, <1>3, <1>4
<1>6. Stepped
  BY <1>1, <1>2, <1>3, <1>4, <1>5 DEF Stepped, StepsTo, StateOf
<1>7. /\ Cardinality(rest) = Len(gate.queue) - 1
      /\ DropCount(rest) = Len(gate.queue) - 1
      /\ Len(gate.queue) \in Nat \ {0}
  <2>1. /\ IsFiniteSet(ToSet(gate.queue)) /\ Len(gate.queue) \in Nat
        /\ Cardinality(ToSet(gate.queue)) = Len(gate.queue)
        /\ DropCount(rest) = Cardinality(rest)
    BY QueueFacts
  <2>2. Len(gate.queue) # 0
    BY <1>1, <2>1, FS_EmptySet
  <2> QED BY <1>1, <2>1, <2>2, FS_RemoveElement
<1>8. /\ gate' \in GateRecords /\ gate'.queue = <<>> /\ gate'.shown = gate.shown
      /\ gate'.accepting = gate.accepting /\ gate'.claimed = gate.claimed + 1
      /\ gate'.dropped = gate.dropped + (Len(gate.queue) - 1)
      /\ gate'.stale = gate.stale
  <2>1. /\ gate.dropped + DropCount(rest) = gate.dropped + (Len(gate.queue) - 1)
        /\ gate.stale + Cardinality(rest) - DropCount(rest) = gate.stale
        /\ gate.dropped + (Len(gate.queue) - 1) \in Nat /\ gate.claimed + 1 \in Nat
        /\ <<>> \in Seq(Nat)
    BY <1>2, <1>7, EmptySeq DEF GateRecords
  <2>2. gate' = [gate EXCEPT !.queue = <<>>, !.claimed = gate.claimed + 1,
                   !.dropped = gate.dropped + (Len(gate.queue) - 1),
                   !.stale = gate.stale]
    BY <1>1, <2>1
  <2> QED BY <1>2, <2>1, <2>2 DEF GateRecords
<1>9. Counted' = Counted
  BY SMTT(30), <1>2, <1>7, <1>8 DEF Counted, GateRecords
<1>10. Owned' = Owned \cup {t} /\ t \notin Owned
  <2>1. DOMAIN leases' = DOMAIN leases
    BY <1>3, <1>4
  <2>2. \A u \in Tokens \ {t} :
           leases[u].state \in Unclaimed <=> leases'[u].state \in Unclaimed
    BY <1>5 DEF Unclaimed
  <2> QED BY ZenonT(30), <1>1, <1>2, <1>4, <2>1, <2>2 DEF Owned, Tokens, StateOf, Unclaimed
<1>11. IsFiniteSet(Owned)
  <2>1. Tokens = 1 .. Len(leases) /\ Len(leases) \in Int
    BY <1>2, LeaseFacts
  <2>2. IsFiniteSet(Tokens)
    BY <2>1, FS_Interval
  <2> QED BY <2>2, FS_Subset DEF Owned
<1>12. Cardinality(Owned') = Cardinality(Owned) + 1
  BY <1>10, <1>11, FS_AddElement
<1>13. OffersAccounted'
  BY <1>2, <1>6, <1>8, <1>9, <1>12, SteppedLen, Accounts, AccountsNext
<1> QED BY <1>1, <1>2, <1>4, <1>5, <1>6, <1>8, <1>13 DEF GateType, GateRecords, Stepped

LEMMA ClaimNoneKept ==
    ASSUME GateType, QueueInv, OffersAccounted, ClaimNone
    PROVE  GateKept
<1> DEFINE all == ToSet(gate.queue)
<1>1. /\ gate' = [gate EXCEPT !.queue = <<>>, !.dropped = @ + DropCount(all),
                    !.stale = @ + Cardinality(all) - DropCount(all)]
      /\ leases' = leases
  BY DEF ClaimNone
<1>2. leases \in Seq(Lease) /\ gate \in GateRecords
  BY DEF GateType, GateRecords
<1>3. /\ Cardinality(all) = Len(gate.queue) /\ DropCount(all) = Len(gate.queue)
      /\ Len(gate.queue) \in Nat
  BY QueueFacts
<1>4. /\ gate' \in GateRecords /\ gate'.queue = <<>> /\ gate'.shown = gate.shown
      /\ gate'.accepting = gate.accepting /\ gate'.claimed = gate.claimed
      /\ gate'.dropped = gate.dropped + Len(gate.queue) /\ gate'.stale = gate.stale
  <2>1. /\ gate.dropped + DropCount(all) = gate.dropped + Len(gate.queue)
        /\ gate.stale + Cardinality(all) - DropCount(all) = gate.stale
        /\ gate.dropped + Len(gate.queue) \in Nat
        /\ <<>> \in Seq(Nat)
    BY <1>2, <1>3, EmptySeq DEF GateRecords
  <2>2. gate' = [gate EXCEPT !.queue = <<>>,
                   !.dropped = gate.dropped + Len(gate.queue), !.stale = gate.stale]
    BY <1>1, <2>1
  <2> QED BY <1>2, <2>1, <2>2 DEF GateRecords
<1>5. Counted' = Counted
  BY <1>2, <1>3, <1>4 DEF Counted, GateRecords
<1>6. Ended /\ Owned' = Owned
  BY <1>1, <1>2, SameEnded, EndedOwned
<1>7. OffersAccounted'
  BY <1>1, <1>4, <1>5, <1>6, Accounts, AccountsNext
<1> QED BY <1>1, <1>2, <1>4, <1>6, <1>7 DEF GateKept, GateType, GateRecords

\* An offer makes one lease and keeps the queue's order and its bound.
LEMMA OfferKept ==
    ASSUME GateType, QueueInv, OffersAccounted, NEW slot \in Slots,
           OfferAccepted(slot), pump' = pump, pump.lease \in Nat, pump.display \in Nat,
           pump.lease <= Len(leases), pump.display <= Len(leases)
    PROVE  /\ GateType' /\ QueueInv' /\ OffersAccounted' /\ gate'.shown = gate.shown
           /\ Len(leases') = Len(leases) + 1
           /\ leases'[Len(leases) + 1].slot = slot
           /\ leases'[Len(leases) + 1].state \in Unclaimed
           /\ \A t \in Tokens :
                 /\ leases'[t].slot = leases[t].slot
                 /\ leases'[t].state # leases[t].state =>
                       leases[t].state = "Published" /\ leases'[t].state = "Cancelled"
<1> DEFINE t == Len(leases) + 1
           new == [slot |-> slot,
                   state |-> IF gate.suspended THEN "Cancelled" ELSE "Published"]
           more == Append(leases, new)
           q == gate.queue
           queue == Append(q, t)
           over == IF Len(queue) > Capacity THEN Len(queue) - Capacity ELSE 0
           evicted == {q[i] : i \in 1 .. over}
<1>1. /\ leases \in Seq(Lease) /\ gate \in GateRecords /\ q \in Seq(Nat)
      /\ gate.accepting /\ gate.suspended \in BOOLEAN
  BY DEF GateType, GateRecords, OfferAccepted
<1>2. /\ Len(leases) \in Nat /\ Tokens = 1 .. Len(leases) /\ Tokens = DOMAIN leases
      /\ t \in Nat /\ t \notin Tokens
  BY <1>1, LeaseFacts DEF Tokens
<1>3. new \in Lease
  BY <1>1 DEF Lease, LeaseStates
<1>4. /\ more \in Seq(Lease) /\ Len(more) = t /\ DOMAIN more = 1 .. t
      /\ DOMAIN more = Tokens \cup {t}
      /\ \A u \in Tokens : more[u] = leases[u]
      /\ more[t] = new
  <2> HIDE DEF new
  <2>1. /\ more \in Seq(Lease) /\ Len(more) = t
        /\ \A u \in 1 .. Len(leases) : more[u] = leases[u]
        /\ more[t] = new
    BY <1>1, <1>2, <1>3, AppendProperties
  <2> QED BY <1>2, <2>1, LenProperties
<1>5. /\ Len(q) \in Nat /\ DOMAIN q = 1 .. Len(q) /\ Len(q) <= Capacity
      /\ \A i \in 1 .. Len(q) :
            /\ q[i] \in Tokens /\ StateOf(q[i]) \in Unclaimed
            /\ q[i] > pump.lease /\ q[i] > pump.display
            /\ \A j \in 1 .. i - 1 : q[j] < q[i]
  BY QueueFacts DEF QueueInv
<1>6. /\ Len(queue) = Len(q) + 1 /\ queue \in Seq(Nat)
      /\ DOMAIN queue = 1 .. Len(q) + 1
      /\ \A i \in 1 .. Len(q) : queue[i] = q[i]
      /\ queue[Len(q) + 1] = t
  <2>1. /\ Len(queue) = Len(q) + 1 /\ queue \in Seq(Nat)
        /\ \A i \in 1 .. Len(q) : queue[i] = q[i]
        /\ queue[Len(q) + 1] = t
    BY <1>1, <1>2, AppendProperties
  <2> QED BY <2>1, LenProperties
<1>7. /\ over \in {0, 1} /\ over <= Len(q) /\ Len(q) + 1 - over <= Capacity
      /\ over = 0 => 1 .. over = {}
      /\ over = 1 => 1 .. over = {1}
  <2>1. Capacity \in Nat \ {0}
    BY GateConstants
  <2>2. over = 0 \/ (over = 1 /\ Len(q) = Capacity)
    BY <1>5, <1>6, <2>1
  <2> QED BY SMTT(30), <1>5, <1>6, <2>1, <2>2
<1>8. DropCount(evicted) = over
  <2> HIDE DEF over
  <2>1. CASE over = 0
    <3>1. evicted = {}
      BY <1>7, <2>1
    <3>2. {u \in evicted : StateOf(u) \in {"Published", "Cancelled"}} = {}
      BY <3>1
    <3> QED BY <2>1, <3>2, FS_EmptySet DEF DropCount
  <2>2. CASE over = 1
    <3>1. evicted = {q[1]} /\ StateOf(q[1]) \in Unclaimed
      BY <1>5, <1>7, <2>2
    <3>2. {u \in evicted : StateOf(u) \in {"Published", "Cancelled"}} = {q[1]}
      BY <3>1 DEF Unclaimed
    <3>3. Cardinality({q[1]}) = 1
      BY FS_Singleton
    <3> QED BY <2>2, <3>2, <3>3 DEF DropCount
  <2> QED BY <1>7, <2>1, <2>2
\* The leases.
<1>9. /\ leases' \in Seq(Lease) /\ DOMAIN leases' = DOMAIN more
      /\ \A u \in DOMAIN more :
            /\ leases'[u].slot = more[u].slot
            /\ leases'[u].state # more[u].state =>
                  more[u].state = "Published" /\ leases'[u].state = "Cancelled"
  <2> HIDE DEF more, evicted
  <2>1. leases' = more \/ leases' = CancelIn(more, evicted)
    BY DEF OfferAccepted, more, evicted
  <2> QED BY <1>4, <2>1, CancelInSeq
<1>10. Len(leases') = t
  <2>1. DOMAIN leases' = 1 .. Len(leases') /\ Len(leases') \in Nat
    BY <1>9, LenProperties
  <2> HIDE DEF more
  <2> QED BY <1>2, <1>4, <1>9, <2>1
<1>11. \A u \in Tokens :
          /\ leases'[u].slot = leases[u].slot
          /\ leases'[u].state # leases[u].state =>
                leases[u].state = "Published" /\ leases'[u].state = "Cancelled"
  <2> HIDE DEF more
  <2> QED BY <1>4, <1>9
<1>12. leases'[t].slot = slot /\ leases'[t].state \in Unclaimed
  <2>1. new.slot = slot /\ new.state \in Unclaimed
    BY DEF Unclaimed
  <2> HIDE DEF more, new
  <2> QED BY <1>4, <1>9, <2>1 DEF Unclaimed
<1>13. Owned' = Owned
  <2>1. Tokens' = Tokens \cup {t}
    <3> HIDE DEF more
    <3> QED BY <1>4, <1>9 DEF Tokens
  <2>2. \A u \in Tokens : leases[u].state \in Unclaimed <=> leases'[u].state \in Unclaimed
    BY <1>11 DEF Unclaimed
  <2> QED BY <1>2, <1>12, <2>1, <2>2 DEF Owned, StateOf
\* The gate.
<1>14. CASE gate.suspended
  <2>1. gate' = [gate EXCEPT !.dropped = @ + 1]
    BY <1>14 DEF OfferAccepted
  <2>2. /\ gate' \in GateRecords /\ gate'.queue = q /\ gate'.shown = gate.shown
        /\ gate'.accepting = gate.accepting /\ gate'.claimed = gate.claimed
        /\ gate'.dropped = gate.dropped + 1 /\ gate'.stale = gate.stale
    <3>1. gate \in GateRecords /\ gate.dropped + 1 \in Nat
      BY <1>1 DEF GateRecords
    <3> QED BY <2>1, <3>1 DEF GateRecords
  <2>3. Counted' = Counted + 1
    BY <1>1, <1>5, <2>2 DEF Counted, GateRecords
  <2>4. OffersAccounted'
    BY <1>1, <1>2, <1>10, <1>13, <2>2, <2>3, Accounts, AccountsNext
  <2>5. QueueInv'
    <3>1. \A u \in Tokens : u \in Tokens'
              /\ (StateOf(u) \in Unclaimed => leases'[u].state \in Unclaimed)
      <4> HIDE DEF more
      <4> QED BY <1>4, <1>9, <1>11 DEF Tokens, StateOf, Unclaimed
    <3> QED BY <1>5, <2>2, <3>1 DEF QueueInv, StateOf
  <2> QED BY <1>9, <1>10, <1>11, <1>12, <2>2, <2>4, <2>5 DEF GateType, GateRecords
<1>15. CASE ~gate.suspended
  <2> DEFINE rest == SubSeq(queue, over + 1, Len(queue))
  <2>1. gate' = [gate EXCEPT !.queue = rest, !.dropped = @ + DropCount(evicted)]
    BY <1>15 DEF OfferAccepted
  <2>2. /\ rest \in Seq(Nat) /\ Len(rest) = Len(q) + 1 - over
        /\ DOMAIN rest = 1 .. Len(q) + 1 - over
        /\ \A i \in 1 .. Len(q) + 1 - over : rest[i] = queue[i + over]
    <3> HIDE DEF queue, over
    <3>1. over + 1 \in 1 .. Len(queue) + 1 /\ Len(queue) \in 0 .. Len(queue)
          /\ over + 1 \in Int /\ over \in 0 .. Len(q) /\ over + 1 <= Len(queue)
      BY <1>5, <1>6, <1>7
    <3>2. \A i \in over + 1 .. Len(queue) : queue[i] \in Nat
      BY <1>5, <1>6, <1>7, ElementOfSeq
    <3>3. /\ rest \in Seq(Nat)
          /\ Len(rest) = Len(queue) - (over + 1) + 1
          /\ \A i \in 1 .. Len(queue) - (over + 1) + 1 : rest[i] = queue[(over + 1) + i - 1]
      <4>1. over + 1 \in Int /\ Len(queue) \in Int /\ over + 1 <= Len(queue)
        BY <1>5, <1>6, <3>1
      <4> DEFINE first == over + 1
                 last == Len(queue)
      <4>2. first \in Int /\ last \in Int /\ first <= last
            /\ \A i \in first .. last : queue[i] \in Nat
        BY <3>2, <4>1
      <4>3. rest = SubSeq(queue, first, last)
        OBVIOUS
      <4> HIDE DEF first, last, rest
      <4>4. /\ rest \in Seq(Nat)
            /\ Len(rest) = last - first + 1
            /\ \A i \in 1 .. last - first + 1 : rest[i] = queue[first + i - 1]
        BY <4>2, <4>3, SubSeqProperties
      <4> QED BY <4>4 DEF first, last
    <3>4. Len(queue) - (over + 1) + 1 = Len(q) + 1 - over
      BY <1>5, <1>6, <1>7
    <3>5. \A i \in 1 .. Len(q) + 1 - over : (over + 1) + i - 1 = i + over
      BY <1>5, <1>7
    <3> QED BY <3>3, <3>4, <3>5, LenProperties
  <2>3. /\ gate' \in GateRecords /\ gate'.queue = rest /\ gate'.shown = gate.shown
        /\ gate'.accepting = gate.accepting /\ gate'.claimed = gate.claimed
        /\ gate'.dropped = gate.dropped + over /\ gate'.stale = gate.stale
    <3> HIDE DEF rest, over, evicted
    <3>1. gate.dropped + DropCount(evicted) \in Nat
      BY <1>1, <1>7, <1>8 DEF GateRecords
    <3> QED BY <1>1, <1>8, <2>1, <2>2, <3>1 DEF GateRecords
  <2>4. Counted' = Counted + 1
    <3> HIDE DEF rest, over
    <3>1. /\ gate.dropped \in Nat /\ gate.claimed \in Nat /\ gate.stale \in Nat
          /\ Len(q) \in Nat /\ over \in Nat /\ Len(gate'.queue) = Len(q) + 1 - over
      BY <1>1, <1>5, <1>7, <2>2, <2>3 DEF GateRecords
    <3>2. Counted' = gate.dropped + over + gate.claimed + gate.stale + (Len(q) + 1 - over)
      BY <2>3, <3>1 DEF Counted
    <3>3. Counted = gate.dropped + gate.claimed + gate.stale + Len(q)
      BY DEF Counted
    <3> DEFINE n == Len(q)
    <3>4. n \in Nat /\ n = Len(gate.queue)
      BY <3>1
    <3> HIDE DEF q
    <3> HIDE DEF n
    <3>5. gate.dropped + over + gate.claimed + gate.stale + (n + 1 - over)
             = gate.dropped + gate.claimed + gate.stale + n + 1
      <4>1. /\ gate.dropped \in Nat /\ gate.claimed \in Nat /\ gate.stale \in Nat
            /\ n \in Nat /\ over \in Nat
        BY <3>1, <3>4
      <4> QED BY <4>1
    <3>6. Counted' = gate.dropped + over + gate.claimed + gate.stale + (n + 1 - over)
      BY <3>2 DEF n
    <3>7. Counted + 1 = gate.dropped + gate.claimed + gate.stale + n + 1
      BY <3>3 DEF n
    <3> QED BY <3>5, <3>6, <3>7
  <2>5. OffersAccounted'
    BY <1>1, <1>2, <1>10, <1>13, <2>3, <2>4, Accounts, AccountsNext
  <2>6. ASSUME NEW i \in 1 .. Len(q) + 1
        PROVE  /\ queue[i] \in Tokens' /\ leases'[queue[i]].state \in Unclaimed
               /\ queue[i] > pump.lease /\ queue[i] > pump.display
               /\ \A j \in 1 .. i - 1 : queue[j] < queue[i]
    <3>1. Tokens' = Tokens \cup {t}
      <4> HIDE DEF more
      <4> QED BY <1>4, <1>9 DEF Tokens
    <3>2. CASE i \in 1 .. Len(q)
      <4>1. queue[i] = q[i] /\ \A j \in 1 .. i - 1 : queue[j] = q[j]
        BY <1>5, <1>6, <3>2
      <4>2. leases'[q[i]].state \in Unclaimed
        BY <1>5, <1>11, <3>2 DEF Unclaimed, StateOf
      <4> HIDE DEF queue
      <4> QED BY <1>5, <3>1, <3>2, <4>1, <4>2
    <3>3. CASE i = Len(q) + 1
      <4>1. queue[i] = t
        BY <1>6, <3>3
      <4>2. \A j \in 1 .. i - 1 : queue[j] \in Tokens /\ queue[j] < t
        <5>1. \A j \in 1 .. i - 1 : j \in 1 .. Len(q)
          BY <1>5, <3>3
        <5>2. \A u \in Tokens : u < t
          BY <1>2
        <5> HIDE DEF queue, t
        <5> QED BY <1>5, <1>6, <5>1, <5>2
      <4> HIDE DEF queue
      <4> QED BY <1>2, <1>12, <3>1, <4>1, <4>2
    <3> QED BY <1>5, <3>2, <3>3
  <2>7. QueueInv'
    <3>1. ASSUME NEW i \in 1 .. Len(rest)
          PROVE  /\ rest[i] \in Tokens' /\ leases'[rest[i]].state \in Unclaimed
                 /\ rest[i] > pump.lease /\ rest[i] > pump.display
                 /\ \A j \in 1 .. i - 1 : rest[j] < rest[i]
      <4> HIDE DEF rest, over, queue
      <4>1. /\ i + over \in 1 .. Len(q) + 1 /\ rest[i] = queue[i + over]
            /\ \A j \in 1 .. i - 1 : /\ j + over \in 1 .. (i + over) - 1
                                     /\ rest[j] = queue[j + over]
        <5>1. i \in 1 .. Len(q) + 1 - over /\ Len(q) \in Nat /\ over \in Nat
          BY <1>5, <1>7, <2>2
        <5>2. \A j \in 1 .. i - 1 : /\ j \in 1 .. Len(q) + 1 - over
                                     /\ j + over \in 1 .. (i + over) - 1
          BY <5>1
        <5>3. i + over \in 1 .. Len(q) + 1
          BY <5>1
        <5>4. \A k \in 1 .. Len(q) + 1 - over : rest[k] = queue[k + over]
          BY <2>2
        <5> QED BY <5>1, <5>2, <5>3, <5>4
      <4> QED BY <2>6, <4>1
    <3>2. Len(rest) <= Capacity /\ DOMAIN rest = 1 .. Len(rest)
      <4> HIDE DEF rest, over
      <4> QED BY <1>7, <2>2
    <3> HIDE DEF rest
    <3> QED BY <2>3, <3>1, <3>2 DEF QueueInv, StateOf
  <2> QED BY <1>9, <1>10, <1>11, <1>12, <2>3, <2>5, <2>7 DEF GateType, GateRecords
<1> QED BY <1>1, <1>14, <1>15

-----------------------------------------------------------------------------
(* What keeps each part of the invariant.                                  *)

PumpRecords ==
    [pc : PumpSteps, force : BOOLEAN, lease : Nat, pending : Extents,
     actual : Extents, new : BOOLEAN, display : Nat, kept : SUBSET Nat,
     drained : BOOLEAN]

LEMMA Types ==
    ASSUME TypeOK
    PROVE  /\ leases \in Seq(Lease) /\ GateType /\ ProducerType /\ HostType
           /\ pump \in PumpRecords /\ pump.lease \in Nat /\ pump.display \in Nat
           /\ gate.shown \in Nat /\ gate.queue \in Seq(Nat)
           /\ surface.applied \in Extents /\ surface.latest \in Extents
BY DEF TypeOK, GateType, PumpRecords

LEMMA LeaseInvKept ==
    ASSUME leases \in Seq(Lease), LeaseInv, Stepped,
           \A s \in Slots : slots'[s].lease = slots[s].lease
    PROVE  LeaseInv'
<1>1. /\ \A t \in Tokens : leases[t].slot \in Slots
      /\ Tokens = DOMAIN leases /\ Tokens' = Tokens
  BY LeaseFacts, SteppedLen DEF Tokens
<1>2. \A t \in Tokens : leases'[t].slot = leases[t].slot
                        /\ (leases[t].state \in Spent => leases'[t].state \in Spent)
  BY DEF Stepped, StepsTo, Spent
<1> QED BY <1>1, <1>2 DEF LeaseInv, StateOf

LEMMA QueueInvKept ==
    ASSUME TypeOK, QueueInv, gate'.queue = gate.queue, Tokens \subseteq Tokens',
           \A t \in Tokens : leases[t].state \in Unclaimed => leases'[t].state \in Unclaimed,
           pump'.lease \in {0, pump.lease}, pump'.display \in {pump.display, pump.lease}
    PROVE  QueueInv'
<1>1. \A i \in DOMAIN gate.queue : gate.queue[i] \in Nat /\ gate.queue[i] > 0
  <2>1. \A i \in DOMAIN gate.queue : gate.queue[i] \in Tokens
    BY DEF QueueInv
  <2>2. \A t \in Tokens : t \in Nat /\ t > 0
    BY Types, LeaseFacts
  <2> QED BY <2>1, <2>2
<1> QED BY <1>1 DEF QueueInv, StateOf

LEMMA QueueInvEmpty ==
    ASSUME gate'.queue = <<>>
    PROVE  QueueInv'
BY GateConstants DEF QueueInv

LEMMA ShownInvKept ==
    ASSUME TypeOK, ShownInv, gate'.shown = gate.shown, pump'.display = pump.display,
           Len(leases') \in {Len(leases), Len(leases) + 1},
           pump'.pc \in CopyPcs => pump.pc \in CopyPcs /\ pump'.lease = pump.lease
    PROVE  ShownInv'
<1>1. Len(leases) \in Nat /\ pump.display \in Nat
  BY Types, LeaseFacts
<1> QED BY <1>1 DEF ShownInv

\* The other threads may end the leases the presenter holds.
LEMMA PumpInvKept ==
    ASSUME TypeOK, PumpInv, pump' = pump, host' = host,
           Tokens \subseteq Tokens', Len(leases') \in {Len(leases), Len(leases) + 1},
           \A t \in Tokens : EndsTo(leases[t].state, leases'[t].state)
    PROVE  PumpInv'
<1>1. Len(leases) \in Nat /\ pump.lease \in Nat
  BY Types, LeaseFacts
<1>2. pump.lease <= Len(leases')
  BY <1>1 DEF PumpInv
<1>3. ASSUME NEW t \in Tokens
      PROVE  /\ StateOf(t) \in {"Claimed", "Failed"} => leases'[t].state \in {"Claimed", "Failed"}
             /\ StateOf(t) \in {"CopySubmitted", "Failed"} =>
                   leases'[t].state \in {"CopySubmitted", "Failed"}
             /\ StateOf(t) = "Failed" => leases'[t].state = "Failed"
  BY DEF EndsTo, StateOf
<1>4. pump.pc \in {"fence", "prepare", "markCopy", "submitCopy", "waitCopy", "retire"} =>
         pump.pc \in CopyPcs
  BY DEF CopyPcs
<1> QED BY <1>2, <1>3, <1>4 DEF PumpInv, StateOf, Healthy

\* The presenter leaves a frame behind, or is not at one.
LEMMA PumpInvRests ==
    ASSUME TypeOK, PumpInv, pump'.lease \in {0, pump.lease}, pump'.kept = pump.kept,
           Ended, pump'.pc \notin CopyPcs,
           pump'.pc \in HealthyPcs => Healthy', ~Healthy => ~Healthy'
    PROVE  PumpInv'
<1>1. Len(leases') = Len(leases) /\ Tokens' = Tokens /\ Len(leases) \in Nat
  BY Types, EndedStepped, SteppedLen, LeaseFacts
<1>2. pump.lease \in Nat
  BY Types
<1>3. pump'.lease <= Len(leases')
  BY <1>1, <1>2 DEF PumpInv
<1>4. \A t \in Tokens : StateOf(t) = "Failed" => leases'[t].state = "Failed"
  BY DEF Ended, EndsTo, StateOf
<1>5. {"fence", "prepare", "markCopy", "submitCopy", "waitCopy", "retire"} = CopyPcs
  BY DEF CopyPcs
<1> QED BY <1>1, <1>3, <1>4, <1>5 DEF PumpInv, StateOf

LEMMA CopyInvKept ==
    ASSUME PumpInv, CopyInv,
           "copy" \in gpu'.busy => "copy" \in gpu.busy /\ gpu'.source = gpu.source,
           \A t \in Tokens : leases'[t].slot = leases[t].slot,
           pump.kept \subseteq pump'.kept,
           pump.pc = "waitCopy" => pump' = pump \/ pump.lease \in pump'.kept
    PROVE  CopyInv'
<1>1. pump.pc = "waitCopy" => pump.lease \in Tokens
  BY DEF PumpInv, CopyPcs
<1>2. pump.kept \subseteq Tokens
  BY DEF PumpInv
<1> QED BY <1>1, <1>2 DEF CopyInv, At

LEMMA AwaitInvKept ==
    ASSUME LeaseInv, AwaitInv, ProducerType, Stepped, removed => removed',
           \A s \in Slots : slots'[s].lease = slots[s].lease,
           producer'.pc = producer.pc, producer'.awaited = producer.awaited,
           producer'.abandoned = producer.abandoned
    PROVE  AwaitInv'
<1>1. producer.awaited \subseteq Slots
  BY DEF ProducerType
<1>2. ASSUME NEW s \in Slots, Returned(slots[s].lease)
      PROVE  Returned(slots[s].lease)'
  <2>1. slots'[s].lease = slots[s].lease
    OBVIOUS
  <2>2. slots[s].lease # 0 =>
           /\ slots[s].lease \in Tokens
           /\ leases[slots[s].lease].state \in {"Retired", "Cancelled"}
    BY <1>2 DEF LeaseInv, Returned, StateOf
  <2>3. slots[s].lease # 0 =>
           leases'[slots[s].lease].state \in {"Retired", "Cancelled"}
    BY <2>2 DEF Stepped, StepsTo
  <2> QED BY <2>1, <2>3 DEF Returned, StateOf
<1> QED BY <1>1, <1>2 DEF AwaitInv

\* The presenter is not in the close.
LEMMA CloseInvOpen ==
    ASSUME CloseInv, pump.pc \notin Closing, pump'.pc \notin Closing,
           pump'.drained = pump.drained, session' = session
    PROVE  CloseInv'
BY DEF CloseInv, Closing, At

\* Others' steps while the presenter is anywhere.
LEMMA CloseInvKept ==
    ASSUME CloseInv, Stepped, producer'.pc = producer.pc, host' = host,
           removed' = removed, gpu'.busy \subseteq gpu.busy, pump' = pump,
           session'.owners = session.owners, session'.report = session.report
    PROVE  CloseInv'
<1>1. Tokens' = Tokens
  BY DEF Stepped, Tokens
<1>2. \A t \in Tokens : IsTerminal(StateOf(t)) => IsTerminal(leases'[t].state)
  BY DEF Stepped, StepsTo, IsTerminal, StateOf
<1>3. gpu.busy = {} => gpu'.busy = {}
  OBVIOUS
<1>4. Retains(host.health)' = Retains(host.health)
  BY DEF Retains
<1> QED BY <1>1, <1>2, <1>3, <1>4 DEF CloseInv, At, StateOf

\* A step of another thread that ends leases at most.
LEMMA AsideKept ==
    ASSUME IInv, GateKept, UNCHANGED <<removed, hostVars, pump>>
    PROVE  /\ QueueInv' /\ ShownInv' /\ OffersAccounted'
           /\ PumpInv' /\ CopyInv' /\ BusyInv'
           /\ (\A s \in Slots : slots'[s].lease = slots[s].lease) => LeaseInv'
<1>1. TypeOK /\ leases \in Seq(Lease) /\ Ended /\ Stepped
  BY Types, EndedStepped DEF IInv, GateKept
<1>2. Len(leases') = Len(leases) /\ Tokens' = Tokens
  BY <1>1, SteppedLen
<1>3. (\A s \in Slots : slots'[s].lease = slots[s].lease) => LeaseInv'
  BY <1>1, LeaseInvKept DEF IInv
<1>4. QueueInv'
  <2>1. \A t \in Tokens : leases[t].state \in Unclaimed => leases'[t].state \in Unclaimed
    BY <1>1 DEF Ended, EndsTo, Unclaimed
  <2> QED BY <1>1, <1>2, <2>1, QueueInvKept, QueueInvEmpty DEF IInv, GateKept
<1>5. ShownInv'
  BY <1>1, <1>2, ShownInvKept DEF IInv, GateKept
<1>6. PumpInv'
  BY <1>1, <1>2, PumpInvKept DEF IInv, Ended, hostVars
<1>7. CopyInv'
  BY <1>1, CopyInvKept DEF IInv, Ended, hostVars
<1>8. BusyInv'
  BY DEF IInv, BusyInv, hostVars
<1> QED BY <1>3, <1>4, <1>5, <1>6, <1>7, <1>8 DEF GateKept

-----------------------------------------------------------------------------
(* The window, the app and the watcher.                                    *)

LEMMA NoGateCall ==
    ASSUME IInv, UNCHANGED gateVars
    PROVE  GateKept
<1>1. Ended /\ gate' = gate
  BY Types, SameEnded DEF IInv, gateVars
<1> QED BY <1>1, Types, GateUnchanged DEF IInv

\* What of the invariant is left when only these may have changed.
LEMMA AsideInv ==
    ASSUME IInv, GateKept, UNCHANGED <<slots, removed, hostVars, pump>>,
           producer'.pc = producer.pc, producer'.submitted = producer.submitted,
           producer'.awaited = producer.awaited,
           producer'.abandoned = producer.abandoned,
           session'.owners = session.owners, session'.report = session.report,
           TypeOK'
    PROVE  IInv'
<1>1. Stepped /\ ProducerType
  BY Types, EndedStepped DEF IInv, GateKept
<1>2. /\ LeaseInv' /\ QueueInv' /\ ShownInv' /\ OffersAccounted'
      /\ PumpInv' /\ CopyInv' /\ BusyInv'
  BY AsideKept
<1>3. SlotInv'
  BY DEF IInv, SlotInv
<1>4. AwaitInv'
  BY <1>1, AwaitInvKept DEF IInv
<1>5. CloseInv'
  BY <1>1, CloseInvKept DEF IInv, hostVars
<1> QED BY <1>2, <1>3, <1>4, <1>5 DEF IInv

LEMMA SurfaceTyped ==
    ASSUME TypeOK, NEW e \in Extents \cup {NoExtent}, NEW value \in BOOLEAN,
           RequestExtent(e) \/ SetMinimized(value)
    PROVE  /\ surface' \in [applied : Extents, latest : Extents, zero : BOOLEAN,
                            minimized : BOOLEAN, repaint : BOOLEAN]
           /\ surface'.minimized \in BOOLEAN /\ surface'.zero \in BOOLEAN
<1>1. CASE SetMinimized(value)
  BY <1>1 DEF TypeOK, SetMinimized
<1>2. CASE RequestExtent(e) /\ e = NoExtent
  BY <1>2 DEF TypeOK, RequestExtent
<1>3. CASE RequestExtent(e) /\ e # NoExtent
  BY <1>3 DEF TypeOK, RequestExtent
<1> QED BY <1>1, <1>2, <1>3

LEMMA WindowEventInv ==
    ASSUME IInv, NEW e \in Extents \cup {NoExtent}, NEW calls \in Seq(Calls),
           WindowEvent(e, calls)
    PROVE  IInv'
<1>1. TypeOK'
  <2>1. window' \in [client : Extents \cup {NoExtent}, calls : Seq(Calls),
                     latched : BOOLEAN, suspend : BOOLEAN]
    BY DEF IInv, TypeOK, WindowEvent
  <2> QED BY SMTT(30), <2>1 DEF IInv, TypeOK, WindowEvent, gateVars, producerVars, hostVars,
                      GateType, ProducerType, HostType
<1> QED BY <1>1, NoGateCall, AsideInv DEF WindowEvent, producerVars

LEMMA WindowInv ==
    ASSUME IInv, WindowNext
    PROVE  IInv'
<1>1. \A e \in Extents \cup {NoExtent}, v \in BOOLEAN :
         ExtentCall(e) \in Calls /\ MinimizedCall(v) \in Calls
  BY DEF Calls, ExtentCall, MinimizedCall
<1>2. window.client \in Extents \cup {NoExtent}
  BY DEF IInv, TypeOK
<1>3. \A c, d \in Calls : <<c>> \in Seq(Calls) /\ <<c, d>> \in Seq(Calls)
  OBVIOUS
<1>4. ASSUME NEW e \in Extents \cup {NoExtent}, WindowResized(e)
      PROVE  IInv'
  BY <1>1, <1>3, <1>4, WindowEventInv DEF WindowResized
<1>5. CASE WindowMinimized
  BY <1>1, <1>2, <1>3, <1>5, WindowEventInv DEF WindowMinimized
<1>6. CASE WindowRestored
  BY <1>1, <1>2, <1>3, <1>6, WindowEventInv DEF WindowRestored
<1> QED BY <1>4, <1>5, <1>6 DEF WindowNext

LEMMA LatchSurfaceInv ==
    ASSUME IInv, LatchSurface
    PROVE  IInv'
<1> DEFINE c == Head(window.calls)
<1>1. c \in Calls
  <2>1. window.calls \in Seq(Calls) /\ window.calls # <<>>
    BY DEF IInv, TypeOK, LatchSurface
  <2> QED BY <2>1, HeadTailProperties
<1>2. /\ surface' \in [applied : Extents, latest : Extents, zero : BOOLEAN,
                       minimized : BOOLEAN, repaint : BOOLEAN]
      /\ surface'.minimized \in BOOLEAN /\ surface'.zero \in BOOLEAN
  <2>1. CASE c.call = "extent"
    <3>1. c.extent \in Extents \cup {NoExtent} /\ RequestExtent(c.extent)
      BY <1>1, <2>1 DEF Calls, LatchSurface
    <3> QED BY <3>1, SurfaceTyped DEF IInv
  <2>2. CASE c.call # "extent"
    <3>1. c.value \in BOOLEAN /\ SetMinimized(c.value)
      BY <1>1, <2>2 DEF Calls, LatchSurface
    <3> QED BY <3>1, SurfaceTyped DEF IInv
  <2> QED BY <2>1, <2>2
<1>3. /\ window' = [window EXCEPT !.latched = TRUE,
                      !.suspend = surface'.minimized \/ surface'.zero]
      /\ UNCHANGED <<gateVars, producerVars, hostVars, pump, session>>
  BY DEF LatchSurface
<1>4. window' \in [client : Extents \cup {NoExtent}, calls : Seq(Calls),
                   latched : BOOLEAN, suspend : BOOLEAN]
  BY <1>2, <1>3 DEF IInv, TypeOK
<1>5. TypeOK'
  BY <1>2, <1>3, <1>4 DEF IInv, TypeOK, gateVars, producerVars, hostVars, GateType,
         ProducerType, HostType
<1> QED BY <1>3, <1>5, NoGateCall, AsideInv DEF producerVars

LEMMA LatchGateInv ==
    ASSUME IInv, LatchGate
    PROVE  IInv'
<1>1. window.calls \in Seq(Calls) /\ window.suspend \in BOOLEAN
  BY DEF IInv, TypeOK
<1>2. GateKept
  BY <1>1, Types, SetSuspendedKept DEF IInv, LatchGate
<1>3. Tail(window.calls) \in Seq(Calls)
  <2>1. CASE window.calls = <<>>
    BY <1>1, <2>1
  <2>2. CASE window.calls # <<>>
    BY <1>1, <2>2, HeadTailProperties
  <2> QED BY <2>1, <2>2
<1>4. window' \in [client : Extents \cup {NoExtent}, calls : Seq(Calls),
                   latched : BOOLEAN, suspend : BOOLEAN]
  BY <1>3 DEF IInv, TypeOK, LatchGate
<1>5. TypeOK'
  BY <1>2, <1>4 DEF IInv, TypeOK, GateKept, LatchGate, producerVars, hostVars,
         ProducerType, HostType
<1> QED BY <1>2, <1>5, AsideInv DEF LatchGate, producerVars

LEMMA CloseCallInv ==
    ASSUME IInv, Close
    PROVE  IInv'
<1>1. GateKept
  BY Types, CloseGateKept DEF IInv, Close
<1>2. /\ producer'.pc = producer.pc /\ producer'.submitted = producer.submitted
      /\ producer'.awaited = producer.awaited
      /\ producer'.abandoned = producer.abandoned /\ ProducerType'
  BY DEF IInv, TypeOK, ProducerType, Close
<1>3. /\ session'.owners = session.owners /\ session'.report = session.report
      /\ session' \in [stopping : BOOLEAN, owners : {"held", "released", "kept"},
                       report : {"none", "drained", "failed"}]
  BY DEF IInv, TypeOK, Close
<1>4. TypeOK'
  BY <1>1, <1>2, <1>3 DEF IInv, TypeOK, GateKept, Close, hostVars, HostType, surfaceVars
<1> QED BY <1>1, <1>2, <1>3, <1>4, AsideInv DEF Close

LEMMA ReportInv ==
    ASSUME IInv, Report
    PROVE  IInv'
<1>1. PICK r \in {"drained", "failed"} :
         /\ r = "drained" => At("finished") /\ pump.drained
         /\ session' = [session EXCEPT !.report = r]
  BY DEF Report
<1>2. UNCHANGED <<gateVars, producerVars, hostVars, surfaceVars, pump>>
  BY DEF Report
<1>3. /\ session'.owners = session.owners /\ session'.report = r
      /\ session' \in [stopping : BOOLEAN, owners : {"held", "released", "kept"},
                       report : {"none", "drained", "failed"}]
  BY <1>1 DEF IInv, TypeOK
<1>4. TypeOK'
  BY <1>2, <1>3 DEF IInv, TypeOK, GateType, ProducerType, HostType, gateVars,
         producerVars, hostVars, surfaceVars
<1>5. Stepped /\ ProducerType
  BY <1>2, Types, NoGateCall, EndedStepped DEF IInv, GateKept
<1>6. /\ LeaseInv' /\ QueueInv' /\ ShownInv' /\ OffersAccounted'
      /\ PumpInv' /\ CopyInv' /\ BusyInv'
  BY <1>2, NoGateCall, AsideKept DEF producerVars
<1>7. SlotInv' /\ AwaitInv'
  BY <1>2 DEF IInv, SlotInv, AwaitInv, Returned, StateOf, producerVars, gateVars
<1>8. CloseInv'
  BY <1>1, <1>2, <1>3 DEF IInv, CloseInv, At, Tokens, StateOf, Retains, gateVars,
         producerVars, hostVars
<1> QED BY <1>4, <1>6, <1>7, <1>8 DEF IInv

-----------------------------------------------------------------------------
(* The renderer thread and the GPU.                                        *)

LEMMA SlotAfterTyped ==
    ASSUME NEW s \in Slots
    PROVE  SlotAfter(s) \in Slots
BY GateConstants DEF SlotAfter, Slots

\* A step of the renderer thread that returns nothing to its slots.
LEMMA ProducerKept ==
    ASSUME IInv, GateKept, UNCHANGED <<removed, hostVars, surfaceVars, pump, session>>,
           LeaseInv' \/ \A s \in Slots : slots'[s].lease = slots[s].lease,
           producer.pc # "stopped", ProducerType', SlotInv', AwaitInv'
    PROVE  IInv'
<1>1. pump.pc \notin Closing
  BY DEF IInv, CloseInv
<1>2. CloseInv'
  BY <1>1, CloseInvOpen DEF IInv
<1>3. TypeOK'
  BY DEF IInv, TypeOK, GateKept, hostVars, HostType, surfaceVars
<1> QED BY <1>2, <1>3, AsideKept DEF IInv

LEMMA BeginFrameInv ==
    ASSUME IInv, NewFrame
    PROVE  IInv'
<1>1. /\ producer.pc = "run" /\ producer' = [producer EXCEPT !.pc = "reuse"]
      /\ UNCHANGED <<gateVars, slots, removed, hostVars, surfaceVars, pump, session>>
  BY DEF NewFrame, BeginFrame
<1>2. /\ ProducerType' /\ producer'.pc = "reuse"
      /\ producer'.submitted = producer.submitted /\ producer'.awaited = producer.awaited
  BY <1>1, Types DEF IInv, ProducerType, ProducerPhases
<1>3. SlotInv' /\ AwaitInv'
  BY <1>1, <1>2 DEF IInv, SlotInv, AwaitInv
<1> QED BY <1>1, <1>2, <1>3, NoGateCall, ProducerKept

LEMMA CancelForReuseInv ==
    ASSUME IInv, CancelForReuse, UNCHANGED <<hostVars, surfaceVars, pump, session>>
    PROVE  IInv'
<1> DEFINE t == NextLease
<1>1. /\ producer.pc = "reuse" /\ t # 0 /\ Moved(t, {"Published"}, "Cancelled")
      /\ UNCHANGED <<gate, producerVars>>
  BY DEF CancelForReuse
<1>2. leases \in Seq(Lease) /\ producer.next \in Slots /\ ProducerType
  BY Types DEF IInv, ProducerType
<1>3. t \in Tokens
  BY <1>1, <1>2 DEF IInv, LeaseInv, NextLease
<1>4. Ended
  <2> HIDE DEF t
  <2> QED BY <1>1, <1>2, <1>3, MovedEnded DEF LeaseStates, EndsTo
<1>5. GateKept
  BY <1>1, <1>4, Types, GateUnchanged DEF IInv
<1>6. SlotInv' /\ ProducerType'
  BY <1>1, <1>2 DEF IInv, SlotInv, ProducerType, producerVars
<1>7. AwaitInv'
  BY <1>1, <1>2, <1>4, EndedStepped, AwaitInvKept DEF IInv, producerVars
<1> QED BY <1>1, <1>5, <1>6, <1>7, ProducerKept DEF producerVars

\* The producer moves on with its queue and slots as they are.
LEMMA GiveUpSlotInv ==
    ASSUME IInv, GiveUpSlot \/ ObserveStop,
           UNCHANGED <<hostVars, surfaceVars, pump, session>>
    PROVE  IInv'
<1>1. /\ producer.pc \in {"run", "reuse"} /\ UNCHANGED <<gateVars, slots, removed>>
      /\ \/ producer' = [producer EXCEPT !.pc = "drain", !.stop = TRUE]
         \/ producer' = [producer EXCEPT !.pc = "drain"]
  BY DEF GiveUpSlot, ObserveStop
<1>2. /\ ProducerType' /\ producer'.pc = "drain"
      /\ producer'.submitted = producer.submitted /\ producer'.awaited = producer.awaited
  BY <1>1, Types DEF IInv, ProducerType, ProducerPhases
<1>3. SlotInv' /\ AwaitInv'
  BY <1>1, <1>2 DEF IInv, SlotInv, AwaitInv
<1> QED BY <1>1, <1>2, <1>3, NoGateCall, ProducerKept

LEMMA DrainFramesInv ==
    ASSUME IInv, DrainFrames, UNCHANGED <<hostVars, surfaceVars, pump, session>>
    PROVE  IInv'
<1>1. /\ producer.pc = "drain" /\ UNCHANGED <<gateVars, slots, removed>>
      /\ producer' = [producer EXCEPT !.pc = "slots", !.awaited = {}]
  BY DEF DrainFrames
<1>2. /\ ProducerType' /\ producer'.pc = "slots" /\ producer'.awaited = {}
      /\ producer'.submitted = producer.submitted
  BY <1>1, Types DEF IInv, ProducerType, ProducerPhases
<1>3. SlotInv' /\ AwaitInv'
  BY <1>1, <1>2 DEF IInv, SlotInv, AwaitInv
<1> QED BY <1>1, <1>2, <1>3, NoGateCall, ProducerKept

LEMMA AwaitSlotInv ==
    ASSUME IInv, NEW s \in Slots, AwaitSlot(s),
           UNCHANGED <<hostVars, surfaceVars, pump, session>>
    PROVE  IInv'
<1> DEFINE given == IF Returned(slots[s].lease) \/ removed
                    THEN producer.abandoned ELSE producer.abandoned \cup {s}
<1>1. /\ producer.pc = "slots" /\ UNCHANGED <<gateVars, slots, removed>>
      /\ producer' = [producer EXCEPT !.awaited = @ \cup {s}, !.abandoned = given]
  BY DEF AwaitSlot
<1>2. /\ ProducerType' /\ producer'.pc = "slots"
      /\ producer'.awaited = producer.awaited \cup {s}
      /\ producer'.abandoned = given /\ producer'.submitted = producer.submitted
  BY <1>1, Types DEF IInv, ProducerType, ProducerPhases
<1>3. SlotInv'
  BY <1>1, <1>2 DEF IInv, SlotInv
<1>4. \A r \in Slots : Returned(slots[r].lease)' = Returned(slots[r].lease)
  BY <1>1 DEF Returned, StateOf, gateVars
<1>5. ASSUME NEW r \in producer.awaited \cup {s}
      PROVE  Returned(slots[r].lease) \/ removed \/ r \in given
  BY <1>1, <1>5 DEF IInv, AwaitInv
<1>6. producer.awaited \cup {s} \subseteq Slots
  BY Types DEF IInv, ProducerType
<1>7. AwaitInv'
  BY <1>1, <1>2, <1>4, <1>5, <1>6 DEF AwaitInv
<1> QED BY <1>1, <1>2, <1>3, <1>7, NoGateCall, ProducerKept

LEMMA LeaveThreadInv ==
    ASSUME IInv, LeaveThread, UNCHANGED <<hostVars, surfaceVars, pump, session>>
    PROVE  IInv'
<1>1. /\ producer.pc = "slots" /\ producer.awaited = Slots
      /\ UNCHANGED <<gateVars, slots, removed>>
      /\ \/ producer' = [producer EXCEPT !.pc = "stopped"]
         \/ producer' = [producer EXCEPT !.pc = "stopped",
                            !.abandoned = IF removed THEN @ ELSE Slots]
  BY DEF LeaveThread
<1>2. /\ ProducerType' /\ producer'.pc = "stopped"
      /\ producer'.awaited = producer.awaited
      /\ producer'.submitted = producer.submitted
      /\ producer'.abandoned = producer.abandoned \/ producer'.abandoned = Slots
  BY <1>1, Types DEF IInv, ProducerType, ProducerPhases
<1>3. SlotInv'
  BY <1>1, <1>2 DEF IInv, SlotInv
<1>4. \A r \in Slots : Returned(slots[r].lease)' = Returned(slots[r].lease)
  BY <1>1 DEF Returned, StateOf, gateVars
<1>5. AwaitInv'
  BY <1>1, <1>2, <1>4 DEF IInv, AwaitInv
<1> QED BY <1>1, <1>2, <1>3, <1>5, NoGateCall, ProducerKept

\* A slot taken had its lease given back.
LEMMA TakeSlotInv ==
    ASSUME IInv, TakeSlot, UNCHANGED <<hostVars, surfaceVars, pump, session>>
    PROVE  IInv'
<1> DEFINE n == producer.next
<1>1. /\ producer.pc = "reuse" /\ n \notin ToSet(producer.submitted)
      /\ Returned(slots[n].lease) /\ UNCHANGED <<gateVars, removed>>
  BY DEF TakeSlot, NextSubmitted, NextLease
<1>2. /\ n \in Slots /\ SlotAfter(n) \in Slots /\ producer.submitted \in Seq(Slots)
      /\ slots \in [Slots -> [lease : Nat, gpu : {"idle", "drawing", "done"}]]
      /\ leases \in Seq(Lease)
  BY Types, SlotAfterTyped DEF IInv, ProducerType
<1>3. \A t \in Tokens : leases[t].slot \in Slots
  BY <1>2, LeaseFacts
<1>4. ASSUME slots' \in [Slots -> [lease : Nat, gpu : {"idle", "drawing", "done"}]],
             slots'[n].lease = 0, \A s \in Slots \ {n} : slots'[s] = slots[s]
      PROVE  LeaseInv'
  <2>1. ASSUME NEW t \in Tokens, StateOf(t) \notin Spent
        PROVE  leases[t].slot \in Slots \ {n} /\ slots[leases[t].slot].lease = t
    <3>1. slots[leases[t].slot].lease = t /\ t # 0
      BY <1>2, <2>1, LeaseFacts DEF IInv, LeaseInv
    <3> QED BY <1>1, <1>3, <2>1, <3>1 DEF Returned, Spent
  <2> QED BY <1>1, <1>4, <2>1 DEF IInv, LeaseInv, Tokens, StateOf, gateVars
<1>5. CASE /\ slots' = [slots EXCEPT ![n] = [lease |-> 0, gpu |-> "drawing"]]
           /\ producer' = [producer EXCEPT
                 !.pc = "run", !.submitted = Append(@, n), !.next = SlotAfter(@)]
  <2>1. /\ slots' \in [Slots -> [lease : Nat, gpu : {"idle", "drawing", "done"}]]
        /\ slots'[n].lease = 0 /\ slots'[n].gpu = "drawing"
        /\ \A s \in Slots \ {n} : slots'[s] = slots[s]
    BY <1>2, <1>5
  <2>2. /\ Append(producer.submitted, n) \in Seq(Slots)
        /\ ToSet(Append(producer.submitted, n)) = ToSet(producer.submitted) \cup {n}
    <3> DEFINE q == producer.submitted
               more == Append(q, n)
    <3>1. /\ more \in Seq(Slots) /\ Len(more) = Len(q) + 1
          /\ \A i \in 1 .. Len(q) : more[i] = q[i]
          /\ more[Len(q) + 1] = n
      BY <1>2, AppendProperties
    <3>2. /\ DOMAIN q = 1 .. Len(q) /\ Len(q) \in Nat
          /\ DOMAIN more = 1 .. Len(q) + 1
      BY <1>2, <3>1, LenProperties
    <3>3. DOMAIN more = DOMAIN q \cup {Len(q) + 1}
      BY <3>2
    <3>4. \A i \in DOMAIN q : more[i] = q[i]
      BY <3>1, <3>2
    <3>5. ToSet(more) = ToSet(q) \cup {n}
      <4> HIDE DEF more, q, n
      <4>1. \A x \in ToSet(more) : x \in ToSet(q) \cup {n}
        BY <3>1, <3>3, <3>4 DEF ToSet
      <4>2. \A x \in ToSet(q) : x \in ToSet(more)
        BY <3>3, <3>4 DEF ToSet
      <4>3. n \in ToSet(more)
        BY <3>1, <3>3 DEF ToSet
      <4> QED BY <4>1, <4>2, <4>3
    <3> QED BY <3>1, <3>5
  <2>3. /\ producer'.pc = "run" /\ producer'.awaited = producer.awaited
        /\ producer'.submitted = Append(producer.submitted, n)
        /\ ProducerType'
    BY <1>1, <1>2, <1>5, <2>1, <2>2, Types DEF IInv, ProducerType, ProducerPhases
  <2>4. SlotInv'
    BY <2>1, <2>2, <2>3 DEF IInv, SlotInv
  <2>5. AwaitInv'
    BY <1>1, <2>3 DEF IInv, AwaitInv
  <2> QED BY <1>1, <1>4, <2>1, <2>3, <2>4, <2>5, NoGateCall, ProducerKept
<1>6. CASE /\ slots' = [slots EXCEPT ![n].lease = 0]
           /\ producer' = [producer EXCEPT !.pc = "drain", !.stop = TRUE]
  <2>1. /\ slots' \in [Slots -> [lease : Nat, gpu : {"idle", "drawing", "done"}]]
        /\ slots'[n].lease = 0 /\ slots'[n].gpu = slots[n].gpu
        /\ \A s \in Slots \ {n} : slots'[s] = slots[s]
    BY <1>2, <1>6
  <2>2. /\ producer'.pc = "drain" /\ producer'.submitted = producer.submitted
        /\ producer'.awaited = producer.awaited /\ ProducerType'
    BY <1>1, <1>2, <1>6, <2>1, Types DEF IInv, ProducerType, ProducerPhases
  <2>3. SlotInv'
    BY <2>1, <2>2 DEF IInv, SlotInv
  <2>4. AwaitInv'
    BY <1>1, <2>2 DEF IInv, AwaitInv
  <2> QED BY <1>1, <1>4, <2>1, <2>2, <2>3, <2>4, NoGateCall, ProducerKept
<1> QED BY <1>5, <1>6 DEF TakeSlot

\* The oldest frame leaves the queue; the others stay in it.
LEMMA OldestTaken ==
    ASSUME ProducerType, producer.submitted # <<>>
    PROVE  /\ Oldest \in Slots /\ Tail(producer.submitted) \in Seq(Slots)
           /\ ToSet(producer.submitted) \subseteq ToSet(Tail(producer.submitted)) \cup {Oldest}
<1> DEFINE q == producer.submitted
           rest == Tail(q)
<1>1. q \in Seq(Slots) /\ q # <<>>
  BY DEF ProducerType
<1>2. /\ Head(q) \in Slots /\ Head(q) = q[1] /\ rest \in Seq(Slots)
      /\ Len(rest) = Len(q) - 1 /\ \A i \in 1 .. Len(rest) : rest[i] = q[i + 1]
  BY <1>1, HeadTailProperties
<1>3. /\ DOMAIN q = 1 .. Len(q) /\ Len(q) \in Nat
      /\ DOMAIN rest = 1 .. Len(q) - 1
  BY <1>1, <1>2, LenProperties
<1>4. ASSUME NEW i \in 1 .. Len(q), i # 1
      PROVE  i - 1 \in DOMAIN rest /\ rest[i - 1] = q[i]
  <2>1. i - 1 \in 1 .. Len(q) - 1 /\ (i - 1) + 1 = i
    BY <1>3, <1>4
  <2> QED BY <1>2, <1>3, <2>1
<1> HIDE DEF rest
<1>5. \A i \in DOMAIN q : q[i] = Head(q) \/ q[i] \in ToSet(rest)
  BY <1>2, <1>3, <1>4 DEF ToSet
<1> QED BY <1>2, <1>5 DEF ToSet, Oldest, rest

\* An offer the gate takes: the slot gets the new lease.
LEMMA OfferInv ==
    ASSUME IInv, Publishing, slots[Oldest].gpu = "done", OfferAccepted(Oldest),
           slots' = [slots EXCEPT ![Oldest] =
                       [lease |-> Len(leases) + 1, gpu |-> "idle"]],
           producer' = [producer EXCEPT !.submitted = Tail(@)],
           UNCHANGED <<removed, hostVars, surfaceVars, pump, session>>
    PROVE  IInv'
<1> DEFINE n == Oldest
           t == Len(leases) + 1
<1>1. /\ n \in Slots /\ Tail(producer.submitted) \in Seq(Slots)
      /\ ToSet(producer.submitted) \subseteq ToSet(Tail(producer.submitted)) \cup {n}
  BY Types, OldestTaken DEF IInv, Publishing
<1>2. /\ leases \in Seq(Lease) /\ GateType /\ ProducerType /\ TypeOK
      /\ pump.lease \in Nat /\ pump.display \in Nat
      /\ slots \in [Slots -> [lease : Nat, gpu : {"idle", "drawing", "done"}]]
      /\ pump.lease <= Len(leases) /\ pump.display <= Len(leases)
  BY Types DEF IInv, ProducerType, PumpInv, ShownInv
<1>3. /\ Len(leases) \in Nat /\ Tokens = 1 .. Len(leases) /\ t \notin Tokens
      /\ t \in Nat /\ t # 0
  BY <1>2, LeaseFacts
<1>4. /\ GateType' /\ QueueInv' /\ OffersAccounted' /\ gate'.shown = gate.shown
      /\ Len(leases') = t
      /\ leases'[t].slot = n /\ leases'[t].state \in Unclaimed
      /\ \A u \in Tokens :
            /\ leases'[u].slot = leases[u].slot
            /\ leases'[u].state # leases[u].state =>
                  leases[u].state = "Published" /\ leases'[u].state = "Cancelled"
  BY <1>1, <1>2, OfferKept DEF IInv
<1>5. Tokens' = Tokens \cup {t}
  <2>1. Tokens' = 1 .. t
    <3>1. leases' \in Seq(Lease)
      BY <1>4 DEF GateType
    <3> QED BY <1>4, <3>1, LenProperties DEF Tokens
  <2> QED BY <1>3, <2>1
<1>6. /\ slots' \in [Slots -> [lease : Nat, gpu : {"idle", "drawing", "done"}]]
      /\ slots'[n].lease = t /\ slots'[n].gpu = "idle" /\ slots[n].lease = 0
      /\ \A s \in Slots \ {n} : slots'[s] = slots[s]
  <2>1. slots[n].lease = 0
    BY <1>1 DEF IInv, SlotInv
  <2> HIDE DEF n
  <2> QED BY <1>1, <1>2, <1>3, <2>1 DEF n
<1>7. /\ producer'.submitted = Tail(producer.submitted)
      /\ producer'.pc = producer.pc /\ producer'.awaited = producer.awaited
      /\ producer.pc \in {"run", "reuse", "drain"} /\ ProducerType'
  BY <1>1, <1>2, <1>6 DEF ProducerType, Publishing
<1> HIDE DEF n, t
<1>8. LeaseInv'
  <2>1. ASSUME NEW u \in Tokens, leases'[u].state \notin Spent
        PROVE  slots'[leases'[u].slot].lease = u
    <3>1. leases[u].state \notin Spent
      BY <1>4, <2>1 DEF Spent
    <3>2. /\ slots[leases[u].slot].lease = u /\ u # 0 /\ leases[u].slot \in Slots
      BY <1>2, <3>1, LeaseFacts DEF IInv, LeaseInv, StateOf
    <3> QED BY <1>4, <1>6, <3>2
  <2>2. slots'[leases'[t].slot].lease = t
    BY <1>4, <1>6
  <2>3. ASSUME NEW s \in Slots, slots'[s].lease # 0
        PROVE  slots'[s].lease \in Tokens' /\ leases'[slots'[s].lease].slot = s
    <3>1. CASE s = n
      BY <1>4, <1>5, <1>6, <3>1
    <3>2. CASE s # n
      <4>1. slots'[s] = slots[s]
        BY <1>6, <3>2
      <4>2. slots[s].lease \in Tokens /\ leases[slots[s].lease].slot = s
        BY <2>3, <4>1 DEF IInv, LeaseInv
      <4> QED BY <1>4, <1>5, <4>1, <4>2
    <3> QED BY <3>1, <3>2
  <2> QED BY <1>5, <2>1, <2>2, <2>3 DEF LeaseInv, StateOf
<1>9. SlotInv'
  BY <1>1, <1>6, <1>7 DEF IInv, SlotInv
<1>10. ShownInv'
  BY <1>2, <1>4, ShownInvKept DEF IInv, t
<1>11. PumpInv'
  <2>1. \A u \in Tokens : EndsTo(leases[u].state, leases'[u].state)
    BY <1>4 DEF EndsTo
  <2> QED BY <1>2, <1>4, <1>5, <2>1, PumpInvKept DEF IInv, t, hostVars
<1>12. CopyInv'
  BY <1>4, CopyInvKept DEF IInv, hostVars
<1>13. BusyInv' /\ AwaitInv'
  BY <1>7 DEF IInv, BusyInv, AwaitInv, hostVars
<1>14. CloseInv'
  <2>1. pump.pc \notin Closing
    BY <1>7 DEF IInv, CloseInv
  <2> QED BY <2>1, CloseInvOpen DEF IInv
<1>15. TypeOK'
  BY <1>4, <1>7 DEF IInv, TypeOK, hostVars, HostType, surfaceVars
<1> QED BY <1>4, <1>8, <1>9, <1>10, <1>11, <1>12, <1>13, <1>14, <1>15 DEF IInv

\* A frame the gate does not take leaves its slot free.
LEMMA RefusedInv ==
    ASSUME IInv, GateKept, Publishing,
           \/ /\ slots' = slots
              /\ producer' = [producer EXCEPT !.pc = AfterRefusal, !.stop = TRUE]
           \/ /\ slots' = [slots EXCEPT ![Oldest].gpu = "idle"]
              /\ producer' = [producer EXCEPT !.submitted = Tail(@),
                                !.pc = AfterRefusal, !.stop = TRUE],
           UNCHANGED <<removed, hostVars, surfaceVars, pump, session>>
    PROVE  IInv'
<1> DEFINE n == Oldest
<1>1. /\ n \in Slots /\ Tail(producer.submitted) \in Seq(Slots)
      /\ ToSet(producer.submitted) \subseteq ToSet(Tail(producer.submitted)) \cup {n}
  BY Types, OldestTaken DEF IInv, Publishing
<1>2. /\ ProducerType
      /\ slots \in [Slots -> [lease : Nat, gpu : {"idle", "drawing", "done"}]]
  BY Types DEF IInv, ProducerType
<1>3. /\ slots' \in [Slots -> [lease : Nat, gpu : {"idle", "drawing", "done"}]]
      /\ \A s \in Slots : slots'[s].lease = slots[s].lease
      /\ \A s \in Slots \ {n} : slots'[s] = slots[s]
      /\ slots' = slots \/ slots'[n].gpu = "idle"
  <2>1. CASE slots' = slots
    BY <1>2, <2>1
  <2>2. CASE slots' = [slots EXCEPT ![n].gpu = "idle"]
    <3> HIDE DEF n
    <3> QED BY <1>1, <1>2, <2>2
  <2> QED BY <2>1, <2>2
<1>4. AfterRefusal \in {"slots", "drain"} /\ AfterRefusal \in ProducerPhases
      /\ (AfterRefusal = "slots" => producer.pc = "drain")
  BY DEF AfterRefusal, ProducerPhases
<1>5. /\ producer'.pc = AfterRefusal /\ producer'.awaited = producer.awaited
      /\ producer'.abandoned = producer.abandoned /\ ProducerType'
      /\ \/ slots' = slots /\ producer'.submitted = producer.submitted
         \/ slots'[n].gpu = "idle" /\ producer'.submitted = Tail(producer.submitted)
  <2> HIDE DEF n
  <2>1. CASE /\ slots' = slots
             /\ producer' = [producer EXCEPT !.pc = AfterRefusal, !.stop = TRUE]
    BY <1>2, <1>3, <1>4, <2>1 DEF ProducerType
  <2>2. CASE /\ slots' = [slots EXCEPT ![n].gpu = "idle"]
             /\ producer' = [producer EXCEPT !.submitted = Tail(@),
                               !.pc = AfterRefusal, !.stop = TRUE]
    <3>1. slots'[n].gpu = "idle"
      BY <1>1, <1>2, <2>2
    <3> QED BY <1>1, <1>2, <1>3, <1>4, <2>2, <3>1 DEF ProducerType
  <2> QED BY <2>1, <2>2 DEF n
<1>6. SlotInv'
  BY <1>1, <1>3, <1>5 DEF IInv, SlotInv
<1>7. AwaitInv'
  <2>1. producer.awaited = {}
    BY DEF IInv, AwaitInv, Publishing
  <2> QED BY <1>4, <1>5, <2>1 DEF AwaitInv
<1>8. producer.pc # "stopped"
  BY DEF Publishing
<1> QED BY <1>3, <1>5, <1>6, <1>7, <1>8, ProducerKept

LEMMA PublishInv ==
    ASSUME IInv, Publish \/ PublishLost,
           UNCHANGED <<hostVars, surfaceVars, pump, session>>
    PROVE  IInv'
<1>1. CASE Publish
  <2>1. /\ Publishing /\ slots[Oldest].gpu = "done" /\ UNCHANGED removed
    BY <1>1 DEF Publish
  <2>2. CASE /\ OfferAccepted(Oldest)
             /\ slots' = [slots EXCEPT ![Oldest] =
                            [lease |-> Len(leases) + 1, gpu |-> "idle"]]
             /\ producer' = [producer EXCEPT !.submitted = Tail(@)]
    BY <2>1, <2>2, OfferInv
  <2>3. CASE /\ slots' = [slots EXCEPT ![Oldest].gpu = "idle"]
             /\ producer' = [producer EXCEPT !.submitted = Tail(@),
                               !.pc = AfterRefusal, !.stop = TRUE]
             /\ UNCHANGED gateVars
    BY <2>1, <2>3, NoGateCall, RefusedInv
  <2> QED BY <1>1, <2>2, <2>3 DEF Publish
<1>2. CASE PublishLost
  <2>1. Publishing /\ UNCHANGED removed
    BY <1>2 DEF PublishLost
  <2>2. CASE /\ UNCHANGED gateVars /\ UNCHANGED slots
             /\ producer' = [producer EXCEPT !.pc = AfterRefusal, !.stop = TRUE]
    BY <2>1, <2>2, NoGateCall, RefusedInv
  <2>3. CASE /\ OfferLost
             /\ slots' = [slots EXCEPT ![Oldest].gpu = "idle"]
             /\ producer' = [producer EXCEPT !.submitted = Tail(@),
                               !.pc = AfterRefusal, !.stop = TRUE]
    <3>1. GateKept
      BY <2>3, Types, OfferLostKept DEF IInv
    <3> QED BY <2>1, <2>3, <3>1, RefusedInv
  <2> QED BY <1>2, <2>2, <2>3 DEF PublishLost
<1> QED BY <1>1, <1>2

LEMMA ProducerNextInv ==
    ASSUME IInv, ProducerNext
    PROVE  IInv'
BY CancelForReuseInv, TakeSlotInv, GiveUpSlotInv, PublishInv, DrainFramesInv,
   AwaitSlotInv, LeaveThreadInv DEF ProducerNext, ProducerSteps

LEMMA FinishFrameInv ==
    ASSUME IInv, FinishFrame, UNCHANGED <<hostVars, surfaceVars, pump, session>>
    PROVE  IInv'
<1>1. PICK i \in DOMAIN producer.submitted :
         /\ slots[producer.submitted[i]].gpu = "drawing"
         /\ slots' = [slots EXCEPT ![producer.submitted[i]].gpu = "done"]
         /\ UNCHANGED <<gateVars, producer, removed>>
  BY DEF FinishFrame
<1> DEFINE n == producer.submitted[i]
<1>2. /\ n \in Slots /\ ProducerType
      /\ slots \in [Slots -> [lease : Nat, gpu : {"idle", "drawing", "done"}]]
  BY Types, ElementOfSeq, LenProperties DEF IInv, ProducerType
<1>3. /\ slots' \in [Slots -> [lease : Nat, gpu : {"idle", "drawing", "done"}]]
      /\ \A s \in Slots : slots'[s].lease = slots[s].lease
      /\ \A s \in Slots : slots'[s].gpu # "idle" => slots[s].gpu # "idle"
  <2> HIDE DEF n
  <2> QED BY <1>1, <1>2 DEF n
<1>4. SlotInv'
  BY <1>1, <1>3 DEF IInv, SlotInv
<1>5. TypeOK'
  BY SMTT(30), <1>1, <1>3 DEF IInv, TypeOK, gateVars, GateType, ProducerType, hostVars, HostType,
         surfaceVars
<1>6. GateKept /\ Stepped
  BY <1>1, NoGateCall, EndedStepped DEF GateKept
<1>7. AwaitInv'
  BY <1>1, <1>2, <1>3, <1>6, AwaitInvKept DEF IInv
<1>8. CloseInv'
  BY <1>1, <1>6, CloseInvKept DEF IInv, hostVars
<1> QED BY <1>1, <1>3, <1>4, <1>5, <1>6, <1>7, <1>8, AsideKept DEF IInv

\* Work ends, or all of it with the device.
LEMMA GpuWorkInv ==
    ASSUME IInv, FinishWork \/ RemoveDevice, UNCHANGED <<surfaceVars, pump, session>>
    PROVE  IInv'
<1>1. UNCHANGED <<gateVars, slots, producer, host>>
  BY DEF FinishWork, RemoveDevice, producerVars
<1>2. /\ gpu' \in [busy : SUBSET GpuWork, source : 0 .. NumSlots]
      /\ gpu'.busy \subseteq gpu.busy
      /\ "copy" \in gpu'.busy => "copy" \in gpu.busy /\ gpu'.source = gpu.source
      /\ removed' \in BOOLEAN /\ (removed => removed')
      /\ removed' = removed \/ gpu'.busy = {}
  <2>1. /\ gpu \in [busy : SUBSET GpuWork, source : 0 .. NumSlots]
        /\ removed \in BOOLEAN /\ 0 \in 0 .. NumSlots
    BY Types, GateConstants DEF IInv, HostType, ProducerType
  <2>2. CASE RemoveDevice
    BY <2>1, <2>2 DEF RemoveDevice
  <2>3. CASE FinishWork
    <3>1. PICK w \in gpu.busy :
             gpu' = [gpu EXCEPT !.busy = @ \ {w},
                       !.source = IF w = "copy" THEN 0 ELSE @]
      BY <2>3 DEF FinishWork
    <3>2. removed' = removed
      BY <2>3 DEF FinishWork, producerVars
    <3>3. /\ gpu'.busy = gpu.busy \ {w}
          /\ gpu'.source = IF w = "copy" THEN 0 ELSE gpu.source
      BY <2>1, <3>1
    <3> QED BY <2>1, <3>1, <3>2, <3>3
  <2> QED BY <2>2, <2>3
<1>3. Stepped /\ ProducerType
  BY <1>1, Types, NoGateCall, EndedStepped DEF IInv, GateKept
<1>4. LeaseInv' /\ SlotInv' /\ QueueInv' /\ ShownInv' /\ OffersAccounted' /\ PumpInv'
  BY <1>1 DEF IInv, LeaseInv, SlotInv, QueueInv, ShownInv, OffersAccounted, PumpInv,
         Tokens, StateOf, Healthy, gateVars
<1>5. CopyInv'
  BY <1>1, <1>2, CopyInvKept DEF IInv, gateVars
<1>6. BusyInv'
  BY <1>1, <1>2 DEF IInv, BusyInv
<1>7. AwaitInv'
  BY <1>1, <1>2, <1>3, AwaitInvKept DEF IInv
<1>8. CloseInv'
  <2>1. CASE removed' = removed
    BY <1>1, <1>2, <1>3, <2>1, CloseInvKept DEF IInv
  <2>2. CASE gpu'.busy = {}
    BY <1>1, <2>2 DEF IInv, CloseInv, At, Tokens, StateOf, gateVars
  <2> QED BY <1>2, <2>1, <2>2
<1>9. TypeOK'
  BY <1>1, <1>2 DEF IInv, TypeOK, GateType, ProducerType, HostType, gateVars, surfaceVars
<1> QED BY <1>4, <1>5, <1>6, <1>7, <1>8, <1>9 DEF IInv

-----------------------------------------------------------------------------
(* The host's operations.                                                  *)

\* The presenter's side of the device is still typed and knows of all work,
\* and an unhealthy host stays so.
HostKept ==
    HostType' /\ BusyInv' /\ (~Healthy => host'.health # "Healthy")
CopySame == "copy" \in gpu'.busy => "copy" \in gpu.busy /\ gpu'.source = gpu.source

HostRecords ==
    [health : Health, inFlight : SUBSET (WorkSlots \cup {"marker"}),
     presents : BOOLEAN, draw : {"draw1", "draw2"}]
GpuRecords == [busy : SUBSET GpuWork, source : 0 .. NumSlots]
Hosted == host \in HostRecords /\ gpu \in GpuRecords /\ BusyInv

LEMMA HostFacts ==
    ASSUME IInv
    PROVE  Hosted /\ removed \in BOOLEAN /\ PumpInv
BY Types DEF IInv, Hosted, HostRecords, GpuRecords, HostType, ProducerType

LEMMA RaisedFacts ==
    ASSUME NEW old \in Health, NEW new \in Health
    PROVE  /\ Raised(old, new) \in Health
           /\ old # "Healthy" => Raised(old, new) # "Healthy"
           /\ new # "Healthy" => Raised(old, new) # "Healthy"
           /\ Raised(old, "Healthy") = old
BY DEF Raised, HealthRank, Health

LEMMA FaultSets ==
    /\ WaitFaults \subseteq Health \ {"Healthy"}
    /\ PresentFaults \subseteq Health \ {"Healthy"}
BY DEF WaitFaults, PresentFaults, Health

\* Only the health changes.
LEMMA HealthKept ==
    ASSUME Hosted, UNCHANGED <<gpu, removed>>, NEW h \in Health,
           host' = [host EXCEPT !.health = h], ~Healthy => h # "Healthy"
    PROVE  HostKept /\ host'.health = h
BY DEF Hosted, HostRecords, GpuRecords, HostKept, HostType, BusyInv, Healthy

LEMMA FaultKept ==
    ASSUME Hosted, UNCHANGED <<gpu, removed>>, NEW faults \in SUBSET (Health \ {"Healthy"}),
           Fault(faults)
    PROVE  HostKept /\ host'.health # "Healthy"
<1>1. PICK h \in faults : host' = [host EXCEPT !.health = Raised(@, h)]
  BY DEF Fault
<1> DEFINE raised == Raised(host.health, h)
<1>2. host.health \in Health /\ h \in Health /\ h # "Healthy"
  BY DEF Hosted, HostRecords
<1>3. raised \in Health /\ raised # "Healthy"
  BY <1>2, RaisedFacts
<1>4. host' = [host EXCEPT !.health = raised]
  BY <1>1
<1> HIDE DEF raised
<1> QED BY <1>3, <1>4, HealthKept

LEMMA IdleKept ==
    ASSUME Hosted, UNCHANGED <<gpu, removed>>, NEW s, Proved(s), host' = Idle(s)
    PROVE  HostKept /\ host'.health = host.health /\ s \notin (gpu.busy \cap WorkSlots)
BY DEF Hosted, HostRecords, GpuRecords, HostKept, HostType, BusyInv, Healthy, Proved,
       Idle

\* A drain that proved what is in flight leaves the GPU idle.
LEMMA DrainedGpu ==
    ASSUME Hosted, DrainProved
    PROVE  gpu.busy = {}
<1>1. gpu.busy \subseteq WorkSlots \cup {"present"}
  BY DEF Hosted, GpuRecords, GpuWork
<1> QED BY <1>1 DEF Hosted, BusyInv, DrainProved

LEMMA DrainedKept ==
    ASSUME Hosted, UNCHANGED <<gpu, removed>>, DrainProved, NEW h \in Health,
           host' = [Drained(host) EXCEPT !.health = h], ~Healthy => h # "Healthy"
    PROVE  HostKept /\ host'.health = h /\ gpu'.busy = {}
<1>1. gpu.busy = {}
  BY DrainedGpu
<1>2. Drained(host) \in HostRecords
  BY DEF Hosted, HostRecords, Drained
<1>3. host' \in HostRecords /\ host'.health = h
  BY <1>2 DEF HostRecords
<1> QED BY <1>1, <1>3 DEF Hosted, HostKept, HostType, HostRecords, GpuRecords, BusyInv

LEMMA DrainedSame ==
    ASSUME Hosted
    PROVE  /\ Drained(host) = [Drained(host) EXCEPT !.health = host.health]
           /\ Drained(host).health = host.health
           /\ host.health \in Health
BY DEF Hosted, HostRecords, Drained

LEMMA FailedDrainForm ==
    ASSUME NEW f \in FailedDrains
    PROVE  \E e \in WaitFaults, left \in SUBSET (host.inFlight \cup {"marker"}) :
              /\ host.inFlight \cap gpu.busy \subseteq left
              /\ f = FailedDrain(e, left)
<1>1. PICK e \in WaitFaults, left \in LeftInFlight : f = FailedDrain(e, left)
  BY DEF FailedDrains
<1>2. /\ left \in SUBSET (host.inFlight \cup {"marker"})
      /\ host.inFlight \cap gpu.busy \subseteq left
  BY DEF LeftInFlight
<1> QED BY <1>1, <1>2

LEMMA FailedDrainKept ==
    ASSUME Hosted, UNCHANGED <<gpu, removed>>, NEW f \in FailedDrains, NEW h \in Health,
           host' = [f EXCEPT !.health = h], ~Healthy => h # "Healthy"
    PROVE  HostKept /\ host'.health = h /\ f.health # "Healthy" /\ f.health \in Health
<1>1. PICK e \in WaitFaults, left \in SUBSET (host.inFlight \cup {"marker"}) :
         /\ host.inFlight \cap gpu.busy \subseteq left
         /\ f = FailedDrain(e, left)
  BY FailedDrainForm
<1> DEFINE raised == Raised(host.health, e)
<1>2. raised \in Health /\ raised # "Healthy"
  BY FaultSets, RaisedFacts DEF Hosted, HostRecords
<1>3. f = [host EXCEPT !.health = raised, !.inFlight = left]
  BY <1>1 DEF FailedDrain
<1> HIDE DEF raised
<1>4. f \in HostRecords /\ f.health = raised /\ f.inFlight = left /\ f.presents = host.presents
  BY <1>2, <1>3 DEF Hosted, HostRecords
<1>5. /\ host' \in HostRecords /\ host'.health = h /\ host'.inFlight = left
      /\ host'.presents = host.presents
  BY <1>4 DEF HostRecords
<1> QED BY <1>1, <1>2, <1>4, <1>5
        DEF Hosted, HostKept, HostType, HostRecords, GpuRecords, BusyInv

LEMMA DrainFailedKept ==
    ASSUME Hosted, UNCHANGED <<gpu, removed>>, DrainFailed
    PROVE  HostKept /\ host'.health # "Healthy"
<1>1. PICK f \in FailedDrains : host' = f
  BY DEF DrainFailed
<1>2. PICK e \in WaitFaults, left \in SUBSET (host.inFlight \cup {"marker"}) :
         /\ host.inFlight \cap gpu.busy \subseteq left
         /\ f = FailedDrain(e, left)
  BY FailedDrainForm
<1> DEFINE raised == Raised(host.health, e)
<1>3. raised \in Health /\ raised # "Healthy"
  BY FaultSets, RaisedFacts DEF Hosted, HostRecords
<1>4. f = [host EXCEPT !.health = raised, !.inFlight = left]
  BY <1>2 DEF FailedDrain
<1> HIDE DEF raised
<1>5. f \in HostRecords /\ f.health = raised /\ f.inFlight = left /\ f.presents = host.presents
  BY <1>3, <1>4 DEF Hosted, HostRecords
<1> QED BY <1>1, <1>2, <1>3, <1>5
        DEF Hosted, HostKept, HostType, HostRecords, GpuRecords, BusyInv

\* The GPU gets work the host counts as in flight, or as a present.
LEMMA IssuedKept ==
    ASSUME Hosted, NEW s \in GpuWork, NEW source \in 0 .. NumSlots, Issued(s, source)
    PROVE  /\ gpu' \in GpuRecords
           /\ gpu'.busy \subseteq gpu.busy \cup {s} /\ gpu.busy \subseteq gpu'.busy
           /\ removed => gpu' = gpu
           /\ s # "copy" => CopySame
           /\ s = "copy" /\ ~removed => gpu'.source = source
BY DEF Hosted, GpuRecords, Issued, CopySame

\* Work is submitted, and perhaps refused with its fence left pending.
LEMMA SubmittedKept ==
    ASSUME Hosted, UNCHANGED removed, NEW s \in WorkSlots, NEW source \in 0 .. NumSlots,
           NEW h \in Health, ~Healthy => h # "Healthy", NEW d \in {"draw1", "draw2"},
           gpu' = gpu \/ Issued(s, source),
           host' = [host EXCEPT !.inFlight = @ \cup {s}, !.health = h, !.draw = d]
    PROVE  /\ HostKept /\ host'.health = h /\ (s # "copy" => CopySame)
           /\ "copy" \in gpu'.busy => "copy" \in gpu.busy \/ s = "copy"
           /\ s = "copy" /\ "copy" \in gpu'.busy =>
                 gpu'.source = source \/ (gpu' = gpu /\ "copy" \in gpu.busy)
<1>1. /\ host' \in HostRecords /\ host'.health = h /\ host'.presents = host.presents
      /\ host'.inFlight = host.inFlight \cup {s}
  BY DEF Hosted, HostRecords
<1>2. s \in GpuWork
  BY DEF GpuWork
<1>3. /\ gpu' \in GpuRecords
      /\ gpu'.busy \subseteq gpu.busy \cup {s} /\ (removed => gpu' = gpu)
      /\ s # "copy" => CopySame
      /\ s = "copy" => gpu'.source = source \/ gpu' = gpu
  <2>1. CASE gpu' = gpu
    BY <2>1 DEF Hosted, CopySame
  <2>2. CASE Issued(s, source)
    BY <1>2, <2>2, IssuedKept
  <2> QED BY <2>1, <2>2
<1>4. s # "present"
  BY DEF WorkSlots
<1>5. BusyInv'
  BY <1>1, <1>3, <1>4 DEF Hosted, BusyInv
<1> QED BY <1>1, <1>3, <1>5 DEF HostKept, HostType, HostRecords, GpuRecords

LEMMA PresentedKept ==
    ASSUME Hosted, UNCHANGED removed, NEW h \in Health, PresentQueued(h)
    PROVE  /\ HostKept /\ CopySame /\ host'.health \in Health
           /\ h # "Healthy" => host'.health # "Healthy"
           /\ h = "Healthy" => host'.health = host.health
<1> DEFINE raised == Raised(host.health, h)
<1>1. /\ host' = [host EXCEPT !.presents = TRUE, !.health = raised]
      /\ Issued("present", 0)
  BY DEF PresentQueued
<1>2. /\ raised \in Health /\ (host.health # "Healthy" => raised # "Healthy")
      /\ (h # "Healthy" => raised # "Healthy") /\ (h = "Healthy" => raised = host.health)
  BY RaisedFacts DEF Hosted, HostRecords
<1> HIDE DEF raised
<1>3. /\ host' \in HostRecords /\ host'.health = raised /\ host'.presents
      /\ host'.inFlight = host.inFlight
  BY <1>1, <1>2 DEF Hosted, HostRecords
<1>4. /\ gpu' \in GpuRecords /\ gpu'.busy \subseteq gpu.busy \cup {"present"}
      /\ (removed => gpu' = gpu) /\ CopySame
  <2>1. "present" \in GpuWork /\ 0 \in 0 .. NumSlots /\ "present" # "copy"
    BY GateConstants DEF GpuWork
  <2> QED BY <1>1, <2>1, IssuedKept
<1>5. BusyInv'
  BY <1>3, <1>4 DEF Hosted, BusyInv, WorkSlots
<1> QED BY <1>2, <1>3, <1>4, <1>5
        DEF HostKept, HostType, HostRecords, GpuRecords, Healthy

-----------------------------------------------------------------------------
(* The presenter: where it goes.                                           *)

\* It goes on, with what it remembers.
PumpTo(pc) ==
    /\ pump' \in PumpRecords /\ pump'.pc = pc
    /\ pump'.lease = pump.lease /\ pump'.display = pump.display
    /\ pump'.kept = pump.kept /\ pump'.drained = pump.drained

\* It forgets its frame.
PumpReturns ==
    /\ pump' \in PumpRecords /\ pump'.pc = "idle" /\ pump'.lease = 0
    /\ pump'.display = pump.display
    /\ pump'.kept = pump.kept /\ pump'.drained = pump.drained

LEMMA GoTo ==
    ASSUME IInv, NEW pc \in PumpSteps, Go(pc)
    PROVE  PumpTo(pc)
BY Types DEF IInv, Go, PumpTo, PumpRecords

LEMMA ReturnTo ==
    ASSUME IInv, Return
    PROVE  PumpReturns
BY Types DEF IInv, Return, PumpReturns, PumpRecords, PumpSteps

LEMMA PumpPlaces ==
    /\ {"idle", "health", "surface", "suspend", "resize", "dropExtent", "mark", "claim",
        "fence", "prepare", "markCopy", "submitCopy", "waitCopy", "retire", "repaint",
        "acquire", "draw", "flip", "fail", "join", "closeGate", "drain", "terminate",
        "finished"} \subseteq PumpSteps
    /\ {"surface", "resize", "mark", "claim", "fence", "prepare", "markCopy", "submitCopy",
        "waitCopy", "retire"} = HealthyPcs
BY DEF PumpSteps, HealthyPcs, CopyPcs

\* It leaves a frame, or has none: the gate may end leases, the host work.
LEMMA RestsInv ==
    ASSUME IInv, GateKept, UNCHANGED <<producerVars, session>>,
           HostKept, CopySame, pump' \in PumpRecords,
           pump'.lease \in {0, pump.lease}, pump'.display = pump.display,
           pump'.kept = pump.kept, pump'.drained = pump.drained,
           pump.pc \notin Closing, pump'.pc \notin Closing,
           pump'.pc \notin CopyPcs, pump.pc # "waitCopy",
           pump'.pc \in HealthyPcs => Healthy',
           surface' \in [applied : Extents, latest : Extents, zero : BOOLEAN,
                         minimized : BOOLEAN, repaint : BOOLEAN],
           UNCHANGED window
    PROVE  IInv'
<1>1. TypeOK /\ leases \in Seq(Lease) /\ ProducerType /\ Ended /\ Stepped
  BY Types, EndedStepped DEF IInv, GateKept
<1>2. Len(leases') = Len(leases) /\ Tokens' = Tokens
  BY <1>1, SteppedLen
<1>3. TypeOK'
  BY <1>1 DEF TypeOK, GateKept, HostKept, producerVars, ProducerType, PumpRecords
<1>4. LeaseInv' /\ SlotInv'
  BY <1>1, LeaseInvKept DEF IInv, SlotInv, producerVars
<1>5. QueueInv'
  <2>1. \A t \in Tokens : leases[t].state \in Unclaimed => leases'[t].state \in Unclaimed
    BY <1>1 DEF Ended, EndsTo, Unclaimed
  <2> QED BY <1>1, <1>2, <2>1, QueueInvKept, QueueInvEmpty DEF IInv, GateKept
<1>6. ShownInv'
  BY <1>1, <1>2, ShownInvKept DEF IInv, GateKept
<1>7. PumpInv'
  <2>1. ~Healthy => ~Healthy'
    BY DEF HostKept, Healthy
  <2> QED BY <1>1, <2>1, PumpInvRests DEF IInv
<1>8. CopyInv'
  BY <1>1, CopyInvKept DEF IInv, CopySame, Ended
<1>9. AwaitInv'
  BY <1>1, AwaitInvKept DEF IInv, producerVars
<1>10. CloseInv'
  BY CloseInvOpen DEF IInv
<1> QED BY <1>3, <1>4, <1>5, <1>6, <1>7, <1>8, <1>9, <1>10 DEF IInv, GateKept, HostKept

LEMMA HostUnchanged ==
    ASSUME IInv, UNCHANGED <<hostVars, removed>>
    PROVE  HostKept /\ CopySame /\ Healthy' = Healthy
BY HostFacts DEF Hosted, HostKept, CopySame, HostType, HostRecords, GpuRecords, hostVars,
                 BusyInv, Healthy

LEMMA SurfaceUnchanged ==
    ASSUME IInv, UNCHANGED surface
    PROVE  surface' \in [applied : Extents, latest : Extents, zero : BOOLEAN,
                         minimized : BOOLEAN, repaint : BOOLEAN]
BY DEF IInv, TypeOK

\* It goes to another step with no frame in hand.
LEMMA GoesInv ==
    ASSUME IInv, NEW to \in PumpSteps, PumpTo(to), UNCHANGED <<producerVars, session, window>>,
           GateKept, HostKept, CopySame,
           pump.pc \notin Closing, pump.pc # "waitCopy", to \notin Closing,
           to \notin CopyPcs, to \in HealthyPcs => Healthy',
           surface' \in [applied : Extents, latest : Extents, zero : BOOLEAN,
                         minimized : BOOLEAN, repaint : BOOLEAN]
    PROVE  IInv'
BY RestsInv DEF PumpTo

LEMMA ReturnsInv ==
    ASSUME IInv, PumpReturns, UNCHANGED <<producerVars, session, window>>,
           GateKept, HostKept, CopySame, pump.pc \notin Closing, pump.pc # "waitCopy",
           surface' \in [applied : Extents, latest : Extents, zero : BOOLEAN,
                         minimized : BOOLEAN, repaint : BOOLEAN]
    PROVE  IInv'
<1>1. "idle" \notin Closing /\ "idle" \notin CopyPcs /\ "idle" \notin HealthyPcs
  BY DEF Closing, CopyPcs, HealthyPcs
<1> QED BY <1>1, RestsInv DEF PumpReturns

-----------------------------------------------------------------------------
(* The presenter: a pump until a frame is claimed.                         *)

LEMMA WakeInv ==
    ASSUME IInv, Wake \/ SeeStop
    PROVE  IInv'
<1>1. /\ pump.pc = "idle" /\ (Go("health") \/ Go("join"))
      /\ UNCHANGED <<gateVars, producerVars, hostVars, surfaceVars, session>>
  BY DEF Wake, SeeStop, At
<1>2. /\ GateKept /\ HostKept /\ CopySame
      /\ surface' \in [applied : Extents, latest : Extents, zero : BOOLEAN,
                       minimized : BOOLEAN, repaint : BOOLEAN]
  BY <1>1, NoGateCall, HostUnchanged, SurfaceUnchanged DEF producerVars, surfaceVars
<1>3. PumpTo("health") \/ PumpTo("join")
  BY <1>1, GoTo, PumpPlaces
<1>4. {"idle", "health", "join"} \cap (Closing \cup CopyPcs \cup HealthyPcs) = {}
      /\ {"health", "join"} \subseteq PumpSteps
  BY PumpPlaces DEF Closing, CopyPcs, HealthyPcs
<1> QED BY <1>1, <1>2, <1>3, <1>4, GoesInv DEF surfaceVars

LEMMA CheckHealthInv ==
    ASSUME IInv, CheckHealth
    PROVE  IInv'
<1> DEFINE seen == gate.lost \/ removed
           to == IF ~seen /\ Healthy THEN "surface" ELSE "fail"
<1>1. /\ pump.pc = "health" /\ Go(to)
      /\ host' = IF seen THEN [host EXCEPT !.health = "DeviceLost"] ELSE host
      /\ UNCHANGED <<gateVars, producerVars, gpu, surfaceVars, session>>
  BY DEF CheckHealth, At
<1>2. /\ GateKept
      /\ surface' \in [applied : Extents, latest : Extents, zero : BOOLEAN,
                       minimized : BOOLEAN, repaint : BOOLEAN]
  BY <1>1, NoGateCall, SurfaceUnchanged DEF surfaceVars
<1>3. HostKept /\ CopySame /\ (to \in HealthyPcs => Healthy')
  <2>1. CASE seen
    <3>1. HostKept
      BY <1>1, <2>1, HostFacts, HealthKept DEF Health, producerVars
    <3> QED BY <1>1, <2>1, <3>1 DEF CopySame, HealthyPcs, CopyPcs
  <2>2. CASE ~seen
    BY <1>1, <2>2, HostUnchanged DEF hostVars, producerVars, HealthyPcs, CopyPcs
  <2> QED BY <2>1, <2>2
<1>4. to \in PumpSteps /\ to \notin Closing /\ to \notin CopyPcs
      /\ "health" \notin Closing
  BY PumpPlaces DEF Closing, CopyPcs
<1>5. PumpTo(to)
  <2> HIDE DEF to
  <2> QED BY <1>1, <1>4, GoTo
<1> HIDE DEF to
<1> QED BY <1>1, <1>2, <1>3, <1>4, <1>5, GoesInv DEF surfaceVars

LEMMA ReadSurfaceInv ==
    ASSUME IInv, ReadSurface
    PROVE  IInv'
<1> DEFINE to == IF SurfaceSuspended THEN "suspend"
                 ELSE IF surface.latest # surface.applied THEN "resize"
                 ELSE "claim"
<1>1. /\ pump.pc = "surface" /\ pump' = [pump EXCEPT !.pc = to, !.pending = surface.latest]
      /\ UNCHANGED <<gateVars, producerVars, hostVars, surfaceVars, session>>
  BY DEF ReadSurface, At
<1>2. /\ GateKept /\ HostKept /\ CopySame /\ Healthy' = Healthy
      /\ surface' \in [applied : Extents, latest : Extents, zero : BOOLEAN,
                       minimized : BOOLEAN, repaint : BOOLEAN]
  BY <1>1, NoGateCall, HostUnchanged, SurfaceUnchanged DEF producerVars, surfaceVars
<1>3. Healthy
  BY <1>1, PumpPlaces DEF IInv, PumpInv
<1>4. to \in {"suspend", "resize", "claim"}
  OBVIOUS
<1> HIDE DEF to
<1>5. to \in PumpSteps /\ to \notin Closing /\ to \notin CopyPcs
      /\ "surface" \notin Closing
  BY <1>4, PumpPlaces DEF Closing, CopyPcs
<1>6. PumpTo(to)
  BY <1>1, <1>5, Types DEF IInv, PumpTo, PumpRecords
<1> QED BY <1>1, <1>2, <1>3, <1>5, <1>6, GoesInv DEF surfaceVars

LEMMA SuspendInv ==
    ASSUME IInv, Suspend
    PROVE  IInv'
<1>1. /\ pump.pc = "suspend" /\ Return /\ SetSuspended(TRUE)
      /\ UNCHANGED <<producerVars, hostVars, surfaceVars, session>>
  BY DEF Suspend, At
<1>2. /\ GateKept /\ HostKept /\ CopySame
      /\ surface' \in [applied : Extents, latest : Extents, zero : BOOLEAN,
                       minimized : BOOLEAN, repaint : BOOLEAN]
  BY <1>1, Types, SetSuspendedKept, HostUnchanged, SurfaceUnchanged
     DEF IInv, producerVars, surfaceVars
<1>3. "suspend" \notin Closing
  BY DEF Closing
<1> QED BY <1>1, <1>2, <1>3, ReturnTo, ReturnsInv DEF surfaceVars

LEMMA FailInv ==
    ASSUME IInv, Fail
    PROVE  IInv'
<1>1. /\ pump.pc = "fail" /\ Return /\ TerminateAdmission
      /\ UNCHANGED <<producerVars, hostVars, surfaceVars, session>>
  BY DEF Fail, At
<1>2. /\ GateKept /\ HostKept /\ CopySame
      /\ surface' \in [applied : Extents, latest : Extents, zero : BOOLEAN,
                       minimized : BOOLEAN, repaint : BOOLEAN]
  BY <1>1, Types, TerminateAdmissionKept, HostUnchanged, SurfaceUnchanged
     DEF IInv, producerVars, surfaceVars
<1>3. "fail" \notin Closing
  BY DEF Closing
<1> QED BY <1>1, <1>2, <1>3, ReturnTo, ReturnsInv DEF surfaceVars

LEMMA ResizeInv ==
    ASSUME IInv, Resize
    PROVE  IInv'
<1>1. /\ pump.pc = "resize"
      /\ UNCHANGED <<gateVars, producerVars, gpu, surfaceVars, session>>
  BY DEF Resize, At
<1>2. /\ GateKept /\ CopySame /\ Hosted /\ UNCHANGED <<gpu, removed>>
      /\ surface' \in [applied : Extents, latest : Extents, zero : BOOLEAN,
                       minimized : BOOLEAN, repaint : BOOLEAN]
  BY <1>1, NoGateCall, HostFacts, SurfaceUnchanged
     DEF producerVars, surfaceVars, CopySame
<1>3. Healthy
  BY <1>1, PumpPlaces DEF IInv, PumpInv
<1>4. /\ {"dropExtent", "mark", "fail", "resize"} \cap (Closing \cup CopyPcs) = {}
      /\ {"dropExtent", "mark", "fail"} \subseteq PumpSteps
      /\ "fail" \notin HealthyPcs /\ "dropExtent" \notin HealthyPcs
  BY PumpPlaces DEF Closing, CopyPcs, HealthyPcs
<1>5. ASSUME NEW to \in {"dropExtent", "mark", "fail"}, PumpTo(to), HostKept,
             to = "mark" => Healthy'
      PROVE  IInv'
  BY <1>1, <1>2, <1>4, <1>5, GoesInv DEF surfaceVars
<1>6. CASE Go("dropExtent") /\ UNCHANGED host
  <2>1. HostKept
    BY <1>2, <1>6, HostUnchanged DEF hostVars
  <2> QED BY <1>4, <1>5, <1>6, <2>1, GoTo
<1>7. ASSUME DrainProved, host' = Drained(host)
      PROVE  HostKept /\ Healthy'
  <2>1. /\ host' = [Drained(host) EXCEPT !.health = host.health]
        /\ host.health \in Health
    BY <1>2, <1>7, DrainedSame
  <2>2. HostKept /\ host'.health = host.health
    BY <1>2, <1>3, <1>7, <2>1, DrainedKept DEF Healthy
  <2> QED BY <1>3, <2>2 DEF Healthy
<1>8. CASE /\ DrainProved /\ host' = Drained(host)
           /\ IF window.client = NoExtent THEN Go("dropExtent")
              ELSE pump' = [pump EXCEPT !.pc = "mark", !.actual = window.client]
  <2>1. HostKept /\ Healthy'
    BY <1>7, <1>8
  <2>2. CASE Go("dropExtent")
    BY <1>4, <1>5, <2>1, <2>2, GoTo
  <2>3. CASE /\ window.client # NoExtent
             /\ pump' = [pump EXCEPT !.pc = "mark", !.actual = window.client]
    <3>1. window.client \in Extents
      BY <2>3 DEF IInv, TypeOK
    <3>2. PumpTo("mark")
      BY <1>4, <2>3, <3>1, Types DEF IInv, PumpTo, PumpRecords
    <3> QED BY <1>5, <2>1, <3>2
  <2> QED BY <1>8, <2>2, <2>3
<1>9. CASE /\ DrainProved /\ Go("fail")
           /\ \E h \in PresentFaults : host' =
                 [Drained(host) EXCEPT !.health = Raised(@, h)]
  <2>1. HostKept
    <3>1. PICK h \in PresentFaults : host' = [Drained(host) EXCEPT !.health = Raised(@, h)]
      BY <1>9
    <3>2. /\ Drained(host).health = host.health /\ host.health \in Health
          /\ h \in Health /\ h # "Healthy"
      BY <1>2, DrainedSame, FaultSets
    <3>3. /\ host' = [Drained(host) EXCEPT !.health = Raised(host.health, h)]
          /\ Raised(host.health, h) \in Health /\ Raised(host.health, h) # "Healthy"
      BY <3>1, <3>2, RaisedFacts
    <3> QED BY <1>2, <1>9, <3>3, DrainedKept
  <2> QED BY <1>4, <1>5, <1>9, <2>1, GoTo
<1>10. CASE DrainFailed /\ Go("fail")
  BY <1>2, <1>4, <1>5, <1>10, GoTo, DrainFailedKept
<1> QED BY <1>6, <1>8, <1>9, <1>10 DEF Resize

LEMMA DropExtentInv ==
    ASSUME IInv, DropExtent \/ MarkResized
    PROVE  IInv'
<1>1. UNCHANGED <<gateVars, producerVars, hostVars, window, session>>
  BY DEF DropExtent, MarkResized
<1>2. GateKept /\ HostKept /\ CopySame /\ Healthy' = Healthy
  BY <1>1, NoGateCall, HostUnchanged DEF producerVars
<1>3. /\ {"dropExtent", "mark", "suspend", "claim"} \cap (Closing \cup CopyPcs) = {}
      /\ {"suspend", "claim"} \subseteq PumpSteps /\ "suspend" \notin HealthyPcs
  BY PumpPlaces DEF Closing, CopyPcs, HealthyPcs
<1>4. CASE DropExtent
  <2>1. pump.pc = "dropExtent" /\ RequestExtent(NoExtent) /\ Go("suspend")
    BY <1>4 DEF DropExtent, At
  <2>2. surface' \in [applied : Extents, latest : Extents, zero : BOOLEAN,
                      minimized : BOOLEAN, repaint : BOOLEAN]
    BY <2>1, SurfaceTyped DEF IInv
  <2>3. PumpTo("suspend")
    BY <1>3, <2>1, GoTo
  <2> QED BY <1>1, <1>2, <1>3, <2>1, <2>2, <2>3, GoesInv
<1>5. CASE MarkResized
  <2>1. pump.pc = "mark" /\ MarkApplied(pump.actual, pump.pending) /\ Go("claim")
    BY <1>5 DEF MarkResized, At
  <2>2. pump.actual \in Extents
    BY Types DEF IInv, PumpRecords
  <2>3. surface' \in [applied : Extents, latest : Extents, zero : BOOLEAN,
                      minimized : BOOLEAN, repaint : BOOLEAN]
    BY <2>1, <2>2 DEF IInv, TypeOK, MarkApplied
  <2>4. PumpTo("claim")
    BY <1>3, <2>1, GoTo
  <2>5. Healthy
    BY <2>1, PumpPlaces DEF IInv, PumpInv
  <2> QED BY <1>1, <1>2, <1>3, <2>1, <2>3, <2>4, <2>5, GoesInv
<1> QED BY <1>4, <1>5

-----------------------------------------------------------------------------
(* The presenter: a frame is claimed and copied.                           *)

LEMMA NoCopy ==
    ASSUME IInv, pump.pc \in HealthyPcs, pump.pc # "waitCopy"
    PROVE  Healthy /\ pump.kept = {} /\ "copy" \notin gpu.busy
<1>1. Healthy /\ pump.kept = {}
  BY DEF IInv, PumpInv
<1> QED BY <1>1 DEF IInv, CopyInv, At

\* The lease in hand changes, or none, and the frame goes on.
LEMMA CopyStepInv ==
    ASSUME IInv, pump.pc \in CopyPcs, pump' \in PumpRecords, pump'.pc \notin Closing,
           pump'.lease = pump.lease, pump'.display \in {pump.display, pump.lease},
           pump'.drained = pump.drained,
           gate' = gate, Stepped, Others(pump.lease), leases'[pump.lease].state \notin Unclaimed,
           UNCHANGED <<producerVars, session, surfaceVars>>,
           HostKept, ShownInv', PumpInv', CopyInv'
    PROVE  IInv'
<1> DEFINE t == pump.lease
<1>1. /\ TypeOK /\ leases \in Seq(Lease) /\ ProducerType
      /\ Len(leases') = Len(leases) /\ Tokens' = Tokens /\ leases' \in Seq(Lease)
  BY Types, SteppedLen DEF IInv, Stepped
<1>2. t \in Tokens /\ StateOf(t) \notin Unclaimed
  <2>1. {"fence", "prepare", "markCopy", "submitCopy", "waitCopy", "retire"} = CopyPcs
    BY DEF CopyPcs
  <2> QED BY <2>1 DEF IInv, PumpInv, Unclaimed
<1>3. \A u \in Tokens : leases[u].state \in Unclaimed <=> leases'[u].state \in Unclaimed
  BY <1>2 DEF Others, StateOf
<1>4. TypeOK'
  BY <1>1 DEF TypeOK, HostKept, producerVars, surfaceVars, ProducerType, PumpRecords, GateType
<1>5. LeaseInv' /\ SlotInv' /\ AwaitInv'
  BY <1>1, LeaseInvKept, AwaitInvKept DEF IInv, SlotInv, producerVars
<1>6. QueueInv'
  BY <1>1, <1>3, QueueInvKept DEF IInv
<1>7. OffersAccounted'
  <2>1. Owned' = Owned
    BY <1>3, OwnedSame DEF Stepped
  <2>2. Counted' = Counted
    BY DEF Counted
  <2> QED BY <1>1, <2>1, <2>2, Accounts, AccountsNext DEF IInv
<1>8. CloseInv'
  <2>1. pump.pc \notin Closing
    BY DEF CopyPcs, Closing
  <2> QED BY <2>1, CloseInvOpen DEF IInv
<1> QED BY <1>4, <1>5, <1>6, <1>7, <1>8 DEF IInv, HostKept

\* The frame in hand fails; nothing of it runs.
LEMMA FrameFailsInv ==
    ASSUME IInv, pump.pc \in CopyPcs, pump.pc # "waitCopy", FailLease(pump.lease),
           Go("fail"), gate' = gate, UNCHANGED <<producerVars, gpu, surfaceVars, session>>,
           HostKept
    PROVE  IInv'
<1>1. pump.lease \in Tokens /\ leases \in Seq(Lease)
  BY Types DEF IInv, PumpInv
<1>2. GateKept
  BY <1>1, FailEnded, Types, GateUnchanged DEF IInv
<1>3. /\ "fail" \in PumpSteps /\ "fail" \notin Closing \cup CopyPcs \cup HealthyPcs
      /\ pump.pc \notin Closing
  BY PumpPlaces DEF Closing, CopyPcs, HealthyPcs
<1>4. PumpTo("fail")
  BY <1>3, GoTo
<1> QED BY <1>2, <1>3, <1>4, GoesInv, SurfaceUnchanged DEF surfaceVars, CopySame

LEMMA ClaimFrameInv ==
    ASSUME IInv, ClaimFrame
    PROVE  IInv'
<1>1. /\ pump.pc = "claim" /\ UNCHANGED <<producerVars, hostVars, surfaceVars, session>>
  BY DEF ClaimFrame, At
<1>2. /\ HostKept /\ CopySame /\ Healthy' = Healthy
      /\ surface' \in [applied : Extents, latest : Extents, zero : BOOLEAN,
                       minimized : BOOLEAN, repaint : BOOLEAN]
  BY <1>1, HostUnchanged, SurfaceUnchanged DEF producerVars, surfaceVars
<1>3. /\ {"claim", "repaint"} \cap (Closing \cup CopyPcs) = {}
      /\ {"repaint", "fence"} \subseteq PumpSteps /\ "repaint" \notin HealthyPcs
      /\ "fence" \notin Closing /\ "fence" \in CopyPcs /\ "claim" \in HealthyPcs
  BY PumpPlaces DEF Closing, CopyPcs, HealthyPcs
<1>4. CASE Go("repaint") /\ (ClaimNone \/ UNCHANGED gateVars)
  <2>1. GateKept
    BY <1>4, NoGateCall, ClaimNoneKept, Types DEF IInv
  <2>2. PumpTo("repaint")
    BY <1>3, <1>4, GoTo
  <2> QED BY <1>1, <1>2, <1>3, <2>1, <2>2, GoesInv DEF surfaceVars
<1>5. ASSUME NEW t \in Claimable, ClaimNewest(t),
             pump' = [pump EXCEPT !.pc = "fence", !.lease = t]
      PROVE  IInv'
  <2>1. /\ Stepped /\ GateType' /\ OffersAccounted'
        /\ gate'.queue = <<>> /\ gate'.shown = gate.shown
        /\ t \in ToSet(gate.queue) /\ t \in Tokens /\ StateOf(t) = "Published"
        /\ leases'[t].state = "Claimed"
    BY <1>5, Types, ClaimNewestKept DEF IInv
  <2>2. /\ TypeOK /\ leases \in Seq(Lease) /\ ProducerType
        /\ Len(leases') = Len(leases) /\ Tokens' = Tokens /\ leases' \in Seq(Lease)
    BY <2>1, Types, SteppedLen DEF IInv, Stepped
  <2>3. Len(leases) \in Nat /\ Tokens = 1 .. Len(leases) /\ t \in Nat /\ t <= Len(leases)
    BY <2>1, <2>2, LeaseFacts
  <2>4. t > pump.display
    BY <2>1 DEF IInv, QueueInv, ToSet
  <2>5. /\ pump' \in PumpRecords /\ pump'.pc = "fence" /\ pump'.lease = t
        /\ pump'.display = pump.display /\ pump'.kept = pump.kept
        /\ pump'.drained = pump.drained
    BY <1>3, <1>5, <2>3, Types DEF IInv, PumpRecords
  <2>6. Healthy /\ pump.kept = {} /\ "copy" \notin gpu.busy
    BY <1>1, <1>3, NoCopy
  <2>7. TypeOK'
    BY <1>1, <1>2, <2>1, <2>2, <2>5 DEF TypeOK, HostKept, producerVars, surfaceVars,
                                        ProducerType, PumpRecords
  <2>8. LeaseInv' /\ SlotInv' /\ AwaitInv'
    BY <1>1, <2>1, <2>2, LeaseInvKept, AwaitInvKept DEF IInv, SlotInv, producerVars
  <2>9. QueueInv'
    BY <2>1, QueueInvEmpty
  <2>10. ShownInv'
    <3>1. gate.shown \in Nat /\ pump.display \in Nat
      BY Types DEF IInv
    <3> QED BY <2>1, <2>2, <2>3, <2>4, <2>5, <3>1 DEF IInv, ShownInv
  <2>11. PumpInv'
    BY <1>2, <2>1, <2>2, <2>3, <2>5, <2>6 DEF PumpInv, StateOf
  <2>12. CopyInv'
    BY <1>1, <2>6 DEF CopyInv, hostVars
  <2>13. CloseInv'
    BY <1>1, <1>3, <2>5, CloseInvOpen DEF IInv
  <2> QED BY <1>2, <2>1, <2>7, <2>8, <2>9, <2>10, <2>11, <2>12, <2>13 DEF IInv, HostKept
<1> QED BY <1>4, <1>5 DEF ClaimFrame

\* The frame in hand goes to another step of its copy.
LEMMA CopyGoesInv ==
    ASSUME IInv, pump.pc \in CopyPcs, NEW to \in CopyPcs, Go(to),
           gate' = gate, Stepped, Others(pump.lease),
           UNCHANGED <<producerVars, session, surfaceVars>>,
           HostKept, Healthy', CopyInv',
           to \in {"fence", "prepare", "markCopy"} =>
              leases'[pump.lease].state \in {"Claimed", "Failed"},
           to \in {"submitCopy", "waitCopy", "retire"} =>
              leases'[pump.lease].state \in {"CopySubmitted", "Failed"}
    PROVE  IInv'
<1>1. {"fence", "prepare", "markCopy", "submitCopy", "waitCopy", "retire"} = CopyPcs
  BY DEF CopyPcs
<1>2. to \in PumpSteps /\ to \notin Closing /\ to \in HealthyPcs
  BY PumpPlaces DEF Closing, CopyPcs, HealthyPcs
<1>3. PumpTo(to)
  BY <1>2, GoTo
<1>4. /\ TypeOK /\ Len(leases') = Len(leases) /\ Tokens' = Tokens
      /\ pump.lease \in Tokens
  BY Types, SteppedLen DEF IInv, PumpInv
<1>5. leases'[pump.lease].state \notin Unclaimed
  BY <1>1 DEF Unclaimed
<1>6. Healthy
  BY DEF HostKept, Healthy
<1>7. ShownInv'
  BY <1>3, <1>4, ShownInvKept DEF IInv, PumpTo
<1>8. PumpInv'
  BY <1>3, <1>4, <1>6 DEF IInv, PumpInv, PumpTo, StateOf
<1> QED BY <1>2, <1>3, <1>5, <1>7, <1>8, CopyStepInv DEF PumpTo

LEMMA UnmovedLease ==
    ASSUME leases' = leases
    PROVE  \A t : Others(t)
BY DEF Others

LEMMA CheckFenceInv ==
    ASSUME IInv, CheckFence
    PROVE  IInv'
<1>1. /\ pump.pc = "fence" /\ "fence" \in CopyPcs /\ "fence" \in HealthyPcs
      /\ UNCHANGED <<gate, producerVars, gpu, surfaceVars, session>>
  BY PumpPlaces DEF CheckFence, At, CopyPcs
<1>2. Hosted /\ UNCHANGED <<gpu, removed>>
  BY <1>1, HostFacts DEF producerVars
<1>3. CASE /\ host' = [host EXCEPT !.health = "DeviceLost"]
           /\ FailLease(pump.lease) /\ Go("fail")
  <2>1. HostKept
    BY <1>2, <1>3, HealthKept DEF Health
  <2> QED BY <1>1, <1>3, <2>1, FrameFailsInv
<1>4. CASE Go("prepare") /\ UNCHANGED <<leases, host>>
  <2>1. Healthy /\ "copy" \notin gpu.busy
    BY <1>1, NoCopy
  <2>2. HostKept /\ Healthy'
    BY <1>1, <1>2, <1>4, <2>1, HostUnchanged DEF hostVars
  <2>3. CopyInv'
    BY <1>2, <2>1 DEF CopyInv
  <2>4. Stepped /\ Others(pump.lease)
    BY <1>4, Types, SameEnded, EndedStepped, UnmovedLease DEF IInv
  <2>5. leases'[pump.lease].state \in {"Claimed", "Failed"}
    BY <1>1, <1>4 DEF IInv, PumpInv, StateOf
  <2>6. "prepare" \in CopyPcs
    BY DEF CopyPcs
  <2> QED BY <1>1, <1>4, <2>2, <2>3, <2>4, <2>5, <2>6, CopyGoesInv
<1> QED BY <1>3, <1>4 DEF CheckFence

LEMMA PrepareCopyInv ==
    ASSUME IInv, PrepareCopy
    PROVE  IInv'
<1>1. /\ pump.pc = "prepare" /\ "prepare" \in CopyPcs /\ "prepare" \in HealthyPcs
      /\ UNCHANGED <<gate, producerVars, gpu, surfaceVars, session>>
  BY PumpPlaces DEF PrepareCopy, At, CopyPcs
<1>2. Hosted /\ UNCHANGED <<gpu, removed>>
  BY <1>1, HostFacts DEF producerVars
<1>3. Healthy /\ "copy" \notin gpu.busy
  BY <1>1, NoCopy
<1>4. CASE /\ \/ Proved("copy") /\ host' = Idle("copy")
              \/ DrainProved /\ host' = Drained(host)
           /\ Go("markCopy") /\ UNCHANGED leases
  <2>1. HostKept /\ Healthy'
    <3>1. CASE Proved("copy") /\ host' = Idle("copy")
      BY <1>2, <1>3, <3>1, IdleKept DEF Healthy
    <3>2. CASE DrainProved /\ host' = Drained(host)
      <4>1. /\ host' = [Drained(host) EXCEPT !.health = host.health]
            /\ host.health \in Health
        BY <1>2, <3>2, DrainedSame
      <4>2. HostKept /\ host'.health = host.health
        BY <1>2, <1>3, <3>2, <4>1, DrainedKept DEF Healthy
      <4> QED BY <1>3, <4>2 DEF Healthy
    <3> QED BY <1>4, <3>1, <3>2
  <2>2. CopyInv'
    BY <1>2, <1>3 DEF CopyInv
  <2>3. Stepped /\ Others(pump.lease)
    BY <1>4, Types, SameEnded, EndedStepped, UnmovedLease DEF IInv
  <2>4. leases'[pump.lease].state \in {"Claimed", "Failed"}
    BY <1>1, <1>4 DEF IInv, PumpInv, StateOf
  <2>5. "markCopy" \in CopyPcs
    BY DEF CopyPcs
  <2> QED BY <1>1, <1>4, <2>1, <2>2, <2>3, <2>4, <2>5, CopyGoesInv
<1>5. CASE /\ Fault(WaitFaults) \/ DrainFailed \/ DisplayFailed
           /\ FailLease(pump.lease) /\ Go("fail")
  <2>1. HostKept
    <3>1. CASE Fault(WaitFaults)
      BY <1>2, <3>1, FaultSets, FaultKept
    <3>2. CASE DrainFailed
      BY <1>2, <3>2, DrainFailedKept
    <3>3. CASE DisplayFailed
      <4>1. PICK h \in PresentFaults :
               DrainProved /\ host' = [Drained(host) EXCEPT !.health = Raised(@, h)]
        BY <3>3 DEF DisplayFailed
      <4>2. /\ Drained(host).health = host.health /\ host.health \in Health
            /\ h \in Health /\ h # "Healthy"
        BY <1>2, DrainedSame, FaultSets
      <4>3. /\ host' = [Drained(host) EXCEPT !.health = Raised(host.health, h)]
            /\ Raised(host.health, h) \in Health /\ Raised(host.health, h) # "Healthy"
        BY <4>1, <4>2, RaisedFacts
      <4> QED BY <1>2, <4>1, <4>3, DrainedKept
    <3> QED BY <1>5, <3>1, <3>2, <3>3
  <2> QED BY <1>1, <1>5, <2>1, FrameFailsInv
<1> QED BY <1>4, <1>5 DEF PrepareCopy

LEMMA MarkCopyInv ==
    ASSUME IInv, MarkCopy
    PROVE  IInv'
<1>1. /\ pump.pc = "markCopy" /\ "markCopy" \in CopyPcs /\ "markCopy" \in HealthyPcs
      /\ UNCHANGED <<gate, producerVars, gpu, surfaceVars, session>>
  BY PumpPlaces DEF MarkCopy, At, CopyPcs
<1>2. Hosted /\ UNCHANGED <<gpu, removed>> /\ leases \in Seq(Lease) /\ pump.lease \in Tokens
  BY <1>1, HostFacts, Types DEF IInv, PumpInv, producerVars
<1>3. CASE /\ Moved(pump.lease, {"Claimed"}, "CopySubmitted")
           /\ Go("submitCopy") /\ UNCHANGED host
  <2>1. Healthy /\ "copy" \notin gpu.busy
    BY <1>1, NoCopy
  <2>2. HostKept /\ Healthy'
    BY <1>1, <1>2, <1>3, <2>1, HostUnchanged DEF hostVars
  <2>3. CopyInv'
    BY <1>2, <2>1 DEF CopyInv
  <2>4. Stepped /\ Others(pump.lease) /\ leases'[pump.lease].state = "CopySubmitted"
    BY <1>2, <1>3, MovedStepped, MovedOne DEF LeaseStates, StepsTo
  <2>5. "submitCopy" \in CopyPcs
    BY DEF CopyPcs
  <2> QED BY <1>1, <1>3, <2>2, <2>3, <2>4, <2>5, CopyGoesInv
<1>4. CASE Fault({"Failed"}) /\ FailLease(pump.lease) /\ Go("fail")
  <2>1. HostKept
    <3>1. {"Failed"} \in SUBSET (Health \ {"Healthy"})
      BY DEF Health
    <3> QED BY <1>2, <1>4, <3>1, FaultKept
  <2> QED BY <1>1, <1>4, <2>1, FrameFailsInv
<1> QED BY <1>3, <1>4 DEF MarkCopy

\* The frame in hand fails, its copy unproved: its lease is kept.
LEMMA KeepInv ==
    ASSUME IInv, pump.pc \in {"submitCopy", "waitCopy"}, FailLease(pump.lease), Keep,
           gate' = gate, UNCHANGED <<producerVars, session, surfaceVars>>,
           HostKept, host'.health # "Healthy",
           "copy" \in gpu'.busy =>
              gpu'.source = leases[pump.lease].slot
              \/ ("copy" \in gpu.busy /\ gpu'.source = gpu.source)
    PROVE  IInv'
<1> DEFINE t == pump.lease
<1>1. /\ pump.pc \in CopyPcs /\ t \in Tokens
      /\ StateOf(t) \in {"CopySubmitted", "Failed"} /\ leases \in Seq(Lease)
      /\ t \in Nat /\ leases[t].slot \in Slots
  <2>1. pump.pc \in CopyPcs
    BY DEF CopyPcs
  <2>2. t \in Tokens /\ leases \in Seq(Lease)
    BY <2>1, Types DEF IInv, PumpInv
  <2> QED BY <2>1, <2>2, LeaseFacts DEF IInv, PumpInv
<1>2. /\ Ended /\ Others(t) /\ leases'[t].state = "Failed" /\ leases'[t].slot = leases[t].slot
  BY <1>1, FailEnded DEF Ended
<1>3. Stepped /\ Len(leases') = Len(leases) /\ Tokens' = Tokens
  BY <1>1, <1>2, EndedStepped, SteppedLen
<1>4. /\ pump' \in PumpRecords /\ pump'.pc = "fail" /\ pump'.lease = t
      /\ pump'.display = pump.display /\ pump'.kept = pump.kept \cup {t}
      /\ pump'.drained = pump.drained
  <2>1. "fail" \in PumpSteps /\ t \in Nat
    BY <1>1, PumpPlaces
  <2> QED BY <2>1, Types DEF IInv, PumpRecords, Keep
<1>5. "fail" \notin Closing \cup CopyPcs \cup HealthyPcs
  BY DEF Closing, CopyPcs, HealthyPcs
<1>6. ShownInv'
  BY <1>3, <1>4, <1>5, ShownInvKept DEF IInv
<1>7. PumpInv'
  <2>1. \A u \in pump.kept \cup {t} : u \in Tokens /\ leases'[u].state = "Failed"
    <3>1. \A u \in pump.kept : u \in Tokens /\ StateOf(u) = "Failed"
      BY DEF IInv, PumpInv
    <3> QED BY <1>1, <1>2, <3>1 DEF Others, StateOf
  <2>2. {"fence", "prepare", "markCopy", "submitCopy", "waitCopy", "retire"} = CopyPcs
    BY DEF CopyPcs
  <2>3. pump.lease <= Len(leases)
    BY DEF IInv, PumpInv
  <2> QED BY <1>3, <1>4, <1>5, <2>1, <2>2, <2>3 DEF PumpInv, StateOf, Healthy
<1>8. CopyInv'
  <2>1. \A u \in Tokens : leases'[u].slot = leases[u].slot
    BY <1>3 DEF Stepped
  <2>2. pump.kept \subseteq Tokens
    BY DEF IInv, PumpInv
  <2> QED BY <1>1, <1>2, <1>4, <2>1, <2>2 DEF IInv, CopyInv, At
<1>9. leases'[t].state \notin Unclaimed
  BY <1>2 DEF Unclaimed
<1> QED BY <1>1, <1>2, <1>3, <1>4, <1>5, <1>6, <1>7, <1>8, <1>9, CopyStepInv

LEMMA SubmitCopyInv ==
    ASSUME IInv, SubmitCopy
    PROVE  IInv'
<1> DEFINE source == leases[pump.lease].slot
<1>1. /\ pump.pc = "submitCopy" /\ "submitCopy" \in CopyPcs /\ "submitCopy" \in HealthyPcs
      /\ UNCHANGED <<gate, producerVars, surfaceVars, session>>
  BY PumpPlaces DEF SubmitCopy, At, CopyPcs
<1>2. /\ Hosted /\ UNCHANGED removed /\ leases \in Seq(Lease) /\ pump.lease \in Tokens
      /\ StateOf(pump.lease) \in {"CopySubmitted", "Failed"}
  BY <1>1, HostFacts, Types DEF IInv, PumpInv, producerVars
<1>3. source \in Slots /\ source \in 0 .. NumSlots
  BY <1>2, LeaseFacts, GateConstants DEF Slots
<1>4. Healthy /\ "copy" \notin gpu.busy
  BY <1>1, NoCopy
<1>5. /\ "copy" \in WorkSlots /\ host.health \in Health /\ host.draw \in {"draw1", "draw2"}
  BY <1>2 DEF WorkSlots, Hosted, HostRecords
<1> HIDE DEF source
<1>6. CASE SubmitOk("copy", source) /\ Go("waitCopy") /\ UNCHANGED leases
  <2>1. /\ host' = [host EXCEPT !.inFlight = @ \cup {"copy"}, !.health = host.health,
                      !.draw = host.draw]
        /\ Issued("copy", source)
    BY <1>2, <1>6 DEF SubmitOk, Hosted, HostRecords
  <2>2. /\ HostKept /\ host'.health = host.health
        /\ "copy" \in gpu'.busy => gpu'.source = source
    BY <1>2, <1>3, <1>4, <1>5, <2>1, SubmittedKept DEF Healthy
  <2>3. PumpTo("waitCopy")
    BY <1>6, GoTo, PumpPlaces
  <2>4. CopyInv'
    BY <1>3, <1>6, <2>2, <2>3 DEF CopyInv, PumpTo, At, source
  <2>5. Stepped /\ Others(pump.lease)
    BY <1>2, <1>6, SameEnded, EndedStepped, UnmovedLease
  <2>6. leases'[pump.lease].state \in {"CopySubmitted", "Failed"}
    BY <1>2, <1>6 DEF StateOf
  <2>7. "waitCopy" \in CopyPcs /\ Healthy'
    BY <1>4, <2>2 DEF CopyPcs, Healthy
  <2> QED BY <1>1, <1>6, <2>2, <2>4, <2>5, <2>6, <2>7, CopyGoesInv
<1>7. CASE SubmitFailed("copy", source) /\ FailLease(pump.lease) /\ Keep
  <2>1. PICK h \in WaitFaults :
           host' = [host EXCEPT !.inFlight = @ \cup {"copy"}, !.health = Raised(@, h)]
    BY <1>7 DEF SubmitFailed
  <2> DEFINE raised == Raised(host.health, h)
  <2>2. raised \in Health /\ raised # "Healthy"
    BY <1>5, FaultSets, RaisedFacts
  <2>3. /\ host' = [host EXCEPT !.inFlight = @ \cup {"copy"}, !.health = raised]
        /\ gpu' = gpu \/ Issued("copy", source)
    BY <1>7, <2>1 DEF SubmitFailed
  <2> HIDE DEF raised
  <2>4. host' = [host EXCEPT !.inFlight = @ \cup {"copy"}, !.health = raised,
                   !.draw = host.draw]
    BY <1>2, <2>3 DEF Hosted, HostRecords
  <2>5. /\ HostKept /\ host'.health = raised
        /\ "copy" \in gpu'.busy => gpu'.source = source
    BY <1>2, <1>3, <1>4, <1>5, <2>2, <2>3, <2>4, SubmittedKept
  <2> QED BY <1>1, <1>7, <2>2, <2>5, KeepInv DEF source
<1> QED BY <1>6, <1>7 DEF SubmitCopy, source

LEMMA WaitCopyInv ==
    ASSUME IInv, WaitCopy
    PROVE  IInv'
<1>1. /\ pump.pc = "waitCopy" /\ "waitCopy" \in CopyPcs /\ "waitCopy" \in HealthyPcs
      /\ UNCHANGED <<gate, producerVars, gpu, surfaceVars, session>>
  BY PumpPlaces DEF WaitCopy, At, CopyPcs
<1>2. /\ Hosted /\ UNCHANGED <<gpu, removed>> /\ leases \in Seq(Lease)
      /\ StateOf(pump.lease) \in {"CopySubmitted", "Failed"} /\ Healthy
  BY <1>1, HostFacts, Types DEF IInv, PumpInv, producerVars
<1>3. CASE Proved("copy") /\ host' = Idle("copy") /\ Go("retire") /\ UNCHANGED leases
  <2>1. HostKept /\ Healthy' /\ "copy" \notin gpu.busy
    BY <1>2, <1>3, IdleKept DEF Healthy, WorkSlots
  <2>2. CopyInv'
    BY <1>2, <2>1 DEF CopyInv
  <2>3. Stepped /\ Others(pump.lease)
    BY <1>2, <1>3, SameEnded, EndedStepped, UnmovedLease
  <2>4. leases'[pump.lease].state \in {"CopySubmitted", "Failed"}
    BY <1>2, <1>3 DEF StateOf
  <2>5. "retire" \in CopyPcs
    BY DEF CopyPcs
  <2> QED BY <1>1, <1>3, <2>1, <2>2, <2>3, <2>4, <2>5, CopyGoesInv
<1>4. CASE Fault(WaitFaults) /\ FailLease(pump.lease) /\ Keep
  <2>1. HostKept /\ host'.health # "Healthy"
    BY <1>2, <1>4, FaultSets, FaultKept
  <2> QED BY <1>1, <1>2, <1>4, <2>1, KeepInv
<1> QED BY <1>3, <1>4 DEF WaitCopy

LEMMA RetireCopyInv ==
    ASSUME IInv, RetireCopy
    PROVE  IInv'
<1>1. /\ pump.pc = "retire" /\ "retire" \in CopyPcs /\ "retire" \in HealthyPcs
      /\ UNCHANGED <<gate, producerVars, gpu, surfaceVars, session>>
  BY PumpPlaces DEF RetireCopy, At, CopyPcs
<1>2. Hosted /\ UNCHANGED <<gpu, removed>> /\ leases \in Seq(Lease) /\ pump.lease \in Tokens
  BY <1>1, HostFacts, Types DEF IInv, PumpInv, producerVars
<1>3. CASE /\ Moved(pump.lease, {"CopySubmitted"}, "Retired")
           /\ pump' = [pump EXCEPT !.pc = "repaint", !.new = TRUE,
                         !.display = pump.lease]
           /\ UNCHANGED host
  <2>1. Healthy /\ pump.kept = {} /\ "copy" \notin gpu.busy
    BY <1>1, NoCopy
  <2>2. HostKept
    BY <1>1, <1>2, <1>3, HostUnchanged DEF hostVars
  <2>3. CopyInv'
    BY <1>2, <2>1 DEF CopyInv
  <2>4. Stepped /\ Others(pump.lease) /\ leases'[pump.lease].state = "Retired"
    BY <1>2, <1>3, MovedStepped, MovedOne DEF LeaseStates, StepsTo
  <2>5. /\ pump' \in PumpRecords /\ pump'.pc = "repaint" /\ pump'.lease = pump.lease
        /\ pump'.display = pump.lease /\ pump'.kept = pump.kept
        /\ pump'.drained = pump.drained
    BY <1>3, PumpPlaces, Types DEF IInv, PumpRecords
  <2>6. "repaint" \notin Closing \cup CopyPcs \cup HealthyPcs
    BY DEF Closing, CopyPcs, HealthyPcs
  <2>7. Len(leases') = Len(leases) /\ pump.lease <= Len(leases)
    BY <1>2, <2>4, SteppedLen DEF IInv, PumpInv
  <2>8. ShownInv'
    <3>1. pump.display < pump.lease /\ gate.shown <= pump.display
      BY <1>1 DEF IInv, ShownInv
    <3>2. gate.shown \in Nat /\ pump.display \in Nat /\ pump.lease \in Nat
      BY Types DEF IInv
    <3> QED BY <1>1, <2>5, <2>6, <2>7, <3>1, <3>2 DEF ShownInv
  <2>9. PumpInv'
    <3>1. {"fence", "prepare", "markCopy", "submitCopy", "waitCopy", "retire"} = CopyPcs
      BY DEF CopyPcs
    <3> QED BY <2>1, <2>5, <2>6, <2>7, <3>1 DEF PumpInv
  <2>10. "Retired" \notin Unclaimed
    BY DEF Unclaimed
  <2> QED BY <1>1, <1>2, <2>2, <2>3, <2>4, <2>5, <2>6, <2>8, <2>9, <2>10, CopyStepInv
<1>4. CASE Fault({"Failed"}) /\ FailLease(pump.lease) /\ Go("fail")
  <2>1. HostKept
    <3>1. {"Failed"} \in SUBSET (Health \ {"Healthy"})
      BY DEF Health
    <3> QED BY <1>2, <1>4, <3>1, FaultKept
  <2> QED BY <1>1, <1>4, <2>1, FrameFailsInv
<1> QED BY <1>3, <1>4 DEF RetireCopy

-----------------------------------------------------------------------------
(* The presenter: the display is drawn and presented.                      *)

LEMMA DisplaySteps ==
    /\ {"repaint", "acquire", "draw", "flip", "fail", "health", "idle"} \cap
          (Closing \cup CopyPcs \cup HealthyPcs) = {}
    /\ {"acquire", "draw", "flip", "fail", "health", "idle"} \subseteq PumpSteps
BY PumpPlaces DEF Closing, CopyPcs, HealthyPcs

LEMMA TakeRepaintInv ==
    ASSUME IInv, TakeRepaint
    PROVE  IInv'
<1>1. /\ pump.pc = "repaint" /\ surface' = [surface EXCEPT !.repaint = FALSE]
      /\ UNCHANGED <<gateVars, producerVars, hostVars, window, session>>
  BY DEF TakeRepaint, At
<1>2. GateKept /\ HostKept /\ CopySame
  BY <1>1, NoGateCall, HostUnchanged DEF producerVars
<1>3. surface' \in [applied : Extents, latest : Extents, zero : BOOLEAN,
                    minimized : BOOLEAN, repaint : BOOLEAN]
  BY <1>1 DEF IInv, TypeOK
<1>4. CASE Go("acquire")
  <2>1. PumpTo("acquire")
    BY <1>4, GoTo, DisplaySteps
  <2> QED BY <1>1, <1>2, <1>3, <2>1, DisplaySteps, GoesInv
<1>5. CASE Return
  BY <1>1, <1>2, <1>3, <1>5, DisplaySteps, ReturnTo, ReturnsInv
<1>6. CASE pump' = [pump EXCEPT !.pc = "health", !.force = TRUE]
  <2>1. PumpTo("health")
    BY <1>6, DisplaySteps, Types DEF IInv, PumpTo, PumpRecords
  <2> QED BY <1>1, <1>2, <1>3, <2>1, DisplaySteps, GoesInv
<1> QED BY <1>4, <1>5, <1>6 DEF TakeRepaint

LEMMA AcquireInv ==
    ASSUME IInv, Acquire
    PROVE  IInv'
<1>1. /\ pump.pc = "acquire"
      /\ UNCHANGED <<gateVars, producerVars, gpu, surfaceVars, session>>
  BY DEF Acquire, At
<1>2. /\ GateKept /\ Hosted /\ UNCHANGED <<gpu, removed>> /\ CopySame
      /\ surface' \in [applied : Extents, latest : Extents, zero : BOOLEAN,
                       minimized : BOOLEAN, repaint : BOOLEAN]
  BY <1>1, NoGateCall, HostFacts, SurfaceUnchanged DEF producerVars, surfaceVars, CopySame
<1>3. CASE Go("draw") /\ UNCHANGED host
  <2>1. HostKept /\ PumpTo("draw")
    BY <1>2, <1>3, GoTo, DisplaySteps, HostUnchanged DEF hostVars
  <2> QED BY <1>1, <1>2, <2>1, DisplaySteps, GoesInv DEF surfaceVars
<1>4. CASE Fault(WaitFaults \cup PresentFaults) /\ Go("fail")
  <2>1. HostKept /\ PumpTo("fail")
    BY <1>2, <1>4, GoTo, DisplaySteps, FaultSets, FaultKept
  <2> QED BY <1>1, <1>2, <2>1, DisplaySteps, GoesInv DEF surfaceVars
<1> QED BY <1>3, <1>4 DEF Acquire

LEMMA DrawInv ==
    ASSUME IInv, Draw
    PROVE  IInv'
<1>1. /\ pump.pc = "draw"
      /\ UNCHANGED <<gateVars, producerVars, surfaceVars, session>>
  BY DEF Draw, At
<1>2. /\ GateKept /\ Hosted /\ UNCHANGED removed
      /\ surface' \in [applied : Extents, latest : Extents, zero : BOOLEAN,
                       minimized : BOOLEAN, repaint : BOOLEAN]
  BY <1>1, NoGateCall, HostFacts, SurfaceUnchanged DEF producerVars, surfaceVars
<1>3. /\ host.draw \in WorkSlots /\ host.draw # "copy" /\ host.health \in Health
      /\ host.draw \in {"draw1", "draw2"} /\ OtherDraw \in {"draw1", "draw2"}
      /\ 0 \in 0 .. NumSlots
  BY <1>2, GateConstants DEF WorkSlots, Hosted, HostRecords, OtherDraw
<1>4. CASE /\ host' = [host EXCEPT !.inFlight = @ \cup {host.draw}, !.draw = OtherDraw]
           /\ Issued(host.draw, 0) /\ Go("flip")
  <2>1. host' = [host EXCEPT !.inFlight = @ \cup {host.draw}, !.health = host.health,
                   !.draw = OtherDraw]
    BY <1>2, <1>4 DEF Hosted, HostRecords
  <2>2. HostKept /\ CopySame
    BY <1>2, <1>3, <1>4, <2>1, SubmittedKept DEF Healthy
  <2>3. PumpTo("flip")
    BY <1>4, GoTo, DisplaySteps
  <2> QED BY <1>1, <1>2, <2>2, <2>3, DisplaySteps, GoesInv DEF surfaceVars
<1>5. CASE Fault(WaitFaults \cup {"Failed"}) /\ UNCHANGED gpu /\ Go("fail")
  <2>1. WaitFaults \cup {"Failed"} \in SUBSET (Health \ {"Healthy"})
    BY DEF WaitFaults, Health
  <2>2. HostKept /\ CopySame /\ PumpTo("fail")
    BY <1>2, <1>5, <2>1, GoTo, DisplaySteps, FaultKept DEF CopySame
  <2> QED BY <1>1, <1>2, <2>2, DisplaySteps, GoesInv DEF surfaceVars
<1>6. CASE SubmitFailed(host.draw, 0) /\ Go("fail")
  <2>1. PICK h \in WaitFaults :
           host' = [host EXCEPT !.inFlight = @ \cup {host.draw}, !.health = Raised(@, h)]
    BY <1>6 DEF SubmitFailed
  <2> DEFINE raised == Raised(host.health, h)
  <2>2. raised \in Health /\ raised # "Healthy"
    BY <1>3, FaultSets, RaisedFacts
  <2>3. /\ host' = [host EXCEPT !.inFlight = @ \cup {host.draw}, !.health = raised]
        /\ gpu' = gpu \/ Issued(host.draw, 0)
    BY <1>6, <2>1 DEF SubmitFailed
  <2> HIDE DEF raised
  <2>4. host' = [host EXCEPT !.inFlight = @ \cup {host.draw}, !.health = raised,
                   !.draw = host.draw]
    BY <1>2, <2>3 DEF Hosted, HostRecords
  <2>5. HostKept /\ CopySame
    BY <1>2, <1>3, <2>2, <2>3, <2>4, SubmittedKept
  <2>6. PumpTo("fail")
    BY <1>6, GoTo, DisplaySteps
  <2> QED BY <1>1, <1>2, <2>5, <2>6, DisplaySteps, GoesInv DEF surfaceVars
<1> QED BY <1>4, <1>5, <1>6 DEF Draw

\* What is shown is what was last copied to the display.
LEMMA OnPresentedInv ==
    ASSUME IInv, OnPresented(pump.display), leases' = leases, PumpReturns,
           pump.pc = "flip", HostKept, CopySame,
           UNCHANGED <<producerVars, surfaceVars, session>>
    PROVE  IInv' /\ gate'.shown >= gate.shown
<1>1. /\ TypeOK /\ leases \in Seq(Lease) /\ pump.display \in Nat /\ gate.shown \in Nat
      /\ gate \in GateRecords /\ gate' = [gate EXCEPT !.shown = pump.display]
  BY Types DEF IInv, GateType, GateRecords, OnPresented
<1>2. /\ gate' \in GateRecords /\ gate'.queue = gate.queue
      /\ gate'.dropped = gate.dropped /\ gate'.claimed = gate.claimed
      /\ gate'.stale = gate.stale /\ gate'.accepting = gate.accepting
      /\ gate'.shown = pump.display
  BY <1>1 DEF GateRecords
<1>3. TypeOK'
  BY SMTT(30), <1>1, <1>2 DEF TypeOK, GateType, GateRecords, HostKept, PumpReturns, PumpRecords,
                    producerVars, ProducerType, surfaceVars
<1>4. LeaseInv' /\ SlotInv' /\ AwaitInv'
  BY DEF IInv, LeaseInv, SlotInv, AwaitInv, Returned, Tokens, StateOf, producerVars
<1>5. QueueInv'
  BY <1>1, <1>2, QueueInvKept DEF IInv, PumpReturns, Tokens
<1>6. ShownInv'
  BY <1>1, <1>2, DisplaySteps DEF IInv, ShownInv, PumpReturns
<1>7. OffersAccounted'
  BY <1>2 DEF IInv, OffersAccounted, Tokens, StateOf
<1>8. PumpInv'
  <2>1. Ended /\ (~Healthy => ~Healthy')
    BY <1>1, SameEnded DEF HostKept, Healthy
  <2> QED BY <1>1, <2>1, DisplaySteps, PumpInvRests DEF IInv, PumpReturns
<1>9. CopyInv'
  BY CopyInvKept DEF IInv, CopySame, PumpReturns
<1>10. CloseInv'
  BY DisplaySteps, CloseInvOpen DEF IInv, PumpReturns
<1>11. gate'.shown >= gate.shown
  BY <1>1, <1>2 DEF IInv, ShownInv
<1> QED BY <1>3, <1>4, <1>5, <1>6, <1>7, <1>8, <1>9, <1>10, <1>11 DEF IInv, HostKept

LEMMA FlipInv ==
    ASSUME IInv, Flip
    PROVE  IInv' /\ gate'.shown >= gate.shown
<1>1. /\ pump.pc = "flip" /\ leases' = leases
      /\ UNCHANGED <<producerVars, surfaceVars, session>>
  BY DEF Flip, At
<1>2. /\ Hosted /\ UNCHANGED removed /\ gate.shown \in Nat
      /\ surface' \in [applied : Extents, latest : Extents, zero : BOOLEAN,
                       minimized : BOOLEAN, repaint : BOOLEAN]
  BY <1>1, HostFacts, SurfaceUnchanged, Types DEF IInv, producerVars, surfaceVars
<1>3. CASE PresentQueued("Healthy") /\ Return /\ UNCHANGED gate
  <2>1. GateKept /\ HostKept /\ CopySame
    BY <1>1, <1>2, <1>3, NoGateCall, PresentedKept DEF gateVars, Health
  <2>2. IInv'
    BY <1>1, <1>2, <1>3, <2>1, DisplaySteps, ReturnTo, ReturnsInv DEF surfaceVars
  <2> QED BY <1>2, <1>3, <2>2
<1>4. CASE PresentQueued("Healthy") /\ Return /\ OnPresented(pump.display)
  <2>1. HostKept /\ CopySame /\ PumpReturns
    BY <1>2, <1>4, PresentedKept, ReturnTo DEF Health
  <2> QED BY <1>1, <1>4, <2>1, OnPresentedInv
<1>5. ASSUME NEW h \in PresentFaults, PresentQueued(h), Go("fail"), UNCHANGED gate
      PROVE  IInv' /\ gate'.shown >= gate.shown
  <2>1. GateKept /\ HostKept /\ CopySame /\ PumpTo("fail")
    BY <1>1, <1>2, <1>5, NoGateCall, PresentedKept, FaultSets, GoTo, DisplaySteps
       DEF gateVars
  <2>2. IInv'
    BY <1>1, <1>2, <2>1, DisplaySteps, GoesInv DEF surfaceVars
  <2> QED BY <1>2, <1>5, <2>2
<1> QED BY <1>3, <1>4, <1>5 DEF Flip

-----------------------------------------------------------------------------
(* The presenter: the close.                                               *)

\* Once the renderer thread has left.
LEMMA ClosingInv ==
    ASSUME IInv, GateKept, HostKept, UNCHANGED <<producerVars, gpu, surfaceVars>>,
           pump' \in PumpRecords, pump'.lease = pump.lease,
           pump'.display = pump.display, pump'.kept = pump.kept,
           pump'.pc \in Closing, pump.pc \in Closing \cup {"join"}, CloseInv',
           session' \in [stopping : BOOLEAN, owners : {"held", "released", "kept"},
                         report : {"none", "drained", "failed"}]
    PROVE  IInv'
<1>1. TypeOK /\ leases \in Seq(Lease) /\ ProducerType /\ Ended /\ Stepped
  BY Types, EndedStepped DEF IInv, GateKept
<1>2. Len(leases') = Len(leases) /\ Tokens' = Tokens
  BY <1>1, SteppedLen
<1>3. /\ pump'.pc \notin CopyPcs /\ pump'.pc \notin HealthyPcs /\ pump.pc # "waitCopy"
  BY DEF Closing, CopyPcs, HealthyPcs
<1>4. TypeOK'
  BY <1>1 DEF TypeOK, GateKept, HostKept, producerVars, ProducerType, PumpRecords,
              surfaceVars
<1>5. LeaseInv' /\ SlotInv' /\ AwaitInv'
  BY <1>1, LeaseInvKept, AwaitInvKept DEF IInv, SlotInv, producerVars
<1>6. QueueInv'
  <2>1. \A t \in Tokens : leases[t].state \in Unclaimed => leases'[t].state \in Unclaimed
    BY <1>1 DEF Ended, EndsTo, Unclaimed
  <2> QED BY <1>1, <1>2, <2>1, QueueInvKept, QueueInvEmpty DEF IInv, GateKept
<1>7. ShownInv'
  BY <1>1, <1>2, <1>3, ShownInvKept DEF IInv, GateKept
<1>8. PumpInv'
  <2>1. ~Healthy => ~Healthy'
    BY DEF HostKept, Healthy
  <2> QED BY <1>1, <1>3, <2>1, PumpInvRests DEF IInv
<1>9. CopyInv'
  BY <1>1, <1>3, CopyInvKept DEF IInv, Ended
<1> QED BY <1>4, <1>5, <1>6, <1>7, <1>8, <1>9 DEF IInv, GateKept, HostKept

LEMMA JoinProducerInv ==
    ASSUME IInv, JoinProducer \/ ShutdownClose
    PROVE  IInv'
<1> DEFINE to == IF pump.pc = "join" THEN "closeGate" ELSE "drain"
<1>1. /\ UNCHANGED <<producerVars, hostVars, surfaceVars, session>>
      /\ pump.pc \in {"join", "closeGate"} /\ Go(to) /\ producer.pc = "stopped"
      /\ CloseGate \/ UNCHANGED gateVars
  BY DEF JoinProducer, ShutdownClose, At, IInv, CloseInv, Closing
<1>2. GateKept /\ HostKept
  BY <1>1, Types, CloseGateKept, NoGateCall, HostUnchanged DEF IInv, producerVars
<1>3. to \in PumpSteps /\ to \in {"closeGate", "drain"} /\ to \in Closing
  BY PumpPlaces DEF Closing
<1> HIDE DEF to
<1>4. PumpTo(to)
  BY <1>1, <1>3, GoTo
<1>5. ~pump.drained /\ session.owners # "released" /\ session.report # "drained"
  BY <1>1 DEF IInv, CloseInv, At
<1>6. CloseInv'
  BY <1>1, <1>3, <1>4, <1>5 DEF CloseInv, PumpTo, At, producerVars
<1>7. pump.pc \in Closing \cup {"join"}
  BY <1>1 DEF Closing
<1> QED BY <1>1, <1>2, <1>3, <1>4, <1>6, <1>7, ClosingInv
        DEF IInv, TypeOK, PumpTo, hostVars

LEMMA FinalHealthFacts ==
    ASSUME NEW d \in BOOLEAN, NEW h \in Health
    PROVE  /\ FinalHealth(d, h) \in Health
           /\ h # "Healthy" => FinalHealth(d, h) # "Healthy"
           /\ removed \/ d \/ Retains(FinalHealth(d, h))
BY DEF FinalHealth, Retains, Health

LEMMA ShutdownDrainInv ==
    ASSUME IInv, ShutdownDrain
    PROVE  IInv'
<1>1. /\ pump.pc = "drain" /\ UNCHANGED <<gateVars, producerVars, gpu, surfaceVars, session>>
  BY DEF ShutdownDrain, At
<1>2. /\ GateKept /\ Hosted /\ UNCHANGED <<gpu, removed>>
      /\ pump.pc \in Closing /\ producer.pc = "stopped"
      /\ ~pump.drained /\ session.owners # "released" /\ session.report # "drained"
  BY <1>1, NoGateCall, HostFacts DEF producerVars, IInv, CloseInv, Closing, At
<1>3. ASSUME HostKept, pump' \in PumpRecords, pump'.lease = pump.lease,
             pump'.display = pump.display, pump'.kept = pump.kept,
             pump'.pc = "terminate", pump'.drained => gpu.busy = {},
             ~Retains(host.health)' => gpu.busy = {}
      PROVE  IInv'
  <2>1. CloseInv'
    BY <1>1, <1>2, <1>3 DEF CloseInv, At, producerVars
  <2>2. pump'.pc \in Closing
    BY <1>3 DEF Closing
  <2> QED BY <1>1, <1>2, <1>3, <2>1, <2>2, ClosingInv DEF IInv, TypeOK
<1>4. CASE /\ DrainProved
           /\ host' = [Drained(host) EXCEPT !.health = FinalHealth(TRUE, @)]
           /\ pump' = [pump EXCEPT !.pc = "terminate", !.drained = TRUE]
  <2> DEFINE h == FinalHealth(TRUE, host.health)
  <2>1. /\ Drained(host).health = host.health /\ host.health \in Health
    BY <1>2, DrainedSame
  <2>2. h \in Health /\ (~Healthy => h # "Healthy")
    BY <2>1, FinalHealthFacts DEF Healthy
  <2>3. host' = [Drained(host) EXCEPT !.health = h]
    BY <1>4, <2>1
  <2> HIDE DEF h
  <2>4. HostKept /\ gpu.busy = {}
    BY <1>2, <1>4, <2>2, <2>3, DrainedKept, DrainedGpu
  <2>5. /\ pump' \in PumpRecords /\ pump'.lease = pump.lease
        /\ pump'.display = pump.display /\ pump'.kept = pump.kept
        /\ pump'.pc = "terminate"
    BY <1>4, PumpPlaces, Types DEF IInv, PumpRecords
  <2> QED BY <1>3, <2>4, <2>5
<1>5. ASSUME NEW f \in FailedDrains,
             host' = [f EXCEPT !.health = FinalHealth(FALSE, @)],
             pump' = [pump EXCEPT !.pc = "terminate"]
      PROVE  IInv'
  <2> DEFINE h == FinalHealth(FALSE, f.health)
  <2>1. f.health \in Health /\ f.health # "Healthy"
    <3>1. PICK e \in WaitFaults, left \in SUBSET (host.inFlight \cup {"marker"}) :
             f = FailedDrain(e, left)
      BY FailedDrainForm
    <3> DEFINE raised == Raised(host.health, e)
    <3>2. raised \in Health /\ raised # "Healthy"
      BY <1>2, FaultSets, RaisedFacts DEF Hosted, HostRecords
    <3>3. f = [host EXCEPT !.health = raised, !.inFlight = left]
      BY <3>1 DEF FailedDrain
    <3> HIDE DEF raised
    <3> QED BY <1>2, <3>2, <3>3 DEF Hosted, HostRecords
  <2>2. h \in Health /\ h # "Healthy" /\ (removed \/ Retains(h))
    BY <2>1, FinalHealthFacts
  <2>3. host' = [f EXCEPT !.health = h]
    BY <1>5
  <2> HIDE DEF h
  <2>4. HostKept /\ host'.health = h
    BY <1>2, <2>2, <2>3, FailedDrainKept
  <2>5. /\ pump' \in PumpRecords /\ pump'.lease = pump.lease
        /\ pump'.display = pump.display /\ pump'.kept = pump.kept
        /\ pump'.pc = "terminate" /\ pump'.drained = pump.drained
    BY <1>5, PumpPlaces, Types DEF IInv, PumpRecords
  <2>6. ~Retains(host.health)' => gpu.busy = {}
    BY <1>2, <2>2, <2>4 DEF Retains, IInv, BusyInv
  <2> QED BY <1>2, <1>3, <2>4, <2>5, <2>6
<1> QED BY <1>4, <1>5 DEF ShutdownDrain

LEMMA ShutdownEndInv ==
    ASSUME IInv, ShutdownEnd
    PROVE  IInv'
<1>1. /\ pump.pc = "terminate" /\ TerminateAdmission /\ Go("finished")
      /\ session' = [session EXCEPT !.owners =
                       IF Retains(host.health) THEN "kept" ELSE "released"]
      /\ UNCHANGED <<producerVars, hostVars, surfaceVars>>
  BY DEF ShutdownEnd, At
<1>2. /\ GateKept /\ HostKept /\ \A t \in Tokens : IsTerminal(leases'[t].state)
  BY <1>1, Types, TerminateAdmissionKept, HostUnchanged DEF IInv, producerVars
<1>3. /\ pump.pc \in Closing /\ producer.pc = "stopped" /\ session.report # "drained"
      /\ pump.drained => gpu.busy = {}
      /\ ~Retains(host.health) => gpu.busy = {}
  BY <1>1 DEF IInv, CloseInv, Closing, At
<1>4. PumpTo("finished")
  BY <1>1, GoTo, PumpPlaces
<1>5. /\ session' \in [stopping : BOOLEAN, owners : {"held", "released", "kept"},
                       report : {"none", "drained", "failed"}]
      /\ session'.owners = IF Retains(host.health) THEN "kept" ELSE "released"
      /\ session'.report = session.report
  BY <1>1 DEF IInv, TypeOK
<1>6. Tokens' = Tokens
  BY <1>2, EndedOwned DEF GateKept
<1>7. CloseInv'
  BY <1>1, <1>2, <1>3, <1>4, <1>5, <1>6
     DEF CloseInv, PumpTo, At, StateOf, producerVars, hostVars
<1>8. "finished" \in Closing
  BY DEF Closing
<1> QED BY <1>1, <1>2, <1>3, <1>4, <1>5, <1>7, <1>8, ClosingInv DEF PumpTo, hostVars

-----------------------------------------------------------------------------
(* The invariant holds.                                                    *)

LEMMA InitInv ==
    ASSUME Init
    PROVE  IInv
<1>1. /\ leases = <<>>
      /\ gate = [queue |-> <<>>, accepting |-> TRUE, suspended |-> FALSE,
                 lost |-> FALSE, dropped |-> 0, claimed |-> 0, stale |-> 0,
                 shown |-> 0]
      /\ slots = [s \in Slots |-> [lease |-> 0, gpu |-> "idle"]]
      /\ producer = [pc |-> "run", submitted |-> <<>>, next |-> 1,
                     stop |-> FALSE, awaited |-> {}, abandoned |-> {}]
      /\ removed = FALSE
      /\ host = [health |-> "Healthy", inFlight |-> {}, presents |-> FALSE,
                 draw |-> "draw1"]
      /\ gpu = [busy |-> {}, source |-> 0]
      /\ session = [stopping |-> FALSE, owners |-> "held", report |-> "none"]
  BY DEF Init, GateInit, ProducerInit, HostInit
<1>2. PICK e \in Extents :
        /\ surface = [applied |-> e, latest |-> e, zero |-> FALSE,
                      minimized |-> FALSE, repaint |-> FALSE]
        /\ window = [client |-> e, calls |-> <<>>, latched |-> FALSE,
                     suspend |-> FALSE]
        /\ pump = [pc |-> "idle", force |-> FALSE, lease |-> 0,
                   pending |-> e, actual |-> e, new |-> FALSE,
                   display |-> 0, kept |-> {}, drained |-> FALSE]
  BY DEF Init
<1>3. /\ <<>> \in Seq(Lease) /\ <<>> \in Seq(Nat) /\ <<>> \in Seq(Slots)
      /\ <<>> \in Seq(Calls) /\ Len(<<>>) = 0
      /\ NumSlots \in Nat \ {0} /\ Capacity \in Nat \ {0} /\ 1 \in Slots
  BY EmptySeq, GateConstants DEF Slots
<1>4. DOMAIN leases = {} /\ DOMAIN gate.queue = {} /\ Tokens = {}
  BY <1>1, <1>3 DEF Tokens
<1>5. GateType
  BY <1>1, <1>3 DEF GateType
<1>6. ProducerType
  BY <1>1, <1>3 DEF ProducerType, ProducerPhases
<1>7. HostType
  BY <1>1, <1>3 DEF HostType, Health, Slots
<1>8. /\ surface \in [applied : Extents, latest : Extents, zero : BOOLEAN,
                      minimized : BOOLEAN, repaint : BOOLEAN]
      /\ window \in [client : Extents \cup {NoExtent}, calls : Seq(Calls),
                     latched : BOOLEAN, suspend : BOOLEAN]
  BY <1>2, <1>3
<1>9. /\ pump \in [pc : PumpSteps, force : BOOLEAN, lease : Nat,
                   pending : Extents, actual : Extents, new : BOOLEAN,
                   display : Nat, kept : SUBSET Nat, drained : BOOLEAN]
      /\ session \in [stopping : BOOLEAN, owners : {"held", "released", "kept"},
                      report : {"none", "drained", "failed"}]
  BY <1>1, <1>2 DEF PumpSteps
<1>10. TypeOK
  BY <1>5, <1>6, <1>7, <1>8, <1>9 DEF TypeOK
<1>11. LeaseInv /\ SlotInv
  BY <1>1, <1>4 DEF LeaseInv, SlotInv
<1>12. QueueInv /\ ShownInv
  BY <1>1, <1>2, <1>3, <1>4 DEF QueueInv, ShownInv, CopyPcs
<1>13. OffersAccounted
  <2>1. Owned = {} /\ Cardinality({}) = 0
    BY <1>4, FS_EmptySet DEF Owned
  <2>2. Counted = 0 /\ Len(leases) = 0 /\ gate.claimed = 0
    BY <1>1, <1>3 DEF Counted
  <2> QED BY <2>1, <2>2, Accounts
<1>14. PumpInv
  BY <1>1, <1>2, <1>3 DEF PumpInv, CopyPcs, HealthyPcs
<1>15. CopyInv /\ BusyInv /\ AwaitInv
  BY <1>1 DEF CopyInv, BusyInv, AwaitInv
<1>16. CloseInv
  BY <1>1, <1>2 DEF CloseInv, Closing, At
<1> QED BY <1>10, <1>11, <1>12, <1>13, <1>14, <1>15, <1>16 DEF IInv

LEMMA StepInv ==
    ASSUME IInv, [Next]_vars
    PROVE  IInv'
<1>1. CASE NewFrame
  BY <1>1, BeginFrameInv
<1>2. CASE ProducerNext
  BY <1>2, ProducerNextInv
<1>3. CASE Wake \/ SeeStop
  BY <1>3, WakeInv
<1>4. CASE PumpNext
  BY <1>3, <1>4, CheckHealthInv, ReadSurfaceInv, SuspendInv, ResizeInv, DropExtentInv,
     ClaimFrameInv, CheckFenceInv, PrepareCopyInv, MarkCopyInv, SubmitCopyInv,
     WaitCopyInv, RetireCopyInv, TakeRepaintInv, AcquireInv, DrawInv, FlipInv,
     FailInv, JoinProducerInv, ShutdownDrainInv, ShutdownEndInv
     DEF PumpNext
<1>5. CASE WindowNext
  BY <1>5, WindowInv
<1>6. CASE WindowCalls
  BY <1>6, LatchSurfaceInv, LatchGateInv DEF WindowCalls
<1>7. CASE GpuNext
  BY <1>7, FinishFrameInv, GpuWorkInv DEF GpuNext
<1>8. CASE Close \/ Report
  BY <1>8, CloseCallInv, ReportInv
<1>9. CASE UNCHANGED vars
  <2>1. /\ UNCHANGED <<leases, gate, slots, producer, removed, host, gpu>>
        /\ UNCHANGED <<surface, window, pump, session>>
    BY <1>9 DEF vars, gateVars, producerVars, hostVars, surfaceVars
  <2>2. TypeOK'
    BY <2>1 DEF IInv, TypeOK, GateType, ProducerType, HostType
  <2>3. (LeaseInv /\ SlotInv /\ QueueInv /\ ShownInv)'
    BY <2>1 DEF IInv, LeaseInv, SlotInv, QueueInv, ShownInv, Tokens, StateOf
  <2>4. OffersAccounted'
    BY <2>1 DEF IInv, OffersAccounted, Tokens, StateOf
  <2>5. (PumpInv /\ CopyInv /\ BusyInv)'
    BY <2>1 DEF IInv, PumpInv, CopyInv, BusyInv, Tokens, StateOf, Healthy, At
  <2>6. (AwaitInv /\ CloseInv)'
    BY <2>1 DEF IInv, AwaitInv, CloseInv, Tokens, StateOf, Returned, At, Retains
  <2> QED BY <2>2, <2>3, <2>4, <2>5, <2>6 DEF IInv
<1> QED BY <1>1, <1>2, <1>3, <1>4, <1>5, <1>6, <1>7, <1>8, <1>9 DEF Next

\* In every behaviour, for any number of slots, any queue and any extents.
THEOREM AlwaysInv == Spec => []IInv
<1>1. Init => IInv
  BY InitInv
<1>2. IInv /\ [Next]_vars => IInv'
  BY StepInv
<1> QED BY <1>1, <1>2, PTL DEF Spec

\* The gate, the renderer thread, the device, the window, the presenter and
\* the close keep their types (TypeOK).
THEOREM PresentationTypeCorrect == Spec => []TypeOK
<1>1. IInv => TypeOK
  BY DEF IInv
<1> QED BY <1>1, AlwaysInv, PTL

\* The slot a copy reads still has the lease the presenter took or kept.
LEMMA CopiedLease ==
    ASSUME IInv, NEW s \in Slots, Copying(s)
    PROVE  /\ slots[s].lease \in Tokens /\ slots[s].lease # 0
           /\ StateOf(slots[s].lease) \notin Spent
           /\ \/ At("waitCopy") /\ leases[pump.lease].slot = s
              \/ \E t \in pump.kept : leases[t].slot = s
<1>1. \/ At("waitCopy") /\ leases[pump.lease].slot = s
      \/ \E t \in pump.kept : leases[t].slot = s
  BY DEF IInv, CopyInv, Copying
<1>2. PICK t \in Tokens : leases[t].slot = s /\ StateOf(t) \notin Spent
  <2>1. CASE At("waitCopy") /\ leases[pump.lease].slot = s
    BY <2>1 DEF IInv, PumpInv, CopyPcs, At, Spent
  <2>2. CASE \E t \in pump.kept : leases[t].slot = s
    BY <2>2 DEF IInv, PumpInv, Spent
  <2> QED BY <1>1, <2>1, <2>2
<1>3. slots[s].lease = t /\ t # 0
  BY <1>2, LeaseFacts DEF IInv, TypeOK, GateType, LeaseInv
<1> QED BY <1>1, <1>2, <1>3

\* The renderer's GPU work never writes an output while the presenter's copy
\* may read it (SourceStable): the slot that is read still has the lease the
\* presenter took or kept, and a slot is written only once its lease came back.
THEOREM SourceNotWritten == Spec => []SourceStable
<1>1. ASSUME IInv, NEW s \in Slots, Copying(s)
      PROVE  slots[s].gpu # "drawing"
  BY <1>1, CopiedLease DEF IInv, SlotInv
<1>2. IInv => SourceStable
  BY <1>1 DEF SourceStable
<1> QED BY <1>2, AlwaysInv, PTL

\* Both sides hold the memory a copy may read (SourceHeld): the presenter in
\* its hand or for the process, and a renderer thread that left gave the slot
\* up without releasing it, because its lease had not come back.
THEOREM SourceKeptAlive == Spec => []SourceHeld
<1>1. ASSUME IInv, NEW s \in Slots, Copying(s)
      PROVE  SlotHeld(s)
  <2>1. ~Returned(slots[s].lease) /\ ~removed
    BY <1>1, CopiedLease DEF IInv, BusyInv, Copying, Returned, Spent
  <2> QED BY <1>1, <2>1 DEF IInv, AwaitInv, SlotHeld
<1>2. IInv => SourceHeld
  BY <1>1, CopiedLease DEF SourceHeld
<1> QED BY <1>2, AlwaysInv, PTL

\* The owners of the GPU set are released only when none of its work can run
\* (OwnersOutliveGpu): every slot, the presents behind them and the copy were
\* proved finished, or the device is gone.
THEOREM OwnersReleasedIdle == Spec => []OwnersOutliveGpu
<1>1. IInv => OwnersOutliveGpu
  BY DEF IInv, CloseInv, OwnersOutliveGpu
<1> QED BY <1>1, AlwaysInv, PTL

\* A close reported as drained left nothing behind (DrainedIsIdle): both
\* threads are done, every lease has ended and the GPU is idle.
THEOREM DrainReportedTrue == Spec => []DrainedIsIdle
<1>1. IInv => DrainedIsIdle
  BY DEF IInv, CloseInv, DrainedIsIdle, Closing, At
<1> QED BY <1>1, AlwaysInv, PTL

\* Every admitted offer is in the queue or counted once as dropped, claimed or
\* stale (OffersAccounted), whatever cancels, claims, suspends and closes.
THEOREM OffersCounted == Spec => []OffersAccounted
<1>1. IInv => OffersAccounted
  BY DEF IInv
<1> QED BY <1>1, AlwaysInv, PTL

-----------------------------------------------------------------------------
(* What a step does to the leases and the shown frame.                     *)

\* The slots stay as they are, and each lease changes as it may.
LeasesMove == Stepped /\ slots' = slots
ShownMoves == gate'.shown >= gate.shown

LEMMA GateKeptMoves ==
    ASSUME IInv, GateKept
    PROVE  Stepped /\ ShownMoves
BY Types, EndedStepped DEF IInv, GateKept, ShownMoves

LEMMA SameMoves ==
    ASSUME IInv, UNCHANGED gateVars
    PROVE  Stepped /\ ShownMoves
BY NoGateCall, GateKeptMoves

\* A step that fails or moves the lease in hand, and leaves the gate alone.
LEMMA LeaseInHandMoves ==
    ASSUME IInv, pump.pc \in CopyPcs, gate' = gate,
           \/ leases' = leases
           \/ FailLease(pump.lease)
           \/ Moved(pump.lease, {"Claimed"}, "CopySubmitted")
           \/ Moved(pump.lease, {"CopySubmitted"}, "Retired")
    PROVE  Stepped /\ ShownMoves
<1>1. /\ leases \in Seq(Lease) /\ pump.lease \in Tokens /\ gate.shown \in Nat
  BY Types DEF IInv, PumpInv
<1>2. CASE leases' = leases
  BY <1>1, <1>2, SameEnded, EndedStepped DEF ShownMoves
<1>3. CASE FailLease(pump.lease)
  BY <1>1, <1>3, FailEnded, EndedStepped DEF ShownMoves
<1>4. CASE Moved(pump.lease, {"Claimed"}, "CopySubmitted")
  BY <1>1, <1>4, MovedStepped DEF LeaseStates, StepsTo, ShownMoves
<1>5. CASE Moved(pump.lease, {"CopySubmitted"}, "Retired")
  BY <1>1, <1>5, MovedStepped DEF LeaseStates, StepsTo, ShownMoves
<1> QED BY <1>2, <1>3, <1>4, <1>5

LEMMA CopyMoves ==
    ASSUME IInv, \/ CheckFence \/ PrepareCopy \/ MarkCopy \/ SubmitCopy
                 \/ WaitCopy \/ RetireCopy
    PROVE  LeasesMove /\ ShownMoves
<1>1. pump.pc \in CopyPcs /\ gate' = gate /\ UNCHANGED producerVars
  BY DEF CheckFence, PrepareCopy, MarkCopy, SubmitCopy, WaitCopy, RetireCopy,
         At, CopyPcs
<1>2. \/ leases' = leases
      \/ FailLease(pump.lease)
      \/ Moved(pump.lease, {"Claimed"}, "CopySubmitted")
      \/ Moved(pump.lease, {"CopySubmitted"}, "Retired")
  BY DEF CheckFence, PrepareCopy, MarkCopy, SubmitCopy, WaitCopy, RetireCopy
<1> QED BY <1>1, <1>2, LeaseInHandMoves DEF LeasesMove, producerVars

LEMMA ClaimMoves ==
    ASSUME IInv, ClaimFrame
    PROVE  LeasesMove /\ ShownMoves
<1>1. slots' = slots /\ (UNCHANGED gateVars \/ ClaimNone \/ \E t \in Claimable : ClaimNewest(t))
  BY DEF ClaimFrame, producerVars
<1>2. CASE UNCHANGED gateVars
  BY <1>1, <1>2, SameMoves DEF LeasesMove
<1>3. CASE ClaimNone
  BY <1>1, <1>3, Types, ClaimNoneKept, GateKeptMoves DEF IInv, LeasesMove
<1>4. ASSUME NEW t \in Claimable, ClaimNewest(t)
      PROVE  LeasesMove /\ ShownMoves
  BY <1>1, <1>4, Types, ClaimNewestKept DEF IInv, LeasesMove, ShownMoves
<1> QED BY <1>1, <1>2, <1>3, <1>4

LEMMA PumpMoves ==
    ASSUME IInv, Wake \/ PumpNext
    PROVE  LeasesMove /\ ShownMoves
<1>1. CASE \/ Wake \/ CheckHealth \/ ReadSurface \/ Resize \/ DropExtent
           \/ MarkResized \/ TakeRepaint \/ Acquire \/ Draw \/ SeeStop
           \/ JoinProducer \/ ShutdownDrain
  <2>1. UNCHANGED <<gateVars, producerVars>>
    BY <1>1 DEF Wake, CheckHealth, ReadSurface, Resize, DropExtent, MarkResized,
                TakeRepaint, Acquire, Draw, SeeStop, JoinProducer, ShutdownDrain
  <2> QED BY <2>1, SameMoves DEF LeasesMove, producerVars
<1>2. CASE Suspend \/ Fail \/ ShutdownClose \/ ShutdownEnd
  <2>1. UNCHANGED producerVars
    BY <1>2 DEF Suspend, Fail, ShutdownClose, ShutdownEnd
  <2>2. SetSuspended(TRUE) \/ TerminateAdmission \/ CloseGate
    BY <1>2 DEF Suspend, Fail, ShutdownClose, ShutdownEnd
  <2>3. GateKept
    BY <2>2, Types, SetSuspendedKept, TerminateAdmissionKept, CloseGateKept DEF IInv
  <2> QED BY <2>1, <2>3, GateKeptMoves DEF LeasesMove, producerVars
<1>3. CASE Flip
  <2>1. UNCHANGED <<leases, producerVars>>
    BY <1>3 DEF Flip
  <2>2. Stepped
    BY <2>1, Types, SameEnded, EndedStepped DEF IInv
  <2> QED BY <1>3, <2>1, <2>2, FlipInv DEF LeasesMove, ShownMoves, producerVars
<1>4. CASE ClaimFrame
  BY <1>4, ClaimMoves
<1>5. CASE \/ CheckFence \/ PrepareCopy \/ MarkCopy \/ SubmitCopy
           \/ WaitCopy \/ RetireCopy
  BY <1>5, CopyMoves
<1> QED BY <1>1, <1>2, <1>3, <1>4, <1>5 DEF PumpNext

LEMMA ProducerMoves ==
    ASSUME IInv, \/ BeginFrame \/ CancelForReuse \/ GiveUpSlot \/ ObserveStop
                 \/ DrainFrames \/ LeaveThread
                 \/ \E s \in Slots : AwaitSlot(s)
    PROVE  LeasesMove /\ ShownMoves
<1>1. CASE CancelForReuse
  <2> DEFINE t == NextLease
  <2>1. /\ t # 0 /\ Moved(t, {"Published"}, "Cancelled")
        /\ UNCHANGED <<gate, producerVars>>
    BY <1>1 DEF CancelForReuse
  <2>2. leases \in Seq(Lease) /\ producer.next \in Slots /\ gate.shown \in Nat
    BY Types DEF IInv, ProducerType
  <2>3. t \in Tokens
    BY <2>1, <2>2 DEF IInv, LeaseInv, NextLease
  <2> HIDE DEF t
  <2>4. Stepped
    BY <2>1, <2>2, <2>3, MovedStepped DEF LeaseStates, StepsTo
  <2> QED BY <2>1, <2>2, <2>4 DEF LeasesMove, ShownMoves, producerVars
<1>2. CASE \/ BeginFrame \/ GiveUpSlot \/ ObserveStop \/ DrainFrames \/ LeaveThread
           \/ \E s \in Slots : AwaitSlot(s)
  <2>1. UNCHANGED <<gateVars, slots>>
    BY <1>2 DEF BeginFrame, GiveUpSlot, ObserveStop, DrainFrames, LeaveThread, AwaitSlot
  <2> QED BY <2>1, SameMoves DEF LeasesMove
<1> QED BY <1>1, <1>2

LEMMA OtherMoves ==
    ASSUME IInv, \/ WindowNext \/ WindowCalls \/ Close \/ Report \/ UNCHANGED vars
                 \/ FinishWork \/ RemoveDevice
    PROVE  LeasesMove /\ ShownMoves
<1>1. CASE LatchGate
  <2>1. SetSuspended(window.suspend) /\ UNCHANGED producerVars /\ window.suspend \in BOOLEAN
    BY <1>1 DEF LatchGate, IInv, TypeOK
  <2>2. GateKept
    BY <2>1, Types, SetSuspendedKept DEF IInv
  <2> QED BY <2>1, <2>2, GateKeptMoves DEF LeasesMove, producerVars
<1>2. CASE Close
  <2>1. CloseGate /\ slots' = slots
    BY <1>2 DEF Close
  <2>2. GateKept
    BY <2>1, Types, CloseGateKept DEF IInv
  <2> QED BY <2>1, <2>2, GateKeptMoves DEF LeasesMove
<1>3. CASE \/ WindowNext \/ LatchSurface \/ Report \/ UNCHANGED vars
           \/ FinishWork \/ RemoveDevice
  <2>1. UNCHANGED <<gateVars, slots>>
    BY <1>3 DEF WindowNext, WindowResized, WindowMinimized, WindowRestored, WindowEvent,
                LatchSurface, Report, FinishWork, RemoveDevice, vars, producerVars
  <2> QED BY <2>1, SameMoves DEF LeasesMove
<1> QED BY <1>1, <1>2, <1>3 DEF WindowCalls

\* A frame that reaches the gate, or fails to.
LEMMA PublishMoves ==
    ASSUME IInv, Publish \/ PublishLost, UNCHANGED pump
    PROVE  ShownMoves
<1>1. CASE OfferAccepted(Oldest) /\ Publishing
  <2>1. /\ Oldest \in Slots /\ pump.lease \in Nat /\ pump.display \in Nat
        /\ pump.lease <= Len(leases) /\ pump.display <= Len(leases)
        /\ gate.shown \in Nat
    BY <1>1, Types, OldestTaken DEF IInv, Publishing, PumpInv, ShownInv
  <2> QED BY <1>1, <2>1, Types, OfferKept DEF IInv, ShownMoves
<1>2. CASE UNCHANGED gateVars
  BY <1>2, SameMoves
<1>3. CASE OfferLost
  BY <1>3, Types, OfferLostKept, GateKeptMoves DEF IInv
<1> QED BY <1>1, <1>2, <1>3 DEF Publish, PublishLost

\* The frames counted as presented only move forward (FramesInOrder): a claim
\* takes an offer newer than the one on display, and empties the queue.
THEOREM FramesShownInOrder == Spec => FramesInOrder
<1>1. ASSUME IInv, [Next]_vars
      PROVE  ShownMoves
  <2>1. CASE NewFrame \/ ProducerNext
    <3>1. CASE TakeSlot
      BY <1>1, <3>1, SameMoves DEF TakeSlot
    <3> QED BY <1>1, <2>1, <3>1, ProducerMoves, PublishMoves
            DEF NewFrame, ProducerNext, ProducerSteps
  <2>2. CASE GpuNext
    <3>1. CASE FinishFrame
      BY <1>1, <3>1, SameMoves DEF FinishFrame
    <3> QED BY <1>1, <2>2, <3>1, OtherMoves DEF GpuNext
  <2> QED BY <1>1, <2>1, <2>2, PumpMoves, OtherMoves DEF Next
<1>2. IInv /\ [Next]_vars => [gate'.shown >= gate.shown]_vars
  BY <1>1 DEF ShownMoves
<1> QED BY <1>2, AlwaysInv, PTL DEF Spec, FramesInOrder

-----------------------------------------------------------------------------
(* The presentation implements OutputOwnership, step by step.              *)

\* One slot stays with its owner, or goes to one that may have it next.
Moves(s) ==
    \/ OwnerOf(s)' = OwnerOf(s)
    \/ <<OwnerOf(s), OwnerOf(s)'>> \in Ownership!Moves

StateIn(s) == IF slots[s].lease = 0 THEN "Retired" ELSE StateOf(slots[s].lease)

\* The owner of a slot with this work and a lease in this state.
OwnerIn(work, state) ==
    CASE work = "drawing" -> "writing"
      [] work = "done" \/ state \in {"Published", "Claimed"} -> "ready"
      [] state = "CopySubmitted" -> "reading"
      [] state = "Failed" -> "lost"
      [] OTHER -> "free"

LEMMA OwnerInForms ==
    ASSUME NEW state
    PROVE  /\ state \in Spent => /\ OwnerIn("drawing", state) = "writing"
                                 /\ OwnerIn("done", state) = "ready"
           /\ state \in {"Published", "Claimed"} => OwnerIn("idle", state) = "ready"
           /\ state = "CopySubmitted" => OwnerIn("idle", state) = "reading"
           /\ state = "Failed" => OwnerIn("idle", state) = "lost"
           /\ state \in Spent => OwnerIn("idle", state) = "free"
<1>1. CASE state \in {"Published", "Claimed"}
  BY <1>1 DEF OwnerIn, Spent
<1>2. CASE state = "CopySubmitted"
  BY <1>2 DEF OwnerIn, Spent
<1>3. CASE state = "Failed"
  BY <1>3 DEF OwnerIn, Spent
<1>4. CASE state \in Spent
  BY <1>4 DEF OwnerIn, Spent
<1> QED BY <1>1, <1>2, <1>3, <1>4

\* The owner by the slot's work and the state of its lease.
LEMMA OwnerForms ==
    ASSUME NEW s
    PROVE  /\ StateIn(s) \in Spent =>
                 /\ slots[s].gpu = "drawing" => OwnerOf(s) = "writing"
                 /\ slots[s].gpu = "done" => OwnerOf(s) = "ready"
           /\ slots[s].gpu = "idle" =>
                 /\ StateIn(s) \in {"Published", "Claimed"} => OwnerOf(s) = "ready"
                 /\ StateIn(s) = "CopySubmitted" => OwnerOf(s) = "reading"
                 /\ StateIn(s) = "Failed" => OwnerOf(s) = "lost"
                 /\ StateIn(s) \in Spent => OwnerOf(s) = "free"
<1>1. OwnerOf(s) = OwnerIn(slots[s].gpu, StateIn(s))
  BY DEF OwnerOf, OwnerIn, StateIn
<1> QED BY <1>1, OwnerInForms

LEMMA OwnerFormsNext ==
    ASSUME NEW s
    PROVE  /\ StateIn(s)' \in Spent =>
                 /\ slots'[s].gpu = "drawing" => OwnerOf(s)' = "writing"
                 /\ slots'[s].gpu = "done" => OwnerOf(s)' = "ready"
           /\ slots'[s].gpu = "idle" =>
                 /\ StateIn(s)' \in {"Published", "Claimed"} => OwnerOf(s)' = "ready"
                 /\ StateIn(s)' = "CopySubmitted" => OwnerOf(s)' = "reading"
                 /\ StateIn(s)' = "Failed" => OwnerOf(s)' = "lost"
                 /\ StateIn(s)' \in Spent => OwnerOf(s)' = "free"
<1>1. OwnerOf(s)' = OwnerIn(slots'[s].gpu, StateIn(s)')
  BY DEF OwnerOf, OwnerIn, StateIn
<1> QED BY <1>1, OwnerInForms

LEMMA SlotStates ==
    ASSUME IInv, NEW s \in Slots
    PROVE  /\ slots[s].gpu \in {"idle", "drawing", "done"}
           /\ slots[s].lease = 0 \/ slots[s].lease \in Tokens
           /\ StateIn(s) \in LeaseStates
           /\ slots[s].gpu # "idle" => slots[s].lease = 0 /\ StateIn(s) \in Spent
<1>1. leases \in Seq(Lease) /\ ProducerType
  BY Types DEF IInv
<1>2. slots[s].gpu \in {"idle", "drawing", "done"}
  BY <1>1 DEF ProducerType
<1>3. slots[s].lease = 0 \/ slots[s].lease \in Tokens
  BY DEF IInv, LeaseInv
<1>4. slots[s].gpu # "idle" => slots[s].lease = 0 /\ StateIn(s) \in Spent
  BY DEF IInv, SlotInv, StateIn, Spent
<1> QED BY <1>1, <1>2, <1>3, <1>4, LeaseFacts DEF StateIn, LeaseStates

LEMMA OwnersTypedNext ==
    ASSUME IInv'
    PROVE  \A s \in Slots : OwnerOf(s)' \in Ownership!Owners
<1>1. ASSUME NEW s \in Slots
      PROVE  OwnerOf(s)' \in Ownership!Owners
  <2>1. slots'[s].gpu \in {"idle", "drawing", "done"}
    BY DEF IInv, TypeOK, ProducerType
  <2> QED BY <2>1 DEF OwnerOf, Ownership!Owners
<1> QED BY <1>1

\* A slot that is left as it is moves as its lease does.
LEMMA LeaseMoves ==
    ASSUME IInv, NEW s \in Slots, slots'[s] = slots[s],
           slots[s].lease # 0 =>
              StepsTo(StateOf(slots[s].lease), leases'[slots[s].lease].state)
    PROVE  Moves(s)
<1>1. slots[s].gpu \in {"idle", "drawing", "done"} /\ StateIn(s) \in LeaseStates
  BY SlotStates
<1>2. CASE slots[s].gpu # "idle"
  <2>1. slots[s].lease = 0 /\ slots'[s].lease = 0
    BY <1>2, SlotStates
  <2>2. StateIn(s) \in Spent /\ StateIn(s)' \in Spent
    BY <2>1 DEF StateIn, Spent
  <2> QED BY <1>1, <1>2, <2>2, OwnerForms, OwnerFormsNext DEF Moves
<1>3. CASE slots[s].gpu = "idle"
  <2>1. StepsTo(StateIn(s), StateIn(s)')
    BY DEF StateIn, StepsTo, StateOf
  <2> DEFINE old == StateIn(s)
             new == StateIn(s)'
  <2>2. slots'[s].gpu = "idle" /\ old \in LeaseStates /\ StepsTo(old, new)
    BY <1>1, <1>3, <2>1
  <2>3. /\ old \in {"Published", "Claimed"} => OwnerOf(s) = "ready"
        /\ old = "CopySubmitted" => OwnerOf(s) = "reading"
        /\ old = "Failed" => OwnerOf(s) = "lost"
        /\ old \in Spent => OwnerOf(s) = "free"
        /\ new \in {"Published", "Claimed"} => OwnerOf(s)' = "ready"
        /\ new = "CopySubmitted" => OwnerOf(s)' = "reading"
        /\ new = "Failed" => OwnerOf(s)' = "lost"
        /\ new \in Spent => OwnerOf(s)' = "free"
    BY <1>3, <2>2, OwnerForms, OwnerFormsNext
  <2> HIDE DEF old, new
  <2>4. CASE new = old
    BY <2>2, <2>3, <2>4 DEF Moves, LeaseStates, Spent
  <2>5. CASE old = "Published" /\ new \in {"Cancelled", "Claimed"}
    BY <2>3, <2>5 DEF Moves, Spent, Ownership!Moves
  <2>6. CASE old = "Claimed" /\ new \in {"CopySubmitted", "Failed"}
    BY <2>3, <2>6 DEF Moves, Ownership!Moves
  <2>7. CASE old = "CopySubmitted" /\ new \in {"Retired", "Failed"}
    BY <2>3, <2>7 DEF Moves, Spent, Ownership!Moves
  <2> QED BY <2>2, <2>4, <2>5, <2>6, <2>7 DEF StepsTo
<1> QED BY <1>2, <1>3

LEMMA LeasesMoveOwners ==
    ASSUME IInv, Stepped, NEW s \in Slots, slots'[s] = slots[s]
    PROVE  Moves(s)
<1>1. slots[s].lease # 0 => slots[s].lease \in Tokens
  BY SlotStates
<1> QED BY <1>1, LeaseMoves DEF Stepped, StateOf

LEMMA TakeSlotMoves ==
    ASSUME IInv, TakeSlot, NEW s \in Slots
    PROVE  Moves(s)
<1> DEFINE n == producer.next
<1>1. /\ n \notin ToSet(producer.submitted) /\ Returned(slots[n].lease)
      /\ UNCHANGED gateVars
      /\ \/ slots' = [slots EXCEPT ![n] = [lease |-> 0, gpu |-> "drawing"]]
         \/ slots' = [slots EXCEPT ![n].lease = 0]
  BY DEF TakeSlot, NextSubmitted, NextLease
<1>2. /\ n \in Slots
      /\ slots \in [Slots -> [lease : Nat, gpu : {"idle", "drawing", "done"}]]
  BY Types DEF IInv, ProducerType
<1>3. CASE s # n
  <2>1. slots'[s] = slots[s] /\ Stepped
    BY <1>1, <1>2, <1>3, SameMoves
  <2> QED BY <2>1, LeasesMoveOwners
<1>4. CASE s = n
  <2>1. slots[s].gpu = "idle" /\ StateIn(s) \in Spent
    BY <1>1, <1>2, <1>4 DEF IInv, SlotInv, Returned, StateIn, Spent
  <2>2. OwnerOf(s) = "free"
    BY <2>1, OwnerForms
  <2>3. /\ slots'[s].lease = 0
        /\ slots'[s].gpu = "drawing" \/ slots'[s].gpu = "idle"
    BY <1>1, <1>2, <1>4, <2>1
  <2>4. OwnerOf(s)' \in {"writing", "free"}
    BY <2>3, OwnerFormsNext DEF StateIn, Spent
  <2> QED BY <2>2, <2>4 DEF Moves, Ownership!Moves
<1> QED BY <1>3, <1>4

LEMMA FinishFrameMoves ==
    ASSUME IInv, FinishFrame, NEW s \in Slots
    PROVE  Moves(s)
<1>1. PICK i \in DOMAIN producer.submitted :
         /\ slots[producer.submitted[i]].gpu = "drawing"
         /\ slots' = [slots EXCEPT ![producer.submitted[i]].gpu = "done"]
         /\ UNCHANGED gateVars
  BY DEF FinishFrame
<1> DEFINE n == producer.submitted[i]
<1>2. /\ n \in Slots
      /\ slots \in [Slots -> [lease : Nat, gpu : {"idle", "drawing", "done"}]]
  BY Types, ElementOfSeq, LenProperties DEF IInv, ProducerType
<1> HIDE DEF n
<1>3. slots[n].gpu = "drawing" /\ slots' = [slots EXCEPT ![n].gpu = "done"]
  BY <1>1 DEF n
<1>4. CASE s # n
  <2>1. slots'[s] = slots[s] /\ Stepped
    BY <1>1, <1>2, <1>3, <1>4, SameMoves
  <2> QED BY <2>1, LeasesMoveOwners
<1>5. CASE s = n
  <2>1. slots'[s].gpu = "done" /\ slots[s].lease = 0 /\ slots'[s].lease = 0
    BY <1>2, <1>3, <1>5, SlotStates
  <2>2. OwnerOf(s) = "writing" /\ OwnerOf(s)' = "ready"
    BY <1>3, <1>5, <2>1, OwnerForms, OwnerFormsNext DEF StateIn, Spent
  <2> QED BY <2>2 DEF Moves, Ownership!Moves
<1> QED BY <1>4, <1>5

\* A finished frame becomes an offer, or its slot is free again.
LEMMA PublishOwners ==
    ASSUME IInv, Publish \/ PublishLost, UNCHANGED pump, NEW s \in Slots
    PROVE  Moves(s)
<1> DEFINE n == Oldest
           t == Len(leases) + 1
<1>1. /\ n \in Slots
      /\ slots \in [Slots -> [lease : Nat, gpu : {"idle", "drawing", "done"}]]
      /\ leases \in Seq(Lease) /\ Len(leases) \in Nat /\ Tokens = 1 .. Len(leases)
  <2>1. Publishing /\ ProducerType /\ leases \in Seq(Lease)
    BY Types DEF IInv, Publish, PublishLost
  <2> QED BY <2>1, OldestTaken, LeaseFacts DEF Publishing, ProducerType
<1>2. CASE slots' = slots /\ UNCHANGED gateVars
  BY <1>2, SameMoves, LeasesMoveOwners
<1>3. CASE /\ slots[n].gpu = "done" /\ GateKept
           /\ slots' = [slots EXCEPT ![n].gpu = "idle"]
  <2>1. Stepped
    BY <1>3, GateKeptMoves
  <2>2. CASE s # n
    BY <1>1, <1>3, <2>1, <2>2, LeasesMoveOwners
  <2>3. CASE s = n
    <3>1. slots[s].lease = 0
      BY <1>3, <2>3 DEF IInv, SlotInv
    <3>2. slots'[s].lease = 0 /\ slots'[s].gpu = "idle"
      BY <1>1, <1>3, <2>3, <3>1
    <3>3. OwnerOf(s) = "ready" /\ OwnerOf(s)' = "free"
      BY <1>3, <2>3, <3>2, OwnerForms, OwnerFormsNext DEF StateIn, Spent
    <3> QED BY <3>3 DEF Moves, Ownership!Moves
  <2> QED BY <2>2, <2>3
<1>4. CASE /\ slots[n].gpu = "done" /\ OfferAccepted(n)
           /\ slots' = [slots EXCEPT ![n] = [lease |-> t, gpu |-> "idle"]]
  <2>1. /\ leases'[t].state \in Unclaimed
        /\ \A u \in Tokens : leases'[u].state # leases[u].state =>
              leases[u].state = "Published" /\ leases'[u].state = "Cancelled"
    BY <1>1, <1>4, Types, OfferKept DEF IInv, PumpInv, ShownInv
  <2>2. CASE s # n
    <3>1. slots'[s] = slots[s] /\ (slots[s].lease # 0 => slots[s].lease \in Tokens)
      BY <1>1, <1>4, <2>2, SlotStates
    <3>2. slots[s].lease # 0 =>
             StepsTo(StateOf(slots[s].lease), leases'[slots[s].lease].state)
      BY <2>1, <3>1 DEF StepsTo, StateOf
    <3> QED BY <3>1, <3>2, LeaseMoves
  <2>3. CASE s = n
    <3>1. slots'[s].lease = t /\ slots'[s].gpu = "idle" /\ t # 0
      BY <1>1, <1>4, <2>3
    <3>2. StateIn(s)' \in {"Published", "Cancelled"}
      BY <2>1, <3>1 DEF StateIn, StateOf, Unclaimed
    <3>3. OwnerOf(s) = "ready" /\ OwnerOf(s)' \in {"ready", "free"}
      BY <1>4, <2>3, <3>1, <3>2, SlotStates, OwnerForms, OwnerFormsNext DEF Spent
    <3> QED BY <3>3 DEF Moves, Ownership!Moves
  <2> QED BY <2>2, <2>3
<1>5. \/ slots' = slots /\ UNCHANGED gateVars
      \/ /\ slots[n].gpu = "done" /\ (UNCHANGED gateVars \/ OfferLost)
         /\ slots' = [slots EXCEPT ![n].gpu = "idle"]
      \/ /\ slots[n].gpu = "done" /\ OfferAccepted(n)
         /\ slots' = [slots EXCEPT ![n] = [lease |-> t, gpu |-> "idle"]]
  BY DEF Publish, PublishLost
<1>6. UNCHANGED gateVars \/ OfferLost => GateKept
  BY NoGateCall, Types, OfferLostKept DEF IInv
<1> QED BY <1>2, <1>3, <1>4, <1>5, <1>6

\* Every step of the presentation moves each slot as OutputOwnership allows.
LEMMA StepMoves ==
    ASSUME IInv, [Next]_vars, NEW s \in Slots
    PROVE  Moves(s)
<1>1. LeasesMove => Moves(s)
  BY LeasesMoveOwners DEF LeasesMove
<1>2. CASE NewFrame \/ ProducerNext
  BY <1>1, <1>2, ProducerMoves, TakeSlotMoves, PublishOwners
     DEF NewFrame, ProducerNext, ProducerSteps
<1>3. CASE GpuNext
  BY <1>1, <1>3, FinishFrameMoves, OtherMoves DEF GpuNext
<1> QED BY <1>1, <1>2, <1>3, PumpMoves, OtherMoves DEF Next

LEMMA OwnershipStarts ==
    ASSUME Init
    PROVE  Ownership!Init
<1>1. \A s \in Slots : slots[s].lease = 0 /\ slots[s].gpu = "idle"
  BY DEF Init, ProducerInit
<1>2. \A s \in Slots : OwnerOf(s) = "free"
  BY <1>1, OwnerForms DEF StateIn, Spent
<1> QED BY <1>2 DEF Ownership!Init

LEMMA OwnershipStep ==
    ASSUME IInv, [Next]_vars
    PROVE  [Ownership!Next]_([s \in Slots |-> OwnerOf(s)])
<1>1. \A s \in Slots : OwnerOf(s)' \in Ownership!Owners
  BY StepInv, OwnersTypedNext
<1>2. \A s \in Slots : Moves(s)
  BY StepMoves
<1> QED BY <1>1, <1>2 DEF Ownership!Next, Moves

\* What the presentation promises of the renderer's outputs (OutputOwnership):
\* a slot is written only when free or ready, given back only when its read is
\* over, and never once lost.
THEOREM KeepsOutputOwnership == Spec => ImplementsOutputOwnership
<1>1. Spec => Ownership!Spec
  BY OwnershipStarts, OwnershipStep, AlwaysInv, PTL DEF Spec, Ownership!Spec
<1> QED BY <1>1 DEF ImplementsOutputOwnership

=============================================================================
