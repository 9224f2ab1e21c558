------------------------------ MODULE LedgerJoins -----------------------------
(***************************************************************************)
(* What joins the open span of the completion ledger, and when, for every  *)
(* value of its constants: the worker's deferrals and its deferred swap    *)
(* come in turn, nothing passes a held side buffer, and the guest sees     *)
(* fences of the registered block in the order of their cursors.           *)
(*                                                                         *)
(* The argument: a call appends at most one record of its own, and only    *)
(* while no side buffer is held and the device is its thread's; a submit   *)
(* appends exactly the records of the side buffer it empties. Whatever     *)
(* else a call does leaves the kind, the thread, the value and the block   *)
(* of every record as they were.                                           *)
(***************************************************************************)
EXTENDS LedgerProgress, MCLedger

-----------------------------------------------------------------------------
(* What a step leaves as it was. *)

SameEntry(a, b) == /\ a.kind = b.kind /\ a.by = b.by
               /\ a.value = b.value /\ a.block = b.block

Carries(new, old) ==
    \A i \in DOMAIN old.records :
        i \in DOMAIN new.records /\ SameEntry(new.records[i], old.records[i])

SameEntries(new, old) ==
    DOMAIN new.records = DOMAIN old.records /\ Carries(new, old)

\* The device's bracket and the registered block; what is held.
Bracket(M, L) == /\ M.suspended = L.suspended
                 /\ M.ownerSwapThread = L.ownerSwapThread
                 /\ M.writeback = L.writeback

Holds(M, L) == M.held = L.held /\ M.heldFirst = L.heldFirst

EntriesStay(M, L) == \A id \in Live(L) : SameEntries(M.spans[id], L.spans[id])

Steady(M, L) == Onward(M, L) /\ Bracket(M, L) /\ Holds(M, L) /\ EntriesStay(M, L)

LEMMA EntriesOn ==
    ASSUME NEW a, NEW b, NEW d, SameEntries(b, a), SameEntries(d, b)
    PROVE  SameEntries(d, a)
BY DEF SameEntries, Carries, SameEntry

LEMMA EntriesSame ==
    ASSUME NEW a, NEW b, b.records = a.records
    PROVE  SameEntries(b, a)
BY DEF SameEntries, Carries, SameEntry

LEMMA SteadyOn ==
    ASSUME NEW L, NEW M, NEW N, Steady(M, L), Steady(N, M)
    PROVE  Steady(N, L)
<1>1. Onward(N, L)
  BY OnwardOn DEF Steady
<1>2. Live(M) = Live(L)
  BY OnwardLive DEF Steady
<1>3. ASSUME NEW id \in Live(L)
      PROVE  SameEntries(N.spans[id], L.spans[id])
  <2>1. SameEntries(M.spans[id], L.spans[id]) /\ SameEntries(N.spans[id], M.spans[id])
    BY <1>2 DEF Steady, EntriesStay
  <2> QED BY <2>1, EntriesOn
<1>4. EntriesStay(N, L)
  BY <1>3 DEF EntriesStay
<1> QED BY <1>1, <1>4 DEF Steady, Bracket, Holds

\* A step beside the records.
LEMMA OtherSteady ==
    ASSUME NEW L, NEW M, Onward(M, L), Bracket(M, L), Holds(M, L),
           \A id \in Live(L) : M.spans[id].records = L.spans[id].records
    PROVE  Steady(M, L)
BY EntriesSame DEF Steady, EntriesStay

LEMMA SteadyRefl ==
    ASSUME NEW L, Shaped(L)
    PROVE  Steady(L, L)
BY OnwardRefl, OtherSteady DEF Bracket, Holds

LEMMA FailAtSteady ==
    ASSUME NEW L, Shaped(L), NEW id \in Live(L)
    PROVE  Steady(FailAt(L, id), L)
<1> DEFINE M == FailAt(L, id)
<1>1. Onward(M, L)
  BY FailAtOnward
<1>2. M.spans = L.spans /\ Bracket(M, L) /\ Holds(M, L)
  BY FieldNames DEF FailAt, Shaped, Bracket, Holds
<1> HIDE DEF M
<1>3. Steady(M, L)
  BY <1>1, <1>2, OtherSteady
<1> QED BY <1>3 DEF M

\* Other members of a span.
LEMMA PutSpanSteady ==
    ASSUME NEW L, Shaped(L), NEW id, NEW s,
           id \in Live(L) => Kept(s, L.spans[id]) /\ s.records = L.spans[id].records
    PROVE  Steady([L EXCEPT !.spans[id] = s], L)
<1> DEFINE M == [L EXCEPT !.spans[id] = s]
<1>1. Onward(M, L)
  BY PutSpanOnward
<1>2. /\ \A other \in Live(L) : M.spans[other].records = L.spans[other].records
      /\ Bracket(M, L) /\ Holds(M, L)
  BY FieldNames DEF Shaped, Bracket, Holds
<1> HIDE DEF M
<1>3. Steady(M, L)
  BY <1>1, <1>2, OtherSteady
<1> QED BY <1>3 DEF M

LEMMA FieldSteady ==
    ASSUME NEW L, Shaped(L), NEW id, NEW x
    PROVE  /\ Steady([L EXCEPT !.spans[id].thread = x], L)
           /\ Steady([L EXCEPT !.spans[id].partial = x], L)
           /\ Steady([L EXCEPT !.spans[id].unowned = x], L)
           /\ Steady([L EXCEPT !.spans[id].pending = x], L)
           /\ Steady([L EXCEPT !.spans[id].startsList = x], L)
           /\ Steady([L EXCEPT !.spans[id].lastAdmitted = x], L)
<1> DEFINE s == L.spans[id]
           Fits(new) == Kept(new, s) /\ new.records = s.records
<1>1. ASSUME id \in Live(L)
      PROVE  /\ Fits([s EXCEPT !.thread = x]) /\ Fits([s EXCEPT !.partial = x])
             /\ Fits([s EXCEPT !.unowned = x]) /\ Fits([s EXCEPT !.pending = x])
             /\ Fits([s EXCEPT !.startsList = x]) /\ Fits([s EXCEPT !.lastAdmitted = x])
  <2>1. DOMAIN s = SpanFields
    BY <1>1 DEF Shaped
  <2> HIDE DEF s
  <2> QED BY <2>1, SpanFieldNames DEF Kept
<1> QED BY <1>1, PutSpanSteady

LEMMA OtherFieldSteady ==
    ASSUME NEW L, Shaped(L), NEW M, DOMAIN M = Fields,
           M.oldest = L.oldest, M.nextSpan = L.nextSpan, M.kicks = L.kicks,
           M.closed = L.closed, M.spans = L.spans, Failing(M, L),
           Bracket(M, L), Holds(M, L)
    PROVE  Steady(M, L)
BY OtherFieldOnward, OtherSteady

\* A record put in its place.
LEMMA PutRecordSteady ==
    ASSUME NEW c, NEW L, Typed(L, c), NEW id, NEW i, NEW r,
           id \in Live(L) /\ i \in DOMAIN L.spans[id].records
              => /\ Evolves(r, L.spans[id].records[i])
                 /\ SameEntry(r, L.spans[id].records[i])
    PROVE  Steady([L EXCEPT !.spans[id].records[i] = r], L)
<1> DEFINE M == [L EXCEPT !.spans[id].records[i] = r]
<1>1. Onward(M, L)
  BY PutRecordOnward
<1>2. /\ Bracket(M, L) /\ Holds(M, L)
      /\ \A other \in Live(L) : other # id => M.spans[other].records = L.spans[other].records
  BY FieldNames DEF Typed, Shaped, Bracket, Holds
<1>3. id \in Live(L) => M.spans[id].records = [L.spans[id].records EXCEPT ![i] = r]
  BY FieldNames, SpanFieldNames DEF Typed, Shaped
<1> HIDE DEF M
<1>4. ASSUME NEW other \in Live(L)
      PROVE  SameEntries(M.spans[other], L.spans[other])
  <2>1. CASE other # id
    BY <1>2, <2>1, EntriesSame
  <2>2. CASE other = id
    BY <1>3, <2>2 DEF SameEntries, Carries, SameEntry
  <2> QED BY <2>1, <2>2
<1>5. Steady(M, L)
  BY <1>1, <1>2, <1>4 DEF Steady, EntriesStay
<1> QED BY <1>5 DEF M

LEMMA SteadyLive ==
    ASSUME NEW L, NEW M, Steady(M, L)
    PROVE  Live(M) = Live(L) /\ Back(M) = Back(L)
BY OnwardLive DEF Steady

LEMMA SteadyShaped ==
    ASSUME NEW L, NEW M, Shaped(L), Steady(M, L)
    PROVE  Shaped(M)
BY SameShaped DEF Steady, Onward

-----------------------------------------------------------------------------
(* What settles, loses its owner or closes nothing is steady.              *)

LEMMA RecordSteady ==
    ASSUME NEW c, NEW L, Typed(L, c), NEW id, NEW i
    PROVE  /\ Steady([L EXCEPT !.spans[id].records[i].pending = FALSE], L)
           /\ Steady([L EXCEPT !.spans[id].records[i].skipped = TRUE], L)
           /\ \A m : (id \in Live(L) /\ i \in DOMAIN L.spans[id].records =>
                         \/ L.spans[id].records[i].kind # "Resolve"
                         \/ L.spans[id].records[i].pending)
                     => Steady([L EXCEPT !.spans[id].records[i].mark = m], L)
<1> DEFINE r == L.spans[id].records[i]
           Fits(new) == Evolves(new, r) /\ SameEntry(new, r)
<1>1. ASSUME id \in Live(L), i \in DOMAIN L.spans[id].records
      PROVE  /\ Fits([r EXCEPT !.pending = FALSE])
             /\ Fits([r EXCEPT !.skipped = TRUE])
             /\ \A m : r.kind # "Resolve" \/ r.pending => Fits([r EXCEPT !.mark = m])
  <2>1. r \in RecordTo(c)
    BY <1>1, SpanOfLedger, RecordOfSpan
  <2> HIDE DEF r
  <2>2. /\ SameEntry([r EXCEPT !.pending = FALSE], r)
        /\ SameEntry([r EXCEPT !.skipped = TRUE], r)
        /\ \A m : SameEntry([r EXCEPT !.mark = m], r)
    BY <2>1 DEF RecordTo, SameEntry
  <2>3. /\ Evolves([r EXCEPT !.pending = FALSE], r)
        /\ Evolves([r EXCEPT !.skipped = TRUE], r)
        /\ \A m : r.kind # "Resolve" \/ r.pending => Evolves([r EXCEPT !.mark = m], r)
    BY <2>1, RecordEvolves
  <2> QED BY <2>2, <2>3
<1>2. Steady([L EXCEPT !.spans[id].records[i] = [r EXCEPT !.pending = FALSE]], L)
  BY <1>1, PutRecordSteady
<1>3. Steady([L EXCEPT !.spans[id].records[i] = [r EXCEPT !.skipped = TRUE]], L)
  BY <1>1, PutRecordSteady
<1>4. ASSUME NEW m, id \in Live(L) /\ i \in DOMAIN L.spans[id].records =>
                        r.kind # "Resolve" \/ r.pending
      PROVE  Steady([L EXCEPT !.spans[id].records[i] = [r EXCEPT !.mark = m]], L)
  BY <1>1, <1>4, PutRecordSteady
<1> QED BY <1>2, <1>3, <1>4

LEMMA UnownSteady ==
    ASSUME NEW c, NEW L, Typed(L, c), NEW id \in Live(L), NEW i
    PROVE  Steady(Unown(L, id, i), L)
<1> DEFINE recs == L.spans[id].records
           without == IF i \in DOMAIN recs
                      THEN [recs EXCEPT ![i].skipped = TRUE] ELSE recs
           failing == IF Mode = "Strict" THEN FailAt(L, id) ELSE L
<1>1. Shaped(L)
  BY DEF Typed
<1>2. CASE Mode = "Census"
  <2> DEFINE M == [L EXCEPT !.spans[id].records = without]
             N == [M EXCEPT !.spans[id].partial = TRUE]
  <2>1. Steady(M, L) /\ Shaped(M)
    <3>1. CASE i \in DOMAIN recs
      <4>1. M = [L EXCEPT !.spans[id].records[i].skipped = TRUE]
        BY <3>1
      <4>2. Steady([L EXCEPT !.spans[id].records[i].skipped = TRUE], L)
        BY RecordSteady
      <4>3. Steady(M, L)
        BY <4>1, <4>2
      <4> QED BY <1>1, <4>3, SteadyShaped
    <3>2. CASE i \notin DOMAIN recs
      <4> DEFINE s == [L.spans[id] EXCEPT !.records = recs]
      <4>1. Kept(s, L.spans[id]) /\ s.records = L.spans[id].records
        BY <1>1, SpanFieldNames DEF Shaped, Kept
      <4>2. M = [L EXCEPT !.spans[id] = s]
        BY <3>2
      <4> HIDE DEF s, M
      <4> QED BY <1>1, <4>1, <4>2, PutSpanSteady, SteadyShaped
    <3> QED BY <3>1, <3>2
  <2>2. Unown(L, id, i) = [N EXCEPT !.epochPartial = TRUE]
    BY <1>2 DEF Unown
  <2> HIDE DEF M
  <2>3. Steady(N, M) /\ Shaped(N)
    BY <2>1, FieldSteady, SteadyShaped
  <2> HIDE DEF N
  <2>4. Steady([N EXCEPT !.epochPartial = TRUE], N)
    BY <2>3, OtherFieldSteady, FieldNames DEF Shaped, Failing, Bracket, Holds
  <2>5. Steady([N EXCEPT !.epochPartial = TRUE], M)
    BY <2>3, <2>4, SteadyOn
  <2> QED BY <2>1, <2>2, <2>5, SteadyOn
<1>3. CASE Mode # "Census"
  <2>1. Steady(failing, L)
    BY <1>1, FailAtSteady, SteadyRefl
  <2>2. Unown(L, id, i) = [failing EXCEPT !.spans[id].unowned = TRUE]
    BY <1>3 DEF Unown
  <2> HIDE DEF failing
  <2>3. Steady([failing EXCEPT !.spans[id].unowned = TRUE], failing)
    BY <1>1, <2>1, FieldSteady, SteadyShaped
  <2> QED BY <2>1, <2>2, <2>3, SteadyOn
<1> QED BY <1>2, <1>3

LEMMA SettleSteady ==
    ASSUME NEW c, NEW L, Typed(L, c), NEW h
    PROVE  Steady(Settle(L, h), L)
<1> DEFINE M == [L EXCEPT !.spans[h.span].records[h.index].pending = FALSE]
<1>1. Steady(M, L) /\ Shaped(M)
  BY RecordSteady, SteadyShaped DEF Typed
<1>2. Settle(L, h) = [M EXCEPT !.spans[h.span].pending = M.spans[h.span].pending - 1]
  BY DEF Settle
<1> HIDE DEF M
<1>3. Steady([M EXCEPT !.spans[h.span].pending = M.spans[h.span].pending - 1], M)
  BY <1>1, FieldSteady
<1> QED BY <1>1, <1>2, <1>3, SteadyOn

LEMMA AbandonSteady ==
    ASSUME NEW c, NEW L, Typed(L, c), NEW h
    PROVE  Steady(Abandon(L, h), L)
<1> DEFINE S == Settle(L, h)
<1>1. Typed(S, c) /\ Steady(S, L)
  BY SettleTyped, SettleSteady
<1>2. CASE Pending(L, h)
  <2>1. h.span \in Live(S)
    BY <1>1, <1>2, SteadyLive DEF Pending
  <2> HIDE DEF S
  <2>2. Steady(Unown(S, h.span, h.index), S)
    BY <1>1, <2>1, UnownSteady
  <2> QED BY <1>1, <1>2, <2>2, SteadyOn DEF Abandon, S
<1>3. CASE ~Pending(L, h)
  BY <1>3, SteadyRefl DEF Abandon, Typed
<1> QED BY <1>2, <1>3

LEMMA AbandonOpenResolveSteady ==
    ASSUME NEW c, NEW L, Typed(L, c), NEW t \in Threads
    PROVE  Steady(AbandonOpenResolve(L, t), L)
<1> DEFINE M == [L EXCEPT !.openResolves[t] = NoHandle]
<1>1. Typed(M, c)
  BY HandleTypes, ClearHandles
<1>2. Steady(M, L)
  <2>1. /\ DOMAIN M = Fields /\ M.oldest = L.oldest /\ M.nextSpan = L.nextSpan
        /\ M.kicks = L.kicks /\ M.closed = L.closed /\ M.spans = L.spans
        /\ M.failedSpan = L.failedSpan /\ Bracket(M, L) /\ Holds(M, L)
    BY FieldNames DEF Typed, Shaped, Bracket, Holds
  <2> HIDE DEF M
  <2> QED BY <2>1, OtherFieldSteady DEF Typed, Failing
<1> HIDE DEF M
<1>3. Steady(Abandon(M, L.openResolves[t]), M)
  BY <1>1, AbandonSteady
<1>4. AbandonOpenResolve(L, t) = Abandon(M, L.openResolves[t])
  BY DEF AbandonOpenResolve, M
<1> QED BY <1>2, <1>3, <1>4, SteadyOn

LEMMA AdmitSteady ==
    ASSUME NEW c, NEW L, Typed(L, c), NEW t, NEW allowHeld
    PROVE  Steady(Admit(L, t, allowHeld), L)
<1> DEFINE b == Back(L)
           M == IF Refused(L, t, allowHeld) THEN FailAt(L, b) ELSE L
<1>1. Steady(M, L) /\ Shaped(M)
  BY BackTypes, FailAtSteady, SteadyRefl, SteadyShaped DEF Typed
<1>2. \/ Admit(L, t, allowHeld) = M
      \/ Admit(L, t, allowHeld) = [M EXCEPT !.spans[b].thread = t]
  BY DEF Admit
<1> HIDE DEF M, b
<1>3. Steady([M EXCEPT !.spans[b].thread = t], M)
  BY <1>1, FieldSteady
<1> QED BY <1>1, <1>2, <1>3, SteadyOn

LEMMA FailBackSteady ==
    ASSUME NEW c, NEW L, Typed(L, c)
    PROVE  Steady(FailAt(L, Back(L)), L)
BY BackTypes, FailAtSteady DEF Typed

LEMMA AdmittedSteady ==
    ASSUME NEW c, NEW L, Typed(L, c), NEW t \in Threads, NEW allowHeld
    PROVE  Steady(Admit(AbandonOpenResolve(L, t), t, allowHeld), L)
<1> DEFINE A == AbandonOpenResolve(L, t)
<1>1. Typed(A, c) /\ Steady(A, L)
  BY AbandonOpenResolveTyped, AbandonOpenResolveSteady
<1> HIDE DEF A
<1>2. Steady(Admit(A, t, allowHeld), A)
  BY <1>1, AdmitSteady
<1>3. Steady(Admit(A, t, allowHeld), L)
  BY <1>1, <1>2, SteadyOn
<1> QED BY <1>3 DEF A

LEMMA CheckIdentitySteady ==
    ASSUME NEW c, NEW L, Typed(L, c), NEW block
    PROVE  Steady(CheckIdentity(L, block), L)
BY FailBackSteady, SteadyRefl DEF CheckIdentity, Typed

\* The verdict of a record that is not a resolve.
LEMMA SettleDrawSteady ==
    ASSUME NEW c, NEW L, Typed(L, c), NEW id \in Live(L), NEW i,
           NEW sequence \in 0 .. c, NEW verdict,
           i \in DOMAIN L.spans[id].records => L.spans[id].records[i].kind # "Resolve"
    PROVE  Steady(SettleDraw(L, id, i, sequence, verdict), L)
<1> DEFINE M == [L EXCEPT !.spans[id].records[i].mark = sequence]
           newest == MaxOf(M.spans[id].lastAdmitted, sequence)
           P == [M EXCEPT !.spans[id].partial = TRUE]
<1>1. Typed(M, c)
  BY ChangeRecord
<1>2. Steady(M, L)
  BY RecordSteady
<1>3. \/ SettleDraw(L, id, i, sequence, verdict)
            = [M EXCEPT !.spans[id].lastAdmitted = newest]
      \/ SettleDraw(L, id, i, sequence, verdict) = [P EXCEPT !.epochPartial = TRUE]
      \/ SettleDraw(L, id, i, sequence, verdict) = Unown(M, id, i)
  BY DEF SettleDraw
<1>4. Shaped(M) /\ id \in Live(M)
  BY <1>1, <1>2, SteadyLive DEF Typed
<1> HIDE DEF M, newest
<1>5. Steady([M EXCEPT !.spans[id].lastAdmitted = newest], M)
  BY <1>4, FieldSteady
<1>6. Steady(P, M) /\ Shaped(P)
  BY <1>4, FieldSteady, SteadyShaped
<1> HIDE DEF P
<1>7. Steady([P EXCEPT !.epochPartial = TRUE], P)
  BY <1>6, OtherFieldSteady, FieldNames DEF Shaped, Failing, Bracket, Holds
<1>8. Steady([P EXCEPT !.epochPartial = TRUE], M)
  BY <1>6, <1>7, SteadyOn
<1>9. Steady(Unown(M, id, i), M)
  BY <1>1, <1>4, UnownSteady
<1>10. Steady(SettleDraw(L, id, i, sequence, verdict), M)
  BY <1>3, <1>5, <1>8, <1>9
<1> QED BY <1>2, <1>10, SteadyOn

LEMMA SubmittedSteady ==
    ASSUME NEW c, NEW L, Typed(L, c), NEW t, NEW segment, NEW size, NEW deferred
    PROVE  Steady(Submitted(L, t, segment, size, deferred), L)
<1> DEFINE p == [segment |-> segment, dwords |-> size, epoch |-> L.submitEpoch,
                 worker |-> deferred]
           M == [L EXCEPT !.pendingSubmit[t] = p]
<1>1. Submitted(L, t, segment, size, deferred) \in {FailAt(L, Back(L)), M}
  BY DEF Submitted
<1> HIDE DEF p
<1>2. /\ DOMAIN M = Fields /\ M.oldest = L.oldest /\ M.nextSpan = L.nextSpan
      /\ M.kicks = L.kicks /\ M.closed = L.closed /\ M.spans = L.spans
      /\ M.failedSpan = L.failedSpan /\ Bracket(M, L) /\ Holds(M, L)
  BY FieldNames DEF Typed, Shaped, Bracket, Holds
<1> HIDE DEF M
<1>3. Steady(M, L)
  BY <1>2, OtherFieldSteady DEF Typed, Failing
<1> QED BY <1>1, <1>3, FailBackSteady

-----------------------------------------------------------------------------
(* A record of thread t may join the open span; apart from it the call is  *)
(* steady.                                                                 *)

\* Part of a call that has recorded nothing yet.
Path(L, c) == Typed(L, c) /\ Steady(L, ledger)

\* Only a record like r has joined, and only while the device is t's and no
\* side buffer is held.
Joined(M, t, r) ==
    /\ Onward(M, ledger) /\ Bracket(M, ledger) /\ Holds(M, ledger)
    /\ \A id \in Live(ledger) : Carries(M.spans[id], ledger.spans[id])
    /\ \A i \in DOMAIN M.spans[Back(ledger)].records
                \ DOMAIN ledger.spans[Back(ledger)].records :
          /\ SameEntry(M.spans[Back(ledger)].records[i], r)
          /\ M.failedSpan = 0 => ~Suspended(ledger, t) /\ ~SideHeld(ledger)

LEMMA PathOn ==
    ASSUME NEW c, NEW L, Path(L, c), NEW M, Typed(M, c), Steady(M, L)
    PROVE  Path(M, c)
BY SteadyOn DEF Path

LEMMA PathStart ==
    ASSUME Now, clock' \in {clock, clock + 1}
    PROVE  /\ Path(ledger, clock') /\ Way(ledger, clock')
           /\ clock' \in Nat /\ clock' \in 0 .. clock'
           /\ Typed(ledger, clock') /\ Shaped(ledger)
           /\ Safe(ledger, clock', host.detached, ledger)
           /\ Back(ledger) \in Live(ledger)
BY WayStart, SteadyRefl, BackTypes DEF Path

LEMMA PathWay ==
    ASSUME NEW c, NEW L, Path(L, c)
    PROVE  /\ Way(L, c) /\ Live(L) = Live(ledger) /\ Back(L) = Back(ledger)
           /\ Back(L) \in Live(L)
BY BackTypes, SteadyLive DEF Path, Way, Steady

LEMMA SteadyJoined ==
    ASSUME NEW M, Steady(M, ledger), Back(ledger) \in Live(ledger), NEW t, NEW r
    PROVE  Joined(M, t, r)
<1>1. \A id \in Live(ledger) : SameEntries(M.spans[id], ledger.spans[id])
  BY DEF Steady, EntriesStay
<1>2. /\ \A id \in Live(ledger) : Carries(M.spans[id], ledger.spans[id])
      /\ DOMAIN M.spans[Back(ledger)].records = DOMAIN ledger.spans[Back(ledger)].records
  BY <1>1 DEF SameEntries
<1> QED BY <1>2 DEF Joined, Steady

LEMMA JoinedOn ==
    ASSUME NEW L, NEW t, NEW r, Joined(L, t, r), NEW M, Steady(M, L),
           Back(ledger) \in Live(ledger)
    PROVE  Joined(M, t, r)
<1> DEFINE b == Back(ledger)
<1>1. Live(L) = Live(ledger) /\ b \in Live(L)
  BY OnwardLive DEF Joined
<1>2. Onward(M, ledger) /\ Bracket(M, ledger) /\ Holds(M, ledger)
  BY OnwardOn DEF Joined, Steady, Bracket, Holds
<1>3. \A id \in Live(ledger) : SameEntries(M.spans[id], L.spans[id])
  BY <1>1 DEF Steady, EntriesStay
<1>4. \A id \in Live(ledger) : Carries(M.spans[id], ledger.spans[id])
  BY <1>3 DEF Joined, SameEntries, Carries, SameEntry
<1>5. M.failedSpan = 0 => L.failedSpan = 0
  BY DEF Steady, Onward, Rewrites
<1>6. DOMAIN M.spans[b].records = DOMAIN L.spans[b].records
      /\ Carries(M.spans[b], L.spans[b])
  BY <1>1, <1>3 DEF SameEntries
<1>7. ASSUME NEW i \in DOMAIN M.spans[b].records \ DOMAIN ledger.spans[b].records
      PROVE  /\ SameEntry(M.spans[b].records[i], r)
             /\ M.failedSpan = 0 => ~Suspended(ledger, t) /\ ~SideHeld(ledger)
  <2>1. /\ SameEntry(L.spans[b].records[i], r)
        /\ L.failedSpan = 0 => ~Suspended(ledger, t) /\ ~SideHeld(ledger)
    BY <1>6 DEF Joined
  <2>2. SameEntry(M.spans[b].records[i], L.spans[b].records[i])
    BY <1>6 DEF Carries
  <2> QED BY <1>5, <2>1, <2>2 DEF SameEntry
<1> QED BY <1>2, <1>4, <1>7 DEF Joined

\* A thread that may not record fails the session.
LEMMA AdmitAdmits ==
    ASSUME NEW c, NEW L, Typed(L, c), NEW t, NEW allowHeld,
           Admit(L, t, allowHeld).failedSpan = 0
    PROVE  ~Suspended(L, t) /\ (allowHeld \/ ~SideHeld(L))
<1> DEFINE b == Back(L)
           M == IF Refused(L, t, allowHeld) THEN FailAt(L, b) ELSE L
<1>1. M.failedSpan = 0
  <2>1. DOMAIN M = Fields
    BY FieldNames DEF FailAt, Typed, Shaped
  <2>2. \/ Admit(L, t, allowHeld) = M
        \/ Admit(L, t, allowHeld) = [M EXCEPT !.spans[b].thread = t]
    BY DEF Admit
  <2> HIDE DEF M
  <2> QED BY <2>1, <2>2, FieldNames
<1>2. b # 0
  BY BackTypes DEF Typed, Shaped, Live
<1>3. ~Refused(L, t, allowHeld)
  BY <1>1, <1>2, FieldNames DEF FailAt, Typed, Shaped
<1> QED BY <1>3 DEF Refused

LEMMA AppendOneFields ==
    ASSUME NEW c, NEW L, Typed(L, c), NEW r \in RecordTo(c)
    PROVE  LET M == AppendRecords(L, <<r>>)
           IN  /\ Appended(M, L, <<r>>) /\ Onward(M, L) /\ Bracket(M, L) /\ Holds(M, L)
               /\ M.failedSpan = L.failedSpan
               /\ Longer(M.spans[Back(L)], L.spans[Back(L)], <<r>>)
<1>1. <<r>> \in Seq(RecordTo(c))
  OBVIOUS
<1>2. Appended(AppendRecords(L, <<r>>), L, <<r>>)
  BY <1>1, Appends
<1>3. Onward(AppendRecords(L, <<r>>), L)
  BY AppendOneOnward
<1>4. Bracket(AppendRecords(L, <<r>>), L) /\ Holds(AppendRecords(L, <<r>>), L)
      /\ AppendRecords(L, <<r>>).failedSpan = L.failedSpan
  BY FieldNames DEF AppendRecords, Typed, Shaped, Bracket, Holds
<1> QED BY <1>2, <1>3, <1>4 DEF Appended

LEMMA AppendJoins ==
    ASSUME NEW c, NEW L, Path(L, c), NEW t \in Threads, NEW r \in RecordTo(c)
    PROVE  Joined(AppendRecords(Admit(L, t, FALSE), <<r>>), t, r)
<1> DEFINE A == Admit(L, t, FALSE)
           M == AppendRecords(A, <<r>>)
           b == Back(ledger)
<1>1. Path(A, c)
  BY AdmitTyped, AdmitSteady, PathOn DEF Path
<1>2. A.failedSpan = 0 => ~Suspended(ledger, t) /\ ~SideHeld(ledger)
  <2>1. A.failedSpan = 0 => ~Suspended(L, t) /\ ~SideHeld(L)
    BY AdmitAdmits DEF Path
  <2> QED BY <2>1 DEF Path, Steady, Bracket, Holds, Suspended, SideHeld
<1> HIDE DEF A
<1>3. Live(A) = Live(ledger) /\ Back(A) = b /\ b \in Live(ledger)
  BY <1>1, PathWay
<1>4. /\ Appended(M, A, <<r>>) /\ Onward(M, A) /\ Bracket(M, A) /\ Holds(M, A)
      /\ M.failedSpan = A.failedSpan
      /\ Longer(M.spans[b], A.spans[b], <<r>>)
  BY <1>1, <1>3, AppendOneFields DEF Path
<1> HIDE DEF M
<1>5. Onward(M, ledger) /\ Bracket(M, ledger) /\ Holds(M, ledger)
  BY <1>1, <1>4, OnwardOn DEF Path, Steady, Bracket, Holds
<1>6. \A id \in Live(ledger) : SameEntries(A.spans[id], ledger.spans[id])
  BY <1>1 DEF Path, Steady, EntriesStay
<1> DEFINE new == M.spans[b].records
           mid == A.spans[b].records
           old == ledger.spans[b].records
<1>7. /\ Len(mid) \in Nat /\ DOMAIN mid = 1 .. Len(mid) /\ DOMAIN old = DOMAIN mid
      /\ DOMAIN new = 1 .. (Len(mid) + 1)
      /\ \A i \in DOMAIN mid : new[i] = mid[i]
      /\ new[Len(mid) + 1] = r
  <2>1. Len(<<r>>) = 1 /\ <<r>>[1] = r
    OBVIOUS
  <2>2. DOMAIN old = DOMAIN mid
    BY <1>3, <1>6 DEF SameEntries
  <2> DEFINE s == A.spans[b]
             n == M.spans[b]
  <2>3. Longer(n, s, <<r>>)
    BY <1>4
  <2> HIDE DEF s, n
  <2>4. /\ Len(s.records) \in Nat /\ DOMAIN s.records = 1 .. Len(s.records)
        /\ DOMAIN n.records = 1 .. (Len(s.records) + 1)
        /\ \A i \in 1 .. Len(s.records) : n.records[i] = s.records[i]
        /\ n.records[Len(s.records) + 1] = r
    BY <2>1, <2>3 DEF Longer
  <2> QED BY <2>2, <2>4 DEF s, n
<1>8. ASSUME NEW id \in Live(ledger)
      PROVE  Carries(M.spans[id], ledger.spans[id])
  <2>1. Carries(A.spans[id], ledger.spans[id]) /\ SameEntries(A.spans[id], ledger.spans[id])
    BY <1>6 DEF SameEntries
  <2>2. CASE id # b
    BY <1>3, <1>4, <2>1, <2>2 DEF Appended
  <2>3. CASE id = b
    <3>1. ASSUME NEW i \in DOMAIN old
          PROVE  i \in DOMAIN new /\ SameEntry(new[i], old[i])
      <4>1. i \in DOMAIN mid /\ SameEntry(mid[i], old[i])
        BY <2>1, <2>3, <3>1 DEF Carries
      <4>2. i \in DOMAIN new /\ new[i] = mid[i]
        BY <1>7, <4>1
      <4> QED BY <4>1, <4>2
    <3> QED BY <2>3, <3>1 DEF Carries
  <2> QED BY <2>2, <2>3
<1>9. ASSUME NEW i \in DOMAIN new \ DOMAIN old
      PROVE  SameEntry(new[i], r)
  <2> HIDE DEF new, mid, old
  <2>1. i = Len(mid) + 1
    BY <1>7
  <2>2. new[i] = r
    BY <1>7, <2>1
  <2> QED BY <2>2 DEF SameEntry
<1>10. Joined(M, t, r)
  BY <1>2, <1>4, <1>5, <1>8, <1>9 DEF Joined
<1> QED BY <1>10 DEF M, A

LEMMA RecordJoins ==
    ASSUME Now, clock' \in {clock, clock + 1}, NEW t \in Threads,
           NEW r \in RecordTo(clock')
    PROVE  /\ Joined(RecordOn(ledger, t, r), t, r)
           /\ Typed(RecordOn(ledger, t, r), clock')
<1> DEFINE A == AbandonOpenResolve(ledger, t)
<1>1. Path(A, clock')
  BY PathStart, AbandonOpenResolveTyped, AbandonOpenResolveSteady, PathOn DEF Path
<1>2. RecordOn(ledger, t, r) = AppendRecords(Admit(A, t, FALSE), <<r>>)
  BY DEF RecordOn
<1> HIDE DEF A
<1>3. Joined(RecordOn(ledger, t, r), t, r)
  BY <1>1, <1>2, AppendJoins
<1> QED BY <1>3, RecordWay DEF Way

\* Part of a call that has recorded r, if anything.
Track(L, c, t, r) == Typed(L, c) /\ Joined(L, t, r)

\* A call of thread t recorded at most one record of its own; a fence took
\* the next fence number and named the registered block.
NewFence(r) == /\ clock' = clock + 1 /\ r.value = clock'
               /\ ledger'.failedSpan = 0 => ledger.writeback \in {0, r.block}

Only(t) == \E r : /\ Joined(ledger', t, r) /\ r.by = t
                  /\ r.kind = "Fence" => NewFence(r)

LEMMA TrackFacts ==
    ASSUME Now, NEW c, NEW t, NEW r, NEW L, Track(L, c, t, r)
    PROVE  /\ Live(L) = Live(ledger) /\ Back(L) = Back(ledger)
           /\ Back(L) \in Live(L) /\ Typed(L, c) /\ Shaped(L) /\ DOMAIN L = Fields
<1>1. Typed(L, c) /\ Onward(L, ledger)
  BY DEF Track, Joined
<1>2. Live(L) = Live(ledger) /\ L.nextSpan = ledger.nextSpan
  BY <1>1, OnwardLive DEF Onward, Same
<1>3. Back(L) \in Live(L)
  BY <1>1, BackTypes
<1> QED BY <1>1, <1>2, <1>3 DEF Back, Typed, Shaped

LEMMA PathTrack ==
    ASSUME NEW c, NEW L, Path(L, c), NEW t, NEW r
    PROVE  Track(L, c, t, r)
<1>1. Back(ledger) \in Live(ledger)
  BY PathWay
<1> QED BY <1>1, SteadyJoined DEF Path, Track

LEMMA TrackJoined ==
    ASSUME Now, NEW c, NEW t, NEW r, NEW L, Track(L, c, t, r), NEW M, Steady(M, L)
    PROVE  Joined(M, t, r)
BY TrackFacts, JoinedOn DEF Track

LEMMA TrackOn ==
    ASSUME Now, NEW c, NEW t, NEW r, NEW L, Track(L, c, t, r), NEW M, Steady(M, L),
           Typed(M, c)
    PROVE  Track(M, c, t, r)
BY TrackJoined DEF Track

LEMMA RecordTrack ==
    ASSUME Now, clock' \in {clock, clock + 1}, NEW t \in Threads,
           NEW r \in RecordTo(clock')
    PROVE  Track(RecordOn(ledger, t, r), clock', t, r)
BY RecordJoins DEF Track

\* The records the calls make.
LEMMA OwnRecords ==
    ASSUME NEW t, NEW kind, NEW n
    PROVE  /\ LET r == NewRecord(kind, t) IN r.by = t /\ r.kind = kind
           /\ LET r == [NewRecord(kind, t) EXCEPT !.value = n]
              IN  r.by = t /\ r.kind = kind
           /\ LET r == [NewRecord(kind, t) EXCEPT !.mark = n]
              IN  r.by = t /\ r.kind = kind
           /\ LET r == [NewRecord(kind, t) EXCEPT !.value = n, !.pending = TRUE]
              IN  r.by = t /\ r.kind = kind
           /\ \A flags : LET r == CallbackRecord(t, flags, n)
                         IN  r.by = t /\ r.kind = "Callback"
           /\ \A block : LET r == FenceRecord(t, block, n)
                         IN  /\ r.by = t /\ r.kind = "Fence"
                             /\ r.value = n /\ r.block = block
BY DEF NewRecord, FenceRecord, CallbackRecord

LEMMA ProgressOnly ==
    ASSUME Now, NEW t \in Threads, ProgressOps(t)
    PROVE  Only(t)
<1>1. ASSUME clock' \in {clock, clock + 1}, NEW kind \in Kinds, NEW n \in Nat
      PROVE  /\ NewRecord(kind, t) \in RecordTo(clock')
             /\ [NewRecord(kind, t) EXCEPT !.value = n] \in RecordTo(clock')
  BY <1>1, WayStart, RecordTypes
<1>2. {"InvalidateState", "Barrier", "ScratchWrite", "GpuWait"} \subseteq Kinds
  BY DEF Kinds
<1>3. CASE InvalidateState(t) \/ Barrier(t)
  <2>1. PICK kind \in {"InvalidateState", "Barrier"} :
          ledger' = RecordOn(ledger, t, NewRecord(kind, t))
    BY <1>3 DEF InvalidateState, Barrier, Inert
  <2> DEFINE r == NewRecord(kind, t)
  <2>2. clock' \in {clock, clock + 1}
    BY <1>3 DEF InvalidateState, Barrier, Inert
  <2>3. r \in RecordTo(clock') /\ r.by = t /\ r.kind # "Fence"
    <3>1. kind \in Kinds /\ kind # "Fence" /\ 0 \in Nat
      BY <1>2
    <3>2. r \in RecordTo(clock')
      BY <1>1, <2>2, <3>1
    <3>3. r.by = t /\ r.kind = kind
      BY OwnRecords
    <3> QED BY <3>1, <3>2, <3>3
  <2> HIDE DEF r
  <2>4. Joined(ledger', t, r)
    BY <2>1, <2>2, <2>3, RecordJoins DEF r
  <2> QED BY <2>3, <2>4 DEF Only
<1>4. CASE ScratchWrite(t)
  <2> DEFINE r == [NewRecord("ScratchWrite", t) EXCEPT !.value = clock']
  <2>1. clock' \in {clock, clock + 1} /\ ledger' = RecordOn(ledger, t, r)
    BY <1>4 DEF ScratchWrite, Tick
  <2>2. r \in RecordTo(clock') /\ r.by = t /\ r.kind # "Fence"
    BY <1>1, <1>2, <2>1, WayStart, OwnRecords
  <2> HIDE DEF r
  <2> QED BY <2>1, <2>2, RecordJoins DEF Only
<1>5. ASSUME NEW word \in {0, 1}, GpuWait(t, word)
      PROVE  Only(t)
  <2> DEFINE r == [NewRecord("GpuWait", t) EXCEPT !.value = word]
  <2>1. clock' \in {clock, clock + 1} /\ ledger' = RecordOn(ledger, t, r)
    BY <1>5 DEF GpuWait
  <2>2. r \in RecordTo(clock') /\ r.by = t /\ r.kind # "Fence"
    BY <1>1, <1>2, <2>1, OwnRecords
  <2> HIDE DEF r
  <2> QED BY <2>1, <2>2, RecordJoins DEF Only
<1>6. ASSUME NEW block \in Blocks, Fence(t, block)
      PROVE  Only(t)
  <2> DEFINE r == FenceRecord(t, block, clock')
             L == RecordOn(ledger, t, r)
  <2>1. clock' = clock + 1 /\ ledger' = CheckIdentity(L, block)
    BY <1>6 DEF Fence, Tick
  <2>2. /\ r \in RecordTo(clock') /\ r.by = t /\ r.value = clock' /\ r.block = block
    <3>1. r \in RecordTo(clock')
      BY <2>1, WayStart, FenceTypes
    <3> QED BY <3>1, OwnRecords
  <2> HIDE DEF r
  <2>3. Track(L, clock', t, r)
    BY <2>1, <2>2, RecordTrack
  <2> HIDE DEF L
  <2>4. Joined(ledger', t, r)
    BY <2>1, <2>3, TrackFacts, TrackJoined, CheckIdentitySteady
  <2>5. ledger'.failedSpan = 0 => ledger.writeback \in {0, block}
    <3>1. /\ L.writeback = ledger.writeback /\ DOMAIN L = Fields
          /\ Back(L) \in Live(L) /\ Shaped(L)
      <4>1. L.writeback = ledger.writeback
        BY <2>3 DEF Track, Joined, Bracket
      <4> QED BY <2>3, <4>1, TrackFacts
    <3>2. Back(L) # 0
      BY <2>3, <3>1, TrackFacts DEF Typed, Shaped, Live
    <3>3. FailAt(L, Back(L)).failedSpan # 0
      BY <3>1, <3>2, FieldNames DEF FailAt
    <3> QED BY <2>1, <3>1, <3>3 DEF CheckIdentity
  <2> QED BY <2>1, <2>2, <2>4, <2>5 DEF Only, NewFence
<1>7. ASSUME NEW flags \in CallbackFlags, Callback(t, flags)
      PROVE  Only(t)
  <2> DEFINE r == CallbackRecord(t, flags, clock')
  <2>1. clock' \in {clock, clock + 1} /\ ledger' = RecordOn(ledger, t, r)
    BY <1>7 DEF Callback, Tick
  <2>2. r \in RecordTo(clock') /\ r.by = t /\ r.kind # "Fence"
    <3>1. r \in RecordTo(clock')
      BY <2>1, WayStart, CallbackTypes
    <3> QED BY <3>1, OwnRecords
  <2> HIDE DEF r
  <2> QED BY <2>1, <2>2, RecordJoins DEF Only
<1> QED BY <1>3, <1>4, <1>5, <1>6, <1>7 DEF ProgressOps

LEMMA UnownBackJoined ==
    ASSUME Now, NEW c, NEW t, NEW r, NEW L, Track(L, c, t, r), NEW i
    PROVE  Joined(Unown(L, Back(L), i), t, r)
<1>1. Steady(Unown(L, Back(L), i), L)
  BY TrackFacts, UnownSteady
<1> QED BY <1>1, TrackJoined

LEMMA UnmodeledOnly ==
    ASSUME Now, NEW t \in Threads, UnmodeledOps(t)
    PROVE  Only(t)
<1>1. CASE Unmodeled(t)
  <2> DEFINE r == NewRecord("Unmodeled", t)
             L == RecordOn(ledger, t, r)
  <2>1. /\ clock' \in {clock, clock + 1}
        /\ ledger' = Unown(L, Back(L), Len(L.spans[Back(L)].records))
    BY <1>1 DEF Unmodeled
  <2>2. "Unmodeled" \in Kinds
    BY DEF Kinds
  <2>3. r \in RecordTo(clock') /\ r.by = t /\ r.kind # "Fence"
    <3>1. r \in RecordTo(clock')
      BY <2>1, <2>2, WayStart, RecordTypes
    <3> QED BY <3>1, OwnRecords
  <2> HIDE DEF r
  <2>4. Track(L, clock', t, r)
    BY <2>1, <2>3, RecordTrack
  <2> HIDE DEF L
  <2>5. Joined(ledger', t, r)
    BY <2>1, <2>4, UnownBackJoined
  <2> QED BY <2>3, <2>5 DEF Only
<1>2. CASE BadTimestamp(t)
  <2> DEFINE L == Admit(AbandonOpenResolve(ledger, t), t, FALSE)
             r == NewRecord("Unmodeled", t)
  <2>1. clock' \in {clock, clock + 1} /\ ledger' = FailAt(L, Back(L))
    BY <1>2 DEF BadTimestamp
  <2>2. r.by = t /\ r.kind # "Fence"
    BY OwnRecords
  <2> HIDE DEF r
  <2>3. Track(L, clock', t, r)
    BY <2>1, PathStart, AdmittedTyped, AdmittedSteady, PathOn, PathTrack
  <2> HIDE DEF L
  <2>4. Joined(ledger', t, r)
    BY <2>1, <2>3, TrackFacts, TrackJoined, FailBackSteady
  <2> QED BY <2>2, <2>4 DEF Only
<1>3. ASSUME NEW flags \in CallbackFlags, ForeignCallback(t, flags)
      PROVE  Only(t)
  <2> DEFINE r == CallbackRecord(t, flags, clock')
             L == RecordOn(ledger, t, r)
  <2>1. /\ clock' \in {clock, clock + 1}
        /\ ledger' = Unown(L, Back(L), Len(L.spans[Back(L)].records))
    BY <1>3 DEF ForeignCallback, Tick
  <2>2. r \in RecordTo(clock') /\ r.by = t /\ r.kind # "Fence"
    <3>1. r \in RecordTo(clock')
      BY <2>1, WayStart, CallbackTypes
    <3> QED BY <3>1, OwnRecords
  <2> HIDE DEF r
  <2>3. Track(L, clock', t, r)
    BY <2>1, <2>2, RecordTrack
  <2> HIDE DEF L
  <2>4. Joined(ledger', t, r)
    BY <2>1, <2>3, UnownBackJoined
  <2> QED BY <2>2, <2>4 DEF Only
<1> QED BY <1>1, <1>2, <1>3 DEF UnmodeledOps

-----------------------------------------------------------------------------
(* Draws and resolves. *)

LEMMA HandleSteady ==
    ASSUME NEW c, NEW L, Typed(L, c), NEW t, NEW h
    PROVE  /\ Steady([L EXCEPT !.openDraws[t] = h], L)
           /\ Steady([L EXCEPT !.openResolves[t] = h], L)
BY OtherFieldSteady, FieldNames DEF Typed, Shaped, Failing, Bracket, Holds

LEMMA HandlePath ==
    ASSUME NEW c, NEW L, Path(L, c), NEW t, NEW h \in Handles
    PROVE  /\ Path([L EXCEPT !.openDraws[t] = h], c)
           /\ Path([L EXCEPT !.openResolves[t] = h], c)
<1>1. /\ Typed([L EXCEPT !.openDraws[t] = h], c)
      /\ Typed([L EXCEPT !.openResolves[t] = h], c)
  BY ClearHandles DEF Path
<1> QED BY <1>1, HandleSteady, PathOn DEF Path

LEMMA AbandonPath ==
    ASSUME NEW c, NEW L, Path(L, c), NEW h \in Handles
    PROVE  Path(Abandon(L, h), c)
BY AbandonTyped, AbandonSteady, PathOn DEF Path

LEMMA AppendTrack ==
    ASSUME NEW c, NEW L, Path(L, c), NEW t \in Threads, NEW r \in RecordTo(c)
    PROVE  Track(AppendRecords(Admit(L, t, FALSE), <<r>>), c, t, r)
<1>1. Typed(AppendRecords(Admit(L, t, FALSE), <<r>>), c)
  BY AdmitTyped, AppendOneTyped DEF Path
<1> QED BY <1>1, AppendJoins DEF Track

\* A record that awaits its verdict: the span counts it, a thread keeps it.
LEMMA OpenedSteady ==
    ASSUME NEW M, Shaped(M), NEW b, NEW t, NEW h
    PROVE  /\ Steady([M EXCEPT !.spans[b].pending = @ + 1, !.openDraws[t] = h], M)
           /\ Steady([M EXCEPT !.spans[b].pending = @ + 1, !.openResolves[t] = h], M)
<1> DEFINE n == M.spans[b].pending + 1
           P == [M EXCEPT !.spans[b].pending = n]
           N == [P EXCEPT !.openDraws[t] = h]
           R == [P EXCEPT !.openResolves[t] = h]
<1>1. /\ [M EXCEPT !.spans[b].pending = @ + 1, !.openDraws[t] = h] = N
      /\ [M EXCEPT !.spans[b].pending = @ + 1, !.openResolves[t] = h] = R
  OBVIOUS
<1> HIDE DEF n
<1>2. Steady(P, M)
  BY FieldSteady
<1>3. Shaped(P)
  BY <1>2, SteadyShaped
<1> HIDE DEF P
<1>4. Steady(N, P) /\ Steady(R, P)
  BY <1>3, OtherFieldSteady, FieldNames DEF Shaped, Failing, Bracket, Holds
<1>5. Steady(N, M) /\ Steady(R, M)
  BY <1>2, <1>4, SteadyOn
<1> QED BY <1>1, <1>5

LEMMA BeginDrawOnly ==
    ASSUME Now, NEW t \in Threads, NEW site \in Nat, BeginDraw(t, site)
    PROVE  Only(t)
<1> DEFINE A == AbandonOpenResolve(ledger, t)
           B == [A EXCEPT !.openDraws[t] = NoHandle]
           C == Abandon(B, A.openDraws[t])
           r == [NewRecord("Draw", t) EXCEPT !.value = site, !.pending = TRUE]
           M == AppendRecords(Admit(C, t, FALSE), <<r>>)
           b == Back(M)
           h == [span |-> b, index |-> Len(M.spans[b].records)]
<1>1. clock' = clock
      /\ ledger' = [M EXCEPT !.spans[b].pending = @ + 1, !.openDraws[t] = h]
  BY DEF BeginDraw
<1>2. Path(ledger, clock) /\ clock \in Nat
  BY <1>1, PathStart
<1>3. Path(A, clock)
  BY <1>2, AbandonOpenResolveTyped, AbandonOpenResolveSteady, PathOn DEF Path
<1> HIDE DEF A
<1>4. A.openDraws[t] \in Handles /\ NoHandle \in Handles
  BY <1>3, HandleTypes DEF Path
<1>5. Path(B, clock)
  BY <1>3, <1>4, HandlePath
<1> HIDE DEF B
<1>6. Path(C, clock)
  BY <1>4, <1>5, AbandonPath
<1> HIDE DEF C
<1>7. r \in RecordTo(clock) /\ r.by = t /\ r.kind # "Fence"
  <2>1. "Draw" \in Kinds
    BY DEF Kinds
  <2>2. r \in RecordTo(clock)
    BY <1>2, <2>1, RecordTypes
  <2> QED BY <2>2, OwnRecords
<1> HIDE DEF r
<1>8. Track(M, clock, t, r)
  BY <1>6, <1>7, AppendTrack
<1> HIDE DEF M, h, b
<1>9. Steady([M EXCEPT !.spans[b].pending = @ + 1, !.openDraws[t] = h], M)
  BY <1>8, TrackFacts, OpenedSteady
<1>10. Joined(ledger', t, r)
  BY <1>1, <1>8, <1>9, TrackJoined
<1> QED BY <1>7, <1>10 DEF Only

LEMMA ResolveOnly ==
    ASSUME Now, NEW t \in Threads, NEW dest \in Nat, Resolve(t, dest)
    PROVE  Only(t)
<1> DEFINE r == [NewRecord("Resolve", t) EXCEPT !.value = dest, !.pending = TRUE]
           M == RecordOn(ledger, t, r)
           b == Back(M)
           h == [span |-> b, index |-> Len(M.spans[b].records)]
<1>1. clock' \in {clock, clock + 1} /\ clock' = clock
      /\ ledger' = [M EXCEPT !.spans[b].pending = @ + 1, !.openResolves[t] = h]
  BY DEF Resolve
<1>2. r \in RecordTo(clock') /\ r.by = t /\ r.kind # "Fence"
  <2>1. "Resolve" \in Kinds
    BY DEF Kinds
  <2>2. r \in RecordTo(clock')
    BY <1>1, <2>1, WayStart, RecordTypes
  <2> QED BY <2>2, OwnRecords
<1> HIDE DEF r
<1>3. Track(M, clock', t, r)
  BY <1>1, <1>2, RecordTrack
<1> HIDE DEF M, h, b
<1>4. Steady([M EXCEPT !.spans[b].pending = @ + 1, !.openResolves[t] = h], M)
  BY <1>3, TrackFacts, OpenedSteady
<1>5. Joined(ledger', t, r)
  BY <1>1, <1>3, <1>4, TrackJoined
<1> QED BY <1>2, <1>5 DEF Only

\* The verdict of a draw in the span it was recorded in, and of one that is
\* recorded with its verdict.
LEMMA SettledDrawSteady ==
    ASSUME NEW c, NEW L, Typed(L, c), NEW h, Pending(L, h),
           ResolveOf(L, h).kind = "Draw", NEW sequence \in 0 .. c, NEW verdict
    PROVE  Steady(SettleDraw(Settle(L, h), h.span, h.index, sequence, verdict), L)
<1> DEFINE S == Settle(L, h)
<1>1. Typed(S, c) /\ Steady(S, L)
  BY SettleTyped, SettleSteady
<1>2. h.span \in Live(L) /\ h.index \in DOMAIN L.spans[h.span].records
  BY DEF Pending
<1>3. h.span \in Live(S) /\ S.spans[h.span].records[h.index].kind = "Draw"
  BY <1>2, SettledKind DEF ResolveOf
<1> HIDE DEF S
<1>4. Steady(SettleDraw(S, h.span, h.index, sequence, verdict), S)
  BY <1>1, <1>3, SettleDrawSteady
<1>5. Steady(SettleDraw(S, h.span, h.index, sequence, verdict), L)
  BY <1>1, <1>4, SteadyOn
<1> QED BY <1>5 DEF S

LEMMA FreshDrawSteady ==
    ASSUME NEW c, NEW D, Typed(D, c), NEW r \in RecordTo(c), r.kind = "Draw",
           NEW M, M = AppendRecords(D, <<r>>), Typed(M, c),
           NEW sequence \in 0 .. c, NEW verdict
    PROVE  Steady(SettleDraw(M, Back(M), Len(M.spans[Back(M)].records), sequence,
                             verdict), M)
<1> DEFINE b == Back(M)
           i == Len(M.spans[b].records)
<1>1. <<r>> \in Seq(RecordTo(c)) /\ Len(<<r>>) = 1 /\ <<r>>[1] = r
  OBVIOUS
<1>2. Appended(M, D, <<r>>)
  BY <1>1, Appends
<1>3. M.spans[b].records[i] = r
  <2> DEFINE new == M.spans[b]
             s == D.spans[b]
  <2>1. Longer(new, s, <<r>>)
    BY <1>2 DEF Appended
  <2> HIDE DEF new, s
  <2>2. Len(new.records) = Len(s.records) + 1
        /\ new.records[Len(s.records) + 1] = r
    BY <1>1, <2>1 DEF Longer
  <2> QED BY <2>2 DEF new
<1>4. b \in Live(M)
  BY BackTypes
<1> HIDE DEF i
<1>5. Steady(SettleDraw(M, b, i, sequence, verdict), M)
  BY <1>3, <1>4, SettleDrawSteady
<1> QED BY <1>5 DEF i

LEMMA FinishDrawOnly ==
    ASSUME Now, NEW t \in Threads, NEW site \in Nat, NEW verdict,
           FinishDraw(t, site, verdict)
    PROVE  Only(t)
<1> DEFINE A == AbandonOpenResolve(ledger, t)
           h == A.openDraws[t]
           L == [A EXCEPT !.openDraws[t] = NoHandle]
           C == Abandon(L, h)
           D == Admit(C, t, FALSE)
           r == [NewRecord("Draw", t) EXCEPT !.value = site]
           M == AppendRecords(D, <<r>>)
<1>1. /\ clock' \in {clock, clock + 1}
      /\ \/ /\ Pending(L, h)
            /\ ledger' = SettleDraw(Settle(L, h), h.span, h.index, clock', verdict)
         \/ ledger' = SettleDraw(M, Back(M), Len(M.spans[Back(M)].records),
                                 clock', verdict)
  BY DEF FinishDraw, Tick
<1>2. /\ Path(ledger, clock') /\ Safe(ledger, clock', host.detached, ledger)
      /\ clock' \in Nat /\ clock' \in 0 .. clock'
  BY <1>1, PathStart
<1>3. Safe(A, clock', host.detached, ledger) /\ Path(A, clock')
  BY <1>2, AbandonOpenResolveSafe, AbandonOpenResolveTyped, AbandonOpenResolveSteady,
     PathOn DEF Path
<1> HIDE DEF A
<1>4. h \in Handles /\ NoHandle \in Handles /\ Owing(A, h, "Draw")
  BY <1>3, HandleTypes DEF Path, Safe, Sound, Debts
<1>5. Path(L, clock')
  BY <1>3, <1>4, HandlePath
<1>6. /\ L.spans = A.spans /\ L.oldest = A.oldest /\ L.nextSpan = A.nextSpan
      /\ A.oldest \in Nat /\ A.nextSpan \in Nat
  BY <1>3, FieldNames DEF Path, Typed, Shaped
<1> HIDE DEF L
<1> HIDE DEF h
<1>7. ASSUME Pending(L, h) PROVE ResolveOf(L, h).kind = "Draw"
  <2>1. h.span \in Live(L)
    BY <1>7 DEF Pending
  <2>2. h.span >= A.oldest
    BY <1>6, <2>1 DEF Live
  <2>3. PendingAs(A, h, "Draw")
    BY <1>4, <2>2 DEF Owing
  <2> QED BY <1>6, <2>3 DEF PendingAs, ResolveOf
<1>8. r \in RecordTo(clock') /\ r.kind = "Draw" /\ r.by = t
  <2>1. "Draw" \in Kinds
    BY DEF Kinds
  <2>2. r \in RecordTo(clock')
    BY <1>2, <2>1, RecordTypes
  <2> QED BY <2>2, OwnRecords
<1> HIDE DEF r
<1>9. Path(C, clock')
  BY <1>4, <1>5, AbandonPath
<1> HIDE DEF C
<1>10. Track(M, clock', t, r) /\ Typed(D, clock')
  BY <1>8, <1>9, AppendTrack, AdmitTyped DEF Path
<1> HIDE DEF D
<1>11. Steady(SettleDraw(M, Back(M), Len(M.spans[Back(M)].records), clock', verdict), M)
  BY <1>2, <1>8, <1>10, FreshDrawSteady DEF Track
<1> HIDE DEF M
<1>12. CASE ledger' = SettleDraw(M, Back(M), Len(M.spans[Back(M)].records), clock', verdict)
  <2>1. Joined(ledger', t, r)
    BY <1>10, <1>11, <1>12, TrackJoined
  <2> QED BY <1>8, <2>1 DEF Only
<1>13. CASE /\ Pending(L, h)
            /\ ledger' = SettleDraw(Settle(L, h), h.span, h.index, clock', verdict)
  <2>1. Steady(ledger', L)
    BY <1>2, <1>5, <1>7, <1>13, SettledDrawSteady DEF Path
  <2>2. Joined(ledger', t, r)
    BY <1>5, <2>1, PathTrack, TrackJoined
  <2> QED BY <1>8, <2>2 DEF Only
<1> QED BY <1>1, <1>12, <1>13

LEMMA SteadyOnly ==
    ASSUME Now, clock' \in {clock, clock + 1}, Steady(ledger', ledger), NEW t \in Threads
    PROVE  Only(t)
<1> DEFINE r == NewRecord("Swap", t)
<1>1. r.by = t /\ r.kind # "Fence"
  BY OwnRecords
<1> HIDE DEF r
<1>2. Joined(ledger', t, r)
  BY PathStart, SteadyJoined
<1> QED BY <1>1, <1>2 DEF Only

LEMMA DrawOnly ==
    ASSUME Now, NEW t \in Threads, DrawOps(t)
    PROVE  Only(t)
<1>1. CASE DetachDraw(t)
  <2>1. clock' \in {clock, clock + 1} /\ ledger' = [ledger EXCEPT !.openDraws[t] = NoHandle]
    BY <1>1 DEF DetachDraw
  <2>2. Steady(ledger', ledger)
    BY <2>1, PathStart, HandleSteady
  <2> QED BY <2>1, <2>2, SteadyOnly
<1>2. CASE ~DetachDraw(t)
  BY <1>2, DataTypes, BeginDrawOnly, FinishDrawOnly DEF DrawOps, AssumedSites
<1> QED BY <1>1, <1>2

LEMMA DetachedSteady ==
    ASSUME Now, DetachedOps
    PROVE  Steady(ledger', ledger) /\ clock' \in {clock, clock + 1}
<1>1. PICK h \in host.detached :
         \/ \E site \in Sites, verdict \in Verdicts :
               FinishDetached(h, site, verdict)
         \/ AbandonDraw(h)
  BY DEF DetachedOps
<1>2. clock' \in {clock, clock + 1}
  BY <1>1 DEF FinishDetached, AbandonDraw, Tick
<1>3. /\ Typed(ledger, clock') /\ clock' \in 0 .. clock' /\ Steady(ledger, ledger)
      /\ h \in Handles
  BY <1>1, <1>2, PathStart DEF Path, Safe, Sound, Debts
<1>4. Steady(Abandon(ledger, h), ledger) /\ Steady(Settle(ledger, h), ledger)
  BY <1>3, AbandonSteady, SettleSteady
<1>5. ASSUME NEW verdict, Pending(ledger, h),
             ledger.spans[h.span].records[h.index].kind = "Draw"
      PROVE  Steady(SettleDraw(Settle(ledger, h), h.span, h.index, clock', verdict), ledger)
  BY <1>3, <1>5, SettledDrawSteady DEF ResolveOf
<1>6. ASSUME NEW settled, Pending(ledger, h) /\
                ledger.spans[h.span].records[h.index].kind = "Draw"
                => Steady(settled, ledger)
      PROVE  Steady(Detached(h, settled), ledger)
  BY <1>3, <1>4, <1>6 DEF Detached
<1>7. CASE AbandonDraw(h)
  BY <1>4, <1>6, <1>7 DEF AbandonDraw
<1>8. ASSUME NEW site, NEW verdict, FinishDetached(h, site, verdict)
      PROVE  Steady(ledger', ledger)
  <2>1. \/ ledger' = Detached(h, SettleDraw(Settle(ledger, h), h.span,
                                            h.index, clock', verdict))
        \/ ledger' = Detached(h, Abandon(ledger, h))
    BY <1>8 DEF FinishDetached
  <2> QED BY <1>4, <1>5, <1>6, <2>1
<1>9. Steady(ledger', ledger)
  BY <1>1, <1>7, <1>8
<1> QED BY <1>2, <1>9

-----------------------------------------------------------------------------
(* Clears, swaps and the rest of resolves. *)

LEMMA SwapEntries ==
    ASSUME NEW c, NEW L, Typed(L, c), NEW id \in Live(L), NEW front
    PROVE  SameEntries(SwapSettles(L, id, front), L.spans[id])
<1> DEFINE old == L.spans[id]
           mine == {h \in Presented(L) : h.span = id}
           bad == mine \cap Mismatched(L, front)
           due(i) == \E h \in mine : h.index = i
           wrong(i) == \E h \in bad : h.index = i
           settled(r, i) == [r EXCEPT
                               !.pending = @ /\ ~due(i),
                               !.hostOnly = @ \/ (due(i) /\ ~wrong(i)),
                               !.skipped = @ \/ (wrong(i) /\ Mode = "Census")]
           recs == [i \in DOMAIN old.records |-> settled(old.records[i], i)]
           new == SwapSettles(L, id, front)
<1>1. old \in SpanTo(c) /\ DOMAIN old = SpanFields
  BY SpanOfLedger DEF Typed, Shaped
<1>2. new.records = recs
  BY <1>1, SpanFieldNames DEF SwapSettles
<1>3. ASSUME NEW i \in DOMAIN old.records PROVE SameEntry(recs[i], old.records[i])
  <2> DEFINE r == old.records[i]
  <2>1. r \in RecordTo(c)
    BY <1>1, RecordOfSpan
  <2>2. recs[i] = settled(r, i)
    OBVIOUS
  <2> HIDE DEF r, recs
  <2>3. SameEntry(settled(r, i), r)
    <3>1. PICK a, b, d : /\ a = (r.pending /\ ~due(i))
                         /\ b = (r.hostOnly \/ (due(i) /\ ~wrong(i)))
                         /\ d = (r.skipped \/ (wrong(i) /\ Mode = "Census"))
      OBVIOUS
    <3>2. settled(r, i) = [r EXCEPT !.pending = a, !.hostOnly = b, !.skipped = d]
      BY <3>1, Zenon
    <3> HIDE DEF settled
    <3> QED BY <2>1, <3>2 DEF SameEntry, RecordTo
  <2> QED BY <2>2, <2>3 DEF r
<1>4. DOMAIN recs = DOMAIN old.records
  OBVIOUS
<1> HIDE DEF recs, new
<1>5. SameEntries(new, old)
  BY <1>2, <1>3, <1>4 DEF SameEntries, Carries
<1> QED BY <1>5 DEF new, old

LEMMA SettleFrontbuffersSteady ==
    ASSUME NEW c \in Nat, NEW L, Typed(L, c), NEW front
    PROVE  Steady(SettleFrontbuffers(L, front), L)
<1> DEFINE wrong == Mismatched(L, front)
           first == CHOOSE h \in wrong : \A g \in wrong :
                      ResolveOf(L, h).mark <= ResolveOf(L, g).mark
           partial == L.epochPartial \/ (wrong # {} /\ Mode = "Census")
           M == [L EXCEPT !.spans = [id \in Live(L) |-> SwapSettles(L, id, front)],
                          !.frontbuffer = {},
                          !.epochPartial = partial]
           N == SettleFrontbuffers(L, front)
<1>1. N = M \/ N = FailAt(M, first.span)
  BY DEF SettleFrontbuffers
<1> HIDE DEF first, partial, wrong
<1>2. /\ DOMAIN M = Fields /\ Bracket(M, L) /\ Holds(M, L)
      /\ M.spans = [id \in Live(L) |-> SwapSettles(L, id, front)]
  BY FieldNames DEF Typed, Shaped, Bracket, Holds
<1> HIDE DEF M
<1>3. N.spans = M.spans /\ Bracket(N, M) /\ Holds(N, M)
  BY <1>1, <1>2, FieldNames DEF FailAt, Bracket, Holds
<1>4. Onward(N, L)
  BY SettleFrontbuffersOnward
<1> HIDE DEF N
<1>5. EntriesStay(N, L)
  BY <1>2, <1>3, SwapEntries DEF EntriesStay
<1>6. Steady(N, L)
  BY <1>2, <1>3, <1>4, <1>5 DEF Steady, Bracket, Holds
<1> QED BY <1>6 DEF N

LEMMA AdmittedMarkSteady ==
    ASSUME NEW L, Shaped(L), NEW id, NEW m
    PROVE  Steady([L EXCEPT !.spans[id].lastAdmitted = MaxOf(@, m)], L)
<1> DEFINE newest == MaxOf(L.spans[id].lastAdmitted, m)
<1>1. [L EXCEPT !.spans[id].lastAdmitted = MaxOf(@, m)]
         = [L EXCEPT !.spans[id].lastAdmitted = newest]
  OBVIOUS
<1> HIDE DEF newest
<1> QED BY <1>1, FieldSteady

LEMMA ClearOnly ==
    ASSUME Now, NEW t \in Threads, NEW admitted, Clear(t, admitted)
    PROVE  Only(t)
<1> DEFINE r == [NewRecord("Clear", t) EXCEPT !.mark = clock']
           L == RecordOn(ledger, t, r)
           b == Back(L)
           P == [L EXCEPT !.spans[b].partial = TRUE]
<1>1. /\ clock' \in {clock, clock + 1}
      /\ \/ ledger' = [L EXCEPT !.spans[b].lastAdmitted = MaxOf(@, clock')]
         \/ ledger' = [P EXCEPT !.epochPartial = TRUE]
         \/ ledger' = Unown(L, b, Len(L.spans[b].records))
  BY DEF Clear, Tick
<1>2. r \in RecordTo(clock') /\ r.by = t /\ r.kind # "Fence"
  <2>1. "Clear" \in Kinds
    BY DEF Kinds
  <2>2. r \in RecordTo(clock')
    BY <1>1, <2>1, WayStart, RecordTypes
  <2> QED BY <2>2, OwnRecords
<1> HIDE DEF r
<1>3. Track(L, clock', t, r)
  BY <1>1, <1>2, RecordTrack
<1>4. Shaped(L) /\ Typed(L, clock') /\ b \in Live(L)
  BY <1>3, TrackFacts
<1> HIDE DEF L, b
<1>5. Steady([L EXCEPT !.spans[b].lastAdmitted = MaxOf(@, clock')], L)
  BY <1>4, AdmittedMarkSteady
<1>6. Steady(Unown(L, b, Len(L.spans[b].records)), L)
  BY <1>4, UnownSteady
<1>7. Steady([P EXCEPT !.epochPartial = TRUE], L)
  <2>1. Steady(P, L) /\ Shaped(P)
    BY <1>4, FieldSteady, SteadyShaped
  <2> HIDE DEF P
  <2>2. Steady([P EXCEPT !.epochPartial = TRUE], P)
    BY <2>1, OtherFieldSteady, FieldNames DEF Shaped, Failing, Bracket, Holds
  <2> QED BY <2>1, <2>2, SteadyOn
<1>8. Joined(ledger', t, r)
  <2>1. Steady(ledger', L)
    BY <1>1, <1>5, <1>6, <1>7
  <2> QED BY <1>3, <2>1, TrackJoined
<1> QED BY <1>2, <1>8 DEF Only

LEMMA FinishResolveSteady ==
    ASSUME Now, NEW t \in Threads, NEW outcome, FinishResolve(t, outcome)
    PROVE  Steady(ledger', ledger)
<1> DEFINE h == ledger.openResolves[t]
           mark == IF outcome = "no mark" THEN 0 ELSE clock'
           K == [ledger EXCEPT !.spans[h.span].records[h.index].mark = mark]
           L == [ledger EXCEPT !.openResolves[t] = NoHandle]
           M == [K EXCEPT !.openResolves[t] = NoHandle]
           S == Settle(M, h)
<1>1. /\ clock' \in {clock, clock + 1}
      /\ [L EXCEPT !.spans[h.span].records[h.index].mark = mark] = M =>
         \/ h.span \notin Live(L) /\ ledger' = L
         \/ /\ h.span \in Live(L)
            /\ \/ ledger' = [M EXCEPT !.frontbuffer = @ \cup {h}]
               \/ ledger' = [S EXCEPT !.spans[h.span].lastAdmitted = MaxOf(@, mark)]
               \/ ledger' = Unown(S, h.span, h.index)
  BY DEF FinishResolve
<1>2. /\ Typed(ledger, clock')
      /\ Safe(ledger, clock', host.detached, ledger)
      /\ clock' \in Nat /\ clock' \in 0 .. clock' /\ mark \in 0 .. clock'
  <2>1. /\ Typed(ledger, clock')
        /\ Safe(ledger, clock', host.detached, ledger)
        /\ clock' \in Nat /\ clock' \in 0 .. clock'
    BY <1>1, WayStart
  <2>2. 0 \in 0 .. clock'
    BY <2>1
  <2>3. mark = 0 \/ mark = clock'
    OBVIOUS
  <2> HIDE DEF mark
  <2> QED BY <2>1, <2>2, <2>3
<1>3. [L EXCEPT !.spans[h.span].records[h.index].mark = mark] = M
  BY <1>2, FieldNames DEF Typed, Shaped
<1>4. Live(L) = Live(ledger) /\ ledger.oldest \in Nat /\ ledger.nextSpan \in Nat
  BY <1>2, FieldNames DEF Typed, Shaped, Live
<1>5. h \in Handles /\ NoHandle \in Handles /\ Owing(ledger, h, "Resolve")
  BY <1>2, HandleTypes DEF Safe, Sound, Debts
<1>6. Steady(L, ledger)
  BY <1>2, HandleSteady
<1> HIDE DEF L
<1>7. CASE h.span \notin Live(ledger)
  BY <1>1, <1>3, <1>4, <1>6, <1>7
<1>8. CASE h.span \in Live(ledger)
  <2> HIDE DEF h, mark
  <2>1. Pending(ledger, h)
    <3>1. h.span >= ledger.oldest
      BY <1>4, <1>8 DEF Live
    <3> QED BY <1>5, <3>1 DEF Owing, PendingAs
  <2>2. Path(K, clock')
    <3>1. Typed(K, clock')
      BY <1>2, ChangeRecord
    <3>2. Steady(K, ledger)
      BY <1>2, <2>1, RecordSteady DEF Pending
    <3> HIDE DEF K
    <3> QED BY <3>1, <3>2 DEF Path
  <2> HIDE DEF K
  <2>3. Path(M, clock')
    BY <1>5, <2>2, HandlePath
  <2>4. DOMAIN M = Fields
    BY <2>3 DEF Path, Typed, Shaped
  <2> HIDE DEF M
  <2>5. Path(S, clock')
    BY <2>3, SettleTyped, SettleSteady, PathOn DEF Path
  <2>6. Steady([M EXCEPT !.frontbuffer = @ \cup {h}], M)
    BY <2>3, <2>4, OtherFieldSteady, FieldNames DEF Path, Typed, Failing, Bracket, Holds
  <2> HIDE DEF S
  <2>7. Steady([S EXCEPT !.spans[h.span].lastAdmitted = MaxOf(@, mark)], S)
    BY <2>5, AdmittedMarkSteady DEF Path, Typed
  <2>8. Steady(Unown(S, h.span, h.index), S)
    <3>1. h.span \in Live(S)
      BY <1>8, <2>5, PathWay
    <3> QED BY <2>5, <3>1, UnownSteady DEF Path
  <2>9. Steady(ledger', M) \/ Steady(ledger', S)
    BY <1>1, <1>3, <1>4, <1>8, <2>6, <2>7, <2>8
  <2> QED BY <2>3, <2>5, <2>9, SteadyOn DEF Path
<1> QED BY <1>7, <1>8

LEMMA SwapCallOnly ==
    ASSUME Now, NEW t \in Threads, NEW front \in Nat, Swap(t, front)
    PROVE  Only(t)
<1> DEFINE A == AbandonOpenResolve(ledger, t)
           B == IF SideHeld(A) \/ A.heldFirst # <<>> THEN FailAt(A, Back(A)) ELSE A
           r == [NewRecord("Swap", t) EXCEPT !.value = front]
           E == AppendRecords(Admit(B, t, FALSE), <<r>>)
           D == SettleFrontbuffers(E, front)
           saw == D.ownerSwapSawSwap \/ D.ownerSwapThread = t
<1>1. clock' = clock
      /\ ledger' = [D EXCEPT !.epochWork = FALSE, !.epochPartial = FALSE,
                             !.ownerSwapSawSwap = saw]
  BY DEF Swap
<1>2. Path(ledger, clock) /\ clock \in Nat
  BY <1>1, PathStart
<1>3. Path(A, clock)
  BY <1>2, AbandonOpenResolveTyped, AbandonOpenResolveSteady, PathOn DEF Path
<1> HIDE DEF A
<1>4. Path(B, clock)
  <2>1. Path(FailAt(A, Back(A)), clock)
    BY <1>3, FailBackTyped, FailBackSteady, PathOn DEF Path
  <2> QED BY <1>3, <2>1
<1> HIDE DEF B
<1>5. r \in RecordTo(clock) /\ r.by = t /\ r.kind # "Fence"
  <2>1. "Swap" \in Kinds
    BY DEF Kinds
  <2>2. r \in RecordTo(clock)
    BY <1>2, <2>1, RecordTypes
  <2> QED BY <2>2, OwnRecords
<1> HIDE DEF r
<1>6. Track(E, clock, t, r)
  BY <1>4, <1>5, AppendTrack
<1> HIDE DEF E
<1>7. Track(D, clock, t, r) /\ DOMAIN D = Fields /\ Shaped(D)
  <2>1. Typed(E, clock)
    BY <1>6 DEF Track
  <2>2. Typed(D, clock) /\ Steady(D, E)
    BY <1>2, <2>1, SettleFrontbuffersTyped, SettleFrontbuffersSteady
  <2> QED BY <1>6, <2>2, TrackOn DEF Typed, Shaped
<1> HIDE DEF D, saw
<1>8. Steady([D EXCEPT !.epochWork = FALSE, !.epochPartial = FALSE,
                       !.ownerSwapSawSwap = saw], D)
  BY <1>7, OtherFieldSteady, FieldNames DEF Failing, Bracket, Holds
<1>9. Joined(ledger', t, r)
  BY <1>1, <1>7, <1>8, TrackJoined
<1> QED BY <1>5, <1>9 DEF Only

LEMMA FrameOnly ==
    ASSUME Now, NEW t \in Threads, ResolveOps(t) \/ FrameOps(t)
    PROVE  Only(t)
<1>1. ASSUME NEW outcome, FinishResolve(t, outcome) PROVE Only(t)
  <2>1. Steady(ledger', ledger)
    BY <1>1, FinishResolveSteady
  <2>2. clock' \in {clock, clock + 1}
    BY <1>1 DEF FinishResolve
  <2> QED BY <2>1, <2>2, SteadyOnly
<1> QED BY <1>1, DataTypes, ResolveOnly, ClearOnly, SwapCallOnly
        DEF ResolveOps, FrameOps, AssumedSites

-----------------------------------------------------------------------------
(* Calls beside the records: submits' sizes, tiled lists, side buffers and *)
(* the device.                                                             *)

LEMMA EntriesStayOn ==
    ASSUME NEW L, NEW M, NEW N, EntriesStay(M, L), EntriesStay(N, M), Live(M) = Live(L)
    PROVE  EntriesStay(N, L)
<1>1. ASSUME NEW id \in Live(L)
      PROVE  SameEntries(N.spans[id], L.spans[id])
  <2>1. SameEntries(M.spans[id], L.spans[id]) /\ SameEntries(N.spans[id], M.spans[id])
    BY DEF EntriesStay
  <2> QED BY <2>1, EntriesOn
<1> QED BY <1>1 DEF EntriesStay

LEMMA BesideEntries ==
    ASSUME NEW c, NEW L, Path(L, c), NEW M, DOMAIN M = Fields,
           M.oldest = L.oldest, M.nextSpan = L.nextSpan, M.kicks = L.kicks,
           M.closed = L.closed, M.spans = L.spans,
           M.failedSpan \in {L.failedSpan, FailAt(L, Back(L)).failedSpan}
    PROVE  /\ Onward(M, ledger) /\ EntriesStay(M, ledger) /\ Shaped(M)
           /\ \A id, t : /\ Onward([M EXCEPT !.spans[id].thread = t], ledger)
                         /\ EntriesStay([M EXCEPT !.spans[id].thread = t], ledger)
<1>1. /\ Onward(M, ledger)
      /\ \A id, t : Onward([M EXCEPT !.spans[id].thread = t], ledger)
  BY PathWay, BesideOnward
<1>2. EntriesStay(M, ledger)
  BY DEF Path, Steady, EntriesStay
<1>3. Shaped(M) /\ Live(M) = Live(ledger)
  BY PathWay DEF Path, Typed, Shaped, Live
<1>4. ASSUME NEW id, NEW t
      PROVE  EntriesStay([M EXCEPT !.spans[id].thread = t], ledger)
  <2>1. Steady([M EXCEPT !.spans[id].thread = t], M)
    BY <1>3, FieldSteady
  <2> QED BY <1>2, <1>3, <2>1, EntriesStayOn DEF Steady
<1> QED BY <1>1, <1>2, <1>3, <1>4

LEMMA SubmitsSteady ==
    ASSUME Now, NEW t \in Threads, NEW s \in Segments, NEW n \in Nat,
           DirectSubmit(t, s, n) \/ ReplaySubmit(t, s, n)
    PROVE  Steady(ledger', ledger) /\ clock' = clock
<1> DEFINE R == [ledger EXCEPT !.replay = @ \cup {t}]
<1>1. clock' = clock
  BY DEF DirectSubmit, ReplaySubmit, LedgerOnly
<1>2. Typed(ledger, clock) /\ Steady(ledger, ledger) /\ DOMAIN ledger = Fields
  BY <1>1, PathStart DEF Path, Shaped
<1>3. CASE DirectSubmit(t, s, n)
  <2>1. ledger' \in {FailAt(ledger, Back(ledger)), Submitted(ledger, t, s, n, FALSE)}
    BY <1>3 DEF DirectSubmit, Unreplayed
  <2> QED BY <1>1, <1>2, <2>1, FailBackSteady, SubmittedSteady
<1>4. CASE ReplaySubmit(t, s, n)
  <2>1. ledger' = Submitted(R, t, s, n, TRUE)
    BY <1>4 DEF ReplaySubmit
  <2>2. Typed(R, clock)
    <3>1. /\ DOMAIN R = Fields /\ R.oldest = ledger.oldest
          /\ R.nextSpan = ledger.nextSpan /\ R.spans = ledger.spans
      BY <1>2, FieldNames DEF Typed, Shaped
    <3>2. Others(R, clock)
      BY <1>2, FieldNames DEF Typed, Shaped, Others
    <3> QED BY <1>2, <3>1, <3>2, PutOther
  <2>3. Steady(R, ledger)
    BY <1>2, OtherFieldSteady, FieldNames DEF Typed, Failing, Bracket, Holds
  <2> HIDE DEF R
  <2> QED BY <1>1, <2>1, <2>2, <2>3, SubmittedSteady, SteadyOn
<1> QED BY <1>3, <1>4

LEMMA ListSteady ==
    ASSUME Now, NEW t \in Threads,
           \/ MarkReplayThread(t) \/ BeginTiledList
           \/ \E s \in Segments, n \in Sizes : TiledSegment(t, s, n)
    PROVE  Steady(ledger', ledger) /\ clock' = clock
<1>1. clock' = clock
  BY DEF MarkReplayThread, BeginTiledList, TiledSegment, LedgerOnly
<1>2. Typed(ledger, clock) /\ Shaped(ledger) /\ DOMAIN ledger = Fields
  BY <1>1, PathStart DEF Shaped
<1>3. CASE MarkReplayThread(t)
  BY <1>1, <1>2, <1>3, OtherFieldSteady, FieldNames
     DEF MarkReplayThread, Failing, Bracket, Holds
<1>4. CASE BeginTiledList
  BY <1>1, <1>2, <1>4, OtherFieldSteady, FieldNames
     DEF BeginTiledList, Failing, Bracket, Holds
<1>5. ASSUME NEW s \in Segments, NEW n \in Sizes, TiledSegment(t, s, n)
      PROVE  Steady(ledger', ledger)
  <2> DEFINE M == [ledger EXCEPT !.lists[ledger.nextList - 1][s] = n]
  <2>1. ledger' = M \/ ledger' = FailAt(ledger, Back(ledger))
    BY <1>5 DEF TiledSegment, Unreplayed
  <2>2. Steady(M, ledger)
    BY <1>2, OtherFieldSteady, FieldNames DEF Failing, Bracket, Holds
  <2> QED BY <1>2, <2>1, <2>2, FailBackSteady
<1> QED BY <1>1, <1>3, <1>4, <1>5

LEMMA FailureSteady ==
    ASSUME Now, FailureOps
    PROVE  Steady(ledger', ledger) /\ clock' = clock
BY PathStart, FailBackSteady DEF FailureOps, Fail, TiledProgress, LedgerOnly

\* Callbacks and fences of a tiled pass wait in the side buffer.
Aside == Onward(ledger', ledger) /\ EntriesStay(ledger', ledger)
         /\ Bracket(ledger', ledger)

Fenceless(recs) == \A i \in DOMAIN recs : recs[i].kind # "Fence"

HeldFenceless == /\ \A s \in Segments : Fenceless(ledger.held[s])
                 /\ Fenceless(ledger.heldFirst)

LEMMA FencelessAppend ==
    ASSUME NEW S, NEW recs \in Seq(S), Fenceless(recs), NEW r \in S, r.kind # "Fence"
    PROVE  Append(recs, r) \in Seq(S) /\ Fenceless(Append(recs, r))
BY DEF Fenceless

LEMMA FencelessConcat ==
    ASSUME NEW S, NEW a \in Seq(S), NEW b \in Seq(S), Fenceless(a), Fenceless(b)
    PROVE  a \o b \in Seq(S) /\ Fenceless(a \o b)
<1>1. /\ a \o b \in Seq(S) /\ Len(a) \in Nat /\ Len(b) \in Nat
      /\ DOMAIN a = 1 .. Len(a) /\ DOMAIN b = 1 .. Len(b)
      /\ DOMAIN (a \o b) = 1 .. (Len(a) + Len(b))
      /\ \A i \in 1 .. Len(a) : (a \o b)[i] = a[i]
      /\ \A i \in 1 .. Len(b) : (a \o b)[Len(a) + i] = b[i]
  OBVIOUS
<1>2. ASSUME NEW i \in DOMAIN (a \o b) PROVE (a \o b)[i].kind # "Fence"
  <2>1. CASE i <= Len(a)
    BY <1>1, <2>1 DEF Fenceless
  <2>2. CASE i > Len(a)
    <3>1. i - Len(a) \in 1 .. Len(b) /\ i = Len(a) + (i - Len(a))
      BY <1>1, <2>2
    <3>2. (a \o b)[i] = b[i - Len(a)]
      BY <1>1, <3>1
    <3> QED BY <1>1, <3>1, <3>2 DEF Fenceless
  <2> QED BY <1>1, <2>1, <2>2
<1> QED BY <1>1, <1>2 DEF Fenceless

LEMMA AdmittedPath ==
    ASSUME Now, clock' \in {clock, clock + 1}, NEW t \in Threads, NEW allowHeld
    PROVE  Path(Admit(AbandonOpenResolve(ledger, t), t, allowHeld), clock')
BY PathStart, AdmittedTyped, AdmittedSteady, PathOn DEF Path

LEMMA SideFenceAside ==
    ASSUME Now, NEW t \in Threads, NEW block, NEW s \in Segments, SideFence(t, block, s)
    PROVE  Aside
<1> DEFINE L == Admit(AbandonOpenResolve(ledger, t), t, TRUE)
           recs == L.held[s] \o <<NewRecord("InvalidateState", t),
                                  FenceRecord(t, block, clock')>>
           M == [L EXCEPT !.held[s] = recs]
           N == CheckIdentity(M, block)
<1>1. clock' \in {clock, clock + 1} /\ ledger' = N
  BY DEF SideFence, Tick
<1> HIDE DEF recs
<1>2. Path(L, clock')
  BY <1>1, AdmittedPath
<1>3. DOMAIN L = Fields /\ Bracket(L, ledger)
  BY <1>2 DEF Path, Typed, Shaped, Steady
<1> HIDE DEF L
<1>4. /\ DOMAIN M = Fields /\ M.oldest = L.oldest /\ M.nextSpan = L.nextSpan
      /\ M.kicks = L.kicks /\ M.closed = L.closed /\ M.spans = L.spans
      /\ M.failedSpan = L.failedSpan /\ Bracket(M, L)
  BY <1>3, FieldNames DEF Bracket
<1> HIDE DEF M
<1>5. /\ DOMAIN N = Fields /\ N.oldest = L.oldest /\ N.nextSpan = L.nextSpan
      /\ N.kicks = L.kicks /\ N.closed = L.closed /\ N.spans = L.spans
      /\ N.failedSpan \in {L.failedSpan, FailAt(L, Back(L)).failedSpan}
  BY <1>3, <1>4, FieldNames DEF CheckIdentity, FailAt, Back
<1>6. Bracket(N, M)
  BY <1>4, FieldNames DEF CheckIdentity, FailAt, Bracket
<1> HIDE DEF N
<1>7. Onward(N, ledger) /\ EntriesStay(N, ledger)
  BY <1>2, <1>5, BesideEntries
<1> QED BY <1>1, <1>3, <1>4, <1>6, <1>7 DEF Aside, Bracket

LEMMA SideCallbackAside ==
    ASSUME Now, NEW t \in Threads, NEW s \in Segments, NEW flags \in CallbackFlags,
           SideCallback(t, flags, s)
    PROVE  Aside /\ (HeldFenceless => HeldFenceless')
<1> DEFINE L == Admit(AbandonOpenResolve(ledger, t), t, FALSE)
           newest == IF DOMAIN L.lists = {} THEN 0 ELSE L.nextList - 1
           r == CallbackRecord(t, flags, clock')
           recs == L.held[s] \o Append(L.heldFirst, r)
           list == IF newest # 0 THEN newest ELSE L.heldList[s]
           M == [L EXCEPT !.held[s] = recs, !.heldList[s] = list, !.heldFirst = <<>>]
<1>1. clock' \in {clock, clock + 1} /\ ledger' = M
  BY DEF SideCallback, Tick
<1>2. Path(L, clock')
  BY <1>1, AdmittedPath
<1>3. /\ DOMAIN L = Fields /\ Bracket(L, ledger) /\ Holds(L, ledger)
      /\ L.held \in [Segments -> Seq(RecordTo(clock'))]
      /\ L.heldFirst \in Seq(RecordTo(clock'))
  BY <1>2 DEF Path, Typed, Shaped, Steady, Others
<1>4. r \in RecordTo(clock') /\ r.kind # "Fence"
  <2>1. r \in RecordTo(clock')
    BY <1>1, WayStart, CallbackTypes
  <2> QED BY <2>1, OwnRecords
<1> HIDE DEF L, r, newest
<1>5. HeldFenceless => Fenceless(recs)
  <2>1. ASSUME HeldFenceless PROVE Fenceless(L.held[s]) /\ Fenceless(L.heldFirst)
    BY <1>3, <2>1 DEF HeldFenceless, Holds
  <2>2. ASSUME HeldFenceless
        PROVE  /\ Append(L.heldFirst, r) \in Seq(RecordTo(clock'))
               /\ Fenceless(Append(L.heldFirst, r))
    BY <1>3, <1>4, <2>1, <2>2, FencelessAppend
  <2> QED BY <1>3, <2>1, <2>2, FencelessConcat
<1> HIDE DEF recs, list
<1>6. /\ DOMAIN M = Fields /\ M.oldest = L.oldest /\ M.nextSpan = L.nextSpan
      /\ M.kicks = L.kicks /\ M.closed = L.closed /\ M.spans = L.spans
      /\ M.failedSpan = L.failedSpan /\ Bracket(M, L) /\ M.heldFirst = <<>>
      /\ \A other \in Segments : M.held[other] = IF other = s THEN recs ELSE L.held[other]
  BY <1>3, FieldNames DEF Bracket
<1> HIDE DEF M
<1>7. Onward(M, ledger) /\ EntriesStay(M, ledger)
  BY <1>2, <1>6, BesideEntries
<1>8. Aside
  BY <1>1, <1>3, <1>6, <1>7 DEF Aside, Bracket
<1>9. ASSUME HeldFenceless PROVE HeldFenceless'
  <2>1. Fenceless(<<>>)
    BY DEF Fenceless
  <2>2. \A other \in Segments : Fenceless(M.held[other])
    BY <1>3, <1>5, <1>6, <1>9 DEF HeldFenceless, Holds
  <2> QED BY <1>1, <1>6, <2>1, <2>2 DEF HeldFenceless
<1> QED BY <1>8, <1>9

LEMMA FirstPassAside ==
    ASSUME Now, NEW t \in Threads, NEW flags \in CallbackFlags, FirstPassCallback(t, flags)
    PROVE  Aside /\ (HeldFenceless => HeldFenceless')
<1> DEFINE L == Admit(AbandonOpenResolve(ledger, t), t, FALSE)
           r == CallbackRecord(t, flags, clock')
           first == Append(L.heldFirst, r)
           M == [L EXCEPT !.heldFirst = first]
<1>1. clock' \in {clock, clock + 1} /\ ledger' = M
  BY DEF FirstPassCallback, Tick
<1>2. Path(L, clock')
  BY <1>1, AdmittedPath
<1>3. /\ DOMAIN L = Fields /\ Bracket(L, ledger) /\ Holds(L, ledger)
      /\ L.heldFirst \in Seq(RecordTo(clock'))
  BY <1>2 DEF Path, Typed, Shaped, Steady, Others
<1>4. r \in RecordTo(clock') /\ r.kind # "Fence"
  <2>1. r \in RecordTo(clock')
    BY <1>1, WayStart, CallbackTypes
  <2> QED BY <2>1, OwnRecords
<1> HIDE DEF L, r
<1>5. HeldFenceless => Fenceless(first)
  <2>1. ASSUME HeldFenceless PROVE Fenceless(L.heldFirst)
    BY <1>3, <2>1 DEF HeldFenceless, Holds
  <2> QED BY <1>3, <1>4, <2>1, FencelessAppend
<1> HIDE DEF first
<1>6. /\ DOMAIN M = Fields /\ M.oldest = L.oldest /\ M.nextSpan = L.nextSpan
      /\ M.kicks = L.kicks /\ M.closed = L.closed /\ M.spans = L.spans
      /\ M.failedSpan = L.failedSpan /\ Bracket(M, L) /\ M.heldFirst = first
      /\ M.held = L.held
  BY <1>3, FieldNames DEF Bracket
<1> HIDE DEF M
<1>7. Onward(M, ledger) /\ EntriesStay(M, ledger)
  BY <1>2, <1>6, BesideEntries
<1>8. Aside
  BY <1>1, <1>3, <1>6, <1>7 DEF Aside, Bracket
<1>9. ASSUME HeldFenceless PROVE HeldFenceless'
  BY <1>1, <1>3, <1>5, <1>6, <1>9 DEF HeldFenceless, Holds
<1> QED BY <1>8, <1>9

\* The device bracket keeps the records and the side buffers.
DeviceOnly ==
    /\ Onward(ledger', ledger) /\ EntriesStay(ledger', ledger) /\ Holds(ledger', ledger)
    /\ ledger'.writeback = ledger.writeback

\* Whose the device is when the open span keeps its records.
Handed ==
    /\ Accepting(ledger') /\ ledger'.ownerSwapThread # NoThread => ledger'.suspended
    /\ \/ ledger'.ownerSwapThread \in {ledger.ownerSwapThread, NoThread}
       \/ ledger'.failedSpan = 0 => ledger.spans[Back(ledger)].records = <<>>

LEMMA DeviceStep ==
    ASSUME Now, NEW M, DOMAIN M = Fields, M.oldest = ledger.oldest,
           M.nextSpan = ledger.nextSpan, M.kicks = ledger.kicks,
           M.closed = ledger.closed, M.spans = ledger.spans,
           M.failedSpan \in {ledger.failedSpan, FailAt(ledger, Back(ledger)).failedSpan},
           Holds(M, ledger), M.writeback = ledger.writeback,
           NEW id, NEW t, ledger' = M \/ ledger' = [M EXCEPT !.spans[id].thread = t]
    PROVE  DeviceOnly
<1>1. Path(ledger, clock)
  BY TickSafe, SteadyRefl DEF Path, Now, Safe, Typed
<1>2. /\ Onward(M, ledger) /\ EntriesStay(M, ledger)
      /\ Onward([M EXCEPT !.spans[id].thread = t], ledger)
      /\ EntriesStay([M EXCEPT !.spans[id].thread = t], ledger)
  BY <1>1, BesideEntries
<1>3. Holds(ledger', ledger) /\ ledger'.writeback = ledger.writeback
  BY FieldNames DEF Holds
<1> QED BY <1>2, <1>3 DEF DeviceOnly

LEMMA FailedDevice ==
    ASSUME Now, ledger' = FailAt(ledger, Back(ledger))
    PROVE  /\ DeviceOnly /\ Handed /\ ~Accepting(ledger')
           /\ ledger'.suspended = ledger.suspended
           /\ ledger'.ownerSwapThread = ledger.ownerSwapThread
<1>1. Typed(ledger, clock) /\ DOMAIN ledger = Fields
  BY DEF Now, Safe, Typed, Shaped
<1>2. Steady(ledger', ledger)
  BY <1>1, FailBackSteady
<1>3. ~Accepting(ledger')
  <2>1. Back(ledger) # 0
    BY <1>1, BackTypes DEF Typed, Shaped, Live
  <2> QED BY <1>1, <2>1, FieldNames DEF FailAt, Accepting
<1> QED BY <1>2, <1>3 DEF Steady, DeviceOnly, Handed, Bracket

LEMMA DeviceHanded ==
    ASSUME Now, NEW t \in Threads, DeviceOps(t),
           Accepting(ledger) /\ ledger.ownerSwapThread # NoThread => ledger.suspended
    PROVE  DeviceOnly /\ Handed
<1> DEFINE b == Back(ledger)
           F == FailAt(ledger, b)
<1>1. /\ Typed(ledger, clock) /\ DOMAIN ledger = Fields /\ b # 0
      /\ NoThread \notin Threads
  BY BackTypes, LedgerAssumption DEF Now, Safe, Typed, Shaped, Live, LedgerAssumption
<1>2. /\ DOMAIN F = Fields /\ F.oldest = ledger.oldest
      /\ F.nextSpan = ledger.nextSpan /\ F.kicks = ledger.kicks
      /\ F.closed = ledger.closed /\ F.spans = ledger.spans /\ Bracket(F, ledger)
      /\ Holds(F, ledger) /\ F.failedSpan # 0
  BY <1>1, FieldNames DEF FailAt, Bracket, Holds
<1>3. CASE ledger' = F
  BY <1>3, FailedDevice
<1>4. Accepting(ledger) <=> ~ledger.closed /\ ledger.failedSpan = 0
  BY DEF Accepting
<1> HIDE DEF b
<1>5. CASE Suspend \/ Resume
  <2>1. PICK L \in {ledger, F}, on \in BOOLEAN :
          /\ ledger' = [L EXCEPT !.suspended = on]
          /\ ~on => L = F \/ ledger.ownerSwapThread = NoThread
    BY <1>5 DEF Suspend, Resume, b
  <2> HIDE DEF F
  <2> DEFINE M == [L EXCEPT !.suspended = on]
  <2>2. /\ DOMAIN M = Fields /\ M.oldest = ledger.oldest
        /\ M.nextSpan = ledger.nextSpan /\ M.kicks = ledger.kicks
        /\ M.closed = ledger.closed /\ M.spans = ledger.spans
        /\ M.failedSpan = L.failedSpan /\ Holds(M, ledger)
        /\ M.writeback = ledger.writeback /\ M.suspended = on
        /\ M.ownerSwapThread = ledger.ownerSwapThread
    BY <1>1, <1>2, <2>1, FieldNames DEF Bracket, Holds
  <2> HIDE DEF M
  <2>3. DeviceOnly
    BY <1>1, <2>1, <2>2, DeviceStep DEF F, M, b
  <2>4. Handed
    BY <1>2, <2>1, <2>2 DEF Handed, M, Accepting
  <2> QED BY <2>3, <2>4
<1>6. CASE AcquireDevice(t)
  <2> DEFINE M == [ledger EXCEPT !.deviceOwner = t]
             N == [M EXCEPT !.spans[b].thread = t]
  <2>1. ledger' = M \/ ledger' = F \/ ledger' = N
    BY <1>6 DEF AcquireDevice, b
  <2>2. /\ DOMAIN M = Fields /\ M.oldest = ledger.oldest /\ M.nextSpan = ledger.nextSpan
        /\ M.kicks = ledger.kicks /\ M.closed = ledger.closed
        /\ M.spans = ledger.spans /\ M.failedSpan = ledger.failedSpan
        /\ Bracket(M, ledger) /\ Holds(M, ledger)
    BY <1>1, FieldNames DEF Bracket, Holds
  <2> HIDE DEF M
  <2>3. CASE ledger' = M \/ ledger' = N
    <3>1. DeviceOnly
      BY <2>2, <2>3, DeviceStep DEF Bracket
    <3>2. /\ ledger'.suspended = ledger.suspended
          /\ ledger'.ownerSwapThread = ledger.ownerSwapThread
          /\ ledger'.failedSpan = ledger.failedSpan /\ ledger'.closed = ledger.closed
      BY <2>2, <2>3, FieldNames DEF Bracket
    <3> QED BY <1>4, <3>1, <3>2 DEF Handed, Accepting
  <2> QED BY <1>3, <2>1, <2>3
<1>7. CASE ReleaseDevice(t)
  <2> DEFINE A == AbandonOpenResolve(ledger, t)
             owner == IF A.deviceOwner = t THEN NoThread ELSE A.deviceOwner
             M == [A EXCEPT !.deviceOwner = owner]
  <2>1. ledger' = M
    BY <1>7, Zenon DEF ReleaseDevice
  <2>2. Typed(A, clock) /\ Steady(A, ledger)
    BY <1>1, AbandonOpenResolveTyped, AbandonOpenResolveSteady
  <2> HIDE DEF A, owner
  <2>3. Steady(M, A)
    BY <2>2, OtherFieldSteady, FieldNames DEF Typed, Shaped, Failing, Bracket, Holds
  <2>4. Steady(ledger', ledger)
    BY <2>1, <2>2, <2>3, SteadyOn
  <2>5. ledger'.closed = ledger.closed /\ (ledger'.failedSpan = 0 => ledger.failedSpan = 0)
    BY <2>4 DEF Steady, Onward, Same, Rewrites
  <2> QED BY <1>4, <2>4, <2>5 DEF Steady, Bracket, DeviceOnly, Handed, Accepting
<1>8. CASE BeginDeviceOwnerSwap(t)
  <2> DEFINE M == [ledger EXCEPT !.ownerSwapThread = t, !.ownerSwapSawSwap = FALSE]
             N == [M EXCEPT !.spans[b].thread = t]
  <2>1. \/ ledger' = F
        \/ ledger' = N /\ ledger.suspended /\ ledger.spans[b].records = <<>>
    BY <1>8 DEF BeginDeviceOwnerSwap, b
  <2>2. /\ DOMAIN M = Fields /\ M.oldest = ledger.oldest /\ M.nextSpan = ledger.nextSpan
        /\ M.kicks = ledger.kicks /\ M.closed = ledger.closed
        /\ M.spans = ledger.spans /\ M.failedSpan = ledger.failedSpan
        /\ Holds(M, ledger) /\ M.writeback = ledger.writeback
        /\ M.suspended = ledger.suspended
    BY <1>1, FieldNames DEF Holds
  <2> HIDE DEF M
  <2>3. CASE ledger' = N /\ ledger.suspended /\ ledger.spans[b].records = <<>>
    <3>1. DeviceOnly
      BY <2>2, <2>3, DeviceStep
    <3>2. ledger'.suspended
      BY <2>2, <2>3, FieldNames
    <3> QED BY <2>3, <3>1, <3>2 DEF Handed, b
  <2> QED BY <1>3, <2>1, <2>3
<1>9. CASE EndDeviceOwnerSwap(t)
  <2> DEFINE M == [ledger EXCEPT !.ownerSwapThread = NoThread]
             N == [M EXCEPT !.spans[b].thread = NoThread]
  <2>1. ledger' = F \/ ledger' = N
    BY <1>9 DEF EndDeviceOwnerSwap, b
  <2>2. /\ DOMAIN M = Fields /\ M.oldest = ledger.oldest /\ M.nextSpan = ledger.nextSpan
        /\ M.kicks = ledger.kicks /\ M.closed = ledger.closed
        /\ M.spans = ledger.spans /\ M.failedSpan = ledger.failedSpan
        /\ Holds(M, ledger) /\ M.writeback = ledger.writeback
        /\ M.ownerSwapThread = NoThread
    BY <1>1, FieldNames DEF Holds
  <2> HIDE DEF M
  <2>3. CASE ledger' = N
    <3>1. DeviceOnly
      BY <2>2, <2>3, DeviceStep
    <3>2. ledger'.ownerSwapThread = NoThread
      BY <2>2, <2>3, FieldNames
    <3> QED BY <3>1, <3>2 DEF Handed
  <2> QED BY <1>3, <2>1, <2>3
<1> QED BY <1>5, <1>6, <1>7, <1>8, <1>9 DEF DeviceOps

\* A registered block names every fence, or the session fails.
LEMMA RegisterEntries ==
    ASSUME Now, NEW block \in Blocks, RegisterWriteback(block)
    PROVE  /\ Onward(ledger', ledger) /\ EntriesStay(ledger', ledger)
           /\ Holds(ledger', ledger)
           /\ ledger'.suspended = ledger.suspended
           /\ ledger'.ownerSwapThread = ledger.ownerSwapThread
           /\ ledger'.writeback = block /\ block # 0 /\ clock' = clock
           /\ ledger'.failedSpan = 0 =>
                 \A id \in Live(ledger) : \A i \in DOMAIN ledger.spans[id].records :
                    ledger.spans[id].records[i].kind = "Fence"
                    => ledger.spans[id].records[i].block = block
<1> DEFINE L == [ledger EXCEPT !.writeback = block]
           bad == {id \in Live(L) : \E i \in DOMAIN L.spans[id].records :
                      /\ L.spans[id].records[i].kind = "Fence"
                      /\ L.spans[id].records[i].block # block}
<1>1. ledger' = (IF bad = {} THEN L ELSE FailAt(L, OldestOf(bad))) /\ clock' = clock
  BY DEF RegisterWriteback
<1>2. Typed(ledger, clock) /\ block # 0
  BY LedgerAssumption DEF Now, Safe, LedgerAssumption
<1>3. /\ DOMAIN L = Fields /\ L.oldest = ledger.oldest /\ L.nextSpan = ledger.nextSpan
      /\ L.spans = ledger.spans /\ L.failedSpan = ledger.failedSpan
      /\ L.suspended = ledger.suspended /\ L.ownerSwapThread = ledger.ownerSwapThread
      /\ L.writeback = block /\ Holds(L, ledger)
  BY <1>2, FieldNames DEF Typed, Shaped, Holds
<1>4. bad = {} => \A id \in Live(ledger) : \A i \in DOMAIN ledger.spans[id].records :
                     ledger.spans[id].records[i].kind = "Fence"
                     => ledger.spans[id].records[i].block = block
  BY <1>3 DEF Live
<1>5. bad \subseteq Live(L) /\ Live(L) \subseteq Nat \ {0}
  BY <1>2, <1>3 DEF Typed, Shaped, Live
<1> HIDE DEF L, bad
<1>6. bad # {} => OldestOf(bad) # 0
  <2>1. bad # {} => OldestOf(bad) \in bad
    BY <1>5, OldestExists DEF OldestOf
  <2> QED BY <1>5, <2>1
<1>7. bad # {} => ledger'.failedSpan # 0
  BY <1>1, <1>3, <1>6, FieldNames DEF FailAt
<1>8. /\ ledger'.spans = ledger.spans /\ Holds(ledger', ledger)
      /\ ledger'.suspended = ledger.suspended
      /\ ledger'.ownerSwapThread = ledger.ownerSwapThread
      /\ ledger'.writeback = block
  BY <1>1, <1>3, FieldNames DEF FailAt, Holds
<1>9. EntriesStay(ledger', ledger)
  BY <1>8, EntriesSame DEF EntriesStay
<1> QED BY <1>1, <1>2, <1>4, <1>7, <1>8, <1>9, RegisterOnward

-----------------------------------------------------------------------------
(* Submits: the records of one side buffer join the span that closes.      *)

\* The entries of recs, and nothing else, joined a span.
Gains(new, old, recs) ==
    /\ Carries(new, old)
    /\ Len(old.records) \in Nat /\ Len(recs) \in Nat
    /\ DOMAIN old.records = 1 .. Len(old.records) /\ DOMAIN recs = 1 .. Len(recs)
    /\ DOMAIN new.records = 1 .. (Len(old.records) + Len(recs))
    /\ \A i \in 1 .. Len(recs) : new.records[Len(old.records) + i] = recs[i]

Gives(M, L) ==
    /\ Bracket(M, L) /\ M.closed = L.closed /\ Failing(M, L)
    /\ M.oldest = L.oldest
    /\ \A id \in Live(L) :
          /\ Carries(M.spans[id], L.spans[id])
          /\ id # Back(L) => DOMAIN M.spans[id].records = DOMAIN L.spans[id].records
    /\ \/ DOMAIN M.spans[Back(L)].records = DOMAIN L.spans[Back(L)].records
       \/ \E s \in Segments :
             /\ Gains(M.spans[Back(L)], L.spans[Back(L)], L.held[s])
             /\ M.held[s] = <<>>
    /\ \A s \in Segments : M.held[s] = L.held[s] \/ M.held[s] = <<>>
    /\ M.heldFirst = L.heldFirst

\* Either nothing joined or a fresh span is open.
Joins(M, L) ==
    /\ Gives(M, L)
    /\ \/ M.nextSpan = L.nextSpan
          /\ DOMAIN M.spans[Back(L)].records = DOMAIN L.spans[Back(L)].records
       \/ M.nextSpan = L.nextSpan + 1 /\ M.spans[L.nextSpan] = EmptySpan

LEMMA SteadyGives ==
    ASSUME NEW L, NEW M, Steady(M, L), Back(L) \in Live(L)
    PROVE  Gives(M, L) /\ Joins(M, L)
<1>1. \A id \in Live(L) : SameEntries(M.spans[id], L.spans[id])
  BY DEF Steady, EntriesStay
<1>2. /\ Bracket(M, L) /\ Holds(M, L) /\ M.closed = L.closed /\ Failing(M, L)
      /\ M.oldest = L.oldest /\ M.nextSpan = L.nextSpan
  BY DEF Steady, Onward, Same, Rewrites, Failing
<1> QED BY <1>1, <1>2 DEF Gives, Joins, SameEntries, Holds

LEMMA AttachHeldGives ==
    ASSUME NEW c, NEW L, Typed(L, c), NEW A, Typed(A, c), Steady(A, L),
           NEW s \in Segments
    PROVE  Gives(AttachHeld(A, s), L) /\ Onward(AttachHeld(A, s), L)
<1> DEFINE recs == A.held[s]
           M == AppendRecords(A, recs)
           b == Back(A)
           list == IF A.heldList[s] # 0 THEN A.heldList[s] ELSE M.spans[b].startsList
           N == [M EXCEPT !.held[s] = <<>>, !.heldList[s] = 0]
           P == [N EXCEPT !.spans[b].startsList = list]
<1>1. /\ recs \in Seq(RecordTo(c)) /\ A.held \in [Segments -> Seq(RecordTo(c))]
      /\ recs = L.held[s] /\ A.held = L.held /\ A.heldFirst = L.heldFirst
  BY DEF Typed, Others, Steady, Holds
<1>2. Onward(AttachHeld(A, s), L)
  BY AttachHeldOnward, OnwardOn DEF Steady
<1>3. Live(A) = Live(L) /\ b = Back(L) /\ b \in Live(L) /\ A.oldest = L.oldest
      /\ Shaped(A) /\ DOMAIN A = Fields
  BY SteadyLive, BackTypes DEF Steady, Onward, Same, Typed, Shaped
<1>4. Typed(M, c) /\ Appended(M, A, recs)
  BY <1>1, AppendRecordsTyped, Appends
<1>5. AttachHeld(A, s) = P
  <2>1. N.spans = M.spans
    BY <1>4, FieldNames DEF Typed, Shaped
  <2> QED BY <2>1 DEF AttachHeld
<1>6. Bracket(M, A)
  BY <1>3, FieldNames DEF AppendRecords, Bracket
<1>7. /\ Bracket(N, M) /\ N.spans = M.spans /\ N.heldFirst = M.heldFirst
      /\ N.held = [M.held EXCEPT ![s] = <<>>] /\ Shaped(N)
  <2>1. DOMAIN M = Fields /\ Shaped(M)
    BY <1>4 DEF Typed, Shaped
  <2> HIDE DEF M
  <2> QED BY <2>1, FieldNames DEF Bracket, Shaped, Live
<1> HIDE DEF M
<1>8. M.held = A.held /\ M.heldFirst = A.heldFirst /\ Live(M) = Live(A)
  BY <1>4 DEF Appended
<1>9. Live(N) = Live(A)
  <2>1. DOMAIN M = Fields
    BY <1>4 DEF Typed, Shaped
  <2>2. N.oldest = M.oldest /\ N.nextSpan = M.nextSpan
    BY <2>1, FieldNames
  <2> QED BY <1>8, <2>2 DEF Live
<1> HIDE DEF N, list
<1>10. Steady(P, N)
  BY <1>7, FieldSteady
<1> HIDE DEF P
<1>11. /\ Bracket(P, L) /\ P.heldFirst = L.heldFirst
       /\ P.held = [L.held EXCEPT ![s] = <<>>]
  BY <1>1, <1>6, <1>7, <1>8, <1>10 DEF Steady, Bracket, Holds
<1>12. /\ \A other \in Segments : P.held[other] = L.held[other] \/ P.held[other] = <<>>
       /\ P.held[s] = <<>>
  BY <1>1, <1>11
<1>13. ASSUME NEW id \in Live(L)
       PROVE  SameEntries(A.spans[id], L.spans[id]) /\ SameEntries(P.spans[id], M.spans[id])
  BY <1>3, <1>7, <1>9, <1>10 DEF Steady, EntriesStay
<1>14. ASSUME NEW id \in Live(L), id # b
       PROVE  SameEntries(P.spans[id], L.spans[id])
  <2>1. M.spans[id] = A.spans[id]
    BY <1>3, <1>4, <1>14 DEF Appended
  <2> QED BY <1>13, <2>1, EntriesOn
<1>15. Gains(P.spans[b], L.spans[b], recs)
  <2> DEFINE last == P.spans[b]
             new == M.spans[b]
             mid == A.spans[b]
             old == L.spans[b]
             n == Len(mid.records)
  <2>1. Longer(new, mid, recs)
    BY <1>4 DEF Appended
  <2>2. SameEntries(mid, old) /\ SameEntries(last, new)
    BY <1>3, <1>13
  <2>3. old.records \in Seq(RecordTo(c))
    <3>1. old \in SpanTo(c)
      BY <1>3, SpanOfLedger
    <3> QED BY <3>1 DEF SpanTo
  <2>4. last.records = new.records
    <3>1. b \in Live(N) /\ DOMAIN N = Fields /\ DOMAIN N.spans = Live(N)
          /\ DOMAIN N.spans[b] = SpanFields
      BY <1>3, <1>7, <1>9 DEF Shaped
    <3>2. P.spans[b].records = N.spans[b].records
      BY <3>1, FieldNames, SpanFieldNames DEF P
    <3> QED BY <1>7, <3>2
  <2> HIDE DEF last, new, mid, old, recs
  <2>5. DOMAIN old.records = 1 .. Len(old.records) /\ Len(old.records) \in Nat
    BY <2>3
  <2>6. /\ n \in Nat /\ DOMAIN mid.records = 1 .. n
        /\ Len(recs) \in Nat /\ DOMAIN recs = 1 .. Len(recs)
        /\ DOMAIN new.records = 1 .. (n + Len(recs))
        /\ \A i \in 1 .. n : new.records[i] = mid.records[i]
        /\ \A i \in 1 .. Len(recs) : new.records[n + i] = recs[i]
    BY <2>1 DEF Longer
  <2>7. n = Len(old.records)
    <3>1. 1 .. n = 1 .. Len(old.records)
      BY <2>2, <2>5, <2>6 DEF SameEntries
    <3>2. n \in 1 .. n <=> n \in 1 .. Len(old.records)
      BY <3>1
    <3>3. Len(old.records) \in 1 .. n <=> Len(old.records) \in 1 .. Len(old.records)
      BY <3>1
    <3> QED BY <2>5, <2>6, <3>2, <3>3
  <2> HIDE DEF n
  <2>8. Carries(last, old)
    <3>1. ASSUME NEW i \in DOMAIN old.records
          PROVE  i \in DOMAIN last.records /\ SameEntry(last.records[i], old.records[i])
      <4>1. i \in 1 .. n /\ SameEntry(mid.records[i], old.records[i])
        BY <2>2, <2>5, <2>7 DEF SameEntries, Carries
      <4>2. new.records[i] = mid.records[i] /\ i \in DOMAIN new.records
        BY <2>6, <4>1
      <4> QED BY <2>4, <4>1, <4>2
    <3> QED BY <3>1 DEF Carries
  <2> QED BY <2>4, <2>5, <2>6, <2>7, <2>8 DEF Gains, last, old
<1>16. P.closed = L.closed /\ Failing(P, L) /\ P.oldest = L.oldest
  BY <1>2, <1>5 DEF Onward, Same, Rewrites, Failing
<1>17. Gives(P, L)
  <2>1. \A id \in Live(L) : Carries(P.spans[id], L.spans[id])
    BY <1>14, <1>15 DEF Gains, SameEntries
  <2>2. \A id \in Live(L) : id # Back(L) => DOMAIN P.spans[id].records = DOMAIN L.spans[id].records
    BY <1>3, <1>14 DEF SameEntries
  <2> QED BY <1>1, <1>3, <1>11, <1>12, <1>15, <1>16, <2>1, <2>2 DEF Gives
<1> QED BY <1>2, <1>5, <1>17

\* What opens after the submit is a fresh span.
LEMMA ClosingJoins ==
    ASSUME NEW c, NEW L, Typed(L, c), NEW M, Gives(M, L), Onward(M, L), NEW N,
           DOMAIN N = Fields, N.oldest = L.oldest, N.nextSpan = L.nextSpan,
           N.closed = M.closed, N.failedSpan = M.failedSpan,
           Bracket(N, M), Holds(N, M),
           N.spans[Back(L)].records = M.spans[Back(L)].records,
           \A id \in Live(L) : id # Back(L) => N.spans[id] = M.spans[id]
    PROVE  /\ Joins(OpenSpan(N), L)
           /\ OpenSpan(N).oldest = L.oldest /\ OpenSpan(N).nextSpan = L.nextSpan + 1
           /\ OpenSpan(N).kicks = N.kicks /\ OpenSpan(N).closed = N.closed
           /\ \A id \in Live(L) : OpenSpan(N).spans[id] = N.spans[id]
<1> DEFINE O == OpenSpan(N)
<1>1. L.oldest \in Nat /\ L.nextSpan \in Nat /\ L.oldest < L.nextSpan
      /\ Back(L) \in Live(L)
  BY BackTypes DEF Typed, Shaped
<1>2. /\ O.failedSpan = N.failedSpan /\ O.closed = N.closed /\ O.oldest = L.oldest
      /\ O.kicks = N.kicks
      /\ O.nextSpan = L.nextSpan + 1 /\ Bracket(O, N) /\ Holds(O, N)
      /\ O.spans = [id \in N.oldest .. N.nextSpan |->
                       IF id = N.nextSpan THEN EmptySpan ELSE N.spans[id]]
  BY FieldNames DEF OpenSpan, Bracket, Holds
<1> HIDE DEF O
<1>3. /\ O.spans[L.nextSpan] = EmptySpan
      /\ \A id \in Live(L) : O.spans[id] = N.spans[id]
  BY <1>1, <1>2 DEF Live
<1>4. \A id \in Live(L) : O.spans[id].records = M.spans[id].records
  BY <1>3
<1>5. Gives(O, L)
  <2>1. \A id \in Live(L) : Carries(O.spans[id], L.spans[id])
    BY <1>4 DEF Gives, Carries
  <2>2. \A s \in Segments : Gains(M.spans[Back(L)], L.spans[Back(L)], L.held[s])
                            => Gains(O.spans[Back(L)], L.spans[Back(L)], L.held[s])
    BY <1>1, <1>4, <2>1 DEF Gains
  <2>3. \A id \in Live(L) : id # Back(L) => DOMAIN O.spans[id].records = DOMAIN L.spans[id].records
    BY <1>4 DEF Gives
  <2>4. /\ Bracket(O, L) /\ O.closed = L.closed /\ Failing(O, L)
        /\ O.held = M.held /\ O.heldFirst = M.heldFirst
    BY <1>2 DEF Gives, Bracket, Holds, Failing
  <2>5. \/ DOMAIN O.spans[Back(L)].records = DOMAIN L.spans[Back(L)].records
        \/ \E s \in Segments : /\ Gains(O.spans[Back(L)], L.spans[Back(L)], L.held[s])
                               /\ O.held[s] = <<>>
    BY <1>1, <1>4, <2>2, <2>4 DEF Gives
  <2>6. \A s \in Segments : O.held[s] = L.held[s] \/ O.held[s] = <<>>
    BY <2>4 DEF Gives
  <2> QED BY <1>2, <2>1, <2>3, <2>4, <2>5, <2>6 DEF Gives
<1>6. Joins(O, L)
  BY <1>2, <1>3, <1>5 DEF Joins
<1> QED BY <1>2, <1>3, <1>6 DEF O

-----------------------------------------------------------------------------
(* The kicks of the window, in turn. *)

InTurn(L) ==
    \A i, j \in Live(L) :
        /\ i < j
        /\ L.spans[i].deferred # NoSegment /\ L.spans[j].deferred # NoSegment
        /\ L.spans[j].kicked # 0
        => L.spans[i].kicked \in 1 .. (L.spans[j].kicked - 1)

Turned(L) == InTurn(L) /\ \A id \in Live(L) : L.spans[id].kicked <= L.kicks

\* No span has the kick that comes now.
Early(L) == InTurn(L) /\ \A id \in Live(L) : L.spans[id].kicked < L.kicks

LEMMA OnwardTurned ==
    ASSUME NEW L, NEW M, Onward(M, L), Turned(L)
    PROVE  Turned(M)
<1>1. Live(M) = Live(L) /\ M.kicks = L.kicks
  BY OnwardLive DEF Onward, Same
<1>2. \A id \in Live(L) : /\ M.spans[id].kicked = L.spans[id].kicked
                          /\ M.spans[id].deferred = L.spans[id].deferred
  BY DEF Onward, Same, Kept
<1> QED BY <1>1, <1>2 DEF Turned, InTurn

LEMMA EarlyTurned ==
    ASSUME NEW c, NEW L, Typed(L, c), Early(L)
    PROVE  Turned(L)
<1>1. \A id \in Live(L) : L.spans[id].kicked \in Nat
  BY DEF Typed, SpanTo
<1>2. L.kicks \in Nat
  BY DEF Typed, Shaped
<1> QED BY <1>1, <1>2 DEF Turned, Early

\* The open span closes and a fresh one opens.
LEMMA CloseTurned ==
    ASSUME NEW c, NEW L, Typed(L, c), Turned(L), NEW O, O.oldest = L.oldest,
           O.nextSpan = L.nextSpan + 1, O.spans[L.nextSpan] = EmptySpan,
           O.kicks = L.kicks,
           \A id \in Live(L) : id # Back(L) =>
              /\ O.spans[id].kicked = L.spans[id].kicked
              /\ O.spans[id].deferred = L.spans[id].deferred,
           O.spans[Back(L)].kicked \in {0, O.kicks},
           \/ O.spans[Back(L)].kicked = 0
           \/ O.spans[Back(L)].deferred = NoSegment
    PROVE  Turned(O)
<1>1. L.oldest \in Nat /\ L.nextSpan \in Nat /\ L.kicks \in Nat
  BY DEF Typed, Shaped
<1>2. \A id \in Live(O) : \/ id \in Live(L) /\ id # Back(L)
                          \/ id = Back(L) \/ id = L.nextSpan
  BY <1>1 DEF Live, Back
<1>3. O.spans[L.nextSpan].kicked = 0 /\ O.spans[L.nextSpan].deferred = NoSegment
  BY DEF EmptySpan
<1>4. \A id \in Live(O) : O.spans[id].kicked <= O.kicks
  BY <1>1, <1>2, <1>3 DEF Turned
<1>5. \A i, j \in Live(O) : i < j => i \in Live(L)
  BY <1>1 DEF Live
<1>6. InTurn(O)
  <2> SUFFICES ASSUME NEW i \in Live(O), NEW j \in Live(O), i < j,
                      O.spans[i].deferred # NoSegment, O.spans[j].deferred # NoSegment,
                      O.spans[j].kicked # 0
               PROVE  O.spans[i].kicked \in 1 .. (O.spans[j].kicked - 1)
    BY DEF InTurn
  <2>1. j \in Live(L) /\ j # Back(L)
    BY <1>2, <1>3
  <2>2. i \in Live(L) /\ i # Back(L)
    BY <1>1, <1>5, <2>1 DEF Live, Back
  <2> QED BY <2>1, <2>2 DEF Turned, InTurn
<1> QED BY <1>4, <1>6 DEF Turned

\* The worker's kick goes to the oldest span that waits for one.
LEMMA OldestTurned ==
    ASSUME NEW c, NEW L, Typed(L, c), Early(L), NEW id \in Unsubmitted(L),
           \A other \in Unsubmitted(L) : id <= other,
           NEW M, M.oldest = L.oldest, M.nextSpan = L.nextSpan, M.kicks = L.kicks,
           M.spans[id].kicked = L.kicks, M.spans[id].deferred = L.spans[id].deferred,
           \A other \in Live(L) : other # id => M.spans[other] = L.spans[other]
    PROVE  Turned(M)
<1>1. /\ L.kicks \in Nat /\ Live(L) \subseteq Nat /\ Live(M) = Live(L)
      /\ \A other \in Live(L) : L.spans[other].kicked \in Nat
      /\ id \in Live(L) /\ L.spans[id].deferred # NoSegment /\ L.spans[id].kicked = 0
  <2>1. L.kicks \in Nat /\ Live(L) \subseteq Nat /\ Live(M) = Live(L)
    BY DEF Typed, Shaped, Live
  <2>2. \A other \in Live(L) : L.spans[other].kicked \in Nat
    BY DEF Typed, SpanTo
  <2> QED BY <2>1, <2>2 DEF Unsubmitted
<1>2. \A other \in Live(L) : M.spans[other].kicked <= L.kicks
  BY <1>1 DEF Early
<1>3. \A other \in Live(L) : M.spans[other].deferred = L.spans[other].deferred
  OBVIOUS
<1>4. InTurn(M)
  <2> SUFFICES ASSUME NEW i \in Live(L), NEW j \in Live(L), i < j,
                      L.spans[i].deferred # NoSegment, L.spans[j].deferred # NoSegment,
                      M.spans[j].kicked # 0
               PROVE  M.spans[i].kicked \in 1 .. (M.spans[j].kicked - 1)
    BY <1>1, <1>3 DEF InTurn
  <2>1. CASE j = id
    <3>1. i # id /\ i \notin Unsubmitted(L)
      BY <1>1, <2>1
    <3>2. L.spans[i].kicked # 0 /\ L.spans[i].kicked < L.kicks
      BY <3>1 DEF Unsubmitted, Early
    <3> QED BY <1>1, <2>1, <3>1, <3>2
  <2>2. CASE j # id
    <3>1. L.spans[i].kicked \in 1 .. (L.spans[j].kicked - 1)
      BY <2>2 DEF Early, InTurn
    <3>2. i # id
      BY <1>1, <3>1
    <3> QED BY <2>2, <3>1, <3>2
  <2> QED BY <2>1, <2>2
<1> QED BY <1>1, <1>2, <1>4 DEF Turned

-----------------------------------------------------------------------------
(* Kicks, silent submits and deferrals. *)

LEMMA SteadyTurned ==
    ASSUME NEW c, NEW L, Typed(L, c), Turned(L), NEW M, Steady(M, L)
    PROVE  Joins(M, L) /\ Turned(M)
BY BackTypes, SteadyGives, OnwardTurned DEF Steady, Typed

LEMMA WorkerKickJoins ==
    ASSUME NEW c, NEW L, Typed(L, c), Early(L), NEW p
    PROVE  Joins(WorkerKick(L, p), L) /\ Turned(WorkerKick(L, p))
<1> DEFINE waiting == Unsubmitted(L)
           oldest == OldestOf(waiting)
           Fits(M) == Joins(M, L) /\ Turned(M)
<1>1. Shaped(L) /\ Turned(L) /\ Back(L) \in Live(L)
  BY EarlyTurned, BackTypes DEF Typed
<1>2. waiting \subseteq Live(L) /\ waiting \subseteq Nat
  BY <1>1 DEF Unsubmitted, Live, Shaped
<1>3. waiting # {} => oldest \in waiting /\ \A other \in waiting : oldest <= other
  <2> HIDE DEF waiting
  <2> QED BY <1>2, OldestExists DEF OldestOf
<1>4. ASSUME NEW M, Steady(M, L) PROVE Fits(M)
  BY <1>1, <1>4, SteadyTurned
<1>5. ASSUME NEW id \in waiting, \A other \in waiting : id <= other
      PROVE  Fits(StartList([L EXCEPT !.spans[id].kicked = L.kicks], id))
  <2> DEFINE N == [L EXCEPT !.spans[id].kicked = L.kicks]
             M == StartList(N, id)
  <2>1. id \in Live(L) /\ DOMAIN L = Fields /\ DOMAIN L.spans = Live(L)
        /\ DOMAIN L.spans[id] = SpanFields
    BY <1>1, <1>2 DEF Shaped
  <2>2. /\ DOMAIN N = Fields /\ N.oldest = L.oldest /\ N.nextSpan = L.nextSpan
        /\ N.kicks = L.kicks /\ N.closed = L.closed /\ N.failedSpan = L.failedSpan
        /\ Bracket(N, L) /\ Holds(N, L)
        /\ \A other \in Live(L) : other # id => N.spans[other] = L.spans[other]
        /\ N.spans[id] = [L.spans[id] EXCEPT !.kicked = L.kicks]
    BY <2>1, FieldNames DEF Bracket, Holds
  <2>3. /\ N.spans[id].records = L.spans[id].records
        /\ N.spans[id].deferred = L.spans[id].deferred
        /\ N.spans[id].kicked = L.kicks
    BY <2>1, <2>2, SpanFieldNames
  <2> HIDE DEF N
  <2>4. /\ M.spans = N.spans /\ M.nextSpan = N.nextSpan /\ M.oldest = N.oldest
        /\ M.kicks = N.kicks /\ M.closed = N.closed /\ M.failedSpan = N.failedSpan
        /\ Bracket(M, N) /\ Holds(M, N)
    BY <2>2, FieldNames DEF StartList, Bracket, Holds
  <2> HIDE DEF M, waiting
  <2>5. Turned(M)
    <3>1. id \in Unsubmitted(L) /\ \A other \in Unsubmitted(L) : id <= other
      BY <1>5 DEF waiting
    <3>2. /\ M.oldest = L.oldest /\ M.nextSpan = L.nextSpan /\ M.kicks = L.kicks
          /\ M.spans[id].kicked = L.kicks /\ M.spans[id].deferred = L.spans[id].deferred
          /\ \A other \in Live(L) : other # id => M.spans[other] = L.spans[other]
      BY <2>2, <2>3, <2>4
    <3> QED BY <3>1, <3>2, OldestTurned
  <2>6. \A other \in Live(L) : SameEntries(M.spans[other], L.spans[other])
    <3>1. \A other \in Live(L) : M.spans[other].records = L.spans[other].records
      BY <2>2, <2>3, <2>4
    <3> QED BY <3>1, EntriesSame
  <2>7. /\ Bracket(M, L) /\ M.closed = L.closed /\ Failing(M, L) /\ M.oldest = L.oldest
        /\ M.held = L.held /\ M.heldFirst = L.heldFirst /\ M.nextSpan = L.nextSpan
    BY <2>2, <2>4 DEF Bracket, Holds, Failing
  <2>8. Joins(M, L)
    BY <1>1, <2>6, <2>7 DEF Joins, Gives, SameEntries
  <2>9. Fits(M)
    BY <2>5, <2>8
  <2> QED BY <2>9 DEF M, N
<1>6. Fits([L EXCEPT !.replayPointer = L.kicks])
  <2> DEFINE M == [L EXCEPT !.replayPointer = L.kicks]
  <2>1. /\ DOMAIN M = Fields /\ M.oldest = L.oldest /\ M.nextSpan = L.nextSpan
        /\ M.kicks = L.kicks /\ M.closed = L.closed
        /\ M.spans = L.spans /\ Failing(M, L) /\ Bracket(M, L) /\ Holds(M, L)
    BY <1>1, FieldNames DEF Shaped, Failing, Bracket, Holds
  <2> HIDE DEF M
  <2>2. Steady(M, L)
    BY <1>1, <2>1, OtherFieldSteady
  <2>3. Fits(M)
    BY <1>4, <2>2
  <2> QED BY <2>3 DEF M
<1>7. \A at \in Live(L) : Fits(FailAt(L, at))
  BY <1>1, <1>4, FailAtSteady
<1>8. waiting # {} => /\ Fits(StartList([L EXCEPT !.spans[oldest].kicked = L.kicks], oldest))
                      /\ Fits(FailAt(L, oldest))
  <2> HIDE DEF waiting, oldest, Fits
  <2> QED BY <1>2, <1>3, <1>5, <1>7
<1>9. Fits(FailAt(L, Back(L)))
  BY <1>1, <1>7
<1> HIDE DEF Fits
<1>10. Fits(WorkerKick(L, p))
  BY <1>6, <1>8, <1>9 DEF WorkerKick
<1> QED BY <1>10 DEF Fits

\* What a close needs of the records it takes.
LEMMA AttachedGives ==
    ASSUME NEW c, NEW L, NEW out, NEW old, Safe(L, c, out, old), NEW t \in Threads,
           NEW s \in Segments, NEW A, A = Admit(AbandonOpenResolve(L, t), t, TRUE)
    PROVE  /\ Typed(A, c) /\ Steady(A, L)
           /\ Gives(AttachHeld(A, s), L) /\ Onward(AttachHeld(A, s), L)
<1>1. Typed(A, c)
  <2>1. Safe(A, c, out, old)
    BY AbandonOpenResolveSafe, AdmitSafe
  <2> QED BY <2>1 DEF Safe
<1>2. Typed(L, c)
  BY DEF Safe
<1>3. Steady(A, L)
  BY <1>2, AdmittedSteady
<1> QED BY <1>1, <1>2, <1>3, AttachHeldGives

\* A span closes, with a kick, sealed or deferred.
LEMMA ClosesTurned ==
    ASSUME NEW c, NEW L, Typed(L, c), OpenAtBack(L), Turned(L),
           NEW M, Onward(M, L), Gives(M, L), NEW N,
           DOMAIN N = Fields, N.oldest = M.oldest, N.nextSpan = M.nextSpan,
           N.kicks = M.kicks,
           N.closed = M.closed, N.failedSpan = M.failedSpan,
           Bracket(N, M), Holds(N, M),
           N.spans[Back(L)].records = M.spans[Back(L)].records,
           \A id \in Live(L) : id # Back(L) => N.spans[id] = M.spans[id],
           \/ N.spans[Back(L)].kicked = M.spans[Back(L)].kicked
           \/ /\ N.spans[Back(L)].kicked = L.kicks
              /\ N.spans[Back(L)].deferred = M.spans[Back(L)].deferred
    PROVE  Joins(OpenSpan(N), L) /\ Turned(OpenSpan(N))
<1> DEFINE O == OpenSpan(N)
           b == Back(L)
<1>1. /\ M.oldest = L.oldest /\ M.nextSpan = L.nextSpan /\ M.kicks = L.kicks
      /\ \A id \in Live(L) : /\ M.spans[id].kicked = L.spans[id].kicked
                             /\ M.spans[id].deferred = L.spans[id].deferred
  BY DEF Onward, Same, Kept
<1>2. /\ Joins(O, L) /\ O.oldest = L.oldest /\ O.nextSpan = L.nextSpan + 1
      /\ O.kicks = N.kicks /\ \A id \in Live(L) : O.spans[id] = N.spans[id]
  BY <1>1, ClosingJoins
<1>3. b \in Live(L) /\ L.spans[b].kicked = 0 /\ L.spans[b].deferred = NoSegment
  BY BackTypes DEF Typed, Shaped, OpenAtBack, Closed
<1> HIDE DEF O, b
<1>4. O.spans[L.nextSpan] = EmptySpan
  BY <1>2 DEF Joins, Typed, Shaped
<1>5. Turned(O)
  BY <1>1, <1>2, <1>3, <1>4, CloseTurned DEF b
<1> QED BY <1>2, <1>5 DEF O

\* A step beside what a close looks at.
LEMMA JoinsOf ==
    ASSUME NEW L, NEW K, NEW M, Joins(M, L), Bracket(L, K), Holds(L, K),
           L.oldest = K.oldest, L.nextSpan = K.nextSpan, L.closed = K.closed,
           L.failedSpan = K.failedSpan, L.spans = K.spans
    PROVE  Joins(M, K)
BY DEF Joins, Gives, Bracket, Holds, Failing, Live, Back

LEMMA MainKickJoins ==
    ASSUME NEW c, NEW L, NEW out, NEW old, Safe(L, c, out, old), OpenAtBack(L),
           Turned(L), NEW t \in Threads, NEW submitted, NEW p,
           submitted => p.segment \in Segments
    PROVE  Joins(MainKick(L, t, submitted, p), L) /\ Turned(MainKick(L, t, submitted, p))
<1> DEFINE A == Admit(AbandonOpenResolve(L, t), t, TRUE)
           b == Back(A)
           M == IF submitted THEN AttachHeld(A, p.segment)
                ELSE IF SideHeld(A) THEN FailAt(A, b) ELSE A
           N == [M EXCEPT !.spans[b].kicked = L.kicks]
           S == StartList(N, b)
<1>1. MainKick(L, t, submitted, p) = OpenSpan(S)
  BY DEF MainKick
<1>2. Typed(L, c) /\ Typed(A, c) /\ Steady(A, L) /\ Shaped(L)
  <2>1. Typed(A, c)
    <3>1. Safe(A, c, out, old)
      BY AbandonOpenResolveSafe, AdmitSafe
    <3> QED BY <3>1 DEF Safe
  <2>2. Typed(L, c)
    BY DEF Safe
  <2>3. Steady(A, L)
    BY <2>2, AdmittedSteady
  <2> QED BY <2>1, <2>2, <2>3 DEF Typed
<1>3. submitted => Gives(AttachHeld(A, p.segment), L) /\ Onward(AttachHeld(A, p.segment), L)
  BY AttachedGives
<1> HIDE DEF A
<1>4. b = Back(L) /\ Back(L) \in Live(L)
  BY <1>2, SteadyLive, BackTypes
<1>5. Steady(A, L) /\ Steady(FailAt(A, b), L)
  <2>1. Shaped(A) /\ b \in Live(A)
    BY <1>2, BackTypes DEF Typed
  <2>2. Steady(FailAt(A, b), A)
    BY <2>1, FailAtSteady
  <2> QED BY <1>2, <2>2, SteadyOn
<1>6. Gives(M, L) /\ Onward(M, L)
  BY <1>3, <1>4, <1>5, SteadyGives DEF Steady
<1> HIDE DEF M, b
<1>7. Shaped(M) /\ Live(M) = Live(L)
  BY <1>2, <1>6, SameShaped, OnwardLive DEF Onward
<1>8. /\ DOMAIN N = Fields /\ N.oldest = M.oldest /\ N.nextSpan = M.nextSpan
      /\ N.kicks = M.kicks /\ N.closed = M.closed /\ N.failedSpan = M.failedSpan
      /\ Bracket(N, M) /\ Holds(N, M)
      /\ \A id \in Live(L) : id # b => N.spans[id] = M.spans[id]
      /\ N.spans[b].records = M.spans[b].records
      /\ N.spans[b].kicked = L.kicks /\ N.spans[b].deferred = M.spans[b].deferred
  <2>1. b \in Live(M)
    BY <1>4, <1>7
  <2> QED BY <1>7, <2>1, FieldNames, SpanFieldNames DEF Shaped, Bracket, Holds
<1> HIDE DEF N
<1>9. /\ DOMAIN S = Fields /\ S.oldest = N.oldest /\ S.nextSpan = N.nextSpan
      /\ S.kicks = N.kicks /\ S.closed = N.closed /\ S.failedSpan = N.failedSpan
      /\ S.spans = N.spans /\ Bracket(S, N) /\ Holds(S, N)
  BY <1>8, FieldNames DEF StartList, Bracket, Holds
<1> HIDE DEF S
<1>10. /\ DOMAIN S = Fields /\ S.oldest = M.oldest /\ S.nextSpan = M.nextSpan
       /\ S.kicks = M.kicks /\ S.closed = M.closed /\ S.failedSpan = M.failedSpan
       /\ Bracket(S, M) /\ Holds(S, M)
       /\ \A id \in Live(L) : id # Back(L) => S.spans[id] = M.spans[id]
       /\ S.spans[Back(L)].records = M.spans[Back(L)].records
       /\ S.spans[Back(L)].kicked = L.kicks
       /\ S.spans[Back(L)].deferred = M.spans[Back(L)].deferred
  BY <1>4, <1>8, <1>9 DEF Bracket, Holds
<1>11. Joins(OpenSpan(S), L) /\ Turned(OpenSpan(S))
  BY <1>2, <1>6, <1>10, ClosesTurned
<1> QED BY <1>1, <1>11

\* A kick counts itself and takes the thread's submit.
Kicked(t) == [[ledger EXCEPT !.kicks = @ + 1] EXCEPT !.pendingSubmit[t] = NoSubmit]

LEMMA CountedKick ==
    ASSUME Now, NEW t \in Threads
    PROVE  Safe(Kicked(t), clock, host.detached, ledger)
           /\ Kicked(t).kicks = ledger.kicks + 1
<1> DEFINE K == [ledger EXCEPT !.kicks = @ + 1]
           L == [K EXCEPT !.pendingSubmit[t] = NoSubmit]
           out == host.detached
<1>1. clock \in Nat /\ Typed(ledger, clock) /\ Safe(ledger, clock, out, ledger)
  BY DEF Now, Safe
<1>2. L.kicks = ledger.kicks + 1
  BY <1>1, FieldNames DEF Typed, Shaped
<1>3. Typed(K, clock)
  <2>1. /\ DOMAIN K = Fields
        /\ K.oldest = ledger.oldest /\ K.nextSpan = ledger.nextSpan
        /\ K.spans = ledger.spans
    BY <1>1, FieldNames DEF Typed, Shaped
  <2>2. Shaped(K)
    BY <1>1, FieldNames DEF Typed, Shaped, Live
  <2>3. Others(K, clock)
    <3>1. DOMAIN ledger = Fields /\ Others(ledger, clock)
      BY <1>1 DEF Typed, Shaped
    <3>2. /\ K.kicks = ledger.kicks + 1
          /\ \A f \in Fields \ {"kicks"} : K[f] = ledger[f]
      BY <3>1, FieldNames
    <3> QED BY <3>1, <3>2, FieldNames DEF Others
  <2> QED BY <1>1, <2>1, <2>2, <2>3 DEF Typed, Live
<1>4. /\ SameHandles(K, ledger) /\ K.spans = ledger.spans
      /\ K.held = ledger.held /\ K.heldFirst = ledger.heldFirst
  BY <1>1, FieldNames DEF Typed, Shaped, SameHandles
<1> HIDE DEF K
<1>5. Safe(K, clock, out, ledger)
  BY <1>1, <1>3, <1>4, OtherSafe
<1>6. Safe(L, clock, out, ledger)
  BY <1>3, <1>5, NoSubmitTyped, SubmitSafe
<1>7. Kicked(t) = L
  BY DEF K, Kicked
<1> HIDE DEF L, out
<1>8. Safe(Kicked(t), clock, out, ledger) /\ Kicked(t).kicks = ledger.kicks + 1
  BY <1>2, <1>6, <1>7
<1> QED BY <1>8 DEF out

LEMMA KickJoins ==
    ASSUME Now, Window(ledger), Turned(ledger), NEW t \in Threads, Kick(t)
    PROVE  Joins(ledger', ledger) /\ Turned(ledger')
<1> DEFINE p == ledger.pendingSubmit[t]
           submitted == HasPending(ledger, t)
           L == Kicked(t)
           out == host.detached
<1>1. \/ ledger' = WorkerKick(L, p)
      \/ ledger' = FailAt(L, Back(L))
      \/ ledger' = MainKick(L, t, submitted, p)
  <2>1. [ledger EXCEPT !.kicks = @ + 1, !.pendingSubmit[t] = NoSubmit] = L
    BY DEF Kicked
  <2> QED BY <2>1, Zenon DEF Kick
<1>2. clock \in Nat /\ Typed(ledger, clock) /\ Safe(ledger, clock, out, ledger)
  BY DEF Now, Safe
<1>3. Safe(L, clock, out, ledger) /\ L.kicks = ledger.kicks + 1
  BY CountedKick
<1>4. /\ L.oldest = ledger.oldest /\ L.nextSpan = ledger.nextSpan
      /\ L.spans = ledger.spans /\ L.failedSpan = ledger.failedSpan
      /\ L.closed = ledger.closed /\ Bracket(L, ledger) /\ Holds(L, ledger)
  BY <1>2, FieldNames DEF Typed, Shaped, Bracket, Holds, Kicked
<1> HIDE DEF L
<1>5. Typed(L, clock) /\ OpenAtBack(L)
  BY <1>3, <1>4 DEF Safe, Window, OpenAtBack, Live, Back
<1>6. Early(L)
  <2>1. ledger.kicks \in Nat /\ \A id \in Live(ledger) : ledger.spans[id].kicked \in Nat
    BY <1>2 DEF Typed, Shaped, SpanTo
  <2> QED BY <1>3, <1>4, <2>1 DEF Early, Turned, InTurn, Live
<1>7. Turned(L)
  BY <1>5, <1>6, EarlyTurned
<1>8. submitted => p.segment \in Segments
  BY <1>2 DEF HasPending, Typed, Others
<1> HIDE DEF submitted, p
<1>9. Joins(ledger', L) /\ Turned(ledger')
  <2>1. CASE ledger' = WorkerKick(L, p)
    BY <1>5, <1>6, <2>1, WorkerKickJoins
  <2>2. CASE ledger' = MainKick(L, t, submitted, p)
    BY <1>3, <1>5, <1>7, <1>8, <2>2, MainKickJoins
  <2>3. CASE ledger' = FailAt(L, Back(L))
    BY <1>5, <1>7, <2>3, FailBackSteady, SteadyTurned
  <2> QED BY <1>1, <2>1, <2>2, <2>3
<1> QED BY <1>4, <1>9, JoinsOf

LEMMA SilentJoins ==
    ASSUME Now, Window(ledger), Turned(ledger), NEW t \in Threads, SilentSubmit(t)
    PROVE  Joins(ledger', ledger) /\ Turned(ledger')
<1> DEFINE p == ledger.pendingSubmit[t]
           L == [ledger EXCEPT !.pendingSubmit[t] = NoSubmit]
           A == Admit(AbandonOpenResolve(L, t), t, TRUE)
           M == AttachHeld(A, p.segment)
           b == Back(M)
           N == [M EXCEPT !.spans[b].sealed = TRUE]
           S == StartList(N, b)
           out == host.detached
<1>1. \/ ledger' = M /\ M.spans[b].records = <<>>
      \/ ledger' = OpenSpan(S)
  BY DEF SilentSubmit
<1>2. clock \in Nat /\ Typed(ledger, clock) /\ Safe(ledger, clock, out, ledger)
  BY DEF Now, Safe
<1>3. p.segment \in Segments
  BY <1>2 DEF SilentSubmit, HasPending, Typed, Others
<1>4. Safe(L, clock, out, ledger)
  BY <1>2, NoSubmitTyped, SubmitSafe
<1>5. /\ L.oldest = ledger.oldest /\ L.nextSpan = ledger.nextSpan
      /\ L.spans = ledger.spans /\ L.failedSpan = ledger.failedSpan
      /\ L.closed = ledger.closed /\ Bracket(L, ledger) /\ Holds(L, ledger)
      /\ L.kicks = ledger.kicks
  BY <1>2, FieldNames DEF Typed, Shaped, Bracket, Holds
<1> HIDE DEF p, L
<1>6. Typed(L, clock) /\ OpenAtBack(L) /\ Turned(L)
  BY <1>4, <1>5 DEF Safe, Window, OpenAtBack, Live, Back, Turned, InTurn
<1>7. Gives(M, L) /\ Onward(M, L)
  BY <1>3, <1>4, AttachedGives
<1> HIDE DEF A, M
<1>8. Shaped(M) /\ Live(M) = Live(L) /\ b = Back(L) /\ b \in Live(M)
  BY <1>6, <1>7, SameShaped, OnwardLive, BackTypes DEF Onward, Typed
<1>9. CASE ledger' = M /\ M.spans[b].records = <<>>
  <2>1. Turned(M)
    BY <1>6, <1>7, OnwardTurned
  <2>2. M.nextSpan = L.nextSpan
    BY <1>7 DEF Onward, Same
  <2>3. DOMAIN M.spans[b].records = DOMAIN L.spans[b].records
    <3>1. Carries(M.spans[b], L.spans[b])
      BY <1>8, <1>7 DEF Gives
    <3> QED BY <1>9, <3>1 DEF Carries
  <2>4. Joins(M, L)
    BY <1>7, <1>8, <2>2, <2>3 DEF Joins
  <2> QED BY <1>5, <1>9, <2>1, <2>4, JoinsOf
<1> HIDE DEF b
<1>10. CASE ledger' = OpenSpan(S)
  <2>1. /\ DOMAIN N = Fields /\ N.oldest = M.oldest /\ N.nextSpan = M.nextSpan
        /\ N.kicks = M.kicks /\ N.closed = M.closed /\ N.failedSpan = M.failedSpan
        /\ Bracket(N, M) /\ Holds(N, M)
        /\ \A id \in Live(L) : id # b => N.spans[id] = M.spans[id]
        /\ N.spans[b].records = M.spans[b].records
        /\ N.spans[b].kicked = M.spans[b].kicked
    BY <1>8, FieldNames, SpanFieldNames DEF Shaped, Bracket, Holds
  <2> HIDE DEF N
  <2>2. /\ DOMAIN S = Fields /\ S.oldest = N.oldest /\ S.nextSpan = N.nextSpan
        /\ S.kicks = N.kicks /\ S.closed = N.closed /\ S.failedSpan = N.failedSpan
        /\ S.spans = N.spans /\ Bracket(S, N) /\ Holds(S, N)
    BY <2>1, FieldNames DEF StartList, Bracket, Holds
  <2> HIDE DEF S
  <2>3. Bracket(S, M) /\ Holds(S, M)
    BY <2>1, <2>2 DEF Bracket, Holds
  <2>4. Joins(OpenSpan(S), L) /\ Turned(OpenSpan(S))
    BY <1>6, <1>7, <1>8, <2>1, <2>2, <2>3, ClosesTurned
  <2> QED BY <1>5, <1>10, <2>4, JoinsOf
<1> QED BY <1>1, <1>9, <1>10

LEMMA DeferJoins ==
    ASSUME Now, Window(ledger), Turned(ledger), NEW t \in Threads,
           NEW s \in Segments, NEW n \in Nat, Defer(t, s, n)
    PROVE  Joins(ledger', ledger) /\ Turned(ledger')
<1> DEFINE A == Admit(AbandonOpenResolve(ledger, t), t, TRUE)
           M == AttachHeld(A, s)
           b == Back(M)
           N == [M EXCEPT !.spans[b].deferred = s, !.spans[b].dwords = n]
           out == host.detached
<1>1. ledger' = OpenSpan(N) \/ ledger' = FailAt(ledger, Back(ledger))
  BY Zenon DEF Defer, Unreplayed
<1>2. clock \in Nat /\ Typed(ledger, clock) /\ Safe(ledger, clock, out, ledger)
      /\ OpenAtBack(ledger)
  BY DEF Now, Safe, Window
<1>3. Gives(M, ledger) /\ Onward(M, ledger)
  BY <1>2, AttachedGives
<1> HIDE DEF A, M
<1>4. Shaped(M) /\ Live(M) = Live(ledger) /\ b = Back(ledger) /\ b \in Live(M)
  BY <1>2, <1>3, SameShaped, OnwardLive, BackTypes DEF Onward, Typed
<1> HIDE DEF b
<1>5. /\ DOMAIN N = Fields /\ N.oldest = M.oldest /\ N.nextSpan = M.nextSpan
      /\ N.kicks = M.kicks /\ N.closed = M.closed /\ N.failedSpan = M.failedSpan
      /\ Bracket(N, M) /\ Holds(N, M)
      /\ \A id \in Live(ledger) : id # b => N.spans[id] = M.spans[id]
      /\ N.spans[b].records = M.spans[b].records
      /\ N.spans[b].kicked = M.spans[b].kicked
  BY <1>4, FieldNames, SpanFieldNames DEF Shaped, Bracket, Holds
<1> HIDE DEF N
<1>6. Joins(OpenSpan(N), ledger) /\ Turned(OpenSpan(N))
  BY <1>2, <1>3, <1>4, <1>5, ClosesTurned
<1>7. Steady(FailAt(ledger, Back(ledger)), ledger)
  BY <1>2, FailBackSteady
<1> QED BY <1>1, <1>2, <1>6, <1>7, SteadyTurned

-----------------------------------------------------------------------------
(* Every operation of a guest thread is one of these moves.                *)

\* The operations of thread t but EndTiling's fence.
MainOps(t) ==
    \/ ProgressOps(t) \/ UnmodeledOps(t)
    \/ DrawOps(t) \/ ResolveOps(t) \/ FrameOps(t)
    \/ SubmitOps(t) \/ SilentOps(t) \/ WorkerOps(t)
    \/ BeginTiledList
    \/ \E s \in Segments, n \in Sizes : TiledSegment(t, s, n)
    \/ \E s \in Segments, n \in Sizes : Defer(t, s, n)
    \/ \E s \in Segments, flags \in CallbackFlags : SideCallback(t, flags, s)
    \/ \E flags \in CallbackFlags : FirstPassCallback(t, flags)
    \/ DeviceOps(t)

LEMMA MainOrSide ==
    ASSUME NEW t, GuestOps(t)
    PROVE  MainOps(t) \/ \E s \in Segments, block \in Blocks : SideFence(t, block, s)
BY Zenon DEF GuestOps, MainOps, TileOps

LEMMA MainIsGuest ==
    ASSUME NEW t, MainOps(t)
    PROVE  GuestOps(t)
BY Zenon DEF GuestOps, MainOps, TileOps

LEMMA GuestClock ==
    ASSUME NEW t, GuestOps(t)
    PROVE  clock' \in {clock, clock + 1}
<1>1. CASE ProgressOps(t)
  BY <1>1 DEF ProgressOps, InvalidateState, Barrier, Inert, ScratchWrite, GpuWait,
              Fence, Callback, Tick
<1>2. CASE UnmodeledOps(t)
  BY <1>2 DEF UnmodeledOps, Unmodeled, BadTimestamp, ForeignCallback, Tick
<1>3. CASE DrawOps(t)
  BY <1>3 DEF DrawOps, BeginDraw, FinishDraw, DetachDraw, Tick
<1>4. CASE ResolveOps(t) \/ FrameOps(t)
  <2>1. ASSUME NEW outcome, FinishResolve(t, outcome)
        PROVE  clock' \in {clock, clock + 1}
    <3>1. clock' = IF outcome = "no mark" THEN clock ELSE clock + 1
      BY <2>1 DEF FinishResolve
    <3> QED BY <3>1
  <2> QED BY <1>4, <2>1 DEF ResolveOps, FrameOps, Resolve, Clear, Swap, Tick
<1>5. CASE SubmitOps(t) \/ SilentOps(t) \/ WorkerOps(t)
  BY <1>5 DEF SubmitOps, SilentOps, WorkerOps, Kick, DirectSubmit, SilentSubmit,
              MarkReplayThread, ReplaySubmit, LedgerOnly
<1>6. CASE TileOps(t)
  BY <1>6 DEF TileOps, BeginTiledList, TiledSegment, Defer, SideFence, SideCallback,
              FirstPassCallback, LedgerOnly, Tick
<1>7. CASE DeviceOps(t)
  BY <1>7 DEF DeviceOps, Suspend, Resume, AcquireDevice, ReleaseDevice,
              BeginDeviceOwnerSwap, EndDeviceOwnerSwap, LedgerOnly
<1> QED BY <1>1, <1>2, <1>3, <1>4, <1>5, <1>6, <1>7 DEF GuestOps

\* An operation but EndTiling's fence records one entry, or joins held ones, or
\* leaves the spans' entries alone.
MainMoves(t) ==
    \/ Only(t)
    \/ DeviceOps(t)
    \/ Joins(ledger', ledger) /\ Turned(ledger')
    \/ Aside /\ (HeldFenceless => HeldFenceless')

LEMMA MainOpsMove ==
    ASSUME Now, Window(ledger), Turned(ledger), NEW t \in Threads, MainOps(t)
    PROVE  MainMoves(t)
<1>1. CASE ProgressOps(t)
  BY <1>1, ProgressOnly DEF MainMoves
<1>2. CASE UnmodeledOps(t)
  BY <1>2, UnmodeledOnly DEF MainMoves
<1>3. CASE DrawOps(t)
  BY <1>3, DrawOnly DEF MainMoves
<1>4. CASE ResolveOps(t) \/ FrameOps(t)
  BY <1>4, FrameOnly DEF MainMoves
<1>5. CASE Kick(t)
  BY <1>5, KickJoins DEF MainMoves
<1>6. ASSUME NEW s \in Segments, NEW n \in Sizes,
             DirectSubmit(t, s, n) \/ ReplaySubmit(t, s, n)
      PROVE  MainMoves(t)
  <2>1. n \in Nat
    BY LedgerAssumption
  <2>2. Steady(ledger', ledger) /\ clock' \in {clock, clock + 1}
    BY <1>6, <2>1, SubmitsSteady
  <2> QED BY <2>2, SteadyOnly DEF MainMoves
<1>7. CASE SilentOps(t)
  BY <1>7, SilentJoins DEF SilentOps, MainMoves
<1>8. CASE \/ MarkReplayThread(t) \/ BeginTiledList
           \/ \E s \in Segments, n \in Sizes : TiledSegment(t, s, n)
  <2>1. Steady(ledger', ledger) /\ clock' \in {clock, clock + 1}
    BY <1>8, ListSteady
  <2> QED BY <2>1, SteadyOnly DEF MainMoves
<1>9. ASSUME NEW s \in Segments, NEW n \in Sizes, Defer(t, s, n)
      PROVE  MainMoves(t)
  <2>1. n \in Nat
    BY LedgerAssumption
  <2> QED BY <1>9, <2>1, DeferJoins DEF MainMoves
<1>10. ASSUME NEW s \in Segments, NEW flags \in CallbackFlags, SideCallback(t, flags, s)
       PROVE  MainMoves(t)
  BY <1>10, SideCallbackAside DEF MainMoves
<1>11. ASSUME NEW flags \in CallbackFlags, FirstPassCallback(t, flags)
       PROVE  MainMoves(t)
  BY <1>11, FirstPassAside DEF MainMoves
<1>12. CASE DeviceOps(t)
  BY <1>12 DEF MainMoves
<1> QED
  BY <1>1, <1>2, <1>3, <1>4, <1>5, <1>6, <1>7, <1>8, <1>9, <1>10, <1>11, <1>12
     DEF MainOps, SubmitOps, WorkerOps

LEMMA GuestMoves ==
    ASSUME Now, Window(ledger), Turned(ledger), NEW t \in Threads, GuestOps(t)
    PROVE  MainMoves(t) \/ Aside
<1>1. CASE MainOps(t)
  BY <1>1, MainOpsMove
<1>2. ASSUME NEW s \in Segments, NEW block \in Blocks, SideFence(t, block, s)
      PROVE  Aside
  BY <1>2, SideFenceAside
<1> QED BY <1>1, <1>2, MainOrSide

-----------------------------------------------------------------------------
(* Pump changes spans, and never what stands beside them.                  *)

Beside(M, L) == /\ DOMAIN M = Fields /\ M.kicks = L.kicks
                /\ Bracket(M, L) /\ Holds(M, L)

LEMMA BesideOn ==
    ASSUME NEW L, NEW M, NEW N, Beside(M, L), Beside(N, M)
    PROVE  Beside(N, L)
BY DEF Beside, Bracket, Holds

LEMMA UnownBeside ==
    ASSUME NEW L, DOMAIN L = Fields, NEW id, NEW i
    PROVE  Beside(Unown(L, id, i), L)
<1>1. CASE Mode = "Census"
  BY <1>1, FieldNames DEF Unown, Beside, Bracket, Holds
<1>2. CASE Mode # "Census"
  <2> DEFINE M == IF Mode = "Strict" THEN FailAt(L, id) ELSE L
  <2>1. Unown(L, id, i) = [M EXCEPT !.spans[id].unowned = TRUE]
    BY <1>2 DEF Unown
  <2>2. Beside(M, L)
    BY FieldNames DEF FailAt, Beside, Bracket, Holds
  <2> HIDE DEF M
  <2>3. Beside([M EXCEPT !.spans[id].unowned = TRUE], M)
    BY <2>2, FieldNames DEF Beside, Bracket, Holds
  <2> QED BY <2>1, <2>2, <2>3, BesideOn
<1> QED BY <1>1, <1>2

LEMMA FrontBeside ==
    ASSUME NEW L, DOMAIN L = Fields, NEW id, NEW n
    PROVE  /\ Beside(L, L)
           /\ Beside([L EXCEPT !.spans[id].stage = n], L)
           /\ Beside([L EXCEPT !.spans[id].applied = @ + 1, !.spans[id].stage = 0], L)
           /\ Beside([L EXCEPT !.spans[id].hostTarget = n, !.spans[id].flushed = TRUE], L)
           /\ Beside([L EXCEPT !.replayPointer = 0], L)
           /\ Beside(PopFront(L), L)
<1>1. Beside(L, L)
  BY DEF Beside, Bracket, Holds
<1>2. Beside([L EXCEPT !.spans[id].stage = n], L)
  BY FieldNames DEF Beside, Bracket, Holds
<1>3. Beside([L EXCEPT !.spans[id].applied = @ + 1, !.spans[id].stage = 0], L)
  BY FieldNames DEF Beside, Bracket, Holds
<1>4. Beside([L EXCEPT !.spans[id].hostTarget = n, !.spans[id].flushed = TRUE], L)
  BY FieldNames DEF Beside, Bracket, Holds
<1>5. Beside([L EXCEPT !.replayPointer = 0], L)
  BY FieldNames DEF Beside, Bracket, Holds
<1>6. Beside(PopFront(L), L)
  BY FieldNames DEF Beside, Bracket, Holds, PopFront
<1> QED BY <1>1, <1>2, <1>3, <1>4, <1>5, <1>6

HostFenced(L, n) ==
    [L EXCEPT !.spans[pump.span].hostTarget = n, !.spans[pump.span].flushed = TRUE]

ReplayOver(L) == [L EXCEPT !.replayPointer = 0]

LEMMA PumpBeside ==
    ASSUME SafetyInv, PumpNext
    PROVE  Beside(ledger', ledger) /\ clock' = clock
<1>1. DOMAIN ledger = Fields
  BY SafetyFacts
<1>0. \A U, n : DOMAIN U = Fields => /\ Beside(HostFenced(U, n), U)
                              /\ Beside(ReplayOver(U), U)
  BY FrontBeside DEF HostFenced, ReplayOver
<1>2. Beside(ledger, ledger) /\ Beside(Applied, ledger)
      /\ Beside(PopFront(ledger), ledger)
      /\ Beside(ReplayOver(ledger), ledger)
  BY <1>0, <1>1, FrontBeside DEF Applied
<1>3. ASSUME NEW id, NEW i
      PROVE  /\ Beside(Unown(ledger, id, i), ledger)
             /\ Beside(PopFront(Unown(ledger, id, i)), ledger)
             /\ Beside(ReplayOver(Unown(ledger, id, i)), ledger)
             /\ \A n : Beside(HostFenced(Unown(ledger, id, i), n), ledger)
  <2> DEFINE U == Unown(ledger, id, i)
  <2>1. Beside(U, ledger)
    BY <1>1, UnownBeside
  <2> HIDE DEF U
  <2>2. DOMAIN U = Fields
    BY <2>1 DEF Beside
  <2>3. Beside(PopFront(U), U) /\ Beside(ReplayOver(U), U)
        /\ \A n : Beside(HostFenced(U, n), U)
    BY <1>0, <2>2, FrontBeside
  <2>4. /\ Beside(U, ledger) /\ Beside(PopFront(U), ledger)
        /\ Beside(ReplayOver(U), ledger)
        /\ \A n : Beside(HostFenced(U, n), ledger)
    BY <2>1, <2>3, BesideOn
  <2> QED BY <2>4 DEF U
<1>4. ASSUME NEW n
      PROVE  /\ Beside([ledger EXCEPT !.spans[pump.span].stage = n], ledger)
             /\ Beside(HostFenced(ledger, n), ledger)
  BY <1>1, <1>0, FrontBeside
<1>5. CASE LoopSteps
  <2>1. ASSUME LoseReplayPointer
        PROVE  Beside(ledger', ledger) /\ clock' = clock
    <3>1. clock' = clock
      BY <2>1 DEF LoseReplayPointer
    <3>2. \E id, i : \/ ledger' = Unown(ledger, id, i)
                    \/ ledger' = ReplayOver(Unown(ledger, id, i))
      BY <2>1, Zenon DEF LoseReplayPointer, ReplayOver
    <3> QED BY <1>3, <3>1, <3>2
  <2>2. ASSUME ReleaseFailed
        PROVE  Beside(ledger', ledger) /\ clock' = clock
    <3>1. clock' = clock
      BY <2>2 DEF ReleaseFailed
    <3>2. \E id, i : \/ ledger' = Unown(ledger, id, i)
                    \/ ledger' = PopFront(Unown(ledger, id, i))
      BY <2>2, Zenon DEF ReleaseFailed
    <3> QED BY <1>3, <3>1, <3>2
  <2> QED BY <1>2, <1>5, <2>1, <2>2 DEF LoopSteps, WriteReplayPointer, ReplayOver,
          Pause, BeginFlush, BeginApply, Release
<1>6. CASE FlushOps
  <2>1. ASSUME FlushFailed
        PROVE  Beside(ledger', ledger) /\ clock' = clock
    <3>1. clock' = clock
      BY <2>1 DEF FlushFailed
    <3>2. \/ ledger' = ledger
          \/ \E id, i, n :
                \/ ledger' = Unown(ledger, id, i)
                \/ ledger' = HostFenced(Unown(ledger, id, i), n)
      BY <2>1, Zenon DEF FlushFailed, HostFenced
    <3>3. Beside(ledger', ledger)
      BY <1>2, <1>3, <3>2
    <3> QED BY <3>1, <3>3
  <2>2. ASSUME FlushFenced
        PROVE  Beside(ledger', ledger) /\ clock' = clock
    <3>1. clock' = clock
      BY <2>2 DEF FlushFenced
    <3>2. \/ ledger' = ledger
          \/ \E n : ledger' = HostFenced(ledger, n)
      BY <2>2, Zenon DEF FlushFenced, HostFenced
    <3> QED BY <1>2, <1>4, <3>1, <3>2
  <2> QED BY <1>2, <1>6, <2>1, <2>2 DEF FlushOps, FlushRetry
<1>7. CASE ApplySteps
  <2>1. CASE AccessFailed
    BY <1>3, <2>1 DEF AccessFailed, GiveUp
  <2> QED BY <1>2, <1>7, <2>1 DEF ApplySteps, ApplySkipped, ApplyInert, WriteCursor,
          WriteFence, WriteScratch, WaitOver, WaitLonger, ApplyDone
<1>8. CASE CallbackSteps
  BY <1>2, <1>4, <1>8 DEF CallbackSteps, WriteSlot, WriteMask, RaiseAgain, Raised,
     NotRaised, AwaitMask, RetireSlot, CallbackDone
<1>9. CASE ImageOps
  <2>1. ASSUME ImageTaken
        PROVE  Beside(ledger', ledger) /\ clock' = clock
    <3>1. clock' = clock
      BY <2>1 DEF ImageTaken
    <3>2. ledger' = ledger \/ ledger' = Applied
          \/ \E id, i : ledger' = Unown(ledger, id, i)
      BY <2>1, Zenon DEF ImageTaken
    <3> QED BY <1>2, <1>3, <3>1, <3>2
  <2> QED BY <1>2, <1>9, <2>1 DEF ImageOps, SkipImage, ImageSkipped, WantImage,
          PassGate, WriteImage, NoImage
<1> QED BY <1>5, <1>6, <1>7, <1>8, <1>9 DEF PumpNext

\* A step of Pump leaves every entry of the spans it does not release.
Passes ==
    /\ ledger'.nextSpan = ledger.nextSpan /\ ledger'.closed = ledger.closed
    /\ ledger'.oldest \in {ledger.oldest, ledger.oldest + 1}
    /\ Failing(ledger', ledger)
    /\ \A id \in Live(ledger') :
          /\ id \in Live(ledger)
          /\ ledger'.spans[id].kicked = ledger.spans[id].kicked
          /\ ledger'.spans[id].deferred = ledger.spans[id].deferred
          /\ SameEntries(ledger'.spans[id], ledger.spans[id])

LEMMA UnseenPasses ==
    ASSUME Unseen(ledger', ledger)
    PROVE  Passes
<1>1. Live(ledger') = Live(ledger)
  BY DEF Unseen, Live
<1>2. \A id \in Live(ledger) :
         /\ ledger'.spans[id].kicked = ledger.spans[id].kicked
         /\ ledger'.spans[id].deferred = ledger.spans[id].deferred
         /\ SameEntries(ledger'.spans[id], ledger.spans[id])
  BY EntriesSame DEF Unseen, Alike
<1> QED BY <1>1, <1>2 DEF Passes, Unseen, Failing

LEMMA PumpPasses ==
    ASSUME SafetyInv, ImageInv, PumpNext
    PROVE  Passes
<1>1. PumpStep
  BY PumpSeen
<1>2. CASE Unseen(ledger', ledger)
  BY <1>2, UnseenPasses
<1>3. CASE Performs \/ CountsImage
  <2>1. AtSpan /\ ledger' = Applied
    BY <1>3, FrontIsUsed DEF Performs, CountsImage, Written, TakePCs
  <2>2. Unseen(ledger', ledger)
    BY <2>1, AppliedUnseen
  <2> QED BY <2>2, UnseenPasses
<1>4. CASE Spoils
  <2>1. PICK i : Unseen(ledger', Unown(ledger, ledger.oldest, i))
    BY <1>4 DEF Spoils
  <2> DEFINE U == Unown(ledger, ledger.oldest, i)
  <2>2. Typed(ledger, clock) /\ ledger.oldest \in Live(ledger)
    BY SafetyFacts
  <2>3. Steady(U, ledger)
    BY <2>2, UnownSteady
  <2> HIDE DEF U
  <2>4. Live(U) = Live(ledger) /\ Live(ledger') = Live(ledger)
    BY <2>1, <2>3, SteadyLive DEF Unseen, Live, U
  <2>5. /\ U.oldest = ledger.oldest /\ U.nextSpan = ledger.nextSpan
        /\ U.closed = ledger.closed /\ Failing(U, ledger)
    BY <2>3 DEF Steady, Onward, Same, Rewrites, Failing
  <2>6. ASSUME NEW id \in Live(ledger)
        PROVE  /\ ledger'.spans[id].kicked = ledger.spans[id].kicked
               /\ ledger'.spans[id].deferred = ledger.spans[id].deferred
               /\ SameEntries(ledger'.spans[id], ledger.spans[id])
    <3>1. Alike(ledger'.spans[id], U.spans[id])
      BY <2>1, <2>4 DEF Unseen, U
    <3>2. Kept(U.spans[id], ledger.spans[id]) /\ SameEntries(U.spans[id], ledger.spans[id])
      BY <2>3 DEF Steady, Onward, Same, EntriesStay
    <3>3. SameEntries(ledger'.spans[id], U.spans[id])
      BY <3>1, EntriesSame DEF Alike
    <3>4. SameEntries(ledger'.spans[id], ledger.spans[id])
      BY <3>2, <3>3, EntriesOn
    <3> QED BY <3>1, <3>2, <3>4 DEF Alike, Kept
  <2>7. ledger'.oldest = U.oldest /\ ledger'.nextSpan = U.nextSpan
        /\ ledger'.closed = U.closed /\ ledger'.failedSpan = U.failedSpan
    BY <2>1 DEF Unseen, U
  <2>8. Failing(ledger', ledger)
    BY <2>5, <2>7 DEF Failing
  <2> QED BY <2>4, <2>5, <2>6, <2>7, <2>8 DEF Passes
<1>5. CASE Retires
  <2>1. /\ ledger'.oldest = ledger.oldest + 1 /\ ledger'.nextSpan = ledger.nextSpan
        /\ ledger'.closed = ledger.closed /\ ledger'.failedSpan = ledger.failedSpan
        /\ \A id \in Live(ledger') : ledger'.spans[id] = ledger.spans[id]
    BY <1>5 DEF Retires
  <2>2. ledger.oldest \in Nat /\ ledger.nextSpan \in Nat
    BY SafetyFacts DEF Typed, Shaped
  <2>3. \A id \in Live(ledger') : id \in Live(ledger)
    BY <2>1, <2>2 DEF Live
  <2>4. \A id \in Live(ledger') : SameEntries(ledger'.spans[id], ledger.spans[id])
    BY <2>1, EntriesSame
  <2> QED BY <2>1, <2>3, <2>4 DEF Passes, Failing
<1>6. CASE ledger' = ledger
  BY <1>6, UnseenSame, UnseenPasses
<1> QED BY <1>1, <1>2, <1>3, <1>4, <1>5, <1>6
        DEF PumpStep, Rests, Replays, TakesImage, WritesImage, LeavesImage

\* What a span has released stays released.
LEMMA PumpApplies ==
    ASSUME SafetyInv, SafetyInv', ImageInv, PumpNext, NEW id \in Live(ledger')
    PROVE  ledger'.spans[id].applied >= ledger.spans[id].applied
<1>1. PumpStep /\ Passes
  BY PumpSeen, PumpPasses
<1>2. id \in Live(ledger)
  BY <1>1 DEF Passes
<1>3. /\ ledger'.spans[id].applied \in Nat /\ ledger.spans[id].applied \in Nat
      /\ ledger.oldest \in Nat
  <2>1. Typed(ledger, clock)
    BY SafetyFacts
  <2>2. Typed(ledger', clock')
    BY DEF SafetyInv, TypeInv, Clocked
  <2>3. ledger.spans[id] \in SpanTo(clock) /\ ledger'.spans[id] \in SpanTo(clock')
    BY <1>2, <2>1, <2>2 DEF Typed
  <2> QED BY <2>1, <2>3 DEF SpanTo, Typed, Shaped
<1>4. CASE id # ledger.oldest
  <2>1. Untouched(ledger.spans[id])
    BY <1>2, <1>4 DEF SafetyInv, SpansWait
  <2> QED BY <1>3, <2>1 DEF Untouched
<1>5. CASE id = ledger.oldest
  <2>1. ledger'.oldest = ledger.oldest
    BY <1>1, <1>3, <1>5 DEF Passes, Live
  <2>2. ledger.spans[id] = Front /\ ledger'.spans[id] = Front'
    BY <1>5, <2>1 DEF Front
  <2>3. CASE Performs \/ CountsImage
    <3>1. AtSpan /\ ledger' = Applied
      BY <2>3, FrontIsUsed DEF Performs, CountsImage, Written, TakePCs
    <3>2. ledger'.spans[ledger.oldest].applied = Front.applied + 1
      BY <3>1, AppliedUnseen
    <3> QED BY <1>3, <1>5, <2>2, <3>2
  <2>4. CASE ledger' = ledger
    BY <1>3, <2>4
  <2> QED BY <1>1, <1>3, <2>1, <2>2, <2>3, <2>4
          DEF PumpStep, Rests, Spoils, Retires, Replays, TakesImage, WritesImage,
              LeavesImage
<1> QED BY <1>4, <1>5

-----------------------------------------------------------------------------
(* The worker's deferred submits and swap come in turn. A span the worker  *)
(* has not submitted is behind every one it has; that holds because its    *)
(* kick goes to the oldest, and the counter is past every kick it gave.    *)

TurnInv == Turned(ledger) /\ DeferredSwapIsAlone

\* What holds of the open span while the ledger accepts calls.
LEMMA AcceptingOn ==
    ASSUME NEW L, NEW M, M.closed = L.closed, Failing(M, L), Typed(L, clock), Accepting(M)
    PROVE  Accepting(L)
BY DEF Accepting, Failing, Live, Typed, Shaped

LEMMA AcceptedBefore ==
    ASSUME SafetyInv, Onward(ledger', ledger), Accepting(ledger')
    PROVE  Accepting(ledger) /\ Back(ledger') = Back(ledger) /\ Back(ledger) \in Live(ledger)
<1>1. Typed(ledger, clock)
  BY SafetyFacts
<1>2. ledger'.closed = ledger.closed /\ Failing(ledger', ledger)
      /\ Back(ledger') = Back(ledger)
  BY DEF Onward, Same, Rewrites, Failing, Back
<1>3. Accepting(ledger)
  BY <1>1, <1>2, AcceptingOn
<1> QED BY <1>1, <1>2, <1>3, BackTypes

\* Entries that stay keep their threads.
LEMMA StayingAlone ==
    ASSUME SafetyInv, DeferredSwapIsAlone, Onward(ledger', ledger),
           EntriesStay(ledger', ledger), ledger'.suspended = ledger.suspended,
           ledger'.ownerSwapThread = ledger.ownerSwapThread
    PROVE  DeferredSwapIsAlone'
<1>1. SUFFICES ASSUME Accepting(ledger'), ledger'.ownerSwapThread # NoThread
               PROVE  /\ ledger'.suspended
                      /\ \A i \in DOMAIN ledger'.spans[Back(ledger')].records :
                            ledger'.spans[Back(ledger')].records[i].by
                               = ledger'.ownerSwapThread
  BY DEF DeferredSwapIsAlone
<1>2. Accepting(ledger) /\ Back(ledger') = Back(ledger) /\ Back(ledger) \in Live(ledger)
  BY <1>1, AcceptedBefore
<1>3. SameEntries(ledger'.spans[Back(ledger)], ledger.spans[Back(ledger)])
  BY <1>2 DEF EntriesStay
<1> QED BY <1>1, <1>2, <1>3 DEF SameEntries, Carries, SameEntry, DeferredSwapIsAlone

\* A suspended device records only its owner's entries.
LEMMA OnlyAlone ==
    ASSUME SafetyInv, DeferredSwapIsAlone, NEW t, Only(t)
    PROVE  DeferredSwapIsAlone'
<1>1. SUFFICES ASSUME Accepting(ledger'), ledger'.ownerSwapThread # NoThread
               PROVE  /\ ledger'.suspended
                      /\ \A i \in DOMAIN ledger'.spans[Back(ledger')].records :
                            ledger'.spans[Back(ledger')].records[i].by
                               = ledger'.ownerSwapThread
  BY DEF DeferredSwapIsAlone
<1>2. PICK r : Joined(ledger', t, r) /\ r.by = t
  BY DEF Only
<1>3. Onward(ledger', ledger) /\ ledger'.suspended = ledger.suspended
      /\ ledger'.ownerSwapThread = ledger.ownerSwapThread
  BY <1>2 DEF Joined, Bracket
<1>4. Accepting(ledger) /\ Back(ledger') = Back(ledger) /\ Back(ledger) \in Live(ledger)
  BY <1>1, <1>3, AcceptedBefore
<1>5. /\ ledger.suspended
      /\ \A i \in DOMAIN ledger.spans[Back(ledger)].records :
            ledger.spans[Back(ledger)].records[i].by = ledger.ownerSwapThread
  BY <1>1, <1>3, <1>4 DEF DeferredSwapIsAlone
<1>6. ASSUME NEW i \in DOMAIN ledger'.spans[Back(ledger)].records
      PROVE  ledger'.spans[Back(ledger)].records[i].by = ledger.ownerSwapThread
  <2>1. CASE i \in DOMAIN ledger.spans[Back(ledger)].records
    <3>1. Carries(ledger'.spans[Back(ledger)], ledger.spans[Back(ledger)])
      BY <1>2, <1>4 DEF Joined
    <3> QED BY <1>5, <2>1, <3>1 DEF Carries, SameEntry
  <2>2. CASE i \notin DOMAIN ledger.spans[Back(ledger)].records
    <3>1. /\ SameEntry(ledger'.spans[Back(ledger)].records[i], r)
          /\ ledger'.failedSpan = 0 => ~Suspended(ledger, t)
      BY <1>2, <1>6, <2>2 DEF Joined
    <3>2. ledger'.failedSpan = 0
      BY <1>1 DEF Accepting
    <3> QED BY <1>2, <1>5, <3>1, <3>2 DEF SameEntry, Suspended
  <2> QED BY <2>1, <2>2
<1> QED BY <1>1, <1>3, <1>4, <1>5, <1>6

LEMMA DeviceAlone ==
    ASSUME SafetyInv, DeferredSwapIsAlone, NEW t \in Threads, DeviceOps(t)
    PROVE  DeferredSwapIsAlone'
<1>1. SUFFICES ASSUME Accepting(ledger'), ledger'.ownerSwapThread # NoThread
               PROVE  /\ ledger'.suspended
                      /\ \A i \in DOMAIN ledger'.spans[Back(ledger')].records :
                            ledger'.spans[Back(ledger')].records[i].by
                               = ledger'.ownerSwapThread
  BY DEF DeferredSwapIsAlone
<1>2. Accepting(ledger) /\ ledger.ownerSwapThread # NoThread => ledger.suspended
  BY DEF DeferredSwapIsAlone
<1>3. DeviceOnly /\ Handed
  BY <1>2, SafetyFacts, DeviceHanded
<1>4. Accepting(ledger) /\ Back(ledger') = Back(ledger) /\ Back(ledger) \in Live(ledger)
  BY <1>1, <1>3, AcceptedBefore DEF DeviceOnly
<1>5. SameEntries(ledger'.spans[Back(ledger)], ledger.spans[Back(ledger)])
  BY <1>3, <1>4 DEF DeviceOnly, EntriesStay
<1>6. ledger'.suspended
  BY <1>1, <1>3 DEF Handed
<1>7. CASE ledger'.ownerSwapThread = ledger.ownerSwapThread
  BY <1>1, <1>4, <1>5, <1>6, <1>7 DEF SameEntries, Carries, SameEntry, DeferredSwapIsAlone
<1>8. CASE ledger.spans[Back(ledger)].records = <<>>
  <2>1. DOMAIN ledger'.spans[Back(ledger)].records = {}
    BY <1>5, <1>8 DEF SameEntries
  <2> QED BY <1>4, <1>6, <2>1
<1>9. ledger'.failedSpan = 0
  BY <1>1 DEF Accepting
<1> QED BY <1>1, <1>3, <1>7, <1>8, <1>9 DEF Handed

\* What a kick opens is empty.
LEMMA JoinsAlone ==
    ASSUME SafetyInv, DeferredSwapIsAlone, Joins(ledger', ledger)
    PROVE  DeferredSwapIsAlone'
<1>1. SUFFICES ASSUME Accepting(ledger'), ledger'.ownerSwapThread # NoThread
               PROVE  /\ ledger'.suspended
                      /\ \A i \in DOMAIN ledger'.spans[Back(ledger')].records :
                            ledger'.spans[Back(ledger')].records[i].by
                               = ledger'.ownerSwapThread
  BY DEF DeferredSwapIsAlone
<1>2. /\ ledger'.suspended = ledger.suspended
      /\ ledger'.ownerSwapThread = ledger.ownerSwapThread
      /\ ledger'.closed = ledger.closed /\ Failing(ledger', ledger)
      /\ \A id \in Live(ledger) : Carries(ledger'.spans[id], ledger.spans[id])
  BY DEF Joins, Gives, Bracket
<1>3. Typed(ledger, clock) /\ Back(ledger) \in Live(ledger)
  BY SafetyFacts, BackTypes
<1>4. Accepting(ledger)
  BY <1>1, <1>2, <1>3, AcceptingOn
<1>5. /\ ledger.suspended
      /\ \A i \in DOMAIN ledger.spans[Back(ledger)].records :
            ledger.spans[Back(ledger)].records[i].by = ledger.ownerSwapThread
  BY <1>1, <1>2, <1>4 DEF DeferredSwapIsAlone
<1>6. CASE /\ ledger'.nextSpan = ledger.nextSpan
           /\ DOMAIN ledger'.spans[Back(ledger)].records
                 = DOMAIN ledger.spans[Back(ledger)].records
  <2>1. Back(ledger') = Back(ledger)
    BY <1>6 DEF Back
  <2>2. Carries(ledger'.spans[Back(ledger)], ledger.spans[Back(ledger)])
    BY <1>2, <1>3
  <2> QED BY <1>2, <1>5, <1>6, <2>1, <2>2 DEF Carries, SameEntry
<1>7. CASE /\ ledger'.nextSpan = ledger.nextSpan + 1
           /\ ledger'.spans[ledger.nextSpan] = EmptySpan
  <2>1. Back(ledger') = ledger.nextSpan
    BY <1>3, <1>7 DEF Back, Typed, Shaped
  <2>2. DOMAIN ledger'.spans[Back(ledger')].records = {}
    BY <1>7, <2>1 DEF EmptySpan
  <2> QED BY <1>2, <1>5, <2>2
<1> QED BY <1>6, <1>7 DEF Joins

LEMMA PumpTurn ==
    ASSUME SafetyInv, SafetyInv', ImageInv, TurnInv, PumpNext
    PROVE  TurnInv'
<1>1. Passes /\ Beside(ledger', ledger)
  BY PumpPasses, PumpBeside
<1>2. Turned(ledger')
  BY <1>1 DEF TurnInv, Turned, InTurn, Passes, Beside
<1>3. ASSUME Accepting(ledger'), ledger'.ownerSwapThread # NoThread
      PROVE  /\ ledger'.suspended
             /\ \A i \in DOMAIN ledger'.spans[Back(ledger')].records :
                   ledger'.spans[Back(ledger')].records[i].by = ledger'.ownerSwapThread
  <2>1. ledger'.nextSpan = ledger.nextSpan /\ ledger'.closed = ledger.closed
        /\ Failing(ledger', ledger) /\ Bracket(ledger', ledger)
    BY <1>1 DEF Passes, Beside
  <2>2. Typed(ledger, clock) /\ Typed(ledger', clock')
    BY SafetyFacts DEF SafetyInv, TypeInv, Clocked
  <2>3. Accepting(ledger)
    BY <1>3, <2>1, <2>2, AcceptingOn
  <2>4. Back(ledger') = Back(ledger)
    BY <2>1 DEF Back
  <2>5. Back(ledger) \in Live(ledger')
    <3>1. ledger'.oldest \in Nat /\ ledger'.nextSpan \in Nat
          /\ ledger'.oldest < ledger'.nextSpan
      BY <2>2 DEF Typed, Shaped
    <3> QED BY <2>4, <3>1 DEF Back, Live
  <2>6. SameEntries(ledger'.spans[Back(ledger)], ledger.spans[Back(ledger)])
    BY <1>1, <2>5 DEF Passes
  <2> QED BY <1>3, <2>1, <2>3, <2>4, <2>6
          DEF Bracket, SameEntries, Carries, SameEntry, TurnInv, DeferredSwapIsAlone
<1>4. DeferredSwapIsAlone'
  BY <1>3 DEF DeferredSwapIsAlone
<1> QED BY <1>2, <1>4 DEF TurnInv

\* A tear-down leaves one span, and it is empty.
LEMMA DropLeaves ==
    ASSUME SafetyInv, DropEpoch
    PROVE  /\ ledger'.oldest = ledger.nextSpan /\ ledger'.nextSpan = ledger.nextSpan + 1
           /\ ledger'.spans[ledger.nextSpan] = EmptySpan
           /\ Live(ledger') = {ledger.nextSpan} /\ Back(ledger') = ledger.nextSpan
           /\ ledger'.kicks = ledger.kicks /\ ledger'.closed = ledger.closed
           /\ ledger'.failedSpan = ledger.failedSpan
           /\ ledger'.suspended = ledger.suspended
           /\ ledger'.ownerSwapThread = ledger.ownerSwapThread
           /\ ledger'.writeback = 0
           /\ \A s \in Segments : ledger'.held[s] = <<>>
           /\ ledger'.heldFirst = <<>>
<1> DEFINE N == [ledger EXCEPT !.oldest = ledger.nextSpan,
                !.spans = <<>>,
                !.openDraws = [t \in Threads |-> NoHandle],
                !.openResolves = [t \in Threads |-> NoHandle],
                !.frontbuffer = {},
                !.submitEpoch = @ + 1,
                !.lists = <<>>,
                !.activeList = 0,
                !.held = [s \in Segments |-> <<>>],
                !.heldList = [s \in Segments |-> 0],
                !.heldFirst = <<>>,
                !.replayPointer = 0,
                !.epochPartial = FALSE,
                !.writeback = 0]
<1>1. ledger' = OpenSpan(N)
  BY DEF DropEpoch, Drop
<1>2. DOMAIN ledger = Fields /\ ledger.nextSpan \in Nat
  BY SafetyFacts DEF Typed, Shaped
<1>3. /\ DOMAIN N = Fields
      /\ N.oldest = ledger.nextSpan /\ N.nextSpan = ledger.nextSpan
      /\ N.kicks = ledger.kicks /\ N.closed = ledger.closed
      /\ N.failedSpan = ledger.failedSpan /\ N.suspended = ledger.suspended
      /\ N.ownerSwapThread = ledger.ownerSwapThread /\ N.writeback = 0
      /\ N.held = [s \in Segments |-> <<>>] /\ N.heldFirst = <<>>
  BY <1>2, FieldNames
<1> HIDE DEF N
<1>4. /\ ledger'.oldest = ledger.nextSpan /\ ledger'.nextSpan = ledger.nextSpan + 1
      /\ ledger'.kicks = ledger.kicks /\ ledger'.closed = ledger.closed
      /\ ledger'.failedSpan = ledger.failedSpan
      /\ ledger'.suspended = ledger.suspended
      /\ ledger'.ownerSwapThread = ledger.ownerSwapThread
      /\ ledger'.writeback = 0
      /\ ledger'.held = [s \in Segments |-> <<>>] /\ ledger'.heldFirst = <<>>
      /\ ledger'.spans = [id \in N.oldest .. N.nextSpan |->
                             IF id = N.nextSpan THEN EmptySpan ELSE N.spans[id]]
  BY <1>1, <1>3, FieldNames DEF OpenSpan
<1>5. ledger'.spans[ledger.nextSpan] = EmptySpan
  BY <1>2, <1>3, <1>4
<1>6. Live(ledger') = {ledger.nextSpan} /\ Back(ledger') = ledger.nextSpan
  BY <1>2, <1>4 DEF Live, Back
<1> QED BY <1>4, <1>5, <1>6

LEMMA TeardownTurn ==
    ASSUME SafetyInv, TurnInv, TeardownOps
    PROVE  TurnInv'
<1>1. CASE DropEpoch
  <2>1. ledger.kicks \in Nat
    BY SafetyFacts DEF Typed, Shaped
  <2>2. /\ ledger'.spans[ledger.nextSpan].kicked = 0
        /\ ledger'.spans[ledger.nextSpan].records = <<>>
        /\ ledger'.spans[ledger.nextSpan].deferred = NoSegment
        /\ Live(ledger') = {ledger.nextSpan} /\ Back(ledger') = ledger.nextSpan
    BY <1>1, DropLeaves DEF EmptySpan
  <2>3. Turned(ledger')
    BY <1>1, <2>1, <2>2, DropLeaves DEF Turned, InTurn
  <2>4. Accepting(ledger') /\ ledger'.ownerSwapThread # NoThread => ledger'.suspended
    <3>1. ledger'.closed = ledger.closed /\ ledger'.failedSpan = ledger.failedSpan
          /\ ledger'.suspended = ledger.suspended
          /\ ledger'.ownerSwapThread = ledger.ownerSwapThread
      BY <1>1, DropLeaves
    <3>2. Accepting(ledger') => Accepting(ledger)
      BY <3>1, SafetyFacts, AcceptingOn DEF Failing
    <3> QED BY <3>1, <3>2 DEF TurnInv, DeferredSwapIsAlone
  <2> QED BY <2>2, <2>3, <2>4 DEF TurnInv, DeferredSwapIsAlone
<1>2. CASE Close
  <2>1. ledger' = [ledger EXCEPT !.closed = TRUE] /\ DOMAIN ledger = Fields
    BY <1>2, SafetyFacts DEF Close
  <2>2. /\ ledger'.closed /\ ledger'.oldest = ledger.oldest
        /\ ledger'.nextSpan = ledger.nextSpan /\ ledger'.spans = ledger.spans
        /\ ledger'.kicks = ledger.kicks
    BY <2>1, FieldNames
  <2> QED BY <2>2 DEF TurnInv, Turned, InTurn, Live, DeferredSwapIsAlone, Accepting
<1>3. CASE DiscardGuestImages
  BY <1>3 DEF DiscardGuestImages, TurnInv, DeferredSwapIsAlone
<1> QED BY <1>1, <1>2, <1>3 DEF TeardownOps

LEMMA GuestTurn ==
    ASSUME SafetyInv, TurnInv, NEW t \in Threads, GuestOps(t)
    PROVE  TurnInv'
<1>1. MainMoves(t) \/ Aside
  BY SafetyFacts, GuestMoves DEF TurnInv
<1>2. CASE Only(t)
  <2>1. Onward(ledger', ledger)
    BY <1>2 DEF Only, Joined
  <2> QED BY <1>2, <2>1, OnlyAlone, OnwardTurned DEF TurnInv
<1>3. CASE DeviceOps(t)
  <2>1. Onward(ledger', ledger)
    <3>1. Accepting(ledger) /\ ledger.ownerSwapThread # NoThread => ledger.suspended
      BY DEF TurnInv, DeferredSwapIsAlone
    <3> QED BY <1>3, <3>1, SafetyFacts, DeviceHanded DEF DeviceOnly
  <2> QED BY <1>3, <2>1, DeviceAlone, OnwardTurned DEF TurnInv
<1>4. CASE Joins(ledger', ledger) /\ Turned(ledger')
  BY <1>4, JoinsAlone DEF TurnInv
<1>5. CASE Aside
  BY <1>5, StayingAlone, OnwardTurned DEF TurnInv, Aside, Bracket
<1> QED BY <1>1, <1>2, <1>3, <1>4, <1>5 DEF MainMoves

LEMMA StepTurn ==
    ASSUME SafetyInv, ImageInv, TurnInv, [Next]_vars
    PROVE  TurnInv'
<1>1. SafetyInv'
  BY StepSafe
<1>2. CASE \E t \in Threads : GuestOps(t)
  BY <1>2, GuestTurn
<1>3. CASE DetachedOps \/ FailureOps
  <2>1. Steady(ledger', ledger)
    BY <1>3, SafetyFacts, DetachedSteady, FailureSteady
  <2> QED BY <2>1, StayingAlone, OnwardTurned DEF TurnInv, Steady, Bracket
<1>4. CASE RegisterOps
  <2>1. PICK block \in Blocks : RegisterWriteback(block)
    BY <1>4 DEF RegisterOps
  <2>2. /\ Onward(ledger', ledger) /\ EntriesStay(ledger', ledger)
        /\ ledger'.suspended = ledger.suspended
        /\ ledger'.ownerSwapThread = ledger.ownerSwapThread
    BY <2>1, SafetyFacts, RegisterEntries
  <2> QED BY <2>2, StayingAlone, OnwardTurned DEF TurnInv
<1>5. CASE PumpNext
  BY <1>1, <1>5, PumpTurn
<1>6. CASE TeardownOps
  BY <1>6, TeardownTurn
<1>7. CASE HolderOps \/ Environment \/ UNCHANGED vars
  <2>1. ledger' = ledger
    BY <1>7 DEF HolderOps, BeginImageWrites, EndImageWrites, Environment,
       HostCompletes, HandlerClearsMask, GuestWritesWord, vars
  <2> QED BY <2>1 DEF TurnInv, DeferredSwapIsAlone
<1> QED BY <1>2, <1>3, <1>4, <1>5, <1>6, <1>7 DEF Next

LEMMA InitTurn ==
    ASSUME Init
    PROVE  TurnInv
<1>1. ledger = NewLedger
  BY DEF Init
<1>2. /\ ledger.oldest = 1 /\ ledger.nextSpan = 2 /\ ledger.spans = [id \in {1} |-> EmptySpan]
      /\ ledger.kicks = 0 /\ ledger.ownerSwapThread = NoThread
  BY <1>1 DEF NewLedger
<1>3. Live(ledger) = {1} /\ ledger.spans[1].kicked = 0
  BY <1>2 DEF Live, EmptySpan
<1> QED BY <1>2, <1>3 DEF TurnInv, Turned, InTurn, DeferredSwapIsAlone

\* Whatever the number of threads, segments and spans, the worker submits the
\* deferred spans in the order they were deferred, and while its deferred swap
\* has the device the open span holds only its records (SubmitDeferred,
\* BeginDeferredSwap and EndDeferredSwap of the completion ledger).
THEOREM WorkerKeepsTurn == Spec => []WorkerInTurn
<1>1. Init => SafetyInv /\ ImageInv /\ TurnInv
  BY InitSafe, ImageStarts, InitTurn
<1>2. (SafetyInv /\ ImageInv /\ TurnInv) /\ [Next]_vars
      => (SafetyInv /\ ImageInv /\ TurnInv)'
  BY StepSafe, StepImage, StepTurn
<1>3. TurnInv => WorkerInTurn
  BY DEF TurnInv, Turned, InTurn, WorkerInTurn, DeferralsInOrder
<1> QED BY <1>1, <1>2, <1>3, PTL DEF Spec

-----------------------------------------------------------------------------
(* A held side buffer goes first.                                          *)

\* What joins the open span of M is the side buffer the step empties.
Orderly ==
    LET b == Back(ledger)
        old == ledger.spans[b].records
        new == ledger'.spans[b].records
    IN  SideHeld(ledger) /\ Accepting(ledger') /\ b \in Live(ledger')
        /\ Len(new) > Len(old)
        => \E s \in Segments :
              /\ SubSeq(new, Len(old) + 1, Len(new)) = ledger.held[s]
              /\ ledger'.held[s] = <<>>

\* The domains of two sequences tell their lengths.
LEMMA SameBound ==
    ASSUME NEW m \in Nat, NEW n \in Nat, 1 .. m = 1 .. n
    PROVE  m = n
<1>1. m \in 1 .. m <=> m \in 1 .. n
  OBVIOUS
<1>2. n \in 1 .. m <=> n \in 1 .. n
  OBVIOUS
<1> QED BY <1>1, <1>2

LEMMA SameLength ==
    ASSUME NEW S, NEW T, NEW a \in Seq(S), NEW b \in Seq(T), DOMAIN a = DOMAIN b
    PROVE  Len(a) = Len(b)
<1>1. /\ Len(a) \in Nat /\ Len(b) \in Nat
      /\ DOMAIN a = 1 .. Len(a) /\ DOMAIN b = 1 .. Len(b)
  OBVIOUS
<1>2. 1 .. Len(a) = 1 .. Len(b)
  BY <1>1
<1> QED BY <1>1, <1>2, SameBound

LEMMA OrderlySame ==
    ASSUME SafetyInv, SafetyInv',
           \/ Back(ledger) \notin Live(ledger')
           \/ DOMAIN ledger'.spans[Back(ledger)].records
                 = DOMAIN ledger.spans[Back(ledger)].records
    PROVE  Orderly
<1> DEFINE b == Back(ledger)
<1>1. CASE b \notin Live(ledger')
  BY <1>1 DEF Orderly
<1>2. CASE b \in Live(ledger')
  <2>1. Typed(ledger, clock) /\ Typed(ledger', clock')
    BY SafetyFacts DEF SafetyInv, TypeInv, Clocked
  <2>2. ledger.spans[b] \in SpanTo(clock) /\ ledger'.spans[b] \in SpanTo(clock')
    BY <1>2, <2>1, BackTypes DEF Typed
  <2>3. /\ ledger.spans[b].records \in Seq(RecordTo(clock))
        /\ ledger'.spans[b].records \in Seq(RecordTo(clock'))
    BY <2>2 DEF SpanTo
  <2>4. Len(ledger'.spans[b].records) = Len(ledger.spans[b].records)
    BY <1>2, <2>3, SameLength
  <2>5. Len(ledger.spans[b].records) \in Nat
    BY <2>3
  <2> QED BY <2>4, <2>5 DEF Orderly
<1> QED BY <1>1, <1>2

LEMMA OnlyOrderly ==
    ASSUME SafetyInv, SafetyInv', NEW t, Only(t)
    PROVE  Orderly
<1> DEFINE b == Back(ledger)
<1>1. PICK r : Joined(ledger', t, r)
  BY DEF Only
<1>2. b \in Live(ledger)
  BY SafetyFacts, BackTypes
<1>3. CASE DOMAIN ledger'.spans[b].records = DOMAIN ledger.spans[b].records
  BY <1>3, OrderlySame
<1>4. CASE DOMAIN ledger'.spans[b].records # DOMAIN ledger.spans[b].records
  <2>1. PICK i \in DOMAIN ledger'.spans[b].records :
           i \notin DOMAIN ledger.spans[b].records
    <3>1. Carries(ledger'.spans[b], ledger.spans[b])
      BY <1>1, <1>2 DEF Joined
    <3> QED BY <1>4, <3>1 DEF Carries
  <2>2. ledger'.failedSpan = 0 => ~SideHeld(ledger)
    BY <1>1, <2>1 DEF Joined
  <2> QED BY <2>2 DEF Orderly, Accepting
<1> QED BY <1>3, <1>4

LEMMA JoinsOrderly ==
    ASSUME SafetyInv, SafetyInv', Joins(ledger', ledger)
    PROVE  Orderly
<1> DEFINE b == Back(ledger)
           old == ledger.spans[b]
           new == ledger'.spans[b]
<1>1. CASE DOMAIN new.records = DOMAIN old.records
  BY <1>1, OrderlySame
<1>2. CASE \E s \in Segments : Gains(new, old, ledger.held[s]) /\ ledger'.held[s] = <<>>
  <2>1. PICK s \in Segments : Gains(new, old, ledger.held[s]) /\ ledger'.held[s] = <<>>
    BY <1>2
  <2> DEFINE recs == ledger.held[s]
             n == Len(old.records)
  <2>2. ASSUME b \in Live(ledger')
        PROVE  SubSeq(new.records, n + 1, Len(new.records)) = recs
    <3>1. /\ n \in Nat /\ Len(recs) \in Nat
          /\ DOMAIN new.records = 1 .. (n + Len(recs))
          /\ \A i \in 1 .. Len(recs) : new.records[n + i] = recs[i]
      BY <2>1 DEF Gains
    <3>2. /\ Typed(ledger, clock) /\ Typed(ledger', clock')
      BY SafetyFacts DEF SafetyInv, TypeInv, Clocked
    <3>3. recs \in Seq(RecordTo(clock))
      BY <3>2 DEF Typed, Others
    <3>4. new.records \in Seq(RecordTo(clock'))
      BY <2>2, <3>2 DEF Typed, SpanTo
    <3> HIDE DEF recs, new, n
    <3>5. Len(new.records) = n + Len(recs)
      <4>1. [i \in 1 .. (n + Len(recs)) |-> 0] \in Seq({0})
            /\ Len([i \in 1 .. (n + Len(recs)) |-> 0]) = n + Len(recs)
        BY <3>1
      <4> QED BY <3>1, <3>4, <4>1, SameLength
    <3> QED BY <3>1, <3>3, <3>4, <3>5
  <2> QED BY <2>1, <2>2 DEF Orderly
<1> QED BY <1>1, <1>2 DEF Joins, Gives

LEMMA StepOrderly ==
    ASSUME SafetyInv, ImageInv, TurnInv, Next
    PROVE  Orderly
<1>1. SafetyInv'
  BY StepSafe
<1>2. Back(ledger) \in Live(ledger)
  BY SafetyFacts, BackTypes
<1>3. ASSUME EntriesStay(ledger', ledger)
      PROVE  Orderly
  <2>1. DOMAIN ledger'.spans[Back(ledger)].records
           = DOMAIN ledger.spans[Back(ledger)].records
    BY <1>2, <1>3 DEF EntriesStay, SameEntries
  <2> QED BY <1>1, <2>1, OrderlySame
<1>4. ASSUME NEW t \in Threads, GuestOps(t)
      PROVE  Orderly
  <2>1. MainMoves(t) \/ Aside
    BY <1>4, SafetyFacts, GuestMoves DEF TurnInv
  <2>2. CASE DeviceOps(t)
    <3>1. Accepting(ledger) /\ ledger.ownerSwapThread # NoThread => ledger.suspended
      BY DEF TurnInv, DeferredSwapIsAlone
    <3>2. EntriesStay(ledger', ledger)
      BY <2>2, <3>1, SafetyFacts, DeviceHanded DEF DeviceOnly
    <3> QED BY <1>3, <3>2
  <2> QED BY <1>1, <1>3, <2>1, <2>2, OnlyOrderly, JoinsOrderly DEF MainMoves, Aside
<1>5. CASE DetachedOps \/ FailureOps
  <2>1. Steady(ledger', ledger)
    BY <1>5, SafetyFacts, DetachedSteady, FailureSteady
  <2> QED BY <1>3, <2>1 DEF Steady
<1>6. CASE RegisterOps
  <2>1. PICK block \in Blocks : RegisterWriteback(block)
    BY <1>6 DEF RegisterOps
  <2> QED BY <1>3, <2>1, SafetyFacts, RegisterEntries
<1>7. CASE PumpNext
  <2>1. \A id \in Live(ledger') : SameEntries(ledger'.spans[id], ledger.spans[id])
    BY <1>7, PumpPasses DEF Passes
  <2>2. \/ Back(ledger) \notin Live(ledger')
        \/ DOMAIN ledger'.spans[Back(ledger)].records
              = DOMAIN ledger.spans[Back(ledger)].records
    BY <2>1 DEF SameEntries
  <2> QED BY <1>1, <2>2, OrderlySame
<1>8. CASE TeardownOps
  <2>1. CASE DropEpoch
    <3>1. Live(ledger') = {ledger.nextSpan} /\ ledger.nextSpan \in Nat
      BY <2>1, DropLeaves, SafetyFacts DEF Typed, Shaped
    <3>2. Back(ledger) \notin Live(ledger')
      BY <3>1 DEF Back
    <3> QED BY <1>1, <3>2, OrderlySame
  <2>2. CASE Close \/ DiscardGuestImages
    <3>1. ledger'.spans = ledger.spans
      BY <2>2, SafetyFacts, FieldNames DEF Close, DiscardGuestImages
    <3> QED BY <1>1, <3>1, OrderlySame
  <2> QED BY <1>8, <2>1, <2>2 DEF TeardownOps
<1>9. CASE HolderOps \/ Environment
  <2>1. ledger' = ledger
    BY <1>9 DEF HolderOps, BeginImageWrites, EndImageWrites, Environment,
       HostCompletes, HandlerClearsMask, GuestWritesWord
  <2> QED BY <1>1, <2>1, OrderlySame
<1> QED BY <1>4, <1>5, <1>6, <1>7, <1>8, <1>9 DEF Next

\* While EndTiling's side buffer is held, no call of any thread, and no step of
\* Pump, a tear-down or the host, adds a record to the open span: what joins it
\* is the whole of a side buffer, in its order, and the submit that adds it
\* empties that buffer (AttachHeld and its callers in the completion ledger).
THEOREM HeldBufferGoesFirst == Spec => NothingPassesHeldBuffer
<1>1. Init => SafetyInv /\ ImageInv /\ TurnInv
  BY InitSafe, ImageStarts, InitTurn
<1>2. (SafetyInv /\ ImageInv /\ TurnInv) /\ [Next]_vars
      => (SafetyInv /\ ImageInv /\ TurnInv)'
  BY StepSafe, StepImage, StepTurn
<1>3. (SafetyInv /\ ImageInv /\ TurnInv) /\ [Next]_vars => [Orderly]_vars
  BY StepOrderly
<1>4. Spec => [][Orderly]_vars
  BY <1>1, <1>2, <1>3, PTL DEF Spec
<1> QED BY <1>4 DEF Orderly, NothingPassesHeldBuffer

-----------------------------------------------------------------------------
(* The fences of the main buffer. While no side buffer holds a fence, each *)
(* new one has the newest value, so the values of the window rise in the   *)
(* order of its records: the cursor never falls, and the fence follows it. *)

IsFence(L, id, i) ==
    /\ id \in Live(L) /\ i \in DOMAIN L.spans[id].records
    /\ L.spans[id].records[i].kind = "Fence"

ValueOf(L, id, i) == L.spans[id].records[i].value
BlockOf(L, id, i) == L.spans[id].records[i].block

FencesRise(L) ==
    \A id, i, later, j :
        /\ IsFence(L, id, i) /\ IsFence(L, later, j)
        /\ id < later \/ (id = later /\ i < j)
        => ValueOf(L, id, i) <= ValueOf(L, later, j)

\* No fence is newer than the clock, and the guest's cursor has passed none
\* that waits.
FencesWait(L, c, cursor) ==
    \A id, i : IsFence(L, id, i) =>
        /\ ValueOf(L, id, i) <= c
        /\ i > L.spans[id].applied => cursor <= ValueOf(L, id, i)

FencesOfBlock(L) ==
    L.failedSpan = 0 =>
        \A id, i : IsFence(L, id, i) => L.writeback \in {0, BlockOf(L, id, i)}

\* Between the two writes of a fence the cursor is that fence's.
AtFence == pump.pc = "fence" => guest.cursor = Rec.value

\* A pass at a span has a registered block to write to.
PassRegistered ==
    pump.pc \notin {"idle", "head"} /\ pump.span \in Live(ledger) => ledger.writeback # 0

FenceInv ==
    /\ HeldFenceless /\ FencesRise(ledger) /\ FencesWait(ledger, clock, guest.cursor)
    /\ guest.fence <= guest.cursor /\ guest.cursor <= clock
    /\ FencesOfBlock(ledger) /\ AtFence /\ PassRegistered

\* A fence of the next state was there, or it has just joined the open span.
Known(id, i) ==
    /\ IsFence(ledger, id, i)
    /\ ValueOf(ledger', id, i) = ValueOf(ledger, id, i)
    /\ BlockOf(ledger', id, i) = BlockOf(ledger, id, i)
    /\ ledger'.spans[id].applied >= ledger.spans[id].applied

Newest(id, i) ==
    /\ id = Back(ledger) /\ id \in Live(ledger)
    /\ i \notin DOMAIN ledger.spans[id].records
    /\ ValueOf(ledger', id, i) = clock'
    /\ ledger'.failedSpan = 0 => ledger.writeback \in {0, BlockOf(ledger', id, i)}

Brings == \A id, i : IsFence(ledger', id, i) => Known(id, i) \/ Newest(id, i)

LEMMA FenceFacts ==
    ASSUME NEW c \in Nat, NEW L, Typed(L, c), NEW id, NEW i, IsFence(L, id, i)
    PROVE  /\ id \in Nat /\ i \in Nat \ {0} /\ L.spans[id].applied \in Nat
           /\ ValueOf(L, id, i) \in Nat
           /\ DOMAIN L.spans[id].records = 1 .. Len(L.spans[id].records)
           /\ Len(L.spans[id].records) \in Nat
<1>1. L.spans[id] \in SpanTo(c) /\ id \in Nat
  BY DEF IsFence, Typed, Shaped, Live
<1>2. L.spans[id].records \in Seq(RecordTo(c)) /\ L.spans[id].applied \in Nat
  BY <1>1 DEF SpanTo
<1>3. /\ DOMAIN L.spans[id].records = 1 .. Len(L.spans[id].records)
      /\ Len(L.spans[id].records) \in Nat
      /\ L.spans[id].records[i] \in RecordTo(c)
  BY <1>2 DEF IsFence
<1>4. i \in Nat \ {0}
  BY <1>3 DEF IsFence
<1>5. ValueOf(L, id, i) \in Nat
  BY <1>3 DEF ValueOf, RecordTo
<1> QED BY <1>1, <1>2, <1>3, <1>4, <1>5

LEMMA BringsRise ==
    ASSUME SafetyInv, SafetyInv', clock' >= clock, Brings, FencesRise(ledger),
           FencesWait(ledger, clock, guest.cursor)
    PROVE  FencesRise(ledger')
<1>1. /\ Typed(ledger, clock) /\ Typed(ledger', clock')
      /\ clock \in Nat /\ clock' \in Nat
  BY SafetyFacts DEF SafetyInv, TypeInv, Clocked
<1>2. SUFFICES ASSUME NEW id, NEW i, NEW later, NEW j,
                      IsFence(ledger', id, i), IsFence(ledger', later, j),
                      id < later \/ (id = later /\ i < j)
               PROVE  ValueOf(ledger', id, i) <= ValueOf(ledger', later, j)
  BY DEF FencesRise
<1>3. /\ id \in Nat /\ i \in Nat \ {0} /\ ValueOf(ledger', id, i) \in Nat
      /\ later \in Nat /\ j \in Nat \ {0} /\ ValueOf(ledger', later, j) \in Nat
  BY <1>1, <1>2, FenceFacts
<1>4. /\ Known(id, i) \/ Newest(id, i)
      /\ Known(later, j) \/ Newest(later, j)
  BY <1>2 DEF Brings
<1>5. ValueOf(ledger', id, i) <= clock'
  <2>1. CASE Known(id, i)
    <3>1. ValueOf(ledger, id, i) <= clock
      BY <2>1 DEF Known, FencesWait
    <3> QED BY <1>1, <1>3, <2>1, <3>1 DEF Known
  <2>2. CASE Newest(id, i)
    BY <1>1, <2>2 DEF Newest
  <2> QED BY <1>4, <2>1, <2>2
<1>6. CASE Newest(later, j)
  BY <1>5, <1>6 DEF Newest
<1>7. CASE Known(id, i) /\ Known(later, j)
  <2>1. ValueOf(ledger, id, i) <= ValueOf(ledger, later, j)
    BY <1>2, <1>7 DEF Known, FencesRise
  <2> QED BY <1>7, <2>1 DEF Known
<1>8. CASE Newest(id, i) /\ Known(later, j)
  <2>1. IsFence(ledger, later, j) /\ later \in Live(ledger) /\ id = Back(ledger)
    BY <1>8 DEF Known, IsFence, Newest
  <2>2. later <= id
    BY <1>1, <2>1 DEF Live, Back, Typed, Shaped
  <2>3. later = id /\ i < j
    BY <1>2, <1>3, <2>2
  <2>4. /\ DOMAIN ledger.spans[id].records = 1 .. Len(ledger.spans[id].records)
        /\ Len(ledger.spans[id].records) \in Nat
        /\ j \in DOMAIN ledger.spans[id].records
    BY <1>1, <2>1, <2>3, FenceFacts DEF IsFence
  <2>5. i \in DOMAIN ledger.spans[id].records
    BY <1>3, <2>3, <2>4
  <2> QED BY <1>8, <2>5 DEF Newest
<1> QED BY <1>4, <1>6, <1>7, <1>8

LEMMA BringsWait ==
    ASSUME SafetyInv, SafetyInv', clock' >= clock, Brings,
           FencesWait(ledger, clock, guest.cursor), guest.cursor <= clock
    PROVE  FencesWait(ledger', clock', guest.cursor)
<1>1. /\ Typed(ledger, clock) /\ Typed(ledger', clock')
      /\ clock \in Nat /\ clock' \in Nat /\ guest.cursor \in Nat
  BY SafetyFacts DEF SafetyInv, TypeInv, Clocked, PeerTypes
<1>2. ASSUME NEW id, NEW i, IsFence(ledger', id, i)
      PROVE  /\ ValueOf(ledger', id, i) <= clock'
             /\ i > ledger'.spans[id].applied => guest.cursor <= ValueOf(ledger', id, i)
  <2>1. /\ i \in Nat \ {0} /\ ValueOf(ledger', id, i) \in Nat
        /\ ledger'.spans[id].applied \in Nat
    BY <1>1, <1>2, FenceFacts
  <2>2. CASE Known(id, i)
    <3>1. /\ IsFence(ledger, id, i)
          /\ ledger'.spans[id].applied >= ledger.spans[id].applied
          /\ ValueOf(ledger', id, i) = ValueOf(ledger, id, i)
      BY <2>2 DEF Known
    <3>2. ledger.spans[id].applied \in Nat
      BY <1>1, <3>1, FenceFacts
    <3>3. /\ ValueOf(ledger, id, i) <= clock
          /\ i > ledger.spans[id].applied => guest.cursor <= ValueOf(ledger, id, i)
      BY <3>1 DEF FencesWait
    <3> QED BY <1>1, <2>1, <3>1, <3>2, <3>3
  <2>3. CASE Newest(id, i)
    BY <1>1, <2>3 DEF Newest
  <2> QED BY <1>2, <2>2, <2>3 DEF Brings
<1> QED BY <1>2 DEF FencesWait

LEMMA BringsBlock ==
    ASSUME Brings, FencesOfBlock(ledger), ledger'.writeback = ledger.writeback,
           Failing(ledger', ledger), SafetyInv
    PROVE  FencesOfBlock(ledger')
<1>1. SUFFICES ASSUME ledger'.failedSpan = 0, NEW id, NEW i, IsFence(ledger', id, i)
               PROVE  ledger'.writeback \in {0, BlockOf(ledger', id, i)}
  BY DEF FencesOfBlock
<1>2. ledger.failedSpan = 0
  <2>1. 0 \notin Live(ledger)
    BY SafetyFacts DEF Live, Typed, Shaped
  <2> QED BY <1>1, <2>1 DEF Failing
<1>3. CASE Known(id, i)
  BY <1>2, <1>3 DEF Known, FencesOfBlock
<1>4. CASE Newest(id, i)
  BY <1>1, <1>4 DEF Newest
<1> QED BY <1>1, <1>3, <1>4 DEF Brings

\* No guest step changes how far a span has released.
LEMMA GuestApplies ==
    ASSUME SafetyInv, GuestSteps
    PROVE  /\ \A id \in Live(ledger) : /\ id \in Live(ledger')
                                       /\ ledger'.spans[id].applied = ledger.spans[id].applied
           /\ pump.pc # "fence" /\ pump' = pump /\ guest' = guest
           /\ ledger'.oldest = ledger.oldest
<1>1. Calls /\ Stays /\ guest' = guest
  BY GuestStepsStay, GuestKeepsMemory
<1>2. /\ ledger'.oldest = ledger.oldest /\ ledger.nextSpan \in Nat
      /\ ledger'.nextSpan \in {ledger.nextSpan, ledger.nextSpan + 1}
      /\ pump' = pump /\ MutexFree
  BY <1>1, SafetyFacts DEF Calls, Grown, Typed, Shaped
<1>3. ledger.oldest \in Nat
  BY SafetyFacts
<1>4. \A id \in Live(ledger) : id \in Live(ledger')
  BY <1>2, <1>3 DEF Live
<1>5. ASSUME NEW id \in Live(ledger)
      PROVE  ledger'.spans[id].applied = ledger.spans[id].applied
  <2>1. Since(ledger', ledger) /\ Since(ledger, ledger)
    BY <1>1, SafetyFacts DEF Stays, Safe, Sound
  <2>2. CASE id \in Settled(ledger)
    BY <2>1, <2>2 DEF Since
  <2>3. CASE id \notin Settled(ledger)
    BY <1>4, <1>5, <2>1, <2>3 DEF Since, Untouched
  <2> QED BY <2>2, <2>3
<1> QED BY <1>1, <1>2, <1>4, <1>5 DEF MutexFree, UnlockedPCs

LEMMA SameBrings ==
    ASSUME \A id \in Live(ledger') :
              /\ id \in Live(ledger)
              /\ SameEntries(ledger'.spans[id], ledger.spans[id])
              /\ ledger'.spans[id].applied >= ledger.spans[id].applied
    PROVE  Brings
BY DEF Brings, Known, IsFence, ValueOf, BlockOf, SameEntries, Carries, SameEntry

LEMMA StayingBrings ==
    ASSUME SafetyInv, GuestSteps, Onward(ledger', ledger), EntriesStay(ledger', ledger)
    PROVE  Brings
<1>1. Live(ledger') = Live(ledger) /\ \A id \in Live(ledger) : ledger.spans[id].applied \in Nat
  BY OnwardLive, SafetyFacts DEF Typed, SpanTo
<1>2. \A id \in Live(ledger) : ledger'.spans[id].applied >= ledger.spans[id].applied
  BY <1>1, GuestApplies
<1> QED BY <1>1, <1>2, SameBrings DEF EntriesStay

LEMMA OnlyBrings ==
    ASSUME SafetyInv, GuestSteps, NEW t, Only(t)
    PROVE  Brings
<1>1. PICK r : /\ Joined(ledger', t, r)
               /\ r.kind = "Fence" => NewFence(r)
  BY DEF Only
<1>2. Live(ledger') = Live(ledger) /\ Back(ledger) \in Live(ledger)
      /\ \A id \in Live(ledger) : ledger.spans[id].applied \in Nat
  BY <1>1, OnwardLive, SafetyFacts, BackTypes DEF Joined, Typed, SpanTo
<1>3. SUFFICES ASSUME NEW id, NEW i, IsFence(ledger', id, i)
               PROVE  Known(id, i) \/ Newest(id, i)
  BY DEF Brings
<1>4. id \in Live(ledger) /\ i \in DOMAIN ledger'.spans[id].records
      /\ ledger'.spans[id].records[i].kind = "Fence"
  BY <1>2, <1>3 DEF IsFence
<1>5. CASE i \in DOMAIN ledger.spans[id].records
  <2>1. SameEntry(ledger'.spans[id].records[i], ledger.spans[id].records[i])
    BY <1>1, <1>4, <1>5 DEF Joined, Carries
  <2>2. ledger'.spans[id].applied >= ledger.spans[id].applied
    BY <1>2, <1>4, GuestApplies
  <2> QED BY <1>4, <1>5, <2>1, <2>2 DEF Known, IsFence, ValueOf, BlockOf, SameEntry
<1>6. CASE i \notin DOMAIN ledger.spans[id].records
  <2>1. id = Back(ledger)
    <3>1. Onward(ledger', ledger)
      BY <1>1 DEF Joined
    <3>2. id # Back(ledger) =>
             DOMAIN ledger'.spans[id].records = DOMAIN ledger.spans[id].records
      BY <1>4, <3>1 DEF Onward, Rewrites
    <3> QED BY <1>4, <1>6, <3>2
  <2>2. SameEntry(ledger'.spans[id].records[i], r)
    BY <1>1, <1>4, <1>6, <2>1 DEF Joined
  <2>3. NewFence(r)
    BY <1>1, <1>4, <2>2 DEF SameEntry
  <2> QED BY <1>4, <1>6, <2>1, <2>2, <2>3
          DEF Newest, NewFence, SameEntry, ValueOf, BlockOf
<1> QED BY <1>5, <1>6

LEMMA JoinsBring ==
    ASSUME SafetyInv, GuestSteps, HeldFenceless, Joins(ledger', ledger)
    PROVE  Brings
<1> DEFINE b == Back(ledger)
<1>1. /\ b \in Live(ledger) /\ ledger.nextSpan \in Nat /\ ledger.oldest \in Nat
      /\ \A id \in Live(ledger) : ledger.spans[id].applied \in Nat
  BY SafetyFacts, BackTypes DEF Typed, Shaped, SpanTo
<1>2. SUFFICES ASSUME NEW id, NEW i, IsFence(ledger', id, i)
               PROVE  Known(id, i) \/ Newest(id, i)
  BY DEF Brings
<1>3. /\ i \in DOMAIN ledger'.spans[id].records /\ id \in Live(ledger')
      /\ ledger'.spans[id].records[i].kind = "Fence"
  BY <1>2 DEF IsFence
<1>4. id \in Live(ledger)
  <2>1. id \in Live(ledger) \/ (id = ledger.nextSpan /\ ledger'.spans[id] = EmptySpan)
    <3>1. ledger'.oldest = ledger.oldest
      BY DEF Joins, Gives
    <3> QED BY <1>1, <1>3, <3>1 DEF Joins, Live
  <2>2. DOMAIN EmptySpan.records = {}
    BY DEF EmptySpan
  <2> QED BY <1>3, <2>1, <2>2
<1>5. CASE i \in DOMAIN ledger.spans[id].records
  <2>1. SameEntry(ledger'.spans[id].records[i], ledger.spans[id].records[i])
    BY <1>4, <1>5 DEF Joins, Gives, Carries
  <2>2. ledger'.spans[id].applied >= ledger.spans[id].applied
    BY <1>1, <1>4, GuestApplies
  <2> QED BY <1>3, <1>4, <1>5, <2>1, <2>2 DEF Known, IsFence, ValueOf, BlockOf, SameEntry
<1>6. CASE i \notin DOMAIN ledger.spans[id].records
  <2>1. id = b
    BY <1>3, <1>4, <1>6 DEF Joins, Gives
  <2>2. PICK s \in Segments : Gains(ledger'.spans[b], ledger.spans[b], ledger.held[s])
    BY <1>3, <1>6, <2>1 DEF Joins, Gives
  <2> DEFINE n == Len(ledger.spans[b].records)
             recs == ledger.held[s]
  <2>3. /\ n \in Nat /\ Len(recs) \in Nat
        /\ DOMAIN ledger.spans[b].records = 1 .. n /\ DOMAIN recs = 1 .. Len(recs)
        /\ i \in 1 .. (n + Len(recs))
        /\ \A k \in 1 .. Len(recs) : ledger'.spans[b].records[n + k] = recs[k]
    BY <1>3, <2>1, <2>2 DEF Gains
  <2>4. i \notin 1 .. n
    BY <1>6, <2>1, <2>3
  <2>5. \A k \in 1 .. Len(recs) : recs[k].kind # "Fence"
    BY <2>3 DEF HeldFenceless, Fenceless
  <2>6. ledger'.spans[b].records[i].kind = "Fence"
    BY <1>3, <2>1
  <2> HIDE DEF n, recs, b
  <2>7. i - n \in 1 .. Len(recs) /\ n + (i - n) = i
    BY <2>3, <2>4
  <2>8. ledger'.spans[b].records[i] = recs[i - n]
    BY <2>3, <2>7
  <2> QED BY <2>5, <2>6, <2>7, <2>8
<1> QED BY <1>5, <1>6

\* A pass has no span that a guest step opens.
LEMMA GuestRegistered ==
    ASSUME SafetyInv, GuestSteps, PassRegistered,
           ledger.writeback # 0 => ledger'.writeback # 0
    PROVE  PassRegistered'
<1>1. /\ pump' = pump /\ ledger'.oldest = ledger.oldest
  BY GuestApplies
<1>2. /\ pump.span \in Nat /\ pump.pc \notin {"idle", "head"} => pump.span < Back(ledger)
      /\ ledger.oldest \in Nat /\ ledger.nextSpan \in Nat
  BY SafetyFacts DEF PumpOwns, PumpInWindow, Typed, Shaped
<1>3. pump.pc \notin {"idle", "head"} /\ pump.span \in Live(ledger') => pump.span \in Live(ledger)
  BY <1>1, <1>2 DEF Live, Back
<1> QED BY <1>1, <1>3 DEF PassRegistered

LEMMA GuestFence ==
    ASSUME SafetyInv, SafetyInv', FenceInv, GuestSteps, Brings, HeldFenceless',
           clock' \in {clock, clock + 1}, ledger'.writeback = ledger.writeback,
           Failing(ledger', ledger)
    PROVE  FenceInv'
<1>1. /\ HeldFenceless /\ FencesRise(ledger) /\ FencesWait(ledger, clock, guest.cursor)
      /\ guest.fence <= guest.cursor /\ guest.cursor <= clock
      /\ FencesOfBlock(ledger) /\ PassRegistered
  BY DEF FenceInv
<1>2. guest' = guest /\ pump' = pump /\ pump.pc # "fence"
  BY GuestApplies
<1>3. clock \in Nat /\ guest.cursor \in Nat
  BY SafetyFacts DEF PeerTypes
<1>4. clock' >= clock /\ guest.cursor <= clock'
  BY <1>1, <1>3
<1>5. FencesRise(ledger') /\ FencesWait(ledger', clock', guest.cursor)
      /\ FencesOfBlock(ledger')
  BY <1>1, <1>4, BringsRise, BringsWait, BringsBlock
<1>6. AtFence' /\ PassRegistered'
  BY <1>1, <1>2, GuestRegistered DEF AtFence
<1> QED BY <1>1, <1>2, <1>4, <1>5, <1>6 DEF FenceInv

LEMMA MainFence ==
    ASSUME SafetyInv, SafetyInv', TurnInv, FenceInv, NEW t \in Threads, MainOps(t)
    PROVE  FenceInv'
<1>1. GuestOps(t) /\ GuestSteps
  <2>1. GuestOps(t)
    BY MainIsGuest
  <2> QED BY <2>1 DEF GuestSteps
<1>2. clock' \in {clock, clock + 1}
  BY <1>1, GuestClock
<1>3. MainMoves(t) /\ HeldFenceless
  BY SafetyFacts, MainOpsMove DEF TurnInv, FenceInv
<1>4. CASE Only(t)
  <2>1. Onward(ledger', ledger) /\ Bracket(ledger', ledger) /\ Holds(ledger', ledger)
    BY <1>4 DEF Only, Joined
  <2>2. Brings
    BY <1>1, <1>4, OnlyBrings
  <2>3. HeldFenceless' /\ ledger'.writeback = ledger.writeback /\ Failing(ledger', ledger)
    BY <1>3, <2>1 DEF HeldFenceless, Holds, Bracket, Onward, Rewrites, Failing
  <2> QED BY <1>1, <1>2, <2>2, <2>3, GuestFence
<1>5. CASE DeviceOps(t)
  <2>1. DeviceOnly
    <3>1. Accepting(ledger) /\ ledger.ownerSwapThread # NoThread => ledger.suspended
      BY DEF TurnInv, DeferredSwapIsAlone
    <3> QED BY <1>5, <3>1, SafetyFacts, DeviceHanded
  <2>2. Brings
    BY <1>1, <2>1, StayingBrings DEF DeviceOnly
  <2>3. HeldFenceless' /\ ledger'.writeback = ledger.writeback /\ Failing(ledger', ledger)
    BY <1>3, <2>1 DEF HeldFenceless, Holds, DeviceOnly, Onward, Rewrites, Failing
  <2> QED BY <1>1, <1>2, <2>2, <2>3, GuestFence
<1>6. CASE Joins(ledger', ledger)
  <2>1. Brings
    BY <1>1, <1>3, <1>6, JoinsBring
  <2>2. Gives(ledger', ledger)
    BY <1>6 DEF Joins
  <2>3. ledger'.writeback = ledger.writeback /\ Failing(ledger', ledger)
    BY <2>2 DEF Gives, Bracket
  <2>4. HeldFenceless'
    <3>1. DOMAIN <<>> = {}
      OBVIOUS
    <3>2. Fenceless(<<>>)
      BY <3>1 DEF Fenceless
    <3> QED BY <1>3, <2>2, <3>2 DEF Gives, HeldFenceless
  <2> QED BY <1>1, <1>2, <2>1, <2>3, <2>4, GuestFence
<1>7. CASE Aside /\ (HeldFenceless => HeldFenceless')
  <2>1. Onward(ledger', ledger) /\ EntriesStay(ledger', ledger) /\ Bracket(ledger', ledger)
    BY <1>7 DEF Aside
  <2>2. Brings
    BY <1>1, <2>1, StayingBrings
  <2>3. ledger'.writeback = ledger.writeback /\ Failing(ledger', ledger)
    BY <2>1 DEF Bracket, Onward, Rewrites, Failing
  <2> QED BY <1>1, <1>2, <1>3, <1>7, <2>2, <2>3, GuestFence
<1> QED BY <1>3, <1>4, <1>5, <1>6, <1>7 DEF MainMoves

LEMMA SteadyFence ==
    ASSUME SafetyInv, SafetyInv', FenceInv, DetachedOps \/ FailureOps
    PROVE  FenceInv'
<1>1. GuestSteps
  BY DEF GuestSteps
<1>2. Steady(ledger', ledger) /\ clock' \in {clock, clock + 1}
  BY SafetyFacts, DetachedSteady, FailureSteady
<1>3. Brings
  BY <1>1, <1>2, StayingBrings DEF Steady
<1>4. ledger'.writeback = ledger.writeback /\ Failing(ledger', ledger)
  BY <1>2 DEF Steady, Bracket, Onward, Rewrites, Failing
<1>5. HeldFenceless'
  BY <1>2 DEF Steady, Holds, HeldFenceless, FenceInv
<1> QED BY <1>1, <1>2, <1>3, <1>4, <1>5, GuestFence

\* A block registered late fails the session at a fence of another block.
LEMMA RegisterFence ==
    ASSUME SafetyInv, SafetyInv', FenceInv, RegisterOps
    PROVE  FenceInv'
<1>1. PICK block \in Blocks : RegisterWriteback(block)
  BY DEF RegisterOps
<1>2. GuestSteps
  BY DEF GuestSteps
<1>3. /\ Onward(ledger', ledger) /\ EntriesStay(ledger', ledger)
      /\ Holds(ledger', ledger)
      /\ ledger'.writeback = block /\ block # 0 /\ clock' = clock
      /\ ledger'.failedSpan = 0 =>
            \A id \in Live(ledger) : \A i \in DOMAIN ledger.spans[id].records :
               ledger.spans[id].records[i].kind = "Fence"
               => ledger.spans[id].records[i].block = block
  BY <1>1, SafetyFacts, RegisterEntries
<1>4. /\ HeldFenceless /\ FencesRise(ledger) /\ FencesWait(ledger, clock, guest.cursor)
      /\ guest.fence <= guest.cursor /\ guest.cursor <= clock /\ PassRegistered
  BY DEF FenceInv
<1>5. guest' = guest /\ pump' = pump /\ pump.pc # "fence"
  BY <1>2, GuestApplies
<1>6. Brings /\ clock' >= clock
  <2>1. clock \in Nat
    BY SafetyFacts
  <2> QED BY <1>2, <1>3, <2>1, StayingBrings
<1>7. FencesRise(ledger') /\ FencesWait(ledger', clock', guest.cursor)
  BY <1>4, <1>6, BringsRise, BringsWait
<1>8. FencesOfBlock(ledger')
  <2>1. Live(ledger') = Live(ledger)
    BY <1>3, OnwardLive
  <2> QED BY <1>3, <2>1
          DEF FencesOfBlock, IsFence, BlockOf, EntriesStay, SameEntries, Carries, SameEntry
<1>9. PassRegistered' /\ AtFence' /\ HeldFenceless'
  BY <1>2, <1>3, <1>4, <1>5, GuestRegistered DEF AtFence, HeldFenceless, Holds
<1> QED BY <1>3, <1>4, <1>5, <1>7, <1>8, <1>9 DEF FenceInv

\* Only the two writes of a fence touch the cursor and the fence, and a pass
\* comes to a span only when a block is registered.
FencesRest == guest'.cursor = guest.cursor /\ guest'.fence = guest.fence /\ pump'.pc # "fence"

Comes == pump'.pc \notin {"idle", "head"} =>
            \/ pump'.span = pump.span /\ pump.pc \notin {"idle", "head"}
            \/ ledger.writeback # 0

LEMMA PumpQuiet ==
    ASSUME SafetyInv, PumpNext
    PROVE  (FencesRest \/ WriteCursor \/ WriteFence) /\ Comes
<1>1. /\ DOMAIN pump = {"pc", "span", "mark", "result"}
      /\ {"cursor", "fence", "scratch", "slot", "mask", "raised", "image", "rptr"}
            \subseteq DOMAIN guest
  BY SafetyFacts DEF PeerTypes
<1>2. ASSUME NEW pc, Step(pc)
      PROVE  /\ pump'.pc = pc
             /\ pc \notin {"idle", "head"} => pump'.span = pump.span
  BY <1>2 DEF Step
<1>3. CASE LoopSteps
  <2>1. CASE WriteReplayPointer
    BY <1>1, <1>2, <2>1 DEF WriteReplayPointer, FencesRest, Comes
  <2>2. CASE LoseReplayPointer
    <3>1. (Step("head") \/ Step("idle")) /\ guest' = guest
      BY <2>2 DEF LoseReplayPointer
    <3> QED BY <1>2, <3>1 DEF FencesRest, Comes
  <2>3. CASE Pause
    BY <1>2, <2>3 DEF Pause, FencesRest, Comes
  <2>4. CASE BeginFlush \/ BeginApply
    <3>1. /\ guest' = guest /\ ledger.writeback # 0
          /\ \/ pump' = [pump EXCEPT !.pc = "flush", !.span = ledger.oldest,
                                      !.mark = Front.lastAdmitted]
             \/ pump' = [pump EXCEPT !.pc = "apply", !.span = ledger.oldest]
      BY <2>4 DEF BeginFlush, BeginApply, Ready
    <3>2. pump'.pc \in {"flush", "apply"}
      BY <1>1, <3>1
    <3> QED BY <3>1, <3>2 DEF FencesRest, Comes
  <2>5. CASE Release
    BY <1>1, <1>2, <2>5 DEF Release, FencesRest, Comes
  <2>6. CASE ReleaseFailed
    <3>1. (Step("head") \/ Step("idle")) /\ guest' = guest
      BY <2>6 DEF ReleaseFailed
    <3> QED BY <1>2, <3>1 DEF FencesRest, Comes
  <2> QED BY <1>3, <2>1, <2>2, <2>3, <2>4, <2>5, <2>6 DEF LoopSteps
<1>4. CASE FlushOps
  <2>1. CASE FlushFenced
    <3>1. guest' = guest /\ pump.pc = "flush" /\ (Step("idle") \/ Step("apply"))
      BY <2>1 DEF FlushFenced
    <3> QED BY <1>2, <3>1 DEF FencesRest, Comes
  <2>2. CASE FlushRetry \/ FlushFailed
    BY <1>2, <2>2 DEF FlushRetry, FlushFailed, FencesRest, Comes
  <2> QED BY <1>4, <2>1, <2>2 DEF FlushOps
<1>5. CASE ApplySteps
  <2>1. CASE ApplySkipped \/ ApplyInert \/ WriteScratch \/ WaitOver
    BY <1>1, <2>1 DEF ApplySkipped, ApplyInert, WriteScratch, WaitOver, ApplyKind,
       AtRecord, FencesRest, Comes
  <2>2. CASE WaitLonger \/ AccessFailed
    BY <1>2, <2>2 DEF WaitLonger, AccessFailed, GiveUp, FencesRest, Comes
  <2>3. CASE ApplyDone
    <3>1. guest' = guest /\ pump.pc = "apply" /\ (Step("idle") \/ Step("release"))
      BY <2>3 DEF ApplyDone
    <3> QED BY <1>2, <3>1 DEF FencesRest, Comes
  <2>4. CASE WriteCursor \/ WriteFence
    BY <1>2, <2>4 DEF WriteCursor, WriteFence, ApplyKind, AtRecord, Comes
  <2> QED BY <1>5, <2>1, <2>2, <2>3, <2>4 DEF ApplySteps
<1>6. CASE CallbackSteps
  <2>1. CASE WriteSlot \/ WriteMask \/ RaiseAgain
    <3>1. /\ pump.pc \in {"apply", "mask"} /\ (Step("mask") \/ Step("raise"))
          /\ \/ guest' = guest
             \/ guest' = [guest EXCEPT !.slot = Rec.value]
             \/ guest' = [guest EXCEPT !.mask = TRUE, !.raised = FALSE]
      BY <2>1 DEF WriteSlot, WriteMask, RaiseAgain, ApplyKind, AtRecord
    <3>2. guest'.cursor = guest.cursor /\ guest'.fence = guest.fence
      BY <1>1, <3>1
    <3> QED BY <1>2, <3>1, <3>2 DEF FencesRest, Comes
  <2>2. CASE Raised
    <3>1. /\ guest'.cursor = guest.cursor /\ guest'.fence = guest.fence
          /\ pump.pc = "raise" /\ (Step("idle") \/ Step("apply"))
      BY <1>1, <2>2 DEF Raised
    <3> QED BY <1>2, <3>1 DEF FencesRest, Comes
  <2>3. CASE NotRaised \/ AwaitMask
    BY <1>2, <2>3 DEF NotRaised, AwaitMask, FencesRest, Comes
  <2>4. CASE RetireSlot \/ CallbackDone
    BY <1>1, <2>4 DEF RetireSlot, CallbackDone, RaiseDone, ApplyKind, AtRecord,
       FencesRest, Comes
  <2> QED BY <1>6, <2>1, <2>2, <2>3, <2>4 DEF CallbackSteps
<1>7. CASE ImageOps
  <2>1. CASE SkipImage \/ ImageSkipped
    <3>1. guest' = guest /\ pump.pc \in {"apply", "skip"}
          /\ (Step("skip") \/ Step("idle") \/ Step("apply"))
      BY <2>1 DEF SkipImage, ImageSkipped, AtRecord
    <3> QED BY <1>2, <3>1 DEF FencesRest, Comes
  <2>2. CASE WantImage
    BY <1>1, <2>2 DEF WantImage, ApplyKind, AtRecord, FencesRest, Comes
  <2>3. CASE PassGate
    <3>1. guest' = guest /\ pump.pc = "gate" /\ (Step("idle") \/ Step("take"))
      BY <2>3 DEF PassGate
    <3> QED BY <1>2, <3>1 DEF FencesRest, Comes
  <2>4. CASE WriteImage \/ \E result \in {"held", "error", "closing"} : NoImage(result)
    BY <1>1, <2>4 DEF WriteImage, NoImage, FencesRest, Comes
  <2>5. CASE ImageTaken
    <3>1. guest' = guest /\ pump.pc = "took" /\ (Step("idle") \/ Step("apply"))
      BY <2>5 DEF ImageTaken
    <3> QED BY <1>2, <3>1 DEF FencesRest, Comes
  <2> QED BY <1>7, <2>1, <2>2, <2>3, <2>4, <2>5 DEF ImageOps
<1> QED BY <1>3, <1>4, <1>5, <1>6, <1>7 DEF PumpNext

LEMMA PumpRegistered ==
    ASSUME SafetyInv, ImageInv, PumpNext, PassRegistered
    PROVE  PassRegistered'
<1>1. Comes /\ Passes /\ ledger'.writeback = ledger.writeback
  BY PumpQuiet, PumpPasses, PumpBeside DEF Beside, Bracket
<1>2. \A id \in Live(ledger') : id \in Live(ledger)
  BY <1>1 DEF Passes
<1> QED BY <1>1, <1>2 DEF Comes, PassRegistered

\* A fence that Pump writes is the first of the window that waits.
LEMMA CursorWait ==
    ASSUME SafetyInv, FenceInv, WriteCursor
    PROVE  /\ guest'.cursor = Rec.value /\ guest'.fence = guest.fence
           /\ guest.cursor <= Rec.value /\ Rec.value <= clock
           /\ FencesWait(ledger, clock, Rec.value)
<1>1. /\ guest' = [guest EXCEPT !.cursor = Rec.value] /\ pump.pc = "apply"
      /\ Cur.applied < Len(Cur.records) /\ Rec.kind = "Fence"
  BY DEF WriteCursor, ApplyKind, AtRecord
<1>2. pump.span = ledger.oldest /\ ledger.oldest \in Live(ledger) /\ ledger.oldest \in Nat
      /\ Cur = Front
  <2>1. AtSpan
    BY <1>1, FrontIsUsed DEF LockedPCs
  <2> QED BY <2>1, SafetyFacts DEF AtSpan, Cur, Front
<1>3. /\ Front.applied \in Nat /\ Len(Front.records) \in Nat
      /\ DOMAIN Front.records = 1 .. Len(Front.records)
      /\ Rec = Front.records[Front.applied + 1]
  BY <1>2, FrontFacts DEF Rec, Index
<1> DEFINE o == ledger.oldest
           k == Front.applied + 1
<1>4. IsFence(ledger, o, k) /\ ValueOf(ledger, o, k) = Rec.value
      /\ k > ledger.spans[o].applied /\ k \in Nat
  <2>1. k \in DOMAIN Front.records /\ k > Front.applied /\ k \in Nat
    BY <1>1, <1>2, <1>3
  <2>2. Front.records[k].kind = "Fence" /\ Front.records[k].value = Rec.value
    BY <1>1, <1>3
  <2> HIDE DEF k
  <2> QED BY <1>2, <2>1, <2>2 DEF IsFence, ValueOf, Front
<1>5. guest.cursor <= Rec.value /\ Rec.value <= clock
  BY <1>4 DEF FenceInv, FencesWait
<1>6. ASSUME NEW id, NEW i, IsFence(ledger, id, i), i > ledger.spans[id].applied
      PROVE  Rec.value <= ValueOf(ledger, id, i)
  <2>1. /\ id \in Nat /\ i \in Nat /\ id \in Live(ledger)
        /\ ValueOf(ledger, id, i) \in Nat
    BY <1>6, SafetyFacts, FenceFacts DEF IsFence
  <2>2. CASE id = o /\ i = k
    BY <1>4, <2>1, <2>2
  <2>3. CASE id = o /\ i # k
    <3>1. k < i
      BY <1>3, <1>6, <2>1, <2>3 DEF Front
    <3> QED BY <1>4, <1>6, <2>3, <3>1 DEF FenceInv, FencesRise
  <2>4. CASE id # o
    <3>1. o < id
      BY <1>2, <2>1, <2>4, SafetyFacts DEF Live, Typed, Shaped
    <3> QED BY <1>4, <1>6, <3>1 DEF FenceInv, FencesRise
  <2> QED BY <2>2, <2>3, <2>4
<1>7. FencesWait(ledger, clock, Rec.value)
  BY <1>6 DEF FenceInv, FencesWait
<1>8. guest'.cursor = Rec.value /\ guest'.fence = guest.fence
  BY <1>1, SafetyFacts DEF PeerTypes
<1> QED BY <1>5, <1>7, <1>8

LEMMA PumpFence ==
    ASSUME SafetyInv, SafetyInv', ImageInv, FenceInv, PumpNext
    PROVE  FenceInv'
<1>1. /\ HeldFenceless /\ FencesRise(ledger) /\ FencesWait(ledger, clock, guest.cursor)
      /\ guest.fence <= guest.cursor /\ guest.cursor <= clock
      /\ FencesOfBlock(ledger) /\ AtFence /\ PassRegistered
  BY DEF FenceInv
<1>2. Passes /\ Beside(ledger', ledger) /\ clock' = clock
  BY PumpPasses, PumpBeside
<1>3. Brings
  BY <1>2, PumpApplies, SameBrings DEF Passes
<1>4. /\ clock \in Nat /\ clock' >= clock /\ guest.cursor \in Nat /\ guest.fence \in Nat
  BY <1>2, SafetyFacts DEF PeerTypes
<1>5. HeldFenceless' /\ FencesOfBlock(ledger') /\ PassRegistered' /\ FencesRise(ledger')
  <2>1. ledger'.writeback = ledger.writeback /\ Failing(ledger', ledger)
    BY <1>2 DEF Beside, Bracket, Passes
  <2>2. HeldFenceless'
    BY <1>1, <1>2 DEF Beside, Holds, HeldFenceless
  <2> QED BY <1>1, <1>3, <1>4, <2>1, <2>2, BringsBlock, BringsRise, PumpRegistered
<1>6. CASE FencesRest
  <2>1. FencesWait(ledger', clock', guest.cursor)
    BY <1>1, <1>3, <1>4, BringsWait
  <2> QED BY <1>1, <1>2, <1>5, <1>6, <2>1 DEF FencesRest, FenceInv, AtFence
<1>7. CASE WriteCursor
  <2>1. /\ guest'.cursor = Rec.value /\ guest'.fence = guest.fence
        /\ guest.cursor <= Rec.value /\ Rec.value <= clock
        /\ FencesWait(ledger, clock, Rec.value)
    BY <1>7, CursorWait
  <2>2. ledger' = ledger /\ pump'.pc = "fence" /\ pump'.span = pump.span
    BY <1>7 DEF WriteCursor, Step
  <2>3. Rec' = Rec /\ guest'.cursor \in Nat
    <3>1. Rec' = Rec
      BY <2>2 DEF Rec, Cur, Index
    <3>2. guest'.cursor \in Nat
      BY DEF SafetyInv, TypeInv, PeerTypes
    <3> QED BY <3>1, <3>2
  <2>4. guest'.fence <= guest'.cursor /\ guest'.cursor <= clock'
    BY <1>1, <1>2, <1>4, <2>1, <2>3
  <2>5. AtFence'
    BY <2>1, <2>3 DEF AtFence
  <2> QED BY <1>2, <1>5, <2>1, <2>2, <2>4, <2>5 DEF FenceInv
<1>8. CASE WriteFence
  <2>1. guest' = [guest EXCEPT !.fence = Rec.value] /\ pump.pc = "fence" /\ pump'.pc = "apply"
    BY <1>8 DEF WriteFence, Step
  <2>2. guest'.cursor = guest.cursor /\ guest'.fence = guest.cursor
    BY <1>1, <2>1, SafetyFacts DEF PeerTypes, AtFence
  <2>3. FencesWait(ledger', clock', guest.cursor)
    BY <1>1, <1>3, <1>4, BringsWait
  <2>4. guest'.fence <= guest'.cursor
    BY <1>4, <2>2
  <2> QED BY <1>1, <1>2, <1>5, <2>1, <2>2, <2>3, <2>4 DEF FenceInv, AtFence
<1> QED BY <1>6, <1>7, <1>8, PumpQuiet

LEMMA TeardownFence ==
    ASSUME SafetyInv, FenceInv, TeardownOps
    PROVE  FenceInv'
<1>1. /\ guest' = guest /\ pump' = pump /\ clock' = clock
  BY DEF TeardownOps, DropEpoch, Close, DiscardGuestImages
<1>2. CASE DropEpoch
  <2>1. /\ ledger'.spans[ledger.nextSpan].records = <<>>
        /\ Live(ledger') = {ledger.nextSpan}
        /\ \A s \in Segments : ledger'.held[s] = <<>>
        /\ ledger'.heldFirst = <<>>
    BY <1>2, DropLeaves DEF EmptySpan
  <2>2. \A id, i : ~IsFence(ledger', id, i)
    BY <2>1 DEF IsFence
  <2>3. HeldFenceless'
    <3>1. Fenceless(<<>>)
      BY DEF Fenceless
    <3> QED BY <2>1, <3>1 DEF HeldFenceless
  <2>4. pump.pc # "fence"
    BY <1>2 DEF DropEpoch, MutexFree, UnlockedPCs
  <2>5. PassRegistered'
    <3>1. /\ pump.span \in Nat /\ pump.pc \notin {"idle", "head"} => pump.span < Back(ledger)
          /\ ledger.nextSpan \in Nat
      BY SafetyFacts DEF PumpOwns, PumpInWindow, Typed, Shaped
    <3> QED BY <1>1, <2>1, <3>1 DEF PassRegistered, Back
  <2> QED BY <1>1, <2>2, <2>3, <2>4, <2>5
          DEF FenceInv, FencesRise, FencesWait, FencesOfBlock, AtFence
<1>3. CASE Close
  <2>1. /\ ledger'.oldest = ledger.oldest /\ ledger'.nextSpan = ledger.nextSpan
        /\ ledger'.spans = ledger.spans /\ ledger'.held = ledger.held
        /\ ledger'.heldFirst = ledger.heldFirst /\ ledger'.writeback = ledger.writeback
        /\ ledger'.failedSpan = ledger.failedSpan
    BY <1>3, SafetyFacts, FieldNames DEF Close
  <2>2. pump.pc # "fence"
    BY <1>3 DEF Close, MutexFree, UnlockedPCs
  <2>3. /\ Live(ledger') = Live(ledger)
        /\ \A id, i : /\ IsFence(ledger', id, i) <=> IsFence(ledger, id, i)
                      /\ ValueOf(ledger', id, i) = ValueOf(ledger, id, i)
                      /\ BlockOf(ledger', id, i) = BlockOf(ledger, id, i)
    BY <2>1 DEF Live, IsFence, ValueOf, BlockOf
  <2> QED BY <1>1, <2>1, <2>2, <2>3
          DEF FenceInv, FencesRise, FencesWait, FencesOfBlock, AtFence, HeldFenceless,
              PassRegistered
<1>4. CASE DiscardGuestImages
  <2>1. ledger' = ledger
    BY <1>4 DEF DiscardGuestImages
  <2>2. Rec' = Rec
    BY <1>1, <2>1 DEF Rec, Cur, Index
  <2> QED BY <1>1, <2>1, <2>2 DEF FenceInv, AtFence, HeldFenceless, PassRegistered
<1> QED BY <1>2, <1>3, <1>4 DEF TeardownOps

\* Every step but EndTiling's fence, which joins a side buffer.
MainNext ==
    \/ \E t \in Threads : MainOps(t)
    \/ DetachedOps
    \/ FailureOps \/ RegisterOps \/ TeardownOps \/ HolderOps
    \/ PumpNext
    \/ Environment

MainSpec == Init /\ [][MainNext]_vars

MainInv == SafetyInv /\ ImageInv /\ TurnInv /\ FenceInv

LEMMA StepFence ==
    ASSUME MainInv, SafetyInv', [MainNext]_vars
    PROVE  FenceInv'
<1>0. SafetyInv /\ ImageInv /\ TurnInv /\ FenceInv
  BY DEF MainInv
<1>1. CASE \E t \in Threads : MainOps(t)
  BY <1>0, <1>1, MainFence
<1>2. CASE DetachedOps \/ FailureOps
  BY <1>0, <1>2, SteadyFence
<1>3. CASE RegisterOps
  BY <1>0, <1>3, RegisterFence
<1>4. CASE PumpNext
  BY <1>0, <1>4, PumpFence
<1>5. CASE TeardownOps
  BY <1>0, <1>5, TeardownFence
<1>6. CASE HolderOps \/ Environment \/ UNCHANGED vars
  <2>1. ledger' = ledger /\ pump' = pump /\ clock' = clock
    BY <1>6 DEF HolderOps, BeginImageWrites, EndImageWrites, Environment,
       HostCompletes, HandlerClearsMask, GuestWritesWord, vars
  <2>2. guest'.cursor = guest.cursor /\ guest'.fence = guest.fence
    <3>1. {"cursor", "fence", "mask", "word"} \subseteq DOMAIN guest
      BY <1>0, SafetyFacts DEF PeerTypes
    <3> QED BY <1>6, <3>1 DEF HolderOps, BeginImageWrites, EndImageWrites, Environment,
       HostCompletes, HandlerClearsMask, GuestWritesWord, vars
  <2>3. Rec' = Rec
    BY <2>1 DEF Rec, Cur, Index
  <2> QED BY <1>0, <2>1, <2>2, <2>3 DEF FenceInv, AtFence, HeldFenceless, PassRegistered
<1> QED BY <1>1, <1>2, <1>3, <1>4, <1>5, <1>6 DEF MainNext

LEMMA MainIsNext ==
    ASSUME [MainNext]_vars
    PROVE  [Next]_vars
<1>1. (\E t \in Threads : MainOps(t)) => \E t \in Threads : GuestOps(t)
  BY MainIsGuest
<1> QED BY <1>1 DEF MainNext, Next

LEMMA StepMain ==
    ASSUME MainInv, [MainNext]_vars
    PROVE  MainInv'
<1>1. [Next]_vars
  BY MainIsNext
<1>2. SafetyInv' /\ ImageInv' /\ TurnInv'
  BY <1>1, StepSafe, StepImage, StepTurn DEF MainInv
<1>3. FenceInv'
  BY <1>2, StepFence
<1> QED BY <1>2, <1>3 DEF MainInv

LEMMA InitFence ==
    ASSUME Init
    PROVE  MainInv
<1>1. SafetyInv /\ ImageInv /\ TurnInv
  BY InitSafe, ImageStarts, InitTurn
<1>2. /\ ledger = NewLedger /\ pump.pc = "idle" /\ guest.cursor = 0 /\ guest.fence = 0
      /\ clock = 0
  BY DEF Init, NewPump, NewGuest
<1>3. /\ ledger.oldest = 1 /\ ledger.nextSpan = 2 /\ ledger.spans = [id \in {1} |-> EmptySpan]
      /\ ledger.held = [s \in Segments |-> <<>>] /\ ledger.heldFirst = <<>>
  BY <1>2 DEF NewLedger
<1>4. \A id, i : ~IsFence(ledger, id, i)
  BY <1>3 DEF IsFence, Live, EmptySpan
<1>5. HeldFenceless
  <2>1. Fenceless(<<>>)
    BY DEF Fenceless
  <2> QED BY <1>3, <2>1 DEF HeldFenceless
<1>6. FenceInv
  BY <1>2, <1>4, <1>5
     DEF FenceInv, FencesRise, FencesWait, FencesOfBlock, AtFence, PassRegistered
<1> QED BY <1>1, <1>6 DEF MainInv

LEMMA FencesSound ==
    ASSUME MainInv
    PROVE  FencesMatchWriteback /\ CursorCoversFence
<1>1. SafetyInv /\ ImageInv /\ FenceInv
  BY DEF MainInv
<1>2. CursorCoversFence
  <2>1. guest.cursor \in Nat /\ guest.fence \in Nat
    BY <1>1, SafetyFacts DEF PeerTypes
  <2> QED BY <1>1, <2>1 DEF FenceInv, CursorCoversFence
<1>3. ASSUME pump.pc = "fence", ledger.failedSpan = 0
      PROVE  Rec.block = ledger.writeback
  <2>1. /\ pump.span = ledger.oldest /\ ledger.oldest \in Live(ledger)
        /\ Cur = Front /\ AtSpan
    <3>1. AtSpan
      BY <1>1, <1>3, FrontIsUsed DEF LockedPCs
    <3> QED BY <1>1, <3>1, SafetyFacts DEF AtSpan, Cur, Front
  <2>2. Rec.kind = "Fence"
    BY <1>1, <1>3 DEF ImageInv, AtItsRecord
  <2>3. /\ Front.applied \in Nat /\ Len(Front.records) \in Nat
        /\ DOMAIN Front.records = 1 .. Len(Front.records)
        /\ Rec = Front.records[Front.applied + 1]
    BY <1>1, <2>1, FrontFacts
  <2>4. Front.applied < Len(Front.records)
    BY <1>1, <1>3, <2>1 DEF SafetyInv, TypeInv, FenceAtRecord
  <2>5. IsFence(ledger, ledger.oldest, Front.applied + 1)
        /\ BlockOf(ledger, ledger.oldest, Front.applied + 1) = Rec.block
    BY <2>1, <2>2, <2>3, <2>4 DEF IsFence, BlockOf, Front
  <2>6. ledger.writeback # 0
    BY <1>1, <1>3, <2>1 DEF FenceInv, PassRegistered
  <2> QED BY <1>1, <1>3, <2>5, <2>6 DEF FenceInv, FencesOfBlock
<1> QED BY <1>2, <1>3 DEF FencesMatchWriteback

\* However many threads record fences, and whenever a block is registered or
\* a tear-down comes, as long as no EndTiling records a fence in a side buffer
\* a fence lands only in the registered block, unless the session failed, and
\* the guest sees the cursor of every fence it sees (OnFence, ApplyFence and
\* RegisterWriteback of the completion ledger).
THEOREM MainFencesAreSound == MainSpec => [](FencesMatchWriteback /\ CursorCoversFence)
<1>1. Init => MainInv
  BY InitFence
<1>2. MainInv /\ [MainNext]_vars => MainInv'
  BY StepMain
<1>3. MainInv => FencesMatchWriteback /\ CursorCoversFence
  BY FencesSound
<1> QED BY <1>1, <1>2, <1>3, PTL DEF MainSpec

-----------------------------------------------------------------------------
(* The workloads of the small instances that record no side buffer take    *)
(* only such steps.                                                        *)

LEMMA WorkloadsAreMain ==
    ASSUME work \in Workloads, Sideless, MCNext
    PROVE  MainNext
<1>1. Recorders \subseteq Threads /\ UsedBlocks \subseteq Blocks /\ 1 \in Dests
  BY MCLedgerAssumption DEF Recorders, UsedBlocks, Of
<1>2. Register => MainNext
  BY <1>1 DEF Register, RegisterOps, MainNext
<1>3. Completion \/ CallbackSteps \/ FlushOps \/ ImageOps => MainNext
  BY DEF Completion, PumpNext, LoopSteps, ApplySteps, MainNext
<1>4. Environment \/ HostCompletes \/ HandlerClearsMask => MainNext
  BY DEF Environment, MainNext
<1>5. TeardownOps \/ Fail \/ DropEpoch \/ HolderOps \/ DetachedOps \/ PumpNext => MainNext
  BY DEF TeardownOps, FailureOps, MainNext
<1>6. ASSUME NEW t \in Recorders,
             \/ ProgressOps(t) \/ UnmodeledOps(t) \/ Kick(t)
             \/ DrawOps(t) \/ ResolveOps(t) \/ FrameOps(t) \/ DeviceOps(t)
             \/ MarkReplayThread(t)
             \/ FirstPassCallback(t, {"raise"})
      PROVE  MainNext
  <2>1. {"raise"} \in CallbackFlags
    BY DEF CallbackFlags
  <2>2. MainOps(t)
    BY <1>6, <2>1 DEF MainOps, SubmitOps, WorkerOps
  <2> QED BY <1>1, <2>2 DEF MainNext
<1>7. ASSUME NEW t \in Recorders,
             \/ \E block \in UsedBlocks : Fence(t, block)
             \/ Callback(t, {"raise", "wait"}) \/ GpuWait(t, 1) \/ Barrier(t)
             \/ ScratchWrite(t) \/ Clear(t, TRUE) \/ Swap(t, 1)
      PROVE  MainNext
  <2>1. {"raise", "wait"} \in CallbackFlags
    BY DEF CallbackFlags
  <2>2. ProgressOps(t) \/ FrameOps(t)
    BY <1>1, <1>7, <2>1 DEF ProgressOps, FrameOps
  <2> QED BY <1>6, <2>2
<1>8. CASE ReleaseNext
  BY <1>2, <1>3, <1>4, <1>5, <1>6, <1>7, <1>8 DEF ReleaseNext
<1>9. CASE FaultNext
  BY <1>2, <1>3, <1>4, <1>6, <1>9 DEF FaultNext
<1>10. CASE DrawNext
  BY <1>2, <1>3, <1>4, <1>5, <1>6, <1>7, <1>10 DEF DrawNext
<1>11. CASE ResolveNext
  BY <1>2, <1>3, <1>4, <1>5, <1>6, <1>7, <1>11 DEF ResolveNext
<1>12. CASE DeviceNext
  BY <1>2, <1>3, <1>5, <1>6, <1>7, <1>12 DEF DeviceNext
<1>13. CASE TwoThreadNext
  BY <1>3, <1>6, <1>7, <1>13 DEF TwoThreadNext
<1>14. CASE LiveNext
  BY <1>2, <1>4, <1>5, <1>6, <1>7, <1>14 DEF LiveNext
<1> QED BY <1>8, <1>9, <1>10, <1>11, <1>12, <1>13, <1>14 DEF MCNext, Sideless

WorkloadInv == work \in Workloads /\ (Sideless => MainInv)

\* Whatever the workload's bounds, a run that records no side buffer keeps its
\* fences sound (OnFence's identity check and ApplyFence's order of writes).
THEOREM WorkloadsKeepFences == MCSpec => []MainFencesSound
<1>1. MCInit => WorkloadInv
  BY InitFence DEF MCInit, WorkloadInv
<1>2. WorkloadInv /\ [MCNext]_<<vars, work>> => WorkloadInv'
  <2>1. ASSUME WorkloadInv, [MCNext]_<<vars, work>>
        PROVE  WorkloadInv'
    <3>1. work' = work
      BY <2>1 DEF MCNext
    <3>2. ASSUME Sideless PROVE [MainNext]_vars /\ MainInv
      BY <2>1, <3>2, WorkloadsAreMain DEF WorkloadInv
    <3>3. Sideless => MainInv'
      BY <3>2, StepMain
    <3> QED BY <2>1, <3>1, <3>3 DEF WorkloadInv, Sideless
  <2> QED BY <2>1
<1>3. WorkloadInv => MainFencesSound
  BY FencesSound DEF WorkloadInv, MainFencesSound
<1> QED BY <1>1, <1>2, <1>3, PTL DEF MCSpec

=============================================================================
