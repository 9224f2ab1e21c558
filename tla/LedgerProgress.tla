---------------------------- MODULE LedgerProgress ----------------------------
(***************************************************************************)
(* The completion ledger implements GuestProgress, for every value of its  *)
(* constants and in every draw mode.                                       *)
(*                                                                         *)
(* The argument: a call of a guest thread, a verdict or a failure only     *)
(* extends the open span, closes it, and lets records that still await     *)
(* their verdict turn out; a settled span it leaves alone. So whatever     *)
(* comes between two steps of Pump is a legal change of the program, and   *)
(* every step of Pump performs one operation, retires a span or is not     *)
(* seen by the guest.                                                      *)
(***************************************************************************)
EXTENDS LedgerSafety, LedgerRefinement

-----------------------------------------------------------------------------
(* What a call may make of a record.                                       *)

Evolves(new, old) == Progress!OpEvolves(Op(old), Op(new))

LEMMA EvolvesOn ==
    ASSUME NEW a, NEW b, NEW d, Evolves(b, a), Evolves(d, b)
    PROVE  Evolves(d, a)
<1> DEFINE x == Op(a)
           y == Op(b)
           z == Op(d)
<1> HIDE DEF x, y, z
<1>1. Progress!OpEvolves(x, y) /\ Progress!OpEvolves(y, z)
  BY DEF Evolves, x, y, z
<1>2. Progress!OpEvolves(x, z)
  BY <1>1 DEF Progress!OpEvolves
<1> QED BY <1>2 DEF Evolves, x, z

LEMMA EvolvesSame ==
    ASSUME NEW a, NEW b, Op(b) = Op(a)
    PROVE  Evolves(b, a)
BY DEF Evolves, Progress!OpEvolves

\* A settled verdict, a lost owner, an op mark and a swap.
LEMMA RecordEvolves ==
    ASSUME NEW c, NEW r \in RecordTo(c), NEW m, NEW hostOnly \in BOOLEAN,
           NEW skipped \in BOOLEAN
    PROVE  /\ Evolves([r EXCEPT !.pending = FALSE], r)
           /\ Evolves([r EXCEPT !.skipped = TRUE], r)
           /\ r.kind # "Resolve" \/ r.pending => Evolves([r EXCEPT !.mark = m], r)
           /\ r.pending => Evolves([r EXCEPT !.pending = FALSE,
                                             !.hostOnly = @ \/ hostOnly,
                                             !.skipped = @ \/ skipped], r)
<1>1. /\ Op(r).kind = OpKind(r) /\ Op(r).owed = r.pending
      /\ Op(r).value = IF r.kind = "Resolve" THEN r.mark ELSE r.value
  BY DEF Op
<1>2. ASSUME NEW s, OpKind(s) \in {"nothing", OpKind(r)}, s.pending => r.pending,
             r.pending \/ OpKind(s) = "nothing"
      PROVE  Evolves(s, r)
  <2>1. Op(s).owed = s.pending /\ Op(s).kind = OpKind(s)
    BY DEF Op
  <2> HIDE DEF Op
  <2> QED BY <1>1, <1>2, <2>1 DEF Evolves, Progress!OpEvolves
<1>3. Evolves([r EXCEPT !.pending = FALSE], r)
  <2>1. CASE ~r.pending
    <3>1. [r EXCEPT !.pending = FALSE] = r
      BY <2>1 DEF RecordTo
    <3> QED BY <3>1, EvolvesSame
  <2>2. CASE r.pending
    <3> DEFINE s == [r EXCEPT !.pending = FALSE]
    <3>1. s.kind = r.kind /\ s.skipped = r.skipped /\ s.hostOnly = r.hostOnly
      BY DEF RecordTo
    <3> HIDE DEF s
    <3>2. OpKind(s) = OpKind(r)
      BY <3>1 DEF OpKind
    <3> QED BY <1>2, <2>2, <3>2 DEF s
  <2> QED BY <2>1, <2>2
<1>4. Evolves([r EXCEPT !.skipped = TRUE], r)
  <2> DEFINE s == [r EXCEPT !.skipped = TRUE]
  <2>1. s.skipped /\ s.pending = r.pending
    BY DEF RecordTo
  <2> HIDE DEF s
  <2>2. OpKind(s) = "nothing" /\ (s.pending => r.pending)
    BY <2>1 DEF OpKind
  <2>3. Evolves(s, r)
    BY <1>2, <2>2
  <2> QED BY <2>3 DEF s
<1>5. ASSUME r.kind # "Resolve" \/ r.pending
      PROVE  Evolves([r EXCEPT !.mark = m], r)
  <2> DEFINE s == [r EXCEPT !.mark = m]
  <2>1. /\ s.kind = r.kind /\ s.skipped = r.skipped /\ s.hostOnly = r.hostOnly
        /\ s.value = r.value /\ s.pending = r.pending
    BY DEF RecordTo
  <2> HIDE DEF s
  <2>2. OpKind(s) = OpKind(r)
    BY <2>1 DEF OpKind
  <2>3. CASE r.pending
    BY <1>2, <2>1, <2>2, <2>3 DEF s
  <2>4. CASE r.kind # "Resolve"
    <3>1. Op(s) = Op(r)
      BY <2>1, <2>2, <2>4 DEF Op
    <3> QED BY <3>1, EvolvesSame DEF s
  <2> QED BY <1>5, <2>3, <2>4
<1>6. ASSUME r.pending
      PROVE  Evolves([r EXCEPT !.pending = FALSE, !.hostOnly = @ \/ hostOnly,
                               !.skipped = @ \/ skipped], r)
  <2> DEFINE s == [r EXCEPT !.pending = FALSE, !.hostOnly = @ \/ hostOnly,
                            !.skipped = @ \/ skipped]
  <2>1. /\ s.kind = r.kind
        /\ (r.skipped => s.skipped) /\ (r.hostOnly => s.hostOnly)
    BY DEF RecordTo
  <2> HIDE DEF s
  <2>2. OpKind(s) \in {"nothing", OpKind(r)}
    BY <2>1 DEF OpKind
  <2> QED BY <1>2, <1>6, <2>2 DEF s
<1> QED BY <1>3, <1>4, <1>5, <1>6

LEMMA SettledEvolves ==
    ASSUME NEW c, NEW r \in RecordTo(c), r.pending, NEW hostOnly \in BOOLEAN,
           NEW skipped \in BOOLEAN
    PROVE  Evolves([r EXCEPT !.pending = FALSE,
                             !.hostOnly = @ \/ hostOnly,
                             !.skipped = @ \/ skipped], r)
BY RecordEvolves

-----------------------------------------------------------------------------
(* What a call may make of the ledger: it keeps the spans and how they     *)
(* closed (Same), appends records to the open one and lets others evolve,  *)
(* and it may fail the session at a live span.                             *)

Extends(new, old) ==
    /\ DOMAIN old.records \subseteq DOMAIN new.records
    /\ \A i \in DOMAIN old.records : Evolves(new.records[i], old.records[i])

Rewrites(M, L) ==
    /\ \A id \in Live(L) :
          /\ Extends(M.spans[id], L.spans[id])
          /\ id # Back(L) => DOMAIN M.spans[id].records = DOMAIN L.spans[id].records
    /\ M.failedSpan = L.failedSpan \/ (L.failedSpan = 0 /\ M.failedSpan \in Live(L))

Onward(M, L) == Same(M, L) /\ Rewrites(M, L)

LEMMA ExtendsOn ==
    ASSUME NEW a, NEW b, NEW d, Extends(b, a), Extends(d, b)
    PROVE  Extends(d, a)
<1> SUFFICES ASSUME NEW i \in DOMAIN a.records
             PROVE  Evolves(d.records[i], a.records[i])
  BY DEF Extends
<1>1. i \in DOMAIN b.records /\ Evolves(b.records[i], a.records[i])
  BY DEF Extends
<1>2. Evolves(d.records[i], b.records[i])
  BY <1>1 DEF Extends
<1> QED BY <1>1, <1>2, EvolvesOn

LEMMA ExtendsSame ==
    ASSUME NEW a, NEW b, b.records = a.records
    PROVE  Extends(b, a)
BY EvolvesSame DEF Extends

LEMMA OnwardOn ==
    ASSUME NEW L, NEW M, NEW N, Onward(M, L), Onward(N, M)
    PROVE  Onward(N, L)
<1>1. Same(N, L)
  BY SameTrans DEF Onward
<1>2. Live(M) = Live(L) /\ Back(M) = Back(L)
  BY DEF Onward, Same, Live, Back
<1>3. ASSUME NEW id \in Live(L)
      PROVE  /\ Extends(N.spans[id], L.spans[id])
             /\ id # Back(L) => DOMAIN N.spans[id].records = DOMAIN L.spans[id].records
  <2>1. /\ Extends(M.spans[id], L.spans[id]) /\ Extends(N.spans[id], M.spans[id])
        /\ id # Back(L) => /\ DOMAIN N.spans[id].records = DOMAIN M.spans[id].records
                           /\ DOMAIN M.spans[id].records = DOMAIN L.spans[id].records
    BY <1>2 DEF Onward, Rewrites
  <2>2. Extends(N.spans[id], L.spans[id])
    BY <2>1, ExtendsOn
  <2> QED BY <2>1, <2>2
<1>4. N.failedSpan = L.failedSpan \/ (L.failedSpan = 0 /\ N.failedSpan \in Live(L))
  BY <1>2 DEF Onward, Rewrites
<1> QED BY <1>1, <1>3, <1>4 DEF Onward, Rewrites

\* A step that leaves the records alone.
LEMMA OtherOnward ==
    ASSUME NEW L, NEW M, Same(M, L),
           \A id \in Live(L) : M.spans[id].records = L.spans[id].records,
           M.failedSpan = L.failedSpan \/ (L.failedSpan = 0 /\ M.failedSpan \in Live(L))
    PROVE  Onward(M, L)
BY ExtendsSame DEF Onward, Rewrites

LEMMA OnwardRefl ==
    ASSUME NEW L, Shaped(L)
    PROVE  Onward(L, L)
BY SameRefl, OtherOnward

-----------------------------------------------------------------------------
(* The steps of a call. Each of them is Onward.                            *)

Failing(M, L) ==
    M.failedSpan = L.failedSpan \/ (L.failedSpan = 0 /\ M.failedSpan \in Live(L))

\* A step that changes records of one span.
LEMMA ChangeOnward ==
    ASSUME NEW L, NEW M, Same(M, L), Failing(M, L), NEW id,
           \A other \in Live(L) : other # id => M.spans[other].records = L.spans[other].records,
           id \in Live(L) =>
              /\ Extends(M.spans[id], L.spans[id])
              /\ DOMAIN M.spans[id].records = DOMAIN L.spans[id].records
    PROVE  Onward(M, L)
<1>1. ASSUME NEW other \in Live(L)
      PROVE  /\ Extends(M.spans[other], L.spans[other])
             /\ DOMAIN M.spans[other].records = DOMAIN L.spans[other].records
  BY ExtendsSame
<1> QED BY <1>1 DEF Onward, Rewrites, Failing

LEMMA PutExtends ==
    ASSUME NEW s, NEW new, NEW i, NEW r, new.records = [s.records EXCEPT ![i] = r],
           i \in DOMAIN s.records => Evolves(r, s.records[i])
    PROVE  Extends(new, s) /\ DOMAIN new.records = DOMAIN s.records
<1>1. ASSUME NEW j \in DOMAIN s.records
      PROVE  Evolves(new.records[j], s.records[j])
  BY EvolvesSame
<1> QED BY <1>1 DEF Extends

LEMMA FailAtOnward ==
    ASSUME NEW L, Shaped(L), NEW id \in Live(L)
    PROVE  Onward(FailAt(L, id), L)
<1>1. Same(FailAt(L, id), L)
  BY FailAtSame
<1>2. FailAt(L, id).spans = L.spans /\ Failing(FailAt(L, id), L)
  BY FieldNames DEF FailAt, Shaped, Failing
<1> QED BY <1>1, <1>2, OtherOnward DEF Failing

\* Other members of a span, and other members of the ledger.
LEMMA PutSpanOnward ==
    ASSUME NEW L, Shaped(L), NEW id, NEW s,
           id \in Live(L) => Kept(s, L.spans[id]) /\ s.records = L.spans[id].records
    PROVE  Onward([L EXCEPT !.spans[id] = s], L)
<1> DEFINE M == [L EXCEPT !.spans[id] = s]
<1>1. Same(M, L)
  BY FieldNames DEF Same, Shaped, Kept
<1>2. /\ \A other \in Live(L) : M.spans[other].records = L.spans[other].records
      /\ M.failedSpan = L.failedSpan
  BY FieldNames DEF Shaped
<1> HIDE DEF M
<1>3. Onward(M, L)
  BY <1>1, <1>2, OtherOnward
<1> QED BY <1>3 DEF M

LEMMA FieldOnward ==
    ASSUME NEW L, Shaped(L), NEW id, NEW x
    PROVE  /\ Onward([L EXCEPT !.spans[id].thread = x], L)
           /\ Onward([L EXCEPT !.spans[id].partial = x], L)
           /\ Onward([L EXCEPT !.spans[id].unowned = x], L)
           /\ Onward([L EXCEPT !.spans[id].pending = x], L)
           /\ Onward([L EXCEPT !.spans[id].startsList = x], L)
           /\ Onward([L EXCEPT !.spans[id].lastAdmitted = x], L)
<1> DEFINE s == L.spans[id]
           Fits(new) == Kept(new, s) /\ new.records = s.records
<1>1. ASSUME id \in Live(L)
      PROVE  /\ Fits([s EXCEPT !.thread = x]) /\ Fits([s EXCEPT !.partial = x])
             /\ Fits([s EXCEPT !.unowned = x]) /\ Fits([s EXCEPT !.pending = x])
             /\ Fits([s EXCEPT !.startsList = x]) /\ Fits([s EXCEPT !.lastAdmitted = x])
  <2>1. DOMAIN s = SpanFields
    BY <1>1 DEF Shaped
  <2> HIDE DEF s
  <2> QED BY <2>1, SpanFieldNames DEF Kept
<1> QED BY <1>1, PutSpanOnward

LEMMA OtherFieldOnward ==
    ASSUME NEW L, Shaped(L), NEW M, DOMAIN M = Fields,
           M.oldest = L.oldest, M.nextSpan = L.nextSpan, M.kicks = L.kicks,
           M.closed = L.closed, M.spans = L.spans, Failing(M, L)
    PROVE  Onward(M, L)
BY OtherField, OtherOnward DEF Failing

\* A record put in its place.
LEMMA PutRecordOnward ==
    ASSUME NEW c, NEW L, Typed(L, c), NEW id, NEW i, NEW r,
           id \in Live(L) /\ i \in DOMAIN L.spans[id].records
              => Evolves(r, L.spans[id].records[i])
    PROVE  Onward([L EXCEPT !.spans[id].records[i] = r], L)
<1> DEFINE M == [L EXCEPT !.spans[id].records[i] = r]
<1>1. /\ DOMAIN M = Fields /\ M.oldest = L.oldest /\ M.nextSpan = L.nextSpan
      /\ M.kicks = L.kicks /\ M.closed = L.closed /\ M.failedSpan = L.failedSpan
      /\ DOMAIN M.spans = Live(L)
      /\ \A other \in Live(L) : Kept(M.spans[other], L.spans[other])
      /\ \A other \in Live(L) : other # id => M.spans[other].records = L.spans[other].records
  BY FieldNames, SpanFieldNames DEF Typed, Shaped, Kept
<1>2. id \in Live(L) => M.spans[id].records = [L.spans[id].records EXCEPT ![i] = r]
  BY FieldNames, SpanFieldNames DEF Typed, Shaped
<1> HIDE DEF M
<1>3. id \in Live(L) => /\ Extends(M.spans[id], L.spans[id])
                        /\ DOMAIN M.spans[id].records = DOMAIN L.spans[id].records
  BY <1>2, PutExtends
<1>4. Same(M, L) /\ Failing(M, L)
  BY <1>1 DEF Same, Failing
<1>5. Onward(M, L)
  BY <1>1, <1>3, <1>4, ChangeOnward
<1> QED BY <1>5 DEF M

LEMMA RecordOnward ==
    ASSUME NEW c, NEW L, Typed(L, c), NEW id, NEW i
    PROVE  /\ Onward([L EXCEPT !.spans[id].records[i].pending = FALSE], L)
           /\ Onward([L EXCEPT !.spans[id].records[i].skipped = TRUE], L)
           /\ \A m : (id \in Live(L) /\ i \in DOMAIN L.spans[id].records =>
                         \/ L.spans[id].records[i].kind # "Resolve"
                         \/ L.spans[id].records[i].pending)
                     => Onward([L EXCEPT !.spans[id].records[i].mark = m], L)
<1> DEFINE r == L.spans[id].records[i]
<1>1. ASSUME id \in Live(L), i \in DOMAIN L.spans[id].records
      PROVE  r \in RecordTo(c)
  BY <1>1, SpanOfLedger, RecordOfSpan
<1>2. ASSUME id \in Live(L), i \in DOMAIN L.spans[id].records
      PROVE  /\ Evolves([r EXCEPT !.pending = FALSE], r)
             /\ Evolves([r EXCEPT !.skipped = TRUE], r)
             /\ \A m : r.kind # "Resolve" \/ r.pending => Evolves([r EXCEPT !.mark = m], r)
  <2>1. r \in RecordTo(c)
    BY <1>1, <1>2
  <2> HIDE DEF r
  <2> QED BY <2>1, RecordEvolves
<1>3. Onward([L EXCEPT !.spans[id].records[i] = [r EXCEPT !.pending = FALSE]], L)
  BY <1>2, PutRecordOnward
<1>4. Onward([L EXCEPT !.spans[id].records[i] = [r EXCEPT !.skipped = TRUE]], L)
  BY <1>2, PutRecordOnward
<1>5. ASSUME NEW m, id \in Live(L) /\ i \in DOMAIN L.spans[id].records =>
                        r.kind # "Resolve" \/ r.pending
      PROVE  Onward([L EXCEPT !.spans[id].records[i] = [r EXCEPT !.mark = m]], L)
  BY <1>2, <1>5, PutRecordOnward
<1> QED BY <1>3, <1>4, <1>5

LEMMA UnownOnward ==
    ASSUME NEW c, NEW L, Typed(L, c), NEW id \in Live(L), NEW i
    PROVE  Onward(Unown(L, id, i), L)
<1> DEFINE recs == L.spans[id].records
           without == IF i \in DOMAIN recs
                      THEN [recs EXCEPT ![i].skipped = TRUE] ELSE recs
           failing == IF Mode = "Strict" THEN FailAt(L, id) ELSE L
<1>1. Shaped(L)
  BY DEF Typed
<1>2. CASE Mode = "Census"
  <2> DEFINE M == [L EXCEPT !.spans[id].records = without]
             N == [M EXCEPT !.spans[id].partial = TRUE]
  <2>1. Onward(M, L) /\ Shaped(M)
    <3>1. CASE i \in DOMAIN recs
      <4>1. M = [L EXCEPT !.spans[id].records[i].skipped = TRUE]
        BY <3>1
      <4>2. Onward([L EXCEPT !.spans[id].records[i].skipped = TRUE], L)
        BY RecordOnward
      <4>3. Onward(M, L)
        BY <4>1, <4>2
      <4> QED BY <1>1, <4>3, SameShaped DEF Onward
    <3>2. CASE i \notin DOMAIN recs
      <4> DEFINE s == [L.spans[id] EXCEPT !.records = recs]
      <4>1. Kept(s, L.spans[id]) /\ s.records = L.spans[id].records
        BY <1>1, SpanFieldNames DEF Shaped, Kept
      <4>2. M = [L EXCEPT !.spans[id] = s]
        BY <3>2
      <4> HIDE DEF s, M
      <4> QED BY <1>1, <4>1, <4>2, PutSpanOnward, SameShaped DEF Onward
    <3> QED BY <3>1, <3>2
  <2>2. Unown(L, id, i) = [N EXCEPT !.epochPartial = TRUE]
    BY <1>2 DEF Unown
  <2> HIDE DEF M
  <2>3. Onward(N, M) /\ Shaped(N)
    BY <2>1, FieldOnward, SameShaped DEF Onward
  <2> HIDE DEF N
  <2>4. Onward([N EXCEPT !.epochPartial = TRUE], N)
    BY <2>3, OtherFieldOnward, FieldNames DEF Shaped, Failing
  <2>5. Onward([N EXCEPT !.epochPartial = TRUE], M)
    BY <2>3, <2>4, OnwardOn
  <2> QED BY <2>1, <2>2, <2>5, OnwardOn
<1>3. CASE Mode # "Census"
  <2>1. Onward(failing, L)
    BY <1>1, FailAtOnward, OnwardRefl
  <2>2. Unown(L, id, i) = [failing EXCEPT !.spans[id].unowned = TRUE]
    BY <1>3 DEF Unown
  <2> HIDE DEF failing
  <2>3. Onward([failing EXCEPT !.spans[id].unowned = TRUE], failing)
    BY <1>1, <2>1, FieldOnward, SameShaped DEF Onward
  <2> QED BY <2>1, <2>2, <2>3, OnwardOn
<1> QED BY <1>2, <1>3

LEMMA SettleOnward ==
    ASSUME NEW c, NEW L, Typed(L, c), NEW h
    PROVE  Onward(Settle(L, h), L)
<1> DEFINE M == [L EXCEPT !.spans[h.span].records[h.index].pending = FALSE]
<1>1. Onward(M, L) /\ Shaped(M)
  BY RecordOnward, SameShaped DEF Typed, Onward
<1>2. Settle(L, h) = [M EXCEPT !.spans[h.span].pending = M.spans[h.span].pending - 1]
  BY DEF Settle
<1> HIDE DEF M
<1>3. Onward([M EXCEPT !.spans[h.span].pending = M.spans[h.span].pending - 1], M)
  BY <1>1, FieldOnward
<1> QED BY <1>1, <1>2, <1>3, OnwardOn

LEMMA OnwardLive ==
    ASSUME NEW L, NEW M, Onward(M, L)
    PROVE  Live(M) = Live(L) /\ Back(M) = Back(L)
BY DEF Onward, Same, Live, Back

LEMMA AbandonOnward ==
    ASSUME NEW c, NEW L, Typed(L, c), NEW h
    PROVE  Onward(Abandon(L, h), L)
<1> DEFINE S == Settle(L, h)
<1>1. Typed(S, c) /\ Onward(S, L)
  BY SettleTyped, SettleOnward
<1>2. CASE Pending(L, h)
  <2>1. h.span \in Live(S)
    BY <1>1, <1>2, OnwardLive DEF Pending
  <2> HIDE DEF S
  <2>2. Onward(Unown(S, h.span, h.index), S)
    BY <1>1, <2>1, UnownOnward
  <2> QED BY <1>1, <1>2, <2>2, OnwardOn DEF Abandon, S
<1>3. CASE ~Pending(L, h)
  BY <1>3, OnwardRefl DEF Abandon, Typed
<1> QED BY <1>2, <1>3

LEMMA AbandonOpenResolveOnward ==
    ASSUME NEW c, NEW L, Typed(L, c), NEW t \in Threads
    PROVE  Onward(AbandonOpenResolve(L, t), L)
<1> DEFINE M == [L EXCEPT !.openResolves[t] = NoHandle]
<1>1. Typed(M, c)
  BY HandleTypes, ClearHandles
<1>2. Onward(M, L)
  <2>1. /\ DOMAIN M = Fields /\ M.oldest = L.oldest /\ M.nextSpan = L.nextSpan
        /\ M.kicks = L.kicks /\ M.closed = L.closed /\ M.spans = L.spans
        /\ M.failedSpan = L.failedSpan
    BY FieldNames DEF Typed, Shaped
  <2> HIDE DEF M
  <2> QED BY <2>1, OtherFieldOnward DEF Typed, Failing
<1> HIDE DEF M
<1>3. Onward(Abandon(M, L.openResolves[t]), M)
  BY <1>1, AbandonOnward
<1>4. AbandonOpenResolve(L, t) = Abandon(M, L.openResolves[t])
  BY DEF AbandonOpenResolve, M
<1> QED BY <1>2, <1>3, <1>4, OnwardOn

LEMMA AdmitOnward ==
    ASSUME NEW c, NEW L, Typed(L, c), NEW t, NEW allowHeld
    PROVE  Onward(Admit(L, t, allowHeld), L)
<1> DEFINE b == Back(L)
           M == IF Refused(L, t, allowHeld) THEN FailAt(L, b) ELSE L
<1>1. Onward(M, L) /\ Shaped(M)
  BY BackTypes, FailAtOnward, OnwardRefl, SameShaped DEF Typed, Onward
<1>2. \/ Admit(L, t, allowHeld) = M
      \/ Admit(L, t, allowHeld) = [M EXCEPT !.spans[b].thread = t]
  BY DEF Admit
<1> HIDE DEF M, b
<1>3. Onward([M EXCEPT !.spans[b].thread = t], M)
  BY <1>1, FieldOnward
<1> QED BY <1>1, <1>2, <1>3, OnwardOn

LEMMA AppendOnward ==
    ASSUME NEW c, NEW L, Typed(L, c), NEW recs \in Seq(RecordTo(c))
    PROVE  Onward(AppendRecords(L, recs), L)
<1> DEFINE M == AppendRecords(L, recs)
<1>1. Same(M, L) /\ Appended(M, L, recs)
  BY AppendRecordsSame, Appends DEF Typed
<1> HIDE DEF M
<1>2. ASSUME NEW id \in Live(L)
      PROVE  /\ Extends(M.spans[id], L.spans[id])
             /\ id # Back(L) => DOMAIN M.spans[id].records = DOMAIN L.spans[id].records
  <2>1. CASE id # Back(L)
    BY <1>1, <2>1, ExtendsSame DEF Appended
  <2>2. CASE id = Back(L)
    <3> DEFINE s == L.spans[id]
               new == M.spans[id]
    <3>1. Longer(new, s, recs)
      BY <1>1, <2>2 DEF Appended
    <3> HIDE DEF s, new
    <3>2. DOMAIN s.records \subseteq DOMAIN new.records
      BY <3>1 DEF Longer
    <3>3. ASSUME NEW i \in DOMAIN s.records PROVE Evolves(new.records[i], s.records[i])
      <4>1. new.records[i] = s.records[i]
        BY <3>1 DEF Longer
      <4> QED BY <4>1, EvolvesSame
    <3>4. Extends(new, s)
      BY <3>2, <3>3 DEF Extends
    <3> QED BY <2>2, <3>4 DEF s, new
  <2> QED BY <2>1, <2>2
<1>3. M.failedSpan = L.failedSpan
  BY FieldNames DEF M, AppendRecords, Typed, Shaped
<1>4. Onward(M, L)
  BY <1>1, <1>2, <1>3 DEF Onward, Rewrites
<1> QED BY <1>4 DEF M

LEMMA AppendOneOnward ==
    ASSUME NEW c, NEW L, Typed(L, c), NEW r \in RecordTo(c)
    PROVE  Onward(AppendRecords(L, <<r>>), L)
<1>1. <<r>> \in Seq(RecordTo(c))
  OBVIOUS
<1> QED BY <1>1, AppendOnward

LEMMA AdmittedOnward ==
    ASSUME NEW c, NEW L, Typed(L, c), NEW t \in Threads, NEW allowHeld
    PROVE  Onward(Admit(AbandonOpenResolve(L, t), t, allowHeld), L)
<1> DEFINE A == AbandonOpenResolve(L, t)
<1>1. Typed(A, c) /\ Onward(A, L)
  BY AbandonOpenResolveTyped, AbandonOpenResolveOnward
<1> HIDE DEF A
<1>2. Onward(Admit(A, t, allowHeld), A)
  BY <1>1, AdmitOnward
<1>3. Onward(Admit(A, t, allowHeld), L)
  BY <1>1, <1>2, OnwardOn
<1> QED BY <1>3 DEF A

LEMMA RecordOnOnward ==
    ASSUME NEW c, NEW L, Typed(L, c), NEW t \in Threads, NEW r \in RecordTo(c)
    PROVE  Onward(RecordOn(L, t, r), L)
<1> DEFINE A == Admit(AbandonOpenResolve(L, t), t, FALSE)
<1>1. Typed(A, c) /\ Onward(A, L)
  BY AdmittedTyped, AdmittedOnward
<1> HIDE DEF A
<1>2. Onward(AppendRecords(A, <<r>>), A)
  BY <1>1, AppendOneOnward
<1>3. RecordOn(L, t, r) = AppendRecords(A, <<r>>)
  BY DEF RecordOn, A
<1> QED BY <1>1, <1>2, <1>3, OnwardOn

LEMMA FailBackOnward ==
    ASSUME NEW c, NEW L, Typed(L, c)
    PROVE  Onward(FailAt(L, Back(L)), L)
BY BackTypes, FailAtOnward DEF Typed

LEMMA CheckIdentityOnward ==
    ASSUME NEW c, NEW L, Typed(L, c), NEW block
    PROVE  Onward(CheckIdentity(L, block), L)
BY FailBackOnward, OnwardRefl DEF CheckIdentity, Typed

\* The verdict of a record that is not a resolve.
LEMMA SettleDrawOnward ==
    ASSUME NEW c, NEW L, Typed(L, c), NEW id \in Live(L), NEW i,
           NEW sequence \in 0 .. c, NEW verdict,
           i \in DOMAIN L.spans[id].records => L.spans[id].records[i].kind # "Resolve"
    PROVE  Onward(SettleDraw(L, id, i, sequence, verdict), L)
<1> DEFINE M == [L EXCEPT !.spans[id].records[i].mark = sequence]
           newest == MaxOf(M.spans[id].lastAdmitted, sequence)
           P == [M EXCEPT !.spans[id].partial = TRUE]
<1>1. Typed(M, c)
  BY ChangeRecord
<1>2. Onward(M, L)
  BY RecordOnward
<1>3. \/ SettleDraw(L, id, i, sequence, verdict)
            = [M EXCEPT !.spans[id].lastAdmitted = newest]
      \/ SettleDraw(L, id, i, sequence, verdict) = [P EXCEPT !.epochPartial = TRUE]
      \/ SettleDraw(L, id, i, sequence, verdict) = Unown(M, id, i)
  BY DEF SettleDraw
<1>4. Shaped(M) /\ id \in Live(M)
  BY <1>1, <1>2, OnwardLive DEF Typed
<1> HIDE DEF M, newest
<1>5. Onward([M EXCEPT !.spans[id].lastAdmitted = newest], M)
  BY <1>4, FieldOnward
<1>6. Onward(P, M) /\ Shaped(P)
  BY <1>4, FieldOnward, SameShaped DEF Onward
<1> HIDE DEF P
<1>7. Onward([P EXCEPT !.epochPartial = TRUE], P)
  BY <1>6, OtherFieldOnward, FieldNames DEF Shaped, Failing
<1>8. Onward([P EXCEPT !.epochPartial = TRUE], M)
  BY <1>6, <1>7, OnwardOn
<1>9. Onward(Unown(M, id, i), M)
  BY <1>1, <1>4, UnownOnward
<1>10. Onward(SettleDraw(L, id, i, sequence, verdict), M)
  BY <1>3, <1>5, <1>8, <1>9
<1> QED BY <1>2, <1>10, OnwardOn

LEMMA SwapOnward ==
    ASSUME NEW c, NEW L, Typed(L, c), NEW id \in Live(L), NEW front
    PROVE  /\ Extends(SwapSettles(L, id, front), L.spans[id])
           /\ DOMAIN SwapSettles(L, id, front).records = DOMAIN L.spans[id].records
<1> DEFINE old == L.spans[id]
           mine == {h \in Presented(L) : h.span = id}
           bad == mine \cap Mismatched(L, front)
           due(i) == \E h \in mine : h.index = i
           wrong(i) == \E h \in bad : h.index = i
           settled(r, i) == [r EXCEPT
                               !.pending = @ /\ ~due(i),
                               !.hostOnly = @ \/ (due(i) /\ ~wrong(i)),
                               !.skipped = @ \/ (wrong(i) /\ Mode = "Census")]
           recs == [i \in DOMAIN old.records |-> settled(old.records[i], i)]
           new == SwapSettles(L, id, front)
<1>1. old \in SpanTo(c) /\ DOMAIN old = SpanFields
  BY SpanOfLedger DEF Typed, Shaped
<1>2. new.records = recs
  BY <1>1, SpanFieldNames DEF SwapSettles
<1>3. ASSUME NEW i \in DOMAIN old.records PROVE Evolves(recs[i], old.records[i])
  <2> DEFINE r == old.records[i]
  <2>1. r \in RecordTo(c)
    BY <1>1, RecordOfSpan
  <2>2. recs[i] = settled(r, i)
    OBVIOUS
  <2>3. due(i) => r.pending
    BY DEF Presented, Pending
  <2>4. wrong(i) => due(i)
    OBVIOUS
  <2>5. PICK hostOnly \in BOOLEAN : hostOnly <=> (due(i) /\ ~wrong(i))
    OBVIOUS
  <2>6. PICK skipped \in BOOLEAN : skipped <=> (wrong(i) /\ Mode = "Census")
    OBVIOUS
  <2> HIDE DEF r, recs
  <2>7. CASE due(i)
    <3>1. settled(r, i) = [r EXCEPT !.pending = FALSE, !.hostOnly = @ \/ hostOnly,
                                    !.skipped = @ \/ skipped]
      BY <2>1, <2>5, <2>6, <2>7 DEF RecordTo
    <3>2. Evolves([r EXCEPT !.pending = FALSE, !.hostOnly = @ \/ hostOnly,
                            !.skipped = @ \/ skipped], r)
      <4>1. r.pending
        BY <2>3, <2>7
      <4> HIDE DEF due, wrong, settled, mine, bad, new, old
      <4> QED BY <2>1, <4>1, SettledEvolves
    <3> QED BY <2>2, <3>1, <3>2 DEF r
  <2>8. CASE ~due(i)
    <3>1. settled(r, i) = r
      BY <2>1, <2>4, <2>8 DEF RecordTo
    <3> QED BY <2>2, <3>1, EvolvesSame DEF r
  <2> QED BY <2>7, <2>8
<1>4. DOMAIN recs = DOMAIN old.records
  OBVIOUS
<1> HIDE DEF recs, new
<1>5. Extends(new, old) /\ DOMAIN new.records = DOMAIN old.records
  BY <1>2, <1>3, <1>4 DEF Extends
<1> QED BY <1>5 DEF new, old

LEMMA SettleFrontbuffersOnward ==
    ASSUME NEW c \in Nat, NEW L, Typed(L, c), NEW front
    PROVE  Onward(SettleFrontbuffers(L, front), L)
<1> DEFINE wrong == Mismatched(L, front)
           first == CHOOSE h \in wrong : \A g \in wrong :
                      ResolveOf(L, h).mark <= ResolveOf(L, g).mark
           partial == L.epochPartial \/ (wrong # {} /\ Mode = "Census")
           M == [L EXCEPT !.spans = [id \in Live(L) |-> SwapSettles(L, id, front)],
                          !.frontbuffer = {},
                          !.epochPartial = partial]
<1>1. \/ SettleFrontbuffers(L, front) = M
      \/ wrong # {} /\ SettleFrontbuffers(L, front) = FailAt(M, first.span)
  BY DEF SettleFrontbuffers
<1>2. wrong # {} => first.span \in Live(L)
  <2> DEFINE marks == {ResolveOf(L, h).mark : h \in wrong}
  <2>1. ASSUME wrong # {}
        PROVE  first \in wrong
    <3>1. marks \subseteq Nat /\ marks # {}
      BY <2>1, PresentedTypes DEF Mismatched
    <3>2. PICK m \in marks : \A n \in marks : m <= n
      BY <3>1, OldestExists
    <3>3. PICK h \in wrong : m = ResolveOf(L, h).mark
      BY <3>2
    <3>4. \A g \in wrong : ResolveOf(L, g).mark \in marks
      OBVIOUS
    <3>5. \A g \in wrong : ResolveOf(L, h).mark <= ResolveOf(L, g).mark
      BY <3>2, <3>3, <3>4
    <3> QED BY <3>5
  <2>2. \A h \in wrong : h.span \in Live(L)
    BY DEF Mismatched, Presented, Pending
  <2> QED BY <2>1, <2>2
<1> HIDE DEF wrong, first, partial
<1>3. /\ DOMAIN M = Fields /\ M.oldest = L.oldest /\ M.nextSpan = L.nextSpan
      /\ M.kicks = L.kicks /\ M.closed = L.closed /\ M.failedSpan = L.failedSpan
      /\ M.spans = [id \in Live(L) |-> SwapSettles(L, id, front)]
  BY FieldNames DEF Typed, Shaped
<1> HIDE DEF M
<1>4. Same(M, L)
  <2>1. \A id \in Live(L) : Kept(SwapSettles(L, id, front), L.spans[id])
    BY SwapSettlesKept DEF Typed
  <2> QED BY <1>3, <2>1 DEF Same
<1>5. \A id \in Live(L) : /\ Extends(M.spans[id], L.spans[id])
                          /\ DOMAIN M.spans[id].records = DOMAIN L.spans[id].records
  BY <1>3, SwapOnward
<1>6. Onward(M, L)
  BY <1>3, <1>4, <1>5 DEF Onward, Rewrites
<1>7. wrong # {} => Onward(FailAt(M, first.span), M)
  BY <1>2, <1>4, <1>6, OnwardLive, SameShaped, FailAtOnward DEF Typed
<1> QED BY <1>1, <1>6, <1>7, OnwardOn

LEMMA StartListOnward ==
    ASSUME NEW c, NEW L, Typed(L, c), NEW id
    PROVE  Onward(StartList(L, id), L) /\ StartList(L, id).spans = L.spans
<1> DEFINE list == L.spans[id].startsList
           M == [L EXCEPT !.activeList = list,
                   !.lists = [k \in {j \in DOMAIN @ : j >= list} |-> @[k]]]
<1>1. StartList(L, id) = L \/ StartList(L, id) = M
  BY DEF StartList
<1> HIDE DEF list
<1>2. /\ DOMAIN M = Fields /\ M.oldest = L.oldest /\ M.nextSpan = L.nextSpan
      /\ M.kicks = L.kicks /\ M.closed = L.closed /\ M.spans = L.spans
      /\ M.failedSpan = L.failedSpan
  BY FieldNames DEF Typed, Shaped
<1> HIDE DEF M
<1>3. Onward(M, L)
  BY <1>2, OtherFieldOnward DEF Typed, Failing
<1> QED BY <1>1, <1>2, <1>3, OnwardRefl DEF Typed

LEMMA AttachHeldOnward ==
    ASSUME NEW c, NEW L, Typed(L, c), NEW segment \in Segments
    PROVE  Onward(AttachHeld(L, segment), L)
<1> DEFINE M == AppendRecords(L, L.held[segment])
           b == Back(L)
           list == IF L.heldList[segment] # 0 THEN L.heldList[segment]
                   ELSE M.spans[b].startsList
           N == [M EXCEPT !.held[segment] = <<>>, !.heldList[segment] = 0]
<1>1. L.held[segment] \in Seq(RecordTo(c))
  BY DEF Typed, Others
<1>2. Typed(M, c) /\ Onward(M, L)
  BY <1>1, AppendOnward, AppendRecordsTyped
<1>3. AttachHeld(L, segment) = [N EXCEPT !.spans[b].startsList = list]
  <2>1. N.spans = M.spans
    BY <1>2, FieldNames DEF Typed, Shaped
  <2> QED BY <2>1 DEF AttachHeld
<1> HIDE DEF M
<1>4. Onward(N, M) /\ Shaped(N)
  <2>1. /\ DOMAIN N = Fields /\ N.oldest = M.oldest /\ N.nextSpan = M.nextSpan
        /\ N.kicks = M.kicks /\ N.closed = M.closed /\ N.spans = M.spans
        /\ N.failedSpan = M.failedSpan
    BY <1>2, FieldNames DEF Typed, Shaped
  <2> HIDE DEF N
  <2>2. Onward(N, M)
    BY <1>2, <2>1, OtherFieldOnward DEF Typed, Failing
  <2> QED BY <1>2, <2>2, SameShaped DEF Onward, Typed
<1> HIDE DEF N, list
<1>5. Onward([N EXCEPT !.spans[b].startsList = list], N)
  BY <1>4, FieldOnward
<1>6. Onward(N, L)
  BY <1>2, <1>4, OnwardOn
<1> QED BY <1>3, <1>5, <1>6, OnwardOn

LEMMA SubmittedOnward ==
    ASSUME NEW c, NEW L, Typed(L, c), NEW t, NEW segment, NEW size, NEW worker
    PROVE  Onward(Submitted(L, t, segment, size, worker), L)
<1> DEFINE p == [segment |-> segment, dwords |-> size, epoch |-> L.submitEpoch,
                 worker |-> worker]
           M == [L EXCEPT !.pendingSubmit[t] = p]
<1>1. Submitted(L, t, segment, size, worker) \in {FailAt(L, Back(L)), M}
  BY DEF Submitted
<1> HIDE DEF p
<1>2. /\ DOMAIN M = Fields /\ M.oldest = L.oldest /\ M.nextSpan = L.nextSpan
      /\ M.kicks = L.kicks /\ M.closed = L.closed /\ M.spans = L.spans
      /\ M.failedSpan = L.failedSpan
  BY FieldNames DEF Typed, Shaped
<1> HIDE DEF M
<1>3. Onward(M, L)
  BY <1>2, OtherFieldOnward DEF Typed, Failing
<1> QED BY <1>1, <1>3, FailBackOnward

-----------------------------------------------------------------------------
(* Every call but a kick, a silent submit and a deferral is Onward.        *)

\* Part of a call: a ledger between two of its steps.
Way(L, c) == Typed(L, c) /\ Onward(L, ledger)

LEMMA WayOn ==
    ASSUME NEW c, NEW L, Way(L, c), NEW M, Typed(M, c), Onward(M, L)
    PROVE  Way(M, c)
BY OnwardOn DEF Way

LEMMA WayStart ==
    ASSUME Now, clock' \in {clock, clock + 1}
    PROVE  /\ Way(ledger, clock') /\ Safe(ledger, clock', host.detached, ledger)
           /\ clock' \in Nat /\ clock' \in 0 .. clock'
           /\ Typed(ledger, clock') /\ Shaped(ledger)
<1>1. /\ Safe(ledger, clock', host.detached, ledger)
      /\ clock' \in Nat /\ clock' \in 0 .. clock'
  BY TickSafe
<1>2. Typed(ledger, clock') /\ Shaped(ledger)
  BY <1>1 DEF Safe, Typed
<1> QED BY <1>1, <1>2, OnwardRefl DEF Way

LEMMA RecordWay ==
    ASSUME Now, clock' \in {clock, clock + 1}, NEW t \in Threads,
           NEW r \in RecordTo(clock')
    PROVE  Way(RecordOn(ledger, t, r), clock')
BY WayStart, RecordOnTyped, RecordOnOnward, WayOn

LEMMA AdmitWay ==
    ASSUME Now, clock' \in {clock, clock + 1}, NEW t \in Threads, NEW allowHeld
    PROVE  Way(Admit(AbandonOpenResolve(ledger, t), t, allowHeld), clock')
BY WayStart, AdmittedTyped, AdmittedOnward, WayOn

\* A member of the ledger beside its spans.
LEMMA OtherWay ==
    ASSUME NEW c, NEW L, Way(L, c), NEW M, DOMAIN M = Fields,
           M.oldest = L.oldest, M.nextSpan = L.nextSpan, M.kicks = L.kicks,
           M.closed = L.closed, M.spans = L.spans, M.failedSpan = L.failedSpan
    PROVE  Onward(M, ledger)
<1>1. Onward(M, L)
  BY OtherFieldOnward DEF Way, Typed, Failing
<1> QED BY <1>1, OnwardOn DEF Way

LEMMA ProgressOnward ==
    ASSUME Now, NEW t \in Threads, ProgressOps(t)
    PROVE  Onward(ledger', ledger)
<1>1. ASSUME clock' \in {clock, clock + 1}, NEW kind \in Kinds, NEW n \in Nat
      PROVE  /\ NewRecord(kind, t) \in RecordTo(clock')
             /\ [NewRecord(kind, t) EXCEPT !.value = n] \in RecordTo(clock')
  BY <1>1, WayStart, RecordTypes
<1>2. {"InvalidateState", "Barrier", "ScratchWrite", "GpuWait"} \subseteq Kinds
  BY DEF Kinds
<1>3. CASE InvalidateState(t) \/ Barrier(t)
  <2>1. PICK kind \in Kinds : ledger' = RecordOn(ledger, t, NewRecord(kind, t))
    BY <1>2, <1>3 DEF InvalidateState, Barrier, Inert
  <2>2. clock' \in {clock, clock + 1}
    BY <1>3 DEF InvalidateState, Barrier, Inert
  <2>3. NewRecord(kind, t) \in RecordTo(clock')
    BY <1>1, <2>2
  <2> QED BY <2>1, <2>2, <2>3, RecordWay DEF Way
<1>4. CASE ScratchWrite(t)
  <2> DEFINE r == [NewRecord("ScratchWrite", t) EXCEPT !.value = clock']
  <2>1. clock' \in {clock, clock + 1} /\ ledger' = RecordOn(ledger, t, r)
    BY <1>4 DEF ScratchWrite, Tick
  <2>2. r \in RecordTo(clock')
    BY <1>1, <1>2, <2>1, WayStart
  <2> HIDE DEF r
  <2> QED BY <2>1, <2>2, RecordWay DEF Way
<1>5. ASSUME NEW word \in {0, 1}, GpuWait(t, word)
      PROVE  Onward(ledger', ledger)
  <2> DEFINE r == [NewRecord("GpuWait", t) EXCEPT !.value = word]
  <2>1. clock' \in {clock, clock + 1} /\ ledger' = RecordOn(ledger, t, r)
    BY <1>5 DEF GpuWait
  <2>2. r \in RecordTo(clock')
    BY <1>1, <1>2, <2>1
  <2> HIDE DEF r
  <2> QED BY <2>1, <2>2, RecordWay DEF Way
<1>6. ASSUME NEW block \in Blocks, Fence(t, block)
      PROVE  Onward(ledger', ledger)
  <2> DEFINE r == FenceRecord(t, block, clock')
             L == RecordOn(ledger, t, r)
  <2>1. clock' \in {clock, clock + 1} /\ ledger' = CheckIdentity(L, block)
    BY <1>6 DEF Fence, Tick
  <2>2. r \in RecordTo(clock')
    BY <2>1, WayStart, FenceTypes
  <2> HIDE DEF r
  <2>3. Way(L, clock')
    BY <2>1, <2>2, RecordWay
  <2> HIDE DEF L
  <2> QED BY <2>1, <2>3, CheckIdentityOnward, OnwardOn DEF Way
<1>7. ASSUME NEW flags \in CallbackFlags, Callback(t, flags)
      PROVE  Onward(ledger', ledger)
  <2> DEFINE r == CallbackRecord(t, flags, clock')
  <2>1. clock' \in {clock, clock + 1} /\ ledger' = RecordOn(ledger, t, r)
    BY <1>7 DEF Callback, Tick
  <2>2. r \in RecordTo(clock')
    BY <2>1, WayStart, CallbackTypes
  <2> HIDE DEF r
  <2> QED BY <2>1, <2>2, RecordWay DEF Way
<1> QED BY <1>3, <1>4, <1>5, <1>6, <1>7 DEF ProgressOps

LEMMA UnownBackOnward ==
    ASSUME NEW c, NEW L, Way(L, c), NEW i
    PROVE  Onward(Unown(L, Back(L), i), ledger)
<1>1. Back(L) \in Live(L)
  BY BackTypes DEF Way
<1>2. Onward(Unown(L, Back(L), i), L)
  BY <1>1, UnownOnward DEF Way
<1> QED BY <1>2, OnwardOn DEF Way

LEMMA UnmodeledOnward ==
    ASSUME Now, NEW t \in Threads, UnmodeledOps(t)
    PROVE  Onward(ledger', ledger)
<1>1. CASE Unmodeled(t)
  <2> DEFINE r == NewRecord("Unmodeled", t)
             L == RecordOn(ledger, t, r)
  <2>1. /\ clock' \in {clock, clock + 1}
        /\ ledger' = Unown(L, Back(L), Len(L.spans[Back(L)].records))
    BY <1>1 DEF Unmodeled
  <2>2. "Unmodeled" \in Kinds
    BY DEF Kinds
  <2>3. r \in RecordTo(clock')
    BY <2>1, <2>2, WayStart, RecordTypes
  <2> HIDE DEF r
  <2>4. Way(L, clock')
    BY <2>1, <2>3, RecordWay
  <2> HIDE DEF L
  <2> QED BY <2>1, <2>4, UnownBackOnward
<1>2. CASE BadTimestamp(t)
  <2> DEFINE L == Admit(AbandonOpenResolve(ledger, t), t, FALSE)
  <2>1. clock' \in {clock, clock + 1} /\ ledger' = FailAt(L, Back(L))
    BY <1>2 DEF BadTimestamp
  <2>2. Way(L, clock')
    BY <2>1, AdmitWay
  <2> HIDE DEF L
  <2> QED BY <2>1, <2>2, FailBackOnward, OnwardOn DEF Way
<1>3. ASSUME NEW flags \in CallbackFlags, ForeignCallback(t, flags)
      PROVE  Onward(ledger', ledger)
  <2> DEFINE r == CallbackRecord(t, flags, clock')
             L == RecordOn(ledger, t, r)
  <2>1. /\ clock' \in {clock, clock + 1}
        /\ ledger' = Unown(L, Back(L), Len(L.spans[Back(L)].records))
    BY <1>3 DEF ForeignCallback, Tick
  <2>2. r \in RecordTo(clock')
    BY <2>1, WayStart, CallbackTypes
  <2> HIDE DEF r
  <2>3. Way(L, clock')
    BY <2>1, <2>2, RecordWay
  <2> HIDE DEF L
  <2> QED BY <2>1, <2>3, UnownBackOnward
<1> QED BY <1>1, <1>2, <1>3 DEF UnmodeledOps

\* A record that awaits its verdict: the span counts it, a thread keeps it.
LEMMA OpenedOnward ==
    ASSUME NEW c, NEW M, Way(M, c), NEW b, NEW t, NEW h
    PROVE  /\ Onward([M EXCEPT !.spans[b].pending = @ + 1, !.openDraws[t] = h], ledger)
           /\ Onward([M EXCEPT !.spans[b].pending = @ + 1, !.openResolves[t] = h], ledger)
<1> DEFINE n == M.spans[b].pending + 1
           P == [M EXCEPT !.spans[b].pending = n]
           N == [P EXCEPT !.openDraws[t] = h]
           R == [P EXCEPT !.openResolves[t] = h]
<1>1. Shaped(M)
  BY DEF Way, Typed
<1>2. /\ [M EXCEPT !.spans[b].pending = @ + 1, !.openDraws[t] = h] = N
      /\ [M EXCEPT !.spans[b].pending = @ + 1, !.openResolves[t] = h] = R
  OBVIOUS
<1> HIDE DEF n
<1>3. Onward(P, M)
  BY <1>1, FieldOnward
<1>4. Onward(P, ledger) /\ Shaped(P)
  BY <1>1, <1>3, OnwardOn, SameShaped DEF Way, Onward
<1> HIDE DEF P
<1>5. Onward(N, P) /\ Onward(R, P)
  BY <1>4, OtherFieldOnward, FieldNames DEF Shaped, Failing
<1>6. Onward(N, ledger) /\ Onward(R, ledger)
  BY <1>4, <1>5, OnwardOn
<1> QED BY <1>2, <1>6

LEMMA HandleWay ==
    ASSUME NEW c, NEW L, Way(L, c), NEW t, NEW h \in Handles
    PROVE  /\ Way([L EXCEPT !.openDraws[t] = h], c)
           /\ Way([L EXCEPT !.openResolves[t] = h], c)
<1>1. /\ Typed([L EXCEPT !.openDraws[t] = h], c)
      /\ Typed([L EXCEPT !.openResolves[t] = h], c)
  BY ClearHandles DEF Way
<1>2. /\ Onward([L EXCEPT !.openDraws[t] = h], L)
      /\ Onward([L EXCEPT !.openResolves[t] = h], L)
  BY OtherFieldOnward, FieldNames DEF Way, Typed, Shaped, Failing
<1> QED BY <1>1, <1>2, WayOn

LEMMA AbandonWay ==
    ASSUME NEW c, NEW L, Way(L, c), NEW h \in Handles
    PROVE  Way(Abandon(L, h), c)
BY AbandonTyped, AbandonOnward, WayOn DEF Way

LEMMA AppendWay ==
    ASSUME NEW c, NEW L, Way(L, c), NEW t \in Threads, NEW allowHeld,
           NEW r \in RecordTo(c)
    PROVE  Way(AppendRecords(Admit(L, t, allowHeld), <<r>>), c)
<1> DEFINE M == Admit(L, t, allowHeld)
<1>1. Way(M, c)
  BY AdmitTyped, AdmitOnward, WayOn DEF Way
<1> HIDE DEF M
<1>2. Way(AppendRecords(M, <<r>>), c)
  BY <1>1, AppendOneTyped, AppendOneOnward, WayOn DEF Way
<1> QED BY <1>2 DEF M

LEMMA BeginDrawOnward ==
    ASSUME Now, NEW t \in Threads, NEW site \in Nat, BeginDraw(t, site)
    PROVE  Onward(ledger', ledger)
<1> DEFINE A == AbandonOpenResolve(ledger, t)
           B == [A EXCEPT !.openDraws[t] = NoHandle]
           C == Abandon(B, A.openDraws[t])
           r == [NewRecord("Draw", t) EXCEPT !.value = site, !.pending = TRUE]
           M == AppendRecords(Admit(C, t, FALSE), <<r>>)
           b == Back(M)
           h == [span |-> b, index |-> Len(M.spans[b].records)]
<1>1. clock' = clock
      /\ ledger' = [M EXCEPT !.spans[b].pending = @ + 1, !.openDraws[t] = h]
  BY DEF BeginDraw
<1>2. Way(ledger, clock) /\ clock \in Nat
  BY <1>1, WayStart
<1>3. Way(A, clock)
  BY <1>2, AbandonOpenResolveTyped, AbandonOpenResolveOnward, WayOn DEF Way
<1> HIDE DEF A
<1>4. A.openDraws[t] \in Handles /\ NoHandle \in Handles
  BY <1>3, HandleTypes DEF Way
<1>5. Way(B, clock)
  BY <1>3, <1>4, HandleWay
<1> HIDE DEF B
<1>6. Way(C, clock)
  BY <1>4, <1>5, AbandonWay
<1> HIDE DEF C
<1>7. r \in RecordTo(clock)
  <2>1. "Draw" \in Kinds
    BY DEF Kinds
  <2> QED BY <1>2, <2>1, RecordTypes
<1> HIDE DEF r
<1>8. Way(M, clock)
  BY <1>6, <1>7, AppendWay
<1> HIDE DEF M, h, b
<1>9. Onward([M EXCEPT !.spans[b].pending = @ + 1, !.openDraws[t] = h], ledger)
  BY <1>8, OpenedOnward
<1> QED BY <1>1, <1>9

LEMMA ResolveOnward ==
    ASSUME Now, NEW t \in Threads, NEW dest \in Nat, Resolve(t, dest)
    PROVE  Onward(ledger', ledger)
<1> DEFINE r == [NewRecord("Resolve", t) EXCEPT !.value = dest, !.pending = TRUE]
           M == RecordOn(ledger, t, r)
           b == Back(M)
           h == [span |-> b, index |-> Len(M.spans[b].records)]
<1>1. clock' \in {clock, clock + 1} /\ clock' = clock
      /\ ledger' = [M EXCEPT !.spans[b].pending = @ + 1, !.openResolves[t] = h]
  BY DEF Resolve
<1>2. r \in RecordTo(clock')
  <2>1. "Resolve" \in Kinds
    BY DEF Kinds
  <2> QED BY <1>1, <2>1, WayStart, RecordTypes
<1> HIDE DEF r
<1>3. Way(M, clock')
  BY <1>1, <1>2, RecordWay
<1> HIDE DEF M, h, b
<1>4. Onward([M EXCEPT !.spans[b].pending = @ + 1, !.openResolves[t] = h], ledger)
  BY <1>3, OpenedOnward
<1> QED BY <1>1, <1>4

\* A draw stays a draw through its settlement.
LEMMA SettledKind ==
    ASSUME NEW c, NEW L, Typed(L, c), NEW h, NEW id, NEW i
    PROVE  /\ id \in Live(Settle(L, h)) <=> id \in Live(L)
           /\ id \in Live(L) /\ i \in DOMAIN L.spans[id].records =>
                 /\ i \in DOMAIN Settle(L, h).spans[id].records
                 /\ Settle(L, h).spans[id].records[i].kind = L.spans[id].records[i].kind
<1> DEFINE M == [L EXCEPT !.spans[h.span].records[h.index].pending = FALSE]
           n == M.spans[h.span].pending - 1
<1>1. L.spans \in [Live(L) -> SpanTo(c)] /\ DOMAIN L = Fields
      /\ L.oldest \in Nat /\ L.nextSpan \in Nat
  BY DEF Typed, Shaped
<1>2. /\ DOMAIN M = Fields /\ M.oldest = L.oldest /\ M.nextSpan = L.nextSpan
      /\ DOMAIN M.spans = Live(L)
  BY <1>1, FieldNames
<1>3. ASSUME id \in Live(L), i \in DOMAIN L.spans[id].records
      PROVE  /\ i \in DOMAIN M.spans[id].records
             /\ M.spans[id].records[i].kind = L.spans[id].records[i].kind
             /\ DOMAIN M.spans[id] = SpanFields
  <2>1. L.spans[id].records[i] \in RecordTo(c) /\ DOMAIN L.spans[id] = SpanFields
    BY <1>3, SpanOfLedger, RecordOfSpan DEF Typed, Shaped
  <2>2. [L.spans[id].records[i] EXCEPT !.pending = FALSE].kind = L.spans[id].records[i].kind
    BY <2>1 DEF RecordTo
  <2> QED BY <1>1, <1>3, <2>1, <2>2, FieldNames, SpanFieldNames
<1>4. Settle(L, h) = [M EXCEPT !.spans[h.span].pending = n]
  BY <1>1, FieldNames, SpanFieldNames DEF Settle
<1> HIDE DEF M, n
<1>5. /\ Settle(L, h).oldest = L.oldest /\ Settle(L, h).nextSpan = L.nextSpan
      /\ id \in Live(L) /\ DOMAIN M.spans[id] = SpanFields
            => Settle(L, h).spans[id].records = M.spans[id].records
  BY <1>2, <1>4, FieldNames, SpanFieldNames
<1> QED BY <1>3, <1>5 DEF Live

\* The verdict of a draw in the span it was recorded in, and of one that is
\* recorded with its verdict.
LEMMA SettledDrawOnward ==
    ASSUME NEW c, NEW L, Way(L, c), NEW h, Pending(L, h),
           ResolveOf(L, h).kind = "Draw", NEW sequence \in 0 .. c, NEW verdict
    PROVE  Onward(SettleDraw(Settle(L, h), h.span, h.index, sequence, verdict), ledger)
<1> DEFINE S == Settle(L, h)
<1>1. Typed(S, c) /\ Onward(S, L)
  BY SettleTyped, SettleOnward DEF Way
<1>2. h.span \in Live(L) /\ h.index \in DOMAIN L.spans[h.span].records
  BY DEF Pending
<1>3. h.span \in Live(S) /\ S.spans[h.span].records[h.index].kind = "Draw"
  BY <1>2, SettledKind DEF Way, ResolveOf
<1> HIDE DEF S
<1>4. Onward(SettleDraw(S, h.span, h.index, sequence, verdict), S)
  BY <1>1, <1>3, SettleDrawOnward
<1>5. Onward(S, ledger)
  BY <1>1, OnwardOn DEF Way
<1>6. Onward(SettleDraw(S, h.span, h.index, sequence, verdict), ledger)
  BY <1>4, <1>5, OnwardOn
<1> QED BY <1>6 DEF S

LEMMA FreshDrawOnward ==
    ASSUME NEW c, NEW D, Typed(D, c), NEW r \in RecordTo(c), r.kind = "Draw",
           NEW M, M = AppendRecords(D, <<r>>), Way(M, c),
           NEW sequence \in 0 .. c, NEW verdict
    PROVE  Onward(SettleDraw(M, Back(M), Len(M.spans[Back(M)].records), sequence,
                             verdict), ledger)
<1> DEFINE b == Back(M)
           i == Len(M.spans[b].records)
<1>1. <<r>> \in Seq(RecordTo(c)) /\ Len(<<r>>) = 1 /\ <<r>>[1] = r
  OBVIOUS
<1>2. Appended(M, D, <<r>>)
  BY <1>1, Appends
<1>3. M.spans[b].records[i] = r
  <2> DEFINE new == M.spans[b]
             s == D.spans[b]
  <2>1. Longer(new, s, <<r>>)
    BY <1>2 DEF Appended
  <2> HIDE DEF new, s
  <2>2. Len(new.records) = Len(s.records) + 1
        /\ new.records[Len(s.records) + 1] = r
    BY <1>1, <2>1 DEF Longer
  <2> QED BY <2>2 DEF new
<1>4. b \in Live(M)
  BY BackTypes DEF Way
<1> HIDE DEF i
<1>5. Onward(SettleDraw(M, b, i, sequence, verdict), M)
  BY <1>3, <1>4, SettleDrawOnward DEF Way
<1>6. Onward(SettleDraw(M, b, i, sequence, verdict), ledger)
  BY <1>5, OnwardOn DEF Way
<1> QED BY <1>6 DEF i

LEMMA FinishDrawOnward ==
    ASSUME Now, NEW t \in Threads, NEW site \in Nat, NEW verdict,
           FinishDraw(t, site, verdict)
    PROVE  Onward(ledger', ledger)
<1> DEFINE A == AbandonOpenResolve(ledger, t)
           h == A.openDraws[t]
           L == [A EXCEPT !.openDraws[t] = NoHandle]
           D == Admit(Abandon(L, h), t, FALSE)
           r == [NewRecord("Draw", t) EXCEPT !.value = site]
           M == AppendRecords(D, <<r>>)
<1>1. /\ clock' \in {clock, clock + 1}
      /\ \/ Pending(L, h)
            /\ ledger' = SettleDraw(Settle(L, h), h.span, h.index, clock', verdict)
         \/ ledger' = SettleDraw(M, Back(M), Len(M.spans[Back(M)].records),
                                 clock', verdict)
  BY DEF FinishDraw, Tick
<1>2. /\ Way(ledger, clock') /\ Safe(ledger, clock', host.detached, ledger)
      /\ clock' \in Nat /\ clock' \in 0 .. clock'
  BY <1>1, WayStart
<1>3. Safe(A, clock', host.detached, ledger) /\ Way(A, clock')
  BY <1>2, AbandonOpenResolveSafe, AbandonOpenResolveTyped, AbandonOpenResolveOnward,
     WayOn DEF Way
<1> HIDE DEF A
<1>4. h \in Handles /\ NoHandle \in Handles /\ Owing(A, h, "Draw")
  BY <1>3, HandleTypes DEF Way, Safe, Sound, Debts
<1>5. Way(L, clock')
  BY <1>3, <1>4, HandleWay
<1>6. /\ L.spans = A.spans /\ L.oldest = A.oldest /\ L.nextSpan = A.nextSpan
      /\ A.oldest \in Nat /\ A.nextSpan \in Nat
  BY <1>3, FieldNames DEF Way, Typed, Shaped
<1> HIDE DEF L
<1> HIDE DEF h
<1>7. ASSUME Pending(L, h) PROVE ResolveOf(L, h).kind = "Draw"
  <2>1. h.span \in Live(L)
    BY <1>7 DEF Pending
  <2>2. h.span >= A.oldest
    BY <1>6, <2>1 DEF Live
  <2>3. PendingAs(A, h, "Draw")
    BY <1>4, <2>2 DEF Owing
  <2> QED BY <1>6, <2>3 DEF PendingAs, ResolveOf
<1>8. r \in RecordTo(clock') /\ r.kind = "Draw"
  <2>1. "Draw" \in Kinds
    BY DEF Kinds
  <2>2. r \in RecordTo(clock')
    BY <1>2, <2>1, RecordTypes
  <2>3. r.kind = "Draw"
    BY PlainRecords
  <2> QED BY <2>2, <2>3
<1> HIDE DEF r
<1>9. Way(Abandon(L, h), clock')
  BY <1>4, <1>5, AbandonWay
<1>10. Way(M, clock') /\ Typed(D, clock')
  BY <1>8, <1>9, AppendWay, AdmitTyped DEF Way
<1> HIDE DEF D
<1>11. Onward(SettleDraw(M, Back(M), Len(M.spans[Back(M)].records), clock', verdict),
              ledger)
  BY <1>2, <1>8, <1>10, FreshDrawOnward
<1>12. Pending(L, h) => Onward(SettleDraw(Settle(L, h), h.span, h.index, clock',
                                          verdict), ledger)
  BY <1>2, <1>5, <1>7, SettledDrawOnward
<1> QED BY <1>1, <1>11, <1>12

LEMMA DrawOnward ==
    ASSUME Now, NEW t \in Threads, DrawOps(t)
    PROVE  Onward(ledger', ledger)
<1>1. CASE DetachDraw(t)
  <2>1. Way(ledger, clock) /\ NoHandle \in Handles
    BY TickSafe, OnwardRefl, HandleTypes DEF Way, Safe, Typed, Now
  <2>2. Way([ledger EXCEPT !.openDraws[t] = NoHandle], clock)
    BY <2>1, HandleWay
  <2> QED BY <1>1, <2>2 DEF DetachDraw, Way
<1>2. CASE ~DetachDraw(t)
  BY <1>2, DataTypes, BeginDrawOnward, FinishDrawOnward DEF DrawOps, AssumedSites
<1> QED BY <1>1, <1>2

LEMMA DetachedOnward ==
    ASSUME Now, DetachedOps
    PROVE  Onward(ledger', ledger)
<1>1. PICK h \in host.detached :
         \/ \E site \in Sites, verdict \in Verdicts :
               FinishDetached(h, site, verdict)
         \/ AbandonDraw(h)
  BY DEF DetachedOps
<1>2. clock' \in {clock, clock + 1}
  BY <1>1 DEF FinishDetached, AbandonDraw, Tick
<1>3. /\ Way(ledger, clock') /\ clock' \in 0 .. clock' /\ Onward(ledger, ledger)
      /\ h \in Handles
  BY <1>1, <1>2, WayStart DEF Way, Safe, Sound, Debts
<1>4. Onward(Abandon(ledger, h), ledger) /\ Onward(Settle(ledger, h), ledger)
  BY <1>3, AbandonOnward, SettleOnward DEF Way
<1>5. ASSUME NEW verdict, Pending(ledger, h),
             ledger.spans[h.span].records[h.index].kind = "Draw"
      PROVE  Onward(SettleDraw(Settle(ledger, h), h.span, h.index, clock', verdict), ledger)
  BY <1>3, <1>5, SettledDrawOnward DEF ResolveOf
<1>6. ASSUME NEW settled, Pending(ledger, h) /\
                ledger.spans[h.span].records[h.index].kind = "Draw"
                => Onward(settled, ledger)
      PROVE  Onward(Detached(h, settled), ledger)
  BY <1>3, <1>4, <1>6 DEF Detached
<1>7. CASE AbandonDraw(h)
  BY <1>4, <1>6, <1>7 DEF AbandonDraw
<1>8. ASSUME NEW site, NEW verdict, FinishDetached(h, site, verdict)
      PROVE  Onward(ledger', ledger)
  <2>1. \/ ledger' = Detached(h, SettleDraw(Settle(ledger, h), h.span,
                                            h.index, clock', verdict))
        \/ ledger' = Detached(h, Abandon(ledger, h))
    BY <1>8 DEF FinishDetached
  <2> QED BY <1>4, <1>5, <1>6, <2>1
<1> QED BY <1>1, <1>7, <1>8

LEMMA AdmittedMarkOnward ==
    ASSUME NEW c, NEW L, Way(L, c), NEW id, NEW m
    PROVE  Onward([L EXCEPT !.spans[id].lastAdmitted = MaxOf(@, m)], ledger)
<1> DEFINE newest == MaxOf(L.spans[id].lastAdmitted, m)
<1>1. [L EXCEPT !.spans[id].lastAdmitted = MaxOf(@, m)]
         = [L EXCEPT !.spans[id].lastAdmitted = newest]
  OBVIOUS
<1> HIDE DEF newest
<1>2. Onward([L EXCEPT !.spans[id].lastAdmitted = newest], L)
  BY FieldOnward DEF Way, Typed
<1>3. Onward([L EXCEPT !.spans[id].lastAdmitted = newest], ledger)
  BY <1>2, OnwardOn DEF Way
<1> QED BY <1>1, <1>3

LEMMA ClearOnward ==
    ASSUME Now, NEW t \in Threads, NEW admitted, Clear(t, admitted)
    PROVE  Onward(ledger', ledger)
<1> DEFINE r == [NewRecord("Clear", t) EXCEPT !.mark = clock']
           L == RecordOn(ledger, t, r)
           b == Back(L)
           P == [L EXCEPT !.spans[b].partial = TRUE]
<1>1. /\ clock' \in {clock, clock + 1}
      /\ \/ ledger' = [L EXCEPT !.spans[b].lastAdmitted = MaxOf(@, clock')]
         \/ ledger' = [P EXCEPT !.epochPartial = TRUE]
         \/ ledger' = Unown(L, b, Len(L.spans[b].records))
  BY DEF Clear, Tick
<1>2. r \in RecordTo(clock')
  <2>1. "Clear" \in Kinds
    BY DEF Kinds
  <2> QED BY <1>1, <2>1, WayStart, RecordTypes
<1> HIDE DEF r
<1>3. Way(L, clock')
  BY <1>1, <1>2, RecordWay
<1> HIDE DEF L
<1>4. Onward([L EXCEPT !.spans[b].lastAdmitted = MaxOf(@, clock')], ledger)
  BY <1>3, AdmittedMarkOnward
<1>5. Onward(Unown(L, b, Len(L.spans[b].records)), ledger)
  BY <1>3, UnownBackOnward
<1>6. Onward([P EXCEPT !.epochPartial = TRUE], ledger)
  <2>1. Onward(P, L)
    BY <1>3, FieldOnward DEF Way, Typed
  <2>2. Onward(P, ledger) /\ Shaped(P)
    BY <1>3, <2>1, OnwardOn, SameShaped DEF Way, Typed, Onward
  <2> HIDE DEF P
  <2>3. Onward([P EXCEPT !.epochPartial = TRUE], P)
    BY <2>2, OtherFieldOnward, FieldNames DEF Shaped, Failing
  <2> QED BY <2>2, <2>3, OnwardOn
<1> QED BY <1>1, <1>4, <1>5, <1>6

LEMMA FinishResolveOnward ==
    ASSUME Now, NEW t \in Threads, NEW outcome, FinishResolve(t, outcome)
    PROVE  Onward(ledger', ledger)
<1> DEFINE h == ledger.openResolves[t]
           mark == IF outcome = "no mark" THEN 0 ELSE clock'
           K == [ledger EXCEPT !.spans[h.span].records[h.index].mark = mark]
           L == [ledger EXCEPT !.openResolves[t] = NoHandle]
           M == [K EXCEPT !.openResolves[t] = NoHandle]
           S == Settle(M, h)
<1>1. /\ clock' \in {clock, clock + 1}
      /\ [L EXCEPT !.spans[h.span].records[h.index].mark = mark] = M =>
         \/ h.span \notin Live(L) /\ ledger' = L
         \/ /\ h.span \in Live(L)
            /\ \/ ledger' = [M EXCEPT !.frontbuffer = @ \cup {h}]
               \/ ledger' = [S EXCEPT !.spans[h.span].lastAdmitted = MaxOf(@, mark)]
               \/ ledger' = Unown(S, h.span, h.index)
  BY DEF FinishResolve
<1>2. /\ Way(ledger, clock') /\ Typed(ledger, clock')
      /\ Safe(ledger, clock', host.detached, ledger)
      /\ clock' \in Nat /\ clock' \in 0 .. clock' /\ mark \in 0 .. clock'
  <2>1. /\ Way(ledger, clock') /\ Typed(ledger, clock')
        /\ Safe(ledger, clock', host.detached, ledger)
        /\ clock' \in Nat /\ clock' \in 0 .. clock'
    BY <1>1, WayStart
  <2>2. 0 \in 0 .. clock'
    BY <2>1
  <2>3. mark = 0 \/ mark = clock'
    OBVIOUS
  <2> HIDE DEF mark
  <2> QED BY <2>1, <2>2, <2>3
<1>3. [L EXCEPT !.spans[h.span].records[h.index].mark = mark] = M
  BY <1>2, FieldNames DEF Typed, Shaped
<1>4. Live(L) = Live(ledger) /\ ledger.oldest \in Nat /\ ledger.nextSpan \in Nat
  BY <1>2, FieldNames DEF Typed, Shaped, Live
<1>5. h \in Handles /\ NoHandle \in Handles /\ Owing(ledger, h, "Resolve")
  BY <1>2, HandleTypes DEF Safe, Sound, Debts
<1>6. Way(L, clock')
  BY <1>2, <1>5, HandleWay
<1> HIDE DEF L
<1>7. CASE h.span \notin Live(ledger)
  BY <1>1, <1>3, <1>4, <1>6, <1>7 DEF Way
<1>8. CASE h.span \in Live(ledger)
  <2> HIDE DEF h, mark
  <2>1. Pending(ledger, h)
    <3>1. h.span >= ledger.oldest
      BY <1>4, <1>8 DEF Live
    <3> QED BY <1>5, <3>1 DEF Owing, PendingAs
  <2>2. Way(K, clock')
    <3>1. Typed(K, clock')
      BY <1>2, ChangeRecord
    <3>2. Onward(K, ledger)
      BY <1>2, <2>1, RecordOnward DEF Pending
    <3> HIDE DEF K
    <3> QED BY <3>1, <3>2 DEF Way
  <2> HIDE DEF K
  <2>3. Way(M, clock')
    BY <1>5, <2>2, HandleWay
  <2> HIDE DEF M
  <2>4. Way(S, clock')
    BY <2>3, SettleTyped, SettleOnward, WayOn DEF Way
  <2>5. Onward([M EXCEPT !.frontbuffer = @ \cup {h}], ledger)
    BY <2>3, OtherWay, FieldNames DEF Way, Typed, Shaped
  <2> HIDE DEF S
  <2>6. Onward([S EXCEPT !.spans[h.span].lastAdmitted = MaxOf(@, mark)], ledger)
    BY <2>4, AdmittedMarkOnward
  <2>7. Onward(Unown(S, h.span, h.index), ledger)
    <3>1. h.span \in Live(S)
      BY <1>8, <2>4, OnwardLive DEF Way
    <3>2. Onward(Unown(S, h.span, h.index), S)
      BY <2>4, <3>1, UnownOnward DEF Way
    <3> QED BY <2>4, <3>2, OnwardOn DEF Way
  <2> QED BY <1>1, <1>3, <1>4, <1>8, <2>5, <2>6, <2>7
<1> QED BY <1>7, <1>8

LEMMA FailBackTyped ==
    ASSUME NEW c, NEW L, Typed(L, c)
    PROVE  Typed(FailAt(L, Back(L)), c)
BY BackTypes, FailAtTyped

LEMMA SwapCallOnward ==
    ASSUME Now, NEW t \in Threads, NEW front \in Nat, Swap(t, front)
    PROVE  Onward(ledger', ledger)
<1> DEFINE A == AbandonOpenResolve(ledger, t)
           B == IF SideHeld(A) \/ A.heldFirst # <<>> THEN FailAt(A, Back(A)) ELSE A
           r == [NewRecord("Swap", t) EXCEPT !.value = front]
           E == AppendRecords(Admit(B, t, FALSE), <<r>>)
           D == SettleFrontbuffers(E, front)
           saw == D.ownerSwapSawSwap \/ D.ownerSwapThread = t
<1>1. clock' = clock
      /\ ledger' = [D EXCEPT !.epochWork = FALSE, !.epochPartial = FALSE,
                             !.ownerSwapSawSwap = saw]
  BY DEF Swap
<1>2. Way(ledger, clock) /\ clock \in Nat
  BY <1>1, WayStart
<1>3. Way(A, clock)
  BY <1>2, AbandonOpenResolveTyped, AbandonOpenResolveOnward, WayOn DEF Way
<1> HIDE DEF A
<1>4. Way(B, clock)
  <2>1. Way(FailAt(A, Back(A)), clock)
    BY <1>3, FailBackTyped, FailBackOnward, WayOn DEF Way
  <2> QED BY <1>3, <2>1
<1> HIDE DEF B
<1>5. r \in RecordTo(clock)
  <2>1. "Swap" \in Kinds
    BY DEF Kinds
  <2> QED BY <1>2, <2>1, RecordTypes
<1> HIDE DEF r
<1>6. Way(E, clock)
  BY <1>4, <1>5, AppendWay
<1> HIDE DEF E
<1>7. Way(D, clock)
  BY <1>2, <1>6, SettleFrontbuffersTyped, SettleFrontbuffersOnward, WayOn DEF Way
<1> HIDE DEF D, saw
<1>8. Onward([D EXCEPT !.epochWork = FALSE, !.epochPartial = FALSE,
                       !.ownerSwapSawSwap = saw], ledger)
  BY <1>7, OtherWay, FieldNames DEF Way, Typed, Shaped
<1> QED BY <1>1, <1>8

LEMMA FrameOnward ==
    ASSUME Now, NEW t \in Threads, ResolveOps(t) \/ FrameOps(t)
    PROVE  Onward(ledger', ledger)
BY DataTypes, ResolveOnward, FinishResolveOnward, ClearOnward, SwapCallOnward
   DEF ResolveOps, FrameOps, AssumedSites

\* A call that leaves the spans alone, apart from who records into one.
LEMMA BesideOnward ==
    ASSUME NEW c, NEW L, Way(L, c), NEW M, DOMAIN M = Fields,
           M.oldest = L.oldest, M.nextSpan = L.nextSpan, M.kicks = L.kicks,
           M.closed = L.closed, M.spans = L.spans,
           M.failedSpan \in {L.failedSpan, FailAt(L, Back(L)).failedSpan}
    PROVE  /\ Onward(M, ledger)
           /\ \A id, t : Onward([M EXCEPT !.spans[id].thread = t], ledger)
<1>1. Failing(M, L)
  <2>1. Back(L) \in Live(L) /\ DOMAIN L = Fields
    BY BackTypes DEF Way, Typed, Shaped
  <2> QED BY <2>1, FieldNames DEF FailAt, Failing
<1>2. Onward(M, ledger) /\ Shaped(M)
  <2>1. Onward(M, L)
    BY <1>1, OtherFieldOnward DEF Way, Typed
  <2> QED BY <2>1, OnwardOn, SameShaped DEF Way, Typed, Onward
<1>3. ASSUME NEW id, NEW t PROVE Onward([M EXCEPT !.spans[id].thread = t], ledger)
  BY <1>2, FieldOnward, OnwardOn
<1> QED BY <1>2, <1>3

LEMMA SubmitsOnward ==
    ASSUME Now, NEW t \in Threads, NEW s \in Segments, NEW n \in Nat,
           DirectSubmit(t, s, n) \/ ReplaySubmit(t, s, n)
    PROVE  Onward(ledger', ledger)
<1> DEFINE R == [ledger EXCEPT !.replay = @ \cup {t}]
<1>1. clock' = clock
  BY DEF DirectSubmit, ReplaySubmit, LedgerOnly
<1>2. Way(ledger, clock) /\ Typed(ledger, clock) /\ Onward(ledger, ledger)
  BY <1>1, WayStart DEF Way
<1>3. CASE DirectSubmit(t, s, n)
  <2>1. ledger' \in {FailAt(ledger, Back(ledger)), Submitted(ledger, t, s, n, FALSE)}
    BY <1>3 DEF DirectSubmit, Unreplayed
  <2> QED BY <1>2, <2>1, FailBackOnward, SubmittedOnward
<1>4. CASE ReplaySubmit(t, s, n)
  <2>1. ledger' = Submitted(R, t, s, n, TRUE)
    BY <1>4 DEF ReplaySubmit
  <2>2. Typed(R, clock)
    <3>1. /\ DOMAIN R = Fields /\ R.oldest = ledger.oldest
          /\ R.nextSpan = ledger.nextSpan /\ R.spans = ledger.spans
      BY <1>2, FieldNames DEF Typed, Shaped
    <3>2. Others(R, clock)
      BY <1>2, FieldNames DEF Typed, Shaped, Others
    <3> QED BY <1>2, <3>1, <3>2, PutOther
  <2>3. Onward(R, ledger)
    BY <1>2, OtherWay, FieldNames DEF Typed, Shaped
  <2> HIDE DEF R
  <2> QED BY <2>1, <2>2, <2>3, SubmittedOnward, OnwardOn
<1> QED BY <1>3, <1>4

LEMMA TileOnward ==
    ASSUME Now, NEW t \in Threads, TileOps(t) \/ TiledProgress,
           ~\E s \in Segments, n \in Sizes : Defer(t, s, n)
    PROVE  Onward(ledger', ledger)
<1>1. clock' \in {clock, clock + 1}
  BY DEF TileOps, TiledProgress, BeginTiledList, TiledSegment, SideFence, SideCallback,
         FirstPassCallback, LedgerOnly, Tick
<1>2. Way(ledger, clock') /\ DOMAIN ledger = Fields
  BY <1>1, WayStart DEF Shaped
<1>3. \A allowHeld \in BOOLEAN :
         /\ Way(Admit(AbandonOpenResolve(ledger, t), t, allowHeld), clock')
         /\ DOMAIN Admit(AbandonOpenResolve(ledger, t), t, allowHeld) = Fields
  BY <1>1, AdmitWay DEF Way, Typed, Shaped
<1>4. CASE BeginTiledList
  BY <1>2, <1>4, BesideOnward, FieldNames DEF BeginTiledList
<1>5. ASSUME NEW s \in Segments, NEW n \in Sizes, TiledSegment(t, s, n)
      PROVE  Onward(ledger', ledger)
  <2> DEFINE M == [ledger EXCEPT !.lists[ledger.nextList - 1][s] = n]
  <2>1. ledger' = M \/ ledger' = FailAt(ledger, Back(ledger))
    BY <1>5 DEF TiledSegment, Unreplayed
  <2>2. Onward(M, ledger)
    BY <1>2, BesideOnward, FieldNames
  <2> QED BY <1>2, <2>1, <2>2, FailBackOnward DEF Way
<1>6. CASE TiledProgress
  BY <1>2, <1>6, FailBackOnward DEF TiledProgress, Way
<1>7. ASSUME NEW s \in Segments, NEW block \in Blocks, SideFence(t, block, s)
      PROVE  Onward(ledger', ledger)
  <2> DEFINE L == Admit(AbandonOpenResolve(ledger, t), t, TRUE)
             recs == L.held[s] \o <<NewRecord("InvalidateState", t),
                                    FenceRecord(t, block, clock')>>
             M == [L EXCEPT !.held[s] = recs]
  <2>1. ledger' = CheckIdentity(M, block)
    BY <1>7 DEF SideFence
  <2> HIDE DEF recs
  <2>2. Way(L, clock') /\ DOMAIN L = Fields
    BY <1>3
  <2> HIDE DEF L
  <2>3. /\ DOMAIN M = Fields /\ M.oldest = L.oldest /\ M.nextSpan = L.nextSpan
        /\ M.kicks = L.kicks /\ M.closed = L.closed /\ M.spans = L.spans
        /\ M.failedSpan = L.failedSpan
    BY <2>2, FieldNames
  <2> HIDE DEF M
  <2> DEFINE N == CheckIdentity(M, block)
  <2>4. /\ DOMAIN N = Fields /\ N.oldest = L.oldest /\ N.nextSpan = L.nextSpan
        /\ N.kicks = L.kicks /\ N.closed = L.closed /\ N.spans = L.spans
        /\ N.failedSpan \in {L.failedSpan, FailAt(L, Back(L)).failedSpan}
    BY <2>2, <2>3, FieldNames DEF CheckIdentity, FailAt, Back
  <2> HIDE DEF N
  <2>5. Onward(N, ledger)
    BY <2>2, <2>4, BesideOnward
  <2> QED BY <2>1, <2>5 DEF N
<1>8. ASSUME NEW s \in Segments, NEW flags \in CallbackFlags, SideCallback(t, flags, s)
      PROVE  Onward(ledger', ledger)
  <2> DEFINE L == Admit(AbandonOpenResolve(ledger, t), t, FALSE)
             newest == IF DOMAIN L.lists = {} THEN 0 ELSE L.nextList - 1
             recs == L.held[s] \o Append(L.heldFirst, CallbackRecord(t, flags, clock'))
             list == IF newest # 0 THEN newest ELSE L.heldList[s]
  <2>1. ledger' = [L EXCEPT !.held[s] = recs, !.heldList[s] = list, !.heldFirst = <<>>]
    BY <1>8 DEF SideCallback
  <2>2. Way(L, clock') /\ DOMAIN L = Fields
    BY <1>3
  <2> HIDE DEF L, recs, list
  <2> QED BY <2>1, <2>2, BesideOnward, FieldNames
<1>9. ASSUME NEW flags \in CallbackFlags, FirstPassCallback(t, flags)
      PROVE  Onward(ledger', ledger)
  <2> DEFINE L == Admit(AbandonOpenResolve(ledger, t), t, FALSE)
             first == Append(L.heldFirst, CallbackRecord(t, flags, clock'))
  <2>1. ledger' = [L EXCEPT !.heldFirst = first]
    BY <1>9 DEF FirstPassCallback
  <2>2. Way(L, clock') /\ DOMAIN L = Fields
    BY <1>3
  <2> HIDE DEF L, first
  <2> QED BY <2>1, <2>2, BesideOnward, FieldNames
<1> QED BY <1>4, <1>5, <1>6, <1>7, <1>8, <1>9 DEF TileOps

LEMMA DeviceOnward ==
    ASSUME Now, NEW t \in Threads, DeviceOps(t) \/ MarkReplayThread(t)
    PROVE  Onward(ledger', ledger)
<1> DEFINE b == Back(ledger)
           F == FailAt(ledger, b)
<1>1. clock' = clock
  BY DEF DeviceOps, MarkReplayThread, Suspend, Resume, AcquireDevice,
         ReleaseDevice, BeginDeviceOwnerSwap, EndDeviceOwnerSwap, LedgerOnly
<1>2. Way(ledger, clock) /\ DOMAIN ledger = Fields
  BY <1>1, WayStart DEF Shaped
<1>3. Onward(F, ledger)
  BY <1>2, FailBackOnward DEF Way
<1>4. CASE MarkReplayThread(t)
  BY <1>2, <1>4, BesideOnward, FieldNames DEF MarkReplayThread
<1>5. CASE Suspend \/ Resume
  <2>1. PICK L \in {ledger, F} : \/ ledger' = [L EXCEPT !.suspended = TRUE]
                                 \/ ledger' = [L EXCEPT !.suspended = FALSE]
    BY <1>5 DEF Suspend, Resume
  <2>2. Way(L, clock) /\ DOMAIN L = Fields
    <3>1. Typed(F, clock)
      BY <1>2, FailBackTyped DEF Way
    <3> HIDE DEF F
    <3> QED BY <1>2, <1>3, <2>1, <3>1 DEF Way, Typed, Shaped
  <2> QED BY <2>1, <2>2, BesideOnward, FieldNames
<1>6. CASE AcquireDevice(t)
  <2> DEFINE M == [ledger EXCEPT !.deviceOwner = t]
  <2>1. ledger' = M \/ ledger' = F \/ ledger' = [M EXCEPT !.spans[b].thread = t]
    BY <1>6 DEF AcquireDevice
  <2>2. /\ DOMAIN M = Fields /\ M.oldest = ledger.oldest /\ M.nextSpan = ledger.nextSpan
        /\ M.kicks = ledger.kicks /\ M.closed = ledger.closed
        /\ M.spans = ledger.spans /\ M.failedSpan = ledger.failedSpan
    BY <1>2, FieldNames
  <2> HIDE DEF M
  <2>3. /\ Onward(M, ledger)
        /\ \A id, u : Onward([M EXCEPT !.spans[id].thread = u], ledger)
    BY <1>2, <2>2, BesideOnward
  <2> QED BY <1>3, <2>1, <2>3
<1>7. CASE ReleaseDevice(t)
  <2> DEFINE A == AbandonOpenResolve(ledger, t)
             owner == IF A.deviceOwner = t THEN NoThread ELSE A.deviceOwner
  <2>1. ledger' = [A EXCEPT !.deviceOwner = owner]
    BY <1>7, Zenon DEF ReleaseDevice
  <2>2. Way(A, clock)
    BY <1>2, AbandonOpenResolveTyped, AbandonOpenResolveOnward, WayOn DEF Way
  <2> HIDE DEF A, owner
  <2> QED BY <2>1, <2>2, BesideOnward, FieldNames DEF Way, Typed, Shaped
<1>8. CASE BeginDeviceOwnerSwap(t)
  <2> DEFINE M == [ledger EXCEPT !.ownerSwapThread = t, !.ownerSwapSawSwap = FALSE]
  <2>1. ledger' = [M EXCEPT !.spans[b].thread = t] \/ ledger' = F
    BY <1>8 DEF BeginDeviceOwnerSwap
  <2>2. /\ DOMAIN M = Fields /\ M.oldest = ledger.oldest /\ M.nextSpan = ledger.nextSpan
        /\ M.kicks = ledger.kicks /\ M.closed = ledger.closed
        /\ M.spans = ledger.spans /\ M.failedSpan = ledger.failedSpan
    BY <1>2, FieldNames
  <2> HIDE DEF M
  <2>3. /\ Onward(M, ledger)
        /\ \A id, u : Onward([M EXCEPT !.spans[id].thread = u], ledger)
    BY <1>2, <2>2, BesideOnward
  <2>4. Onward([M EXCEPT !.spans[b].thread = t], ledger)
    BY <2>3, Zenon
  <2> HIDE DEF F, b
  <2> QED BY <1>3, <2>1, <2>4
<1>9. CASE EndDeviceOwnerSwap(t)
  <2> DEFINE M == [ledger EXCEPT !.ownerSwapThread = NoThread]
  <2>1. ledger' = [M EXCEPT !.spans[b].thread = NoThread] \/ ledger' = F
    BY <1>9 DEF EndDeviceOwnerSwap
  <2>2. /\ DOMAIN M = Fields /\ M.oldest = ledger.oldest /\ M.nextSpan = ledger.nextSpan
        /\ M.kicks = ledger.kicks /\ M.closed = ledger.closed
        /\ M.spans = ledger.spans /\ M.failedSpan = ledger.failedSpan
    BY <1>2, FieldNames
  <2> HIDE DEF M
  <2>3. /\ Onward(M, ledger)
        /\ \A id, u : Onward([M EXCEPT !.spans[id].thread = u], ledger)
    BY <1>2, <2>2, BesideOnward
  <2> QED BY <1>3, <2>1, <2>3
<1> QED BY <1>4, <1>5, <1>6, <1>7, <1>8, <1>9 DEF DeviceOps

LEMMA RegisterOnward ==
    ASSUME Now, NEW block \in Blocks, RegisterWriteback(block)
    PROVE  Onward(ledger', ledger)
<1> DEFINE L == [ledger EXCEPT !.writeback = block]
           bad == {id \in Live(L) : \E i \in DOMAIN L.spans[id].records :
                      /\ L.spans[id].records[i].kind = "Fence"
                      /\ L.spans[id].records[i].block # block}
<1>1. ledger' = IF bad = {} THEN L ELSE FailAt(L, OldestOf(bad))
  BY DEF RegisterWriteback
<1>2. Typed(ledger, clock) /\ Way(ledger, clock)
  BY OnwardRefl DEF Now, Safe, Typed, Way
<1>3. /\ DOMAIN L = Fields /\ L.oldest = ledger.oldest /\ L.nextSpan = ledger.nextSpan
      /\ L.kicks = ledger.kicks /\ L.closed = ledger.closed /\ L.spans = ledger.spans
      /\ L.failedSpan = ledger.failedSpan
  BY <1>2, FieldNames DEF Typed, Shaped
<1>4. bad \subseteq Live(L)
  OBVIOUS
<1> HIDE DEF L, bad
<1>5. Onward(L, ledger) /\ Shaped(L) /\ Live(L) \subseteq Nat
  <2>1. Onward(L, ledger)
    BY <1>2, <1>3, BesideOnward
  <2>2. Shaped(L)
    BY <1>2, <2>1, SameShaped DEF Onward, Typed
  <2> QED BY <2>1, <2>2 DEF Shaped, Live
<1>6. bad # {} => OldestOf(bad) \in bad
  BY <1>4, <1>5, OldestExists DEF OldestOf
<1>7. bad # {} => Onward(FailAt(L, OldestOf(bad)), L)
  BY <1>4, <1>5, <1>6, FailAtOnward
<1> QED BY <1>1, <1>5, <1>7, OnwardOn

LEMMA FailureOnward ==
    ASSUME Now, FailureOps \/ RegisterOps
    PROVE  Onward(ledger', ledger)
<1>1. CASE Fail \/ TiledProgress
  BY <1>1, FailBackOnward DEF Fail, TiledProgress, Now, Safe
<1> QED BY <1>1, RegisterOnward DEF FailureOps, RegisterOps

-----------------------------------------------------------------------------
(* The calls that close the open span, and the worker's kick. With them    *)
(* every call is one GuestProgress allows.                                 *)

IsOpen(span) == ~Closed(span) /\ span.deferred = NoSegment

Turns(new, old) ==
    /\ Extends(new, old)
    /\ ~IsOpen(old) => DOMAIN new.records = DOMAIN old.records
    /\ old.deferred # NoSegment => new.deferred = old.deferred
    /\ Closed(old) => Closed(new) /\ new.kicked = old.kicked

Continues(M, L) ==
    /\ \A id \in Live(L) : Turns(M.spans[id], L.spans[id])
    /\ M.nextSpan = L.nextSpan + 1 => M.spans[L.nextSpan] = EmptySpan
    /\ Failing(M, L)

LEMMA OnwardContinues ==
    ASSUME NEW L, Window(L), NEW M, Onward(M, L)
    PROVE  Continues(M, L)
<1>1. ASSUME NEW id \in Live(L)
      PROVE  Turns(M.spans[id], L.spans[id])
  <2>1. id = Back(L) => IsOpen(L.spans[id])
    BY DEF Window, OpenAtBack, IsOpen
  <2>2. /\ Extends(M.spans[id], L.spans[id])
        /\ id # Back(L) => DOMAIN M.spans[id].records = DOMAIN L.spans[id].records
    BY DEF Onward, Rewrites
  <2>3. Kept(M.spans[id], L.spans[id])
    BY DEF Onward, Same
  <2> QED BY <2>1, <2>2, <2>3 DEF Turns, Kept, Closed
<1>2. M.nextSpan # L.nextSpan + 1
  BY DEF Onward, Same, Window, Shaped
<1>3. Failing(M, L)
  BY DEF Onward, Rewrites, Failing
<1> QED BY <1>1, <1>2, <1>3 DEF Continues

\* What opens after a call is a fresh span.
LEMMA ClosingContinues ==
    ASSUME NEW L, Window(L), NEW M, Onward(M, L), NEW N, DOMAIN N = Fields,
           N.oldest = L.oldest, N.nextSpan = L.nextSpan,
           N.failedSpan = M.failedSpan,
           N.spans[Back(L)].records = M.spans[Back(L)].records,
           \A id \in Live(L) : id # Back(L) => N.spans[id] = M.spans[id]
    PROVE  Continues(OpenSpan(N), L)
<1> DEFINE O == OpenSpan(N)
<1>1. /\ L.oldest \in Nat /\ L.nextSpan \in Nat /\ L.oldest < L.nextSpan
      /\ Continues(M, L)
  BY OnwardContinues DEF Window, Shaped
<1>2. /\ O.failedSpan = N.failedSpan
      /\ O.spans = [id \in N.oldest .. N.nextSpan |->
                       IF id = N.nextSpan THEN EmptySpan ELSE N.spans[id]]
  BY FieldNames DEF OpenSpan
<1> HIDE DEF O
<1>3. /\ O.spans[L.nextSpan] = EmptySpan
      /\ \A id \in Live(L) : O.spans[id] = N.spans[id]
  BY <1>1, <1>2 DEF Live
<1>4. ASSUME NEW id \in Live(L)
      PROVE  Turns(O.spans[id], L.spans[id])
  <2>1. CASE id # Back(L)
    BY <1>1, <1>3, <2>1 DEF Continues
  <2>2. CASE id = Back(L)
    <3>1. IsOpen(L.spans[id])
      BY <2>2 DEF Window, OpenAtBack, IsOpen
    <3>2. Extends(M.spans[id], L.spans[id])
      BY <1>1 DEF Continues, Turns
    <3>3. Extends(O.spans[id], L.spans[id])
      BY <1>3, <2>2, <3>2 DEF Extends
    <3> QED BY <3>1, <3>3 DEF Turns, IsOpen
  <2> QED BY <2>1, <2>2
<1>5. Failing(O, L)
  BY <1>1, <1>2 DEF Continues, Failing
<1> QED BY <1>3, <1>4, <1>5 DEF Continues, O

LEMMA WorkerKickContinues ==
    ASSUME NEW c, NEW L, NEW out, NEW old, Safe(L, c, out, old), Window(L), NEW p
    PROVE  Continues(WorkerKick(L, p), L)
<1>1. Shaped(L) /\ L.nextSpan \in Nat
  BY DEF Window, Shaped
<1> DEFINE waiting == Unsubmitted(L)
           oldest == OldestOf(waiting)
<1>2. waiting # {} => oldest \in waiting
  <2>1. waiting \subseteq Nat
    BY <1>1 DEF Unsubmitted, Live, Shaped
  <2> HIDE DEF waiting
  <2> QED BY <2>1, OldestExists DEF OldestOf
<1>3. ASSUME NEW id \in waiting
      PROVE  Continues(StartList([L EXCEPT !.spans[id].kicked = L.kicks], id), L)
  <2> DEFINE N == [L EXCEPT !.spans[id].kicked = L.kicks]
             M == StartList(N, id)
  <2>1. /\ id \in Live(L) /\ L.spans[id].deferred # NoSegment
        /\ L.spans[id].kicked = 0 /\ ~L.spans[id].sealed
    BY DEF Unsubmitted, Safe, Sound, SpansSound, Unsealed
  <2>2. /\ DOMAIN N = Fields /\ N.nextSpan = L.nextSpan /\ N.failedSpan = L.failedSpan
        /\ \A other \in Live(L) : other # id => N.spans[other] = L.spans[other]
        /\ N.spans[id] = [L.spans[id] EXCEPT !.kicked = L.kicks]
    BY <1>1, <2>1, FieldNames DEF Shaped
  <2>3. /\ N.spans[id].records = L.spans[id].records
        /\ N.spans[id].deferred = L.spans[id].deferred
    BY <1>1, <2>1, <2>2, SpanFieldNames DEF Shaped
  <2> HIDE DEF N
  <2>4. M.spans = N.spans /\ M.nextSpan = N.nextSpan /\ M.failedSpan = N.failedSpan
    BY <2>2, FieldNames DEF StartList
  <2> HIDE DEF M
  <2>5. ASSUME NEW other \in Live(L)
        PROVE  Turns(M.spans[other], L.spans[other])
    <3>1. M.spans[other].records = L.spans[other].records
      BY <2>2, <2>3, <2>4
    <3>2. Extends(M.spans[other], L.spans[other])
      BY <3>1, ExtendsSame
    <3>3. CASE other = id
      BY <2>1, <2>3, <2>4, <3>1, <3>2, <3>3 DEF Turns, Closed
    <3>4. CASE other # id
      BY <2>2, <2>4, <3>1, <3>2, <3>4 DEF Turns, Closed
    <3> QED BY <3>3, <3>4
  <2>6. M.nextSpan # L.nextSpan + 1 /\ Failing(M, L)
    BY <1>1, <2>2, <2>4 DEF Failing
  <2>7. Continues(M, L)
    BY <2>5, <2>6 DEF Continues
  <2> QED BY <2>7 DEF M, N
<1>4. Continues([L EXCEPT !.replayPointer = L.kicks], L)
  <2> DEFINE M == [L EXCEPT !.replayPointer = L.kicks]
  <2>1. /\ DOMAIN M = Fields /\ M.oldest = L.oldest /\ M.nextSpan = L.nextSpan
        /\ M.kicks = L.kicks /\ M.closed = L.closed
        /\ M.spans = L.spans /\ Failing(M, L)
    BY <1>1, FieldNames DEF Shaped, Failing
  <2> HIDE DEF M
  <2>2. Onward(M, L)
    BY <1>1, <2>1, OtherFieldOnward
  <2>3. Continues(M, L)
    BY <2>2, OnwardContinues
  <2> QED BY <2>3 DEF M
<1>5. Continues(FailAt(L, IF waiting # {} THEN oldest ELSE Back(L)), L)
  <2>1. \A id \in waiting : id \in Live(L)
    BY DEF Unsubmitted
  <2>2. Back(L) \in Live(L)
    BY BackNotSettled
  <2> DEFINE at == IF waiting # {} THEN oldest ELSE Back(L)
  <2>3. at \in Live(L)
    BY <1>2, <2>1, <2>2
  <2> HIDE DEF at
  <2>4. Continues(FailAt(L, at), L)
    BY <1>1, <2>3, FailAtOnward, OnwardContinues
  <2> QED BY <2>4 DEF at
<1>6. waiting # {} =>
         Continues(StartList([L EXCEPT !.spans[oldest].kicked = L.kicks], oldest), L)
  <2> HIDE DEF waiting, oldest
  <2> QED BY <1>2, <1>3
<1> QED BY <1>4, <1>5, <1>6 DEF WorkerKick

LEMMA MainKickContinues ==
    ASSUME NEW c, NEW L, NEW out, NEW old, Safe(L, c, out, old), Window(L),
           NEW t \in Threads, NEW submitted, NEW p, submitted => p.segment \in Segments
    PROVE  Continues(MainKick(L, t, submitted, p), L)
<1> DEFINE A == Admit(AbandonOpenResolve(L, t), t, TRUE)
           b == Back(A)
           M == IF submitted THEN AttachHeld(A, p.segment)
                ELSE IF SideHeld(A) THEN FailAt(A, b) ELSE A
           N == [M EXCEPT !.spans[b].kicked = L.kicks]
           S == StartList(N, b)
<1>1. MainKick(L, t, submitted, p) = OpenSpan(S)
  BY DEF MainKick
<1>2. Typed(A, c) /\ Onward(A, L) /\ Shaped(A)
  <2>1. Safe(A, c, out, old)
    BY AbandonOpenResolveSafe, AdmitSafe
  <2>2. Onward(A, L)
    BY AdmittedOnward DEF Safe
  <2> QED BY <2>1, <2>2 DEF Safe, Typed
<1> HIDE DEF A
<1>3. Onward(M, A)
  BY <1>2, AttachHeldOnward, FailBackOnward, OnwardRefl
<1>4. Onward(M, L) /\ b = Back(L) /\ Shaped(M)
  <2>1. Onward(M, L)
    BY <1>2, <1>3, OnwardOn
  <2>2. Shaped(L)
    BY DEF Window
  <2> HIDE DEF M
  <2> QED BY <1>2, <2>1, <2>2, OnwardLive, SameShaped DEF Onward
<1> HIDE DEF M, b
<1>5. /\ DOMAIN N = Fields /\ N.oldest = M.oldest /\ N.nextSpan = M.nextSpan
      /\ N.failedSpan = M.failedSpan
      /\ \A id \in Live(M) : id # b => N.spans[id] = M.spans[id]
      /\ b \in Live(M) => N.spans[b].records = M.spans[b].records
  BY <1>4, FieldNames, SpanFieldNames DEF Shaped
<1> HIDE DEF N
<1>6. /\ DOMAIN S = Fields /\ S.oldest = N.oldest /\ S.nextSpan = N.nextSpan
      /\ S.failedSpan = N.failedSpan /\ S.spans = N.spans
  BY <1>5, FieldNames DEF StartList
<1> HIDE DEF S
<1>7. Live(M) = Live(L) /\ M.oldest = L.oldest /\ M.nextSpan = L.nextSpan
      /\ Back(L) \in Live(L)
  BY <1>4, OnwardLive, BackNotSettled DEF Onward, Same
<1>8. Continues(OpenSpan(S), L)
  BY <1>4, <1>5, <1>6, <1>7, ClosingContinues
<1> QED BY <1>1, <1>8

\* The kick counter and the submit it takes are not seen by the guest.
LEMMA KickContinues ==
    ASSUME Now, Window(ledger), NEW t \in Threads, Kick(t)
    PROVE  Continues(ledger', ledger)
<1> DEFINE p == ledger.pendingSubmit[t]
           submitted == HasPending(ledger, t)
           K == [ledger EXCEPT !.kicks = @ + 1]
           L == [K EXCEPT !.pendingSubmit[t] = NoSubmit]
           out == host.detached
<1>1. \/ ledger' = WorkerKick(L, p)
      \/ ledger' = FailAt(L, Back(L))
      \/ ledger' = MainKick(L, t, submitted, p)
  <2>1. [ledger EXCEPT !.kicks = @ + 1, !.pendingSubmit[t] = NoSubmit] = L
    OBVIOUS
  <2> QED BY <2>1, Zenon DEF Kick
<1>2. clock \in Nat /\ Typed(ledger, clock) /\ Safe(ledger, clock, out, ledger)
  BY DEF Now, Safe
<1>3. Typed(K, clock)
  <2>1. /\ DOMAIN K = Fields
        /\ K.oldest = ledger.oldest /\ K.nextSpan = ledger.nextSpan
        /\ K.spans = ledger.spans
    BY <1>2, FieldNames DEF Typed, Shaped
  <2>2. Shaped(K)
    BY <1>2, FieldNames DEF Typed, Shaped, Live
  <2>3. Others(K, clock)
    <3>1. DOMAIN ledger = Fields /\ Others(ledger, clock)
      BY <1>2 DEF Typed, Shaped
    <3>2. /\ K.kicks = ledger.kicks + 1
          /\ \A f \in Fields \ {"kicks"} : K[f] = ledger[f]
      BY <3>1, FieldNames
    <3> QED BY <3>1, <3>2, FieldNames DEF Others
  <2> QED BY <1>2, <2>1, <2>2, <2>3 DEF Typed, Live
<1>4. /\ SameHandles(K, ledger) /\ K.spans = ledger.spans
      /\ K.held = ledger.held /\ K.heldFirst = ledger.heldFirst
      /\ K.failedSpan = ledger.failedSpan
  BY <1>2, FieldNames DEF Typed, Shaped, SameHandles
<1> HIDE DEF K
<1>5. Safe(K, clock, out, ledger)
  BY <1>2, <1>3, <1>4, OtherSafe
<1>6. Safe(L, clock, out, ledger)
  BY <1>3, <1>5, NoSubmitTyped, SubmitSafe
<1>7. /\ L.oldest = ledger.oldest /\ L.nextSpan = ledger.nextSpan
      /\ L.spans = ledger.spans /\ L.failedSpan = ledger.failedSpan
  BY <1>3, <1>4, FieldNames DEF Typed, Shaped, SameHandles
<1> HIDE DEF L
<1>8. Window(L)
  BY <1>6, <1>7 DEF Window, OpenAtBack, Live, Back, Safe, Typed
<1>9. submitted => p.segment \in Segments
  BY <1>2 DEF HasPending, Typed, Others
<1> HIDE DEF submitted, p
<1>10. Continues(ledger', L)
  <2>1. Continues(WorkerKick(L, p), L)
    BY <1>6, <1>8, WorkerKickContinues
  <2>2. Continues(MainKick(L, t, submitted, p), L)
    BY <1>6, <1>8, <1>9, MainKickContinues
  <2>3. Continues(FailAt(L, Back(L)), L)
    BY <1>6, <1>8, FailBackOnward, OnwardContinues DEF Safe
  <2> QED BY <1>1, <2>1, <2>2, <2>3
<1> QED BY <1>7, <1>10 DEF Continues, Failing, Live

LEMMA AttachedOnward ==
    ASSUME NEW c, NEW L, NEW out, NEW old, Safe(L, c, out, old), NEW t \in Threads,
           NEW segment \in Segments
    PROVE  Onward(AttachHeld(Admit(AbandonOpenResolve(L, t), t, TRUE), segment), L)
<1> DEFINE A == Admit(AbandonOpenResolve(L, t), t, TRUE)
<1>1. Typed(A, c) /\ Onward(A, L)
  <2>1. Safe(A, c, out, old)
    BY AbandonOpenResolveSafe, AdmitSafe
  <2>2. Onward(A, L)
    BY AdmittedOnward DEF Safe
  <2> QED BY <2>1, <2>2 DEF Safe
<1> HIDE DEF A
<1>2. Onward(AttachHeld(A, segment), A)
  BY <1>1, AttachHeldOnward
<1>3. Onward(AttachHeld(A, segment), L)
  BY <1>1, <1>2, OnwardOn
<1> QED BY <1>3 DEF A

LEMMA SilentContinues ==
    ASSUME Now, Window(ledger), NEW t \in Threads, SilentSubmit(t)
    PROVE  Continues(ledger', ledger)
<1> DEFINE p == ledger.pendingSubmit[t]
           L == [ledger EXCEPT !.pendingSubmit[t] = NoSubmit]
           M == AttachHeld(Admit(AbandonOpenResolve(L, t), t, TRUE), p.segment)
           b == Back(M)
           N == [M EXCEPT !.spans[b].sealed = TRUE]
           S == StartList(N, b)
           out == host.detached
<1>1. ledger' = M \/ ledger' = OpenSpan(S)
  BY DEF SilentSubmit
<1>2. clock \in Nat /\ Typed(ledger, clock) /\ Safe(ledger, clock, out, ledger)
  BY DEF Now, Safe
<1>3. p.segment \in Segments
  BY <1>2 DEF SilentSubmit, HasPending, Typed, Others
<1>4. Safe(L, clock, out, ledger)
  BY <1>2, NoSubmitTyped, SubmitSafe
<1>5. Onward(L, ledger)
  BY <1>2, FieldNames, OtherFieldOnward DEF Typed, Shaped, Failing
<1> HIDE DEF p, L
<1>6. Onward(M, ledger) /\ Shaped(M)
  <2>1. Onward(M, L)
    BY <1>3, <1>4, AttachedOnward
  <2>2. Onward(M, ledger)
    BY <1>5, <2>1, OnwardOn
  <2> HIDE DEF M
  <2>3. Shaped(M)
    BY <1>2, <2>2, SameShaped DEF Onward, Typed
  <2> QED BY <2>2, <2>3
<1> HIDE DEF M
<1>7. b = Back(ledger) /\ Live(M) = Live(ledger) /\ b \in Live(M)
  BY <1>2, <1>6, OnwardLive, BackNotSettled
<1> HIDE DEF b
<1>8. /\ DOMAIN N = Fields /\ N.oldest = M.oldest /\ N.nextSpan = M.nextSpan
      /\ N.failedSpan = M.failedSpan
      /\ \A id \in Live(M) : id # b => N.spans[id] = M.spans[id]
      /\ N.spans[b].records = M.spans[b].records
  BY <1>6, <1>7, FieldNames, SpanFieldNames DEF Shaped
<1> HIDE DEF N
<1>9. /\ DOMAIN S = Fields /\ S.oldest = N.oldest /\ S.nextSpan = N.nextSpan
      /\ S.failedSpan = N.failedSpan /\ S.spans = N.spans
  BY <1>8, FieldNames DEF StartList
<1> HIDE DEF S
<1>10. M.oldest = ledger.oldest /\ M.nextSpan = ledger.nextSpan
  BY <1>6 DEF Onward, Same
<1>11. Continues(OpenSpan(S), ledger)
  BY <1>6, <1>7, <1>8, <1>9, <1>10, ClosingContinues
<1> QED BY <1>1, <1>6, <1>11, OnwardContinues

LEMMA DeferContinues ==
    ASSUME Now, Window(ledger), NEW t \in Threads, NEW s \in Segments, NEW n \in Nat,
           Defer(t, s, n)
    PROVE  Continues(ledger', ledger)
<1> DEFINE M == AttachHeld(Admit(AbandonOpenResolve(ledger, t), t, TRUE), s)
           b == Back(M)
           N == [M EXCEPT !.spans[b].deferred = s, !.spans[b].dwords = n]
           out == host.detached
<1>1. ledger' = OpenSpan(N) \/ ledger' = FailAt(ledger, Back(ledger))
  BY Zenon DEF Defer, Unreplayed
<1>2. clock \in Nat /\ Typed(ledger, clock) /\ Safe(ledger, clock, out, ledger)
  BY DEF Now, Safe
<1>3. Onward(M, ledger)
  BY <1>2, AttachedOnward
<1> HIDE DEF M
<1>4. Shaped(M)
  BY <1>2, <1>3, SameShaped DEF Onward, Typed
<1>5. b = Back(ledger) /\ Live(M) = Live(ledger) /\ b \in Live(M)
  BY <1>2, <1>3, OnwardLive, BackNotSettled
<1> HIDE DEF b
<1>6. /\ DOMAIN N = Fields /\ N.oldest = M.oldest /\ N.nextSpan = M.nextSpan
      /\ N.failedSpan = M.failedSpan
      /\ \A id \in Live(M) : id # b => N.spans[id] = M.spans[id]
      /\ N.spans[b].records = M.spans[b].records
  BY <1>4, <1>5, FieldNames, SpanFieldNames DEF Shaped
<1> HIDE DEF N
<1>7. M.oldest = ledger.oldest /\ M.nextSpan = ledger.nextSpan
  BY <1>3 DEF Onward, Same
<1>8. Continues(OpenSpan(N), ledger)
  BY <1>3, <1>5, <1>6, <1>7, ClosingContinues
<1>9. Continues(FailAt(ledger, Back(ledger)), ledger)
  BY <1>2, FailBackOnward, OnwardContinues
<1> QED BY <1>1, <1>8, <1>9

\* What the guest's threads, their verdicts and the failures may do.
GuestSteps ==
    \/ \E t \in Threads : GuestOps(t)
    \/ DetachedOps \/ FailureOps \/ RegisterOps

LEMMA GuestContinues ==
    ASSUME Now, Window(ledger), GuestSteps
    PROVE  Calls /\ Continues(ledger', ledger)
<1>1. ASSUME Onward(ledger', ledger)
      PROVE  Continues(ledger', ledger)
  BY <1>1, OnwardContinues
<1>2. ASSUME NEW t \in Threads, GuestOps(t)
      PROVE  Calls /\ Continues(ledger', ledger)
  <2>1. Calls
    BY <1>2, GuestCalls
  <2>2. CASE ProgressOps(t)
    BY <1>1, <2>1, <2>2, ProgressOnward
  <2>3. CASE UnmodeledOps(t)
    BY <1>1, <2>1, <2>3, UnmodeledOnward
  <2>4. CASE DrawOps(t)
    BY <1>1, <2>1, <2>4, DrawOnward
  <2>5. CASE ResolveOps(t) \/ FrameOps(t)
    BY <1>1, <2>1, <2>5, FrameOnward
  <2>6. CASE SubmitOps(t) \/ \E s \in Segments, n \in Sizes : ReplaySubmit(t, s, n)
    <3>1. CASE Kick(t)
      BY <2>1, <3>1, KickContinues
    <3>2. ASSUME NEW s \in Segments, NEW n \in Sizes,
                 DirectSubmit(t, s, n) \/ ReplaySubmit(t, s, n)
          PROVE  Continues(ledger', ledger)
      <4>1. n \in Nat
        BY LedgerAssumption
      <4> QED BY <1>1, <3>2, <4>1, SubmitsOnward
    <3> QED BY <2>1, <2>6, <3>1, <3>2 DEF SubmitOps
  <2>7. CASE SilentOps(t)
    BY <2>1, <2>7, SilentContinues DEF SilentOps
  <2>8. CASE MarkReplayThread(t) \/ DeviceOps(t)
    BY <1>1, <2>1, <2>8, DeviceOnward
  <2>9. CASE TileOps(t)
    <3>1. ASSUME NEW s \in Segments, NEW n \in Sizes, Defer(t, s, n)
          PROVE  Continues(ledger', ledger)
      <4>1. n \in Nat
        BY LedgerAssumption
      <4> QED BY <3>1, <4>1, DeferContinues
    <3>2. CASE ~\E s \in Segments, n \in Sizes : Defer(t, s, n)
      <4>1. Onward(ledger', ledger)
        BY <2>9, <3>2, TileOnward, Zenon
      <4> QED BY <1>1, <2>1, <4>1
    <3> QED BY <2>1, <3>1, <3>2, Zenon
  <2> QED
    BY <1>2, <2>2, <2>3, <2>4, <2>5, <2>6, <2>7, <2>8, <2>9 DEF GuestOps, WorkerOps
<1>3. CASE DetachedOps
  BY <1>1, <1>3, DetachedOnward, DetachedCalls
<1>4. CASE FailureOps \/ RegisterOps
  BY <1>1, <1>4, FailureOnward, FailureCalls
<1> QED BY <1>2, <1>3, <1>4 DEF GuestSteps

-----------------------------------------------------------------------------
(* Images. Pump writes one between two looks at the lock, so the record it *)
(* belongs to is counted later, or never.                                  *)

OnImage ==
    AtSpan /\ pump.pc \in {"gate", "take", "took"} =>
        /\ Rec.kind = "Resolve" /\ ~Rec.hostOnly
        /\ pump.pc # "took" => pump.mark = Rec.mark

\* What was written is the next record's image exactly while Pump has not
\* looked again, as long as the span may release at all.
Written == pump.pc = "took" /\ pump.result = "written"

WrittenLanded == Written => ImageLanded

LandedWritten ==
    /\ ImageLanded
    /\ pump.pc \in TakePCs \/ (Releasable(ledger, ledger.oldest) /\ ~Front.unowned)
    => Written

NotFailedBefore ==
    pump.pc \in TakePCs => ledger.failedSpan = 0 \/ ledger.failedSpan >= ledger.oldest

AtItsRecord ==
    /\ pump.pc # "took" => pump.result = "none"
    /\ AtSpan /\ pump.pc = "skip" => Rec.skipped
    /\ pump.pc = "fence" => Rec.kind = "Fence"

WithinRecords == Front.applied <= Len(Front.records)

ImageInv ==
    /\ OnImage /\ WrittenLanded /\ LandedWritten
    /\ NotFailedBefore /\ AtItsRecord /\ WithinRecords

\* The facts about the front that every step of Pump starts from.
LEMMA FrontFacts ==
    ASSUME SafetyInv
    PROVE  /\ DOMAIN ledger = Fields /\ DOMAIN Front = SpanFields
           /\ ledger.oldest \in Live(ledger) /\ ledger.oldest \in Nat
           /\ Front.applied \in Nat /\ Len(Front.records) \in Nat
           /\ Front.records \in Seq(RecordTo(clock))
           /\ DOMAIN Front.records = 1 .. Len(Front.records)
           /\ DOMAIN pump = {"pc", "span", "mark", "result"}
           /\ effect.span \in Nat /\ effect.index \in Nat
           /\ effect.span <= ledger.oldest
           /\ pump.pc \in TakePCs => AtSpan /\ ~ledger.closed /\ gate = "pump"
           /\ AtSpan => Cur = Front /\ Index = Front.applied + 1
                        /\ Rec = Front.records[Front.applied + 1]
           /\ AtSpan => (~Gone <=> Releasable(ledger, ledger.oldest))
<1>1. /\ effect.span \in Nat /\ effect.index \in Nat
      /\ effect.span <= ledger.oldest
      /\ DOMAIN pump = {"pc", "span", "mark", "result"}
  BY SafetyFacts DEF PeerTypes, SafetyInv, EffectsBehind
<1>2. pump.pc \in TakePCs => AtSpan /\ ~ledger.closed /\ gate = "pump"
  BY SafetyFacts, FrontIsUsed DEF PumpOwns, PumpInWindow
<1>3. AtSpan => Cur = Front /\ Index = Front.applied + 1
                /\ Rec = Front.records[Front.applied + 1]
  BY FrontSettled DEF Index, Rec
<1>4. AtSpan => (~Gone <=> Releasable(ledger, ledger.oldest))
  BY SafetyFacts DEF AtSpan, Gone
<1> QED BY <1>1, <1>2, <1>3, <1>4, SafetyFacts, FrontWaits

LEMMA PerformedWithin ==
    ASSUME SafetyInv, ImageInv
    PROVE  /\ Performed \in Front.applied .. Len(Front.records)
           /\ ImageLanded => Performed = Front.applied + 1
           /\ ~ImageLanded => Performed = Front.applied
<1>1. /\ Front.applied \in Nat /\ Len(Front.records) \in Nat
      /\ DOMAIN Front.records = 1 .. Len(Front.records)
      /\ Front.applied <= Len(Front.records)
  BY FrontFacts DEF ImageInv, WithinRecords
<1>2. CASE ImageLanded
  <2>1. Front.applied + 1 \in 1 .. Len(Front.records)
    BY <1>1, <1>2 DEF ImageLanded
  <2> QED BY <1>1, <1>2, <2>1 DEF Performed
<1>3. CASE ~ImageLanded
  BY <1>1, <1>3 DEF Performed
<1> QED BY <1>2, <1>3

LEMMA NotLanded ==
    ASSUME SafetyInv, ImageInv, ~Written, Releasable(ledger, ledger.oldest),
           ~Front.unowned
    PROVE  ~ImageLanded /\ Performed = Front.applied
<1>1. ~ImageLanded
  BY DEF ImageInv, LandedWritten
<1> QED BY <1>1, FrontFacts DEF Performed

LEMMA NotLandedAtSpan ==
    ASSUME SafetyInv, ImageInv, ~Written, AtSpan, ~Gone
    PROVE  ~ImageLanded /\ Performed = Front.applied
<1>1. ~Front.unowned
  BY FrontSettled DEF SafetyInv, FrontTaken
<1> QED BY <1>1, FrontFacts, NotLanded

\* A pass that is not at an image, or that has just left one.
LEMMA ImageAfter ==
    ASSUME pump'.pc \notin TakePCs, pump'.result = "none",
           AtSpan' /\ pump'.pc = "gate" =>
              Rec'.kind = "Resolve" /\ ~Rec'.hostOnly /\ pump'.mark = Rec'.mark,
           AtSpan' /\ pump'.pc = "skip" => Rec'.skipped,
           pump'.pc = "fence" => Rec'.kind = "Fence",
           ImageLanded' => ~Releasable(ledger', ledger'.oldest) \/ Front'.unowned,
           Front'.applied <= Len(Front'.records)
    PROVE  ImageInv'
BY DEF ImageInv, OnImage, WrittenLanded, LandedWritten, NotFailedBefore, AtItsRecord,
       WithinRecords, Written, TakePCs

-----------------------------------------------------------------------------
(* Every step of Pump is one of these to the guest.                        *)

\* What the guest may see of a span is unchanged.
Alike(new, old) ==
    /\ new.records = old.records /\ new.kicked = old.kicked
    /\ new.sealed = old.sealed /\ new.deferred = old.deferred
    /\ new.unowned = old.unowned

Unseen(M, L) ==
    /\ M.oldest = L.oldest /\ M.nextSpan = L.nextSpan /\ M.closed = L.closed
    /\ M.failedSpan = L.failedSpan
    /\ \A id \in Live(L) : Alike(M.spans[id], L.spans[id])

\* The front's next record, the one a pass at the front works on.
NextRecord == Front.records[Front.applied + 1]

Leaves ==
    /\ pump'.pc \notin TakePCs /\ pump'.result = "none"
    /\ pump'.pc = "gate" =>
          NextRecord.kind = "Resolve" /\ ~NextRecord.hostOnly /\ pump'.mark = NextRecord.mark
    /\ pump'.pc = "skip" => NextRecord.skipped
    /\ pump'.pc = "fence" => NextRecord.kind = "Fence" /\ pump'.span = ledger.oldest

\* It goes on without an effect GuestProgress speaks of.
Rests ==
    /\ Unseen(ledger', ledger) /\ Front'.applied = Front.applied
    /\ Memory' = Memory
    /\ \/ effect' = effect
       \/ /\ NextRecord.kind # "Resolve"
          /\ effect'.index = Front.applied + 1
    /\ pump.pc \notin TakePCs /\ Leaves

\* It performs the next record.
Performs ==
    /\ AtSpan /\ ~Gone /\ ~Written /\ pump.pc # "flush"
    /\ Front.applied < Len(Front.records)
    /\ ledger' = Applied
    /\ \/ OpKind(NextRecord) \in {"nothing", "image"} /\ Memory' = Memory
       \/ /\ OpKind(NextRecord) # "nothing"
          /\ Memory' = [Memory EXCEPT ![OpKind(NextRecord)] = Op(NextRecord).value]
    /\ effect' = effect \/ effect'.index = Front.applied + 1
    /\ pump'.pc = "apply" /\ pump'.result = "none"

\* The front loses the owner of a record it has not performed.
Spoils ==
    /\ Releasable(ledger, ledger.oldest) /\ ~Written
    /\ Memory' = Memory /\ effect' = effect
    /\ pump'.pc \in {"idle", "head"} /\ pump'.result = "none"
    /\ \E i : /\ i \notin 1 .. Performed
              /\ Unseen(ledger', Unown(ledger, ledger.oldest, i))
              /\ Front'.applied = Front.applied

\* The front is done, and the read pointer passes it.
Retires ==
    /\ pump.pc = "release" /\ pump'.pc = "head" /\ pump'.result = "none"
    /\ ledger'.oldest = ledger.oldest + 1 /\ ledger'.nextSpan = ledger.nextSpan
    /\ ledger'.closed = ledger.closed /\ ledger'.failedSpan = ledger.failedSpan
    /\ \A id \in Live(ledger') : ledger'.spans[id] = ledger.spans[id]
    /\ effect'.span \in {effect.span, ledger.oldest}
    /\ \/ Memory' = Memory
       \/ Front.kicked # 0 /\ Memory' = [Memory EXCEPT !.rptr = Front.kicked]

\* The read pointer passes tiles the worker replays.
Replays ==
    /\ Releasable(ledger, ledger.oldest) /\ Front.kicked = 0
    /\ pump.pc \notin TakePCs
    /\ Unseen(ledger', ledger) /\ Front'.applied = Front.applied
    /\ Memory' = [Memory EXCEPT !.rptr = Memory'.rptr]
    /\ effect' = effect /\ pump'.pc = "head" /\ pump'.result = "none"

\* The image's lock is taken, the image is written or kept for later, and its
\* record is counted, or the pass leaves it.
TakesImage ==
    /\ pump.pc = "gate" /\ pump'.pc = "take" /\ ~Gone
    /\ pump'.span = pump.span /\ pump'.mark = pump.mark /\ pump'.result = "none"
    /\ Memory' = Memory /\ UNCHANGED <<ledger, effect>>

WritesImage ==
    /\ pump.pc = "take" /\ pump'.pc = "took" /\ pump'.span = pump.span
    /\ ledger' = ledger
    /\ \/ /\ pump'.result = "written" /\ EffectAt(1)
          /\ Memory' = [Memory EXCEPT !.image = pump.mark]
       \/ /\ pump'.result # "written" /\ effect' = effect
          /\ Memory' = Memory

CountsImage ==
    /\ Written /\ ~Gone
    /\ ledger' = Applied /\ Memory' = Memory /\ effect' = effect
    /\ pump'.pc = "apply" /\ pump'.result = "none"

LeavesImage ==
    /\ pump.pc = "took" /\ (Written => Gone)
    /\ Memory' = Memory /\ UNCHANGED <<ledger, effect>>
    /\ pump'.pc = "idle" /\ pump'.result = "none"

PumpStep ==
    \/ Rests \/ Performs \/ Spoils \/ Retires \/ Replays
    \/ TakesImage \/ WritesImage \/ CountsImage \/ LeavesImage

-----------------------------------------------------------------------------
(* Which of them a step is.                                                *)

LEMMA AlikeSame ==
    ASSUME NEW s
    PROVE  Alike(s, s)
BY DEF Alike

LEMMA UnseenSame ==
    ASSUME NEW L, NEW M, M.oldest = L.oldest, M.nextSpan = L.nextSpan,
           M.closed = L.closed, M.failedSpan = L.failedSpan,
           M.spans = L.spans
    PROVE  Unseen(M, L)
BY AlikeSame DEF Unseen

\* Words GuestProgress does not speak of, and those it does.
LEMMA MemoryFields ==
    ASSUME SafetyInv, NEW x
    PROVE  /\ \A f \in {"cursor", "slot", "mask", "raised", "word"} :
                 guest' = [guest EXCEPT ![f] = x] => Memory' = Memory
           /\ guest' = guest => Memory' = Memory
           /\ \A f \in {"fence", "scratch", "image", "rptr"} :
                 guest' = [guest EXCEPT ![f] = x] => Memory' = [Memory EXCEPT ![f] = x]
<1>1. DOMAIN guest = {"cursor", "fence", "scratch", "slot", "mask", "raised",
                      "word", "image", "rptr"}
  BY SafetyFacts DEF PeerTypes
<1>2. ASSUME NEW f \in {"cursor", "slot", "mask", "raised", "word"},
             guest' = [guest EXCEPT ![f] = x]
      PROVE  Memory' = Memory
  BY <1>1, <1>2 DEF Memory
<1>3. ASSUME guest' = guest
      PROVE  Memory' = Memory
  BY <1>3 DEF Memory
<1>4. ASSUME NEW f \in {"fence", "scratch", "image", "rptr"},
             guest' = [guest EXCEPT ![f] = x]
      PROVE  Memory' = [Memory EXCEPT ![f] = x]
  <2>1. \A g \in {"fence", "scratch", "image", "rptr"} :
           guest'[g] = IF g = f THEN x ELSE guest[g]
    BY <1>1, <1>4
  <2>2. /\ guest'.fence = IF f = "fence" THEN x ELSE guest.fence
        /\ guest'.scratch = IF f = "scratch" THEN x ELSE guest.scratch
        /\ guest'.image = IF f = "image" THEN x ELSE guest.image
        /\ guest'.rptr = IF f = "rptr" THEN x ELSE guest.rptr
    BY <2>1
  <2> QED BY <1>4, <2>2 DEF Memory
<1> QED BY <1>2, <1>3, <1>4

LEMMA AppliedUnseen ==
    ASSUME SafetyInv, AtSpan, NEW M, M = Applied
    PROVE  /\ Unseen(M, ledger)
           /\ M.spans[ledger.oldest].applied = Front.applied + 1
<1>1. /\ OnlyFront(M, ledger) /\ M.failedSpan = ledger.failedSpan
      /\ Progressed(M.spans[ledger.oldest], Front)
      /\ M.spans[ledger.oldest].applied = Front.applied + 1
  BY AppliedFields
<1> QED BY <1>1, AlikeSame
        DEF Unseen, OnlyFront, SameHandles, Progressed, Alike, Front

LEMMA StagedUnseen ==
    ASSUME SafetyInv, AtSpan, NEW n, ledger' = [ledger EXCEPT !.spans[pump.span].stage = n]
    PROVE  Unseen(ledger', ledger) /\ Front'.applied = Front.applied
<1>1. OnlyStaged(ledger', n)
  <2>1. ledger' = FrontStaged(ledger, n)
    BY DEF FrontStaged
  <2> QED BY <2>1, StageFields, Zenon
<1>2. Unseen(ledger', ledger)
  BY <1>1, AlikeSame
     DEF OnlyStaged, Unseen, OnlyFront, SameHandles, Progressed, Alike, Front
<1> QED BY <1>1, <1>2 DEF OnlyStaged, Unseen, Front

LEMMA FlushedUnseen ==
    ASSUME NEW c, NEW L, Typed(L, c), NEW n
    PROVE  /\ Unseen(FrontFlushed(L, n), L)
           /\ FrontFlushed(L, n).spans[L.oldest].applied = L.spans[L.oldest].applied
<1> DEFINE M == FrontFlushed(L, n)
<1>1. OnlyFlushed(M, L, n)
  BY FlushFields
<1> HIDE DEF M
<1>2. Unseen(M, L) /\ M.spans[L.oldest].applied = L.spans[L.oldest].applied
  BY <1>1, AlikeSame
     DEF OnlyFlushed, Unseen, OnlyFront, SameHandles, Progressed, Alike
<1> QED BY <1>2 DEF M

\* Unown of the front, with what else the call changes of it.
LEMMA SpoiltSpoils ==
    ASSUME SafetyInv, Releasable(ledger, ledger.oldest), ~Written,
           Memory' = Memory, effect' = effect,
           pump'.pc \in {"idle", "head"}, pump'.result = "none",
           NEW i, i \notin 1 .. Performed,
           NEW U, U = Unown(ledger, ledger.oldest, i),
           Unseen(ledger', U),
           ledger'.spans[ledger.oldest].applied = U.spans[ledger.oldest].applied
    PROVE  Spoils
<1>1. U.oldest = ledger.oldest /\ Spoilt(U.spans[ledger.oldest], Front, i)
  BY FrontUnowned
<1>2. Front'.applied = Front.applied
  BY <1>1 DEF Unseen, Spoilt, Front
<1> QED BY <1>2 DEF Spoils

LEMMA LoopSeen ==
    ASSUME SafetyInv, ImageInv, LoopSteps
    PROVE  PumpStep
<1>1. CASE WriteReplayPointer
  <2>1. /\ ledger' = [ledger EXCEPT !.replayPointer = 0]
        /\ guest' = [guest EXCEPT !.rptr = ledger.replayPointer]
        /\ pump.pc \in {"idle", "head"} /\ Releasable(ledger, ledger.oldest)
        /\ Front.kicked = 0 /\ effect' = effect
        /\ pump'.pc = "head" /\ pump'.result = "none"
    BY <1>1, StepFields DEF WriteReplayPointer, AtHead, ReplayWaits
  <2>2. Unseen(ledger', ledger) /\ Front'.applied = Front.applied
    <3>1. /\ ledger'.oldest = ledger.oldest /\ ledger'.nextSpan = ledger.nextSpan
          /\ ledger'.closed = ledger.closed /\ ledger'.spans = ledger.spans
          /\ ledger'.failedSpan = ledger.failedSpan
      BY <2>1, FrontFacts, FieldNames
    <3> QED BY <3>1, UnseenSame DEF Front
  <2>3. Memory' = [Memory EXCEPT !.rptr = Memory'.rptr]
    <3>1. Memory' = [Memory EXCEPT !.rptr = ledger.replayPointer]
      BY <2>1, MemoryFields
    <3>2. Memory'.rptr = ledger.replayPointer
      BY <3>1 DEF Memory
    <3> QED BY <3>1, <3>2
  <2>4. Replays
    BY <2>1, <2>2, <2>3 DEF Replays, TakePCs
  <2> QED BY <2>4 DEF PumpStep
<1>2. CASE LoseReplayPointer
  <2> DEFINE i == Len(Front.records) + 1
             U == Unown(ledger, ledger.oldest, i)
  <2>1. /\ UNCHANGED <<guest, effect>> /\ pump.pc \in {"idle", "head"}
        /\ Releasable(ledger, ledger.oldest)
        /\ pump'.pc \in {"idle", "head"} /\ pump'.result = "none"
        /\ ledger' \in {U, [U EXCEPT !.replayPointer = 0]}
    BY <1>2 DEF LoseReplayPointer, AtHead, Step
  <2>2. i \notin 1 .. Performed
    BY FrontFacts, PerformedWithin
  <2>3. DOMAIN U = Fields /\ U.oldest = ledger.oldest
    BY FrontUnowned
  <2> HIDE DEF i, U
  <2>4. Unseen(ledger', U) /\ ledger'.spans = U.spans
    <3>1. /\ ledger'.oldest = U.oldest /\ ledger'.nextSpan = U.nextSpan
          /\ ledger'.closed = U.closed /\ ledger'.spans = U.spans
          /\ ledger'.failedSpan = U.failedSpan
      BY <2>1, <2>3, FieldNames
    <3> QED BY <3>1, UnseenSame
  <2>5. ~Written /\ Memory' = Memory
    BY <2>1, MemoryFields DEF Written
  <2>6. Spoils
    BY <2>1, <2>2, <2>4, <2>5, SpoiltSpoils DEF U
  <2> QED BY <2>6 DEF PumpStep
<1>3. CASE Pause \/ BeginFlush \/ BeginApply
  <2>1. /\ pump.pc \in {"idle", "head"} /\ UNCHANGED <<ledger, guest, effect>>
    BY <1>3 DEF Pause, BeginFlush, BeginApply, AtHead
  <2>2. pump.result = "none" /\ DOMAIN pump = {"pc", "span", "mark", "result"}
    BY <2>1, FrontFacts DEF ImageInv, AtItsRecord
  <2>3. pump'.result = "none" /\ pump'.pc \in {"idle", "flush", "apply"}
    <3>1. CASE Pause
      BY <3>1, StepFields DEF Pause
    <3>2. CASE BeginFlush
      BY <2>2, <3>2 DEF BeginFlush
    <3>3. CASE BeginApply
      BY <2>2, <3>3 DEF BeginApply
    <3> QED BY <1>3, <3>1, <3>2, <3>3
  <2>4. Unseen(ledger', ledger) /\ Front'.applied = Front.applied /\ Memory' = Memory
    BY <2>1, UnseenSame, MemoryFields DEF Front
  <2>5. Rests
    BY <2>1, <2>3, <2>4 DEF Rests, Leaves, TakePCs
  <2> QED BY <2>5 DEF PumpStep
<1>4. CASE Release
  <2>1. /\ pump.pc = "release" /\ pump'.pc = "head" /\ pump'.result = "none"
        /\ ledger' = PopFront(ledger) /\ Cur = Front /\ pump.span = ledger.oldest
    BY <1>4, StepFields, ReleaseFacts DEF Release
  <2>2. /\ ledger'.oldest = ledger.oldest + 1 /\ ledger'.nextSpan = ledger.nextSpan
        /\ ledger'.closed = ledger.closed /\ ledger'.failedSpan = ledger.failedSpan
        /\ ledger'.spans = [id \in (ledger.oldest + 1) .. Back(ledger) |-> ledger.spans[id]]
    BY <2>1, FrontFacts, FieldNames DEF PopFront
  <2>3. \A id \in Live(ledger') : ledger'.spans[id] = ledger.spans[id]
    BY <2>2 DEF Live, Back
  <2>4. effect'.span \in {effect.span, ledger.oldest}
    BY <1>4, <2>1, FrontFacts DEF Release, EffectAt
  <2>5. \/ Memory' = Memory
        \/ Front.kicked # 0 /\ Memory' = [Memory EXCEPT !.rptr = Front.kicked]
    BY <1>4, <2>1, MemoryFields DEF Release
  <2>6. Retires
    BY <2>1, <2>2, <2>3, <2>4, <2>5 DEF Retires
  <2> QED BY <2>6 DEF PumpStep
<1>5. CASE ReleaseFailed
  <2> DEFINE U == Unown(ledger, ledger.oldest, Index)
  <2>1. /\ pump.pc = "release" /\ AtSpan /\ pump.span = ledger.oldest
        /\ Releasable(ledger, ledger.oldest) /\ Front.applied = Len(Front.records)
    BY <1>5, ReleaseFacts DEF ReleaseFailed
  <2>2. /\ UNCHANGED <<guest, effect>> /\ pump'.result = "none"
        /\ \/ Mode = "Census" /\ ledger' = PopFront(U) /\ pump'.pc = "head"
           \/ ledger' = U /\ pump'.pc = "idle"
    BY <1>5, <2>1 DEF ReleaseFailed, Step
  <2>3. /\ DOMAIN U = Fields /\ U.oldest = ledger.oldest
        /\ U.nextSpan = ledger.nextSpan /\ U.closed = ledger.closed
        /\ Mode = "Census" => U.failedSpan = ledger.failedSpan
        /\ \A id \in Live(ledger) : id # ledger.oldest => U.spans[id] = ledger.spans[id]
    BY FrontUnowned
  <2>4. ~Written /\ Memory' = Memory /\ effect'.span \in {effect.span, ledger.oldest}
    BY <2>1, <2>2, FrontFacts, MemoryFields DEF Written
  <2>5. CASE ledger' = U /\ pump'.pc = "idle"
    <3>1. Index \notin 1 .. Performed
      BY <2>1, FrontFacts, PerformedWithin
    <3> HIDE DEF U
    <3>2. Unseen(ledger', U)
      BY <2>5, UnseenSame
    <3>3. Spoils
      BY <2>1, <2>2, <2>4, <2>5, <3>1, <3>2, SpoiltSpoils DEF U
    <3> QED BY <3>3 DEF PumpStep
  <2>6. CASE Mode = "Census" /\ ledger' = PopFront(U) /\ pump'.pc = "head"
    <3> HIDE DEF U
    <3>1. /\ ledger'.oldest = ledger.oldest + 1 /\ ledger'.nextSpan = ledger.nextSpan
          /\ ledger'.closed = ledger.closed /\ ledger'.failedSpan = ledger.failedSpan
          /\ ledger'.spans = [id \in (ledger.oldest + 1) .. Back(U) |-> U.spans[id]]
      BY <2>3, <2>6, FieldNames DEF PopFront
    <3>2. \A id \in Live(ledger') : ledger'.spans[id] = ledger.spans[id]
      BY <2>3, <3>1, FrontFacts DEF Live, Back
    <3>3. Retires
      BY <2>1, <2>2, <2>4, <2>6, <3>1, <3>2 DEF Retires
    <3> QED BY <3>3 DEF PumpStep
  <2> QED BY <2>2, <2>5, <2>6
<1> QED BY <1>1, <1>2, <1>3, <1>4, <1>5 DEF LoopSteps

\* The ledger is left as it is.
LEMMA RestsHere ==
    ASSUME SafetyInv, UNCHANGED <<ledger, guest, effect>>, pump.pc \notin TakePCs, Leaves
    PROVE  Rests
<1>1. Unseen(ledger', ledger) /\ Front'.applied = Front.applied /\ Memory' = Memory
  BY UnseenSame, MemoryFields DEF Front
<1> QED BY <1>1 DEF Rests

\* The pass ends.
LEMMA EndsPass ==
    ASSUME Step("idle")
    PROVE  Leaves /\ pump'.pc = "idle" /\ pump'.result = "none"
BY StepFields DEF Leaves, TakePCs

LEMMA GivenUpSeen ==
    ASSUME SafetyInv, ImageInv, AtSpan, ~Gone, ~Written, pump.pc # "flush",
           ledger' = Unown(ledger, pump.span, Index), Step("idle"),
           UNCHANGED <<guest, effect>>
    PROVE  Spoils
<1> DEFINE i == Front.applied + 1
           U == Unown(ledger, ledger.oldest, i)
<1>1. ledger' = U /\ Releasable(ledger, ledger.oldest)
  BY AtWork
<1>2. i \notin 1 .. Performed
  BY FrontFacts, NotLandedAtSpan
<1>3. U.oldest = ledger.oldest
  BY FrontUnowned
<1>4. Memory' = Memory /\ pump'.pc = "idle" /\ pump'.result = "none"
  BY MemoryFields, StepFields
<1> HIDE DEF U, i
<1>5. Unseen(ledger', U) /\ ledger'.spans = U.spans
  BY <1>1, UnseenSame
<1> QED BY <1>1, <1>2, <1>4, <1>5, SpoiltSpoils DEF U

LEMMA FlushSeen ==
    ASSUME SafetyInv, ImageInv, FlushOps
    PROVE  PumpStep
<1>1. /\ pump.pc = "flush" /\ UNCHANGED <<guest, effect>> /\ Memory' = Memory
      /\ pump.pc \notin TakePCs /\ ~Written
  BY MemoryFields DEF FlushOps, FlushFenced, FlushRetry, FlushFailed, TakePCs, Written
<1>2. ~Gone => AtSpan /\ pump.span = ledger.oldest /\ Releasable(ledger, ledger.oldest)
  BY <1>1, FrontIsUsed DEF Gone, AtSpan
<1>3. ASSUME ledger' = ledger, Step("idle")
      PROVE  PumpStep
  BY <1>1, <1>3, EndsPass, RestsHere DEF PumpStep
<1>4. CASE FlushRetry
  BY <1>3, <1>4 DEF FlushRetry
<1>5. CASE FlushFenced /\ ~Gone
  <2> DEFINE n == MaxOf(host.submitted, pump.mark)
  <2>1. ledger' = FrontFlushed(ledger, n)
    BY <1>2, <1>5 DEF FlushFenced, FrontFlushed
  <2>2. pump'.pc \in {"apply", "idle"} /\ pump'.result = "none"
    BY <1>5 DEF FlushFenced, Step
  <2> HIDE DEF n
  <2>3. Typed(ledger, clock)
    BY SafetyFacts
  <2>4. /\ Unseen(FrontFlushed(ledger, n), ledger)
        /\ FrontFlushed(ledger, n).spans[ledger.oldest].applied = Front.applied
    BY <2>3, FlushedUnseen DEF Front
  <2>5. Unseen(ledger', ledger) /\ Front'.applied = Front.applied
    BY <2>1, <2>4 DEF Unseen, Front
  <2>6. Rests
    BY <1>1, <2>2, <2>5 DEF Rests, Leaves, TakePCs
  <2> QED BY <2>6 DEF PumpStep
<1>6. CASE FlushFailed /\ ~Gone
  <2> DEFINE i == AdmittedRecord(Cur)
             U == Unown(ledger, ledger.oldest, i)
             n == host.submitted
             F == [U EXCEPT !.spans[ledger.oldest].hostTarget = n,
                            !.spans[ledger.oldest].flushed = TRUE]
  <2>1. /\ Step("idle") /\ pump'.pc = "idle" /\ pump'.result = "none"
        /\ ledger' = IF Mode = "Census" THEN F ELSE U
    <3>1. Step("idle") /\ ~Gone /\ pump.span = ledger.oldest
      BY <1>2, <1>6 DEF FlushFailed
    <3>2. pump'.pc = "idle" /\ pump'.result = "none"
      BY <3>1, StepFields
    <3>3. ledger' = IF Mode = "Census" THEN F ELSE U
      BY <1>6, <3>1 DEF FlushFailed
    <3> HIDE DEF F, U
    <3> QED BY <3>1, <3>2, <3>3
  <2>2. U.oldest = ledger.oldest /\ Typed(U, clock)
    BY FrontUnowned DEF Safe
  <2>3. i \notin 1 .. Performed
    <3>1. Front.applied = 0
      BY <1>1, <1>2, <1>6, FrontSettled DEF SafetyInv, FrontTaken, Untouched
    <3>2. Performed = 0
      BY <1>1, <1>2, <1>6, <3>1, NotLandedAtSpan
    <3> QED BY <3>2
  <2> HIDE DEF U, i, n
  <2>4. /\ Unseen(ledger', U)
        /\ ledger'.spans[ledger.oldest].applied = U.spans[ledger.oldest].applied
    <3>1. CASE Mode # "Census"
      BY <2>1, <3>1, UnseenSame
    <3>2. CASE Mode = "Census"
      <4>1. ledger' = FrontFlushed(U, n)
        BY <2>1, <2>2, <3>2 DEF FrontFlushed
      <4>2. /\ Unseen(FrontFlushed(U, n), U)
            /\ FrontFlushed(U, n).spans[U.oldest].applied = U.spans[U.oldest].applied
        BY <2>2, FlushedUnseen
      <4> QED BY <2>2, <4>1, <4>2
    <3> QED BY <3>1, <3>2
  <2>5. Spoils
    BY <1>1, <1>2, <1>6, <2>1, <2>3, <2>4, SpoiltSpoils DEF U
  <2> QED BY <2>5 DEF PumpStep
<1>7. CASE (FlushFenced \/ FlushFailed) /\ Gone
  BY <1>3, <1>7 DEF FlushFenced, FlushFailed
<1> QED BY <1>4, <1>5, <1>6, <1>7 DEF FlushOps

\* The pass is at the front's next record.
LEMMA AtNextRecord ==
    ASSUME SafetyInv, ImageInv, AtRecord
    PROVE  /\ AtSpan /\ ~Gone /\ ~Written /\ pump.pc = "apply" /\ pump.pc # "flush"
           /\ pump.pc \notin TakePCs /\ pump.result = "none"
           /\ pump.span = ledger.oldest /\ Index = Front.applied + 1
           /\ Front.applied < Len(Front.records) /\ Rec = NextRecord
<1>1. AtSpan /\ pump.pc = "apply" /\ ~Gone /\ pump.span = ledger.oldest
      /\ Front.applied < Len(Front.records)
  BY AtNext
<1>2. pump.result = "none"
  BY <1>1 DEF ImageInv, AtItsRecord
<1>3. Index = Front.applied + 1 /\ Rec = NextRecord
  BY <1>1, FrontFacts DEF NextRecord
<1> QED BY <1>1, <1>2, <1>3 DEF Written, TakePCs

\* A record without an effect GuestProgress speaks of.
LEMMA PerformsNothing ==
    ASSUME SafetyInv, ImageInv, AtRecord, ledger' = Applied,
           OpKind(Rec) = "nothing", Memory' = Memory, pump' = pump,
           effect' = effect \/ \E n : EffectAt(n)
    PROVE  PumpStep
<1>1. effect' = effect \/ effect'.index = Front.applied + 1
  BY AtNextRecord DEF EffectAt
<1>2. Performs
  BY <1>1, AtNextRecord DEF Performs
<1> QED BY <1>2 DEF PumpStep

LEMMA ApplySeen ==
    ASSUME SafetyInv, ImageInv, ApplySteps
    PROVE  PumpStep
<1>1. CASE ApplySkipped \/ ApplyInert \/ WaitOver
  <2>1. AtRecord /\ ledger' = Applied /\ UNCHANGED <<pump, guest, effect>>
    BY <1>1 DEF ApplySkipped, ApplyInert, WaitOver, ApplyKind
  <2>2. OpKind(Rec) = "nothing"
    <3>1. CASE ApplySkipped
      BY <3>1 DEF ApplySkipped, OpKind
    <3>2. CASE ApplyInert
      BY <3>2 DEF ApplyInert, OpKind
    <3>3. CASE WaitOver
      BY <3>3 DEF WaitOver, ApplyKind, OpKind
    <3> QED BY <1>1, <3>1, <3>2, <3>3
  <2> QED BY <2>1, <2>2, MemoryFields, PerformsNothing
<1>2. CASE WriteScratch
  <2>1. /\ AtRecord /\ ~Rec.skipped /\ Rec.kind = "ScratchWrite" /\ ledger' = Applied
        /\ pump' = pump /\ EffectAt(1)
        /\ guest' = [guest EXCEPT !.scratch = Rec.value]
    BY <1>2 DEF WriteScratch, ApplyKind
  <2>2. OpKind(NextRecord) = "scratch" /\ Op(NextRecord).value = Rec.value
    BY <2>1, AtNextRecord DEF OpKind, Op
  <2>3. Memory' = [Memory EXCEPT !.scratch = Rec.value]
    BY <2>1, MemoryFields
  <2>4. effect'.index = Front.applied + 1
    BY <2>1, AtNextRecord DEF EffectAt
  <2>5. Performs
    BY <2>1, <2>2, <2>3, <2>4, AtNextRecord DEF Performs
  <2> QED BY <2>5 DEF PumpStep
<1>3. CASE WriteFence
  <2>1. /\ pump.pc = "fence" /\ ledger' = Applied /\ EffectAt(2)
        /\ guest' = [guest EXCEPT !.fence = Rec.value]
        /\ pump'.pc = "apply" /\ pump'.result = "none"
    BY <1>3, StepFields DEF WriteFence
  <2>2. AtSpan /\ ~Gone /\ ~Written /\ Front.applied < Len(Front.records)
        /\ ~Rec.skipped /\ Rec = NextRecord /\ Index = Front.applied + 1
    BY <2>1, Locked, AtWork, FrontFacts DEF LockedPCs, AccessPCs, Written, NextRecord
  <2>3. Rec.kind = "Fence"
    BY <2>1 DEF ImageInv, AtItsRecord
  <2>4. OpKind(NextRecord) = "fence" /\ Op(NextRecord).value = Rec.value
    BY <2>2, <2>3 DEF OpKind, Op
  <2>5. Memory' = [Memory EXCEPT !.fence = Rec.value]
    BY <2>1, MemoryFields
  <2>6. effect'.index = Front.applied + 1
    BY <2>1, <2>2 DEF EffectAt
  <2>7. Performs
    BY <2>1, <2>2, <2>4, <2>5, <2>6 DEF Performs
  <2> QED BY <2>7 DEF PumpStep
<1>4. CASE WriteCursor
  <2>1. /\ AtRecord /\ Rec.kind = "Fence" /\ ledger' = ledger /\ EffectAt(1)
        /\ guest' = [guest EXCEPT !.cursor = Rec.value]
        /\ pump'.pc = "fence" /\ pump'.span = pump.span /\ pump'.result = "none"
    BY <1>4, StepFields DEF WriteCursor, ApplyKind
  <2>2. Unseen(ledger', ledger) /\ Front'.applied = Front.applied /\ Memory' = Memory
    BY <2>1, UnseenSame, MemoryFields DEF Front
  <2>3. NextRecord.kind # "Resolve" /\ effect'.index = Front.applied + 1
    BY <2>1, AtNextRecord DEF EffectAt
  <2>4. Leaves
    BY <2>1, AtNextRecord DEF Leaves, TakePCs
  <2>5. Rests
    BY <2>2, <2>3, <2>4, AtNextRecord, <2>1 DEF Rests
  <2> QED BY <2>5 DEF PumpStep
<1>5. CASE WaitLonger
  <2>1. AtRecord /\ UNCHANGED <<ledger, guest, effect>> /\ Step("idle")
    BY <1>5 DEF WaitLonger, ApplyKind
  <2> QED BY <2>1, AtNextRecord, EndsPass, RestsHere DEF PumpStep
<1>6. CASE AccessFailed
  <2>1. /\ pump.pc \in LockedPCs /\ pump.pc # "flush" /\ ~Written
        /\ ledger' = Unown(ledger, pump.span, Index)
        /\ UNCHANGED <<guest, effect>> /\ Step("idle")
    BY <1>6 DEF AccessFailed, GiveUp, ApplyKind, RaiseDone, AtRecord, LockedPCs, Written
  <2>2. AtSpan /\ ~Gone
    BY <2>1, Locked
  <2> QED BY <2>1, <2>2, GivenUpSeen DEF PumpStep
<1>7. CASE ApplyDone
  <2>1. /\ pump.pc = "apply" /\ UNCHANGED <<ledger, guest, effect>>
        /\ pump'.pc \in {"idle", "release"} /\ pump'.result = "none"
    BY <1>7, StepFields DEF ApplyDone
  <2> QED BY <2>1, RestsHere DEF PumpStep, Leaves, TakePCs
<1> QED BY <1>1, <1>2, <1>3, <1>4, <1>5, <1>6, <1>7 DEF ApplySteps

LEMMA CallbackSeen ==
    ASSUME SafetyInv, ImageInv, CallbackSteps
    PROVE  PumpStep
<1>1. CASE RetireSlot \/ CallbackDone
  <2>1. /\ AtRecord /\ Rec.kind = "Callback" /\ ledger' = Applied /\ pump' = pump
        /\ effect' = effect \/ EffectAt(4)
    BY <1>1 DEF RetireSlot, CallbackDone, RaiseDone, ApplyKind
  <2>2. Memory' = Memory
    BY <1>1, MemoryFields DEF RetireSlot, CallbackDone
  <2>3. OpKind(Rec) = "nothing"
    BY <2>1 DEF OpKind
  <2> QED BY <2>1, <2>2, <2>3, PerformsNothing
<1>2. CASE AwaitMask
  <2>1. AtRecord /\ UNCHANGED <<ledger, guest, effect>> /\ Step("idle")
    BY <1>2 DEF AwaitMask, RaiseDone, ApplyKind
  <2> QED BY <2>1, AtNextRecord, EndsPass, RestsHere DEF PumpStep
<1>3. CASE WriteSlot
  <2>1. /\ AtRecord /\ Rec.kind = "Callback" /\ ledger' = ledger /\ EffectAt(1)
        /\ guest' = [guest EXCEPT !.slot = Rec.value]
        /\ pump'.pc = "mask" /\ pump'.result = "none"
    BY <1>3, StepFields DEF WriteSlot, ApplyKind
  <2>2. Unseen(ledger', ledger) /\ Front'.applied = Front.applied /\ Memory' = Memory
    BY <2>1, UnseenSame, MemoryFields DEF Front
  <2>3. NextRecord.kind # "Resolve" /\ effect'.index = Front.applied + 1
    BY <2>1, AtNextRecord DEF EffectAt
  <2>4. Rests
    BY <2>1, <2>2, <2>3, AtNextRecord DEF Rests, Leaves, TakePCs
  <2> QED BY <2>4 DEF PumpStep
<1>4. CASE RaiseAgain
  <2>1. /\ AtRecord /\ UNCHANGED <<ledger, guest, effect>>
        /\ pump'.pc = "raise" /\ pump'.result = "none"
    BY <1>4, StepFields DEF RaiseAgain, ApplyKind
  <2> QED BY <2>1, AtNextRecord, RestsHere DEF PumpStep, Leaves, TakePCs
<1>5. CASE WriteMask
  <2>1. /\ pump.pc = "mask" /\ EffectAt(2)
        /\ ledger' = [ledger EXCEPT !.spans[pump.span].stage = 1]
        /\ guest' = [guest EXCEPT !.mask = TRUE, !.raised = FALSE]
        /\ pump'.pc = "raise" /\ pump'.result = "none"
    BY <1>5, StepFields DEF WriteMask
  <2>2. AtSpan
    BY <2>1, Locked DEF LockedPCs
  <2>3. Unseen(ledger', ledger) /\ Front'.applied = Front.applied
    BY <2>1, <2>2, StagedUnseen
  <2>4. Memory' = Memory
    <3>1. DOMAIN guest = {"cursor", "fence", "scratch", "slot", "mask", "raised",
                          "word", "image", "rptr"}
      BY SafetyFacts DEF PeerTypes
    <3> QED BY <2>1, <3>1 DEF Memory
  <2>5. NextRecord.kind # "Resolve" /\ effect'.index = Front.applied + 1
    BY <2>1, <2>2, AtWork, FrontFacts DEF EffectAt, NextRecord
  <2>6. Rests
    BY <2>1, <2>3, <2>4, <2>5 DEF Rests, Leaves, TakePCs
  <2> QED BY <2>6 DEF PumpStep
<1>6. CASE Raised /\ ~Gone
  <2>1. /\ pump.pc = "raise" /\ EffectAt(3)
        /\ ledger' = [ledger EXCEPT !.spans[pump.span].stage = 2]
        /\ guest' = [guest EXCEPT !.raised = TRUE]
        /\ pump'.pc = "apply" /\ pump'.result = "none"
    BY <1>6, StepFields DEF Raised
  <2>2. AtSpan
    BY <1>6, <2>1, FrontIsUsed
  <2>3. Unseen(ledger', ledger) /\ Front'.applied = Front.applied
    BY <2>1, <2>2, StagedUnseen
  <2>4. Memory' = Memory
    BY <2>1, MemoryFields
  <2>5. NextRecord.kind # "Resolve" /\ effect'.index = Front.applied + 1
    <3>1. Front.stage = 1 /\ Staged(Front) /\ Index = Front.applied + 1
      BY <2>1, <2>2, AtWork DEF AccessPCs
    <3> QED BY <2>1, <3>1 DEF Staged, NextRecord, EffectAt
  <2>6. Rests
    BY <2>1, <2>3, <2>4, <2>5 DEF Rests, Leaves, TakePCs
  <2> QED BY <2>6 DEF PumpStep
<1>7. CASE NotRaised \/ (Raised /\ Gone)
  <2>1. pump.pc = "raise" /\ UNCHANGED <<ledger, effect>> /\ Step("idle")
    BY <1>7 DEF NotRaised, Raised
  <2>2. Memory' = Memory
    BY <1>7, MemoryFields DEF NotRaised, Raised
  <2>3. Unseen(ledger', ledger) /\ Front'.applied = Front.applied
    BY <2>1, UnseenSame DEF Front
  <2>4. Rests
    BY <2>1, <2>2, <2>3, EndsPass DEF Rests, TakePCs
  <2> QED BY <2>4 DEF PumpStep
<1> QED BY <1>1, <1>2, <1>3, <1>4, <1>5, <1>6, <1>7 DEF CallbackSteps

LEMMA ImageSeen ==
    ASSUME SafetyInv, ImageInv, ImageOps
    PROVE  PumpStep
<1>1. CASE SkipImage
  <2>1. /\ AtRecord /\ Rec.skipped /\ UNCHANGED <<ledger, guest, effect>>
        /\ pump'.pc = "skip" /\ pump'.result = "none"
    BY <1>1, StepFields DEF SkipImage
  <2> QED BY <2>1, AtNextRecord, RestsHere DEF PumpStep, Leaves, TakePCs
<1>2. CASE WantImage
  <2>1. /\ AtRecord /\ Rec.kind = "Resolve" /\ ~Rec.hostOnly
        /\ UNCHANGED <<ledger, guest, effect>>
        /\ pump' = [pump EXCEPT !.pc = "gate", !.mark = Rec.mark]
    BY <1>2 DEF WantImage, ApplyKind
  <2>2. pump'.pc = "gate" /\ pump'.mark = Rec.mark /\ pump'.result = "none"
    BY <2>1, AtNextRecord, FrontFacts
  <2> QED BY <2>1, <2>2, AtNextRecord, RestsHere DEF PumpStep, Leaves, TakePCs
<1>3. CASE ImageSkipped /\ Gone
  <2>1. pump.pc = "skip" /\ UNCHANGED <<ledger, guest, effect>> /\ Step("idle")
    BY <1>3 DEF ImageSkipped
  <2> QED BY <2>1, EndsPass, RestsHere DEF PumpStep, TakePCs
<1>4. CASE ImageSkipped /\ ~Gone
  <2>1. /\ pump.pc = "skip" /\ UNCHANGED <<guest, effect>> /\ ledger' = Applied
        /\ pump'.pc = "apply" /\ pump'.result = "none"
    BY <1>4, StepFields DEF ImageSkipped
  <2>2. AtSpan /\ Front.applied < Len(Front.records) /\ Rec = NextRecord
    BY <1>4, <2>1, FrontIsUsed, AtWork, FrontFacts DEF NextRecord
  <2>3. OpKind(NextRecord) = "nothing"
    BY <2>1, <2>2 DEF ImageInv, AtItsRecord, OpKind
  <2>4. Performs
    BY <1>4, <2>1, <2>2, <2>3, MemoryFields DEF Performs, Written
  <2> QED BY <2>4 DEF PumpStep
<1>5. CASE PassGate /\ Gone
  <2>1. pump.pc = "gate" /\ UNCHANGED <<ledger, guest, effect>> /\ Step("idle")
    BY <1>5 DEF PassGate
  <2> QED BY <2>1, EndsPass, RestsHere DEF PumpStep, TakePCs
<1>6. CASE PassGate /\ ~Gone
  <2>1. pump.pc = "gate" /\ UNCHANGED <<ledger, guest, effect>> /\ Step("take")
    BY <1>6 DEF PassGate
  <2>2. TakesImage
    BY <1>6, <2>1, MemoryFields DEF TakesImage, Step
  <2> QED BY <2>2 DEF PumpStep
<1>7. CASE WriteImage
  <2>1. /\ pump.pc = "take" /\ EffectAt(1) /\ ledger' = ledger
        /\ guest' = [guest EXCEPT !.image = pump.mark]
        /\ pump' = [pump EXCEPT !.pc = "took", !.result = "written"]
    BY <1>7 DEF WriteImage
  <2>2. pump'.pc = "took" /\ pump'.span = pump.span /\ pump'.result = "written"
    BY <2>1, FrontFacts
  <2>3. Memory' = [Memory EXCEPT !.image = pump.mark]
    BY <2>1, MemoryFields
  <2> QED BY <2>1, <2>2, <2>3 DEF PumpStep, WritesImage
<1>8. ASSUME NEW result \in {"held", "error", "closing"}, NoImage(result)
      PROVE  PumpStep
  <2>1. /\ pump.pc = "take" /\ UNCHANGED <<ledger, guest, effect>>
        /\ pump' = [pump EXCEPT !.pc = "took", !.result = result]
    BY <1>8 DEF NoImage
  <2>2. pump'.pc = "took" /\ pump'.span = pump.span /\ pump'.result = result
    BY <2>1, FrontFacts
  <2> QED BY <2>1, <2>2, MemoryFields DEF PumpStep, WritesImage
<1>9. CASE ImageTaken
  <2>1. pump.pc = "took" /\ UNCHANGED <<guest, effect>> /\ Memory' = Memory
    BY <1>9, MemoryFields DEF ImageTaken
  <2>2. AtSpan /\ Front.applied < Len(Front.records) /\ ~Rec.skipped /\ Rec = NextRecord
    BY <2>1, Locked, AtWork, FrontFacts DEF AccessPCs, TakePCs, NextRecord
  <2>3. CASE (Gone \/ pump.result = "closing") /\ Step("idle") /\ UNCHANGED ledger
    BY <2>1, <2>3, StepFields DEF PumpStep, LeavesImage, Written
  <2>4. CASE /\ ~Gone /\ pump.result = "error"
             /\ ledger' = Unown(ledger, pump.span, Index) /\ Step("idle")
    BY <2>1, <2>2, <2>4, GivenUpSeen DEF PumpStep, Written
  <2>5. CASE /\ ~Gone /\ pump.result \in {"written", "held"} /\ ledger' = Applied
             /\ Step("apply")
    <3>1. pump'.pc = "apply" /\ pump'.result = "none"
      BY <2>5, StepFields
    <3>2. CASE pump.result = "written"
      BY <2>1, <2>5, <3>1, <3>2 DEF PumpStep, CountsImage, Written
    <3>3. CASE pump.result = "held"
      <4>1. OpKind(NextRecord) = "image"
        BY <2>1, <2>2 DEF ImageInv, OnImage, OpKind
      <4> QED BY <2>1, <2>2, <2>5, <3>1, <3>3, <4>1 DEF PumpStep, Performs, Written
    <3> QED BY <2>5, <3>2, <3>3
  <2> QED BY <1>9, <2>3, <2>4, <2>5 DEF ImageTaken
<1> QED BY <1>1, <1>2, <1>3, <1>4, <1>5, <1>6, <1>7, <1>8, <1>9 DEF ImageOps

LEMMA PumpSeen ==
    ASSUME SafetyInv, ImageInv, PumpNext
    PROVE  PumpStep
BY LoopSeen, FlushSeen, ApplySeen, CallbackSeen, ImageSeen DEF PumpNext

-----------------------------------------------------------------------------
(* ImageInv holds: a pass keeps it, and no other thread's operation        *)
(* touches a front that is being released.                                 *)

LEMMA UnseenFront ==
    ASSUME SafetyInv, Unseen(ledger', ledger)
    PROVE  /\ ledger'.oldest = ledger.oldest /\ Front'.records = Front.records
           /\ Front'.unowned = Front.unowned
           /\ Releasable(ledger', ledger'.oldest) <=> Releasable(ledger, ledger.oldest)
           /\ Alike(Front', Front)
<1>1. ledger'.oldest = ledger.oldest /\ Alike(Front', Front)
  BY FrontFacts DEF Unseen, Front
<1>2. Releasable(ledger', ledger'.oldest) <=> Releasable(ledger, ledger.oldest)
  BY <1>1 DEF Unseen, Releasable
<1> QED BY <1>1, <1>2 DEF Alike

\* A pass works on the record after those it has counted.
LEMMA LeavesAt ==
    ASSUME Leaves, ledger'.oldest = ledger.oldest, Front'.applied = Front.applied,
           Front'.records = Front.records
    PROVE  /\ pump'.pc \notin TakePCs /\ pump'.result = "none"
           /\ AtSpan' /\ pump'.pc = "gate" =>
                 Rec'.kind = "Resolve" /\ ~Rec'.hostOnly /\ pump'.mark = Rec'.mark
           /\ AtSpan' /\ pump'.pc = "skip" => Rec'.skipped
           /\ pump'.pc = "fence" => Rec'.kind = "Fence"
<1>1. pump'.span = ledger.oldest => Rec' = NextRecord
  BY DEF Rec, Index, Cur, Front, NextRecord
<1> QED BY <1>1 DEF Leaves, AtSpan

LEMMA RestsImage ==
    ASSUME SafetyInv, ImageInv, Rests
    PROVE  ImageInv'
<1>1. /\ Unseen(ledger', ledger) /\ Front'.applied = Front.applied /\ Leaves
      /\ ledger'.oldest = ledger.oldest /\ Front'.records = Front.records
      /\ Front'.unowned = Front.unowned
      /\ Releasable(ledger', ledger'.oldest) <=> Releasable(ledger, ledger.oldest)
  BY UnseenFront DEF Rests
<1>2. ImageLanded' => ImageLanded
  BY <1>1 DEF Rests, ImageLanded, NextRecord
<1>3. ImageLanded => ~Releasable(ledger, ledger.oldest) \/ Front.unowned
  BY NotLanded DEF Rests, TakePCs, Written
<1>4. Front'.applied <= Len(Front'.records)
  BY <1>1 DEF ImageInv, WithinRecords
<1> QED BY <1>1, <1>2, <1>3, <1>4, LeavesAt, ImageAfter

\* A record is counted.
LEMMA AppliedLater ==
    ASSUME SafetyInv, AtSpan, ledger' = Applied,
           effect' = effect \/ effect'.index = Front.applied + 1
    PROVE  /\ Unseen(ledger', ledger) /\ Front'.applied = Front.applied + 1
           /\ Front'.records = Front.records
           /\ ~ImageLanded' /\ Performed' = Front.applied + 1
<1>1. /\ Unseen(ledger', ledger) /\ ledger'.spans[ledger.oldest].applied = Front.applied + 1
  BY AppliedUnseen
<1>2. /\ ledger'.oldest = ledger.oldest /\ Front'.applied = Front.applied + 1
      /\ Front'.records = Front.records
  BY <1>1, UnseenFront DEF Front
<1>3. ~ImageLanded'
  <2>1. effect.span = ledger.oldest => effect.index <= Front.applied + 1
    BY DEF SafetyInv, EffectsBehind, LastEffect, MayRelease
  <2>2. effect.index \in Nat /\ Front.applied \in Nat
    BY FrontFacts
  <2> QED BY <1>2, <2>1, <2>2 DEF ImageLanded
<1>4. Performed' = Front.applied + 1
  BY <1>2, <1>3, FrontFacts DEF Performed
<1> QED BY <1>1, <1>2, <1>3, <1>4

LEMMA AppliedImage ==
    ASSUME SafetyInv, ImageInv, AtSpan, ledger' = Applied,
           Front.applied < Len(Front.records),
           effect' = effect \/ effect'.index = Front.applied + 1,
           pump'.pc = "apply", pump'.result = "none"
    PROVE  ImageInv'
<1>1. Front'.applied <= Len(Front'.records)
  BY AppliedLater, FrontFacts
<1> QED BY <1>1, AppliedLater, ImageAfter DEF TakePCs

LEMMA SpoilsImage ==
    ASSUME SafetyInv, ImageInv, Spoils
    PROVE  ImageInv'
<1>1. PICK i : /\ Unseen(ledger', Unown(ledger, ledger.oldest, i))
               /\ Front'.applied = Front.applied
  BY DEF Spoils
<1> DEFINE U == Unown(ledger, ledger.oldest, i)
<1>2. /\ U.oldest = ledger.oldest /\ Live(U) = Live(ledger)
      /\ Spoilt(U.spans[ledger.oldest], Front, i)
      /\ Typed(U, clock)
  BY FrontUnowned DEF Safe
<1> HIDE DEF U
<1>3. /\ ledger'.oldest = ledger.oldest
      /\ Alike(Front', U.spans[ledger.oldest])
  BY <1>1, <1>2, FrontFacts DEF Unseen, Front, U
<1>4. /\ DOMAIN Front'.records = DOMAIN Front.records
      /\ \A j \in DOMAIN Front.records : Front'.records[j].kind = Front.records[j].kind
      /\ Front'.unowned \/ Front'.unowned = Front.unowned
  BY <1>2, <1>3 DEF Spoilt, Alike
<1>5. ImageLanded' => ImageLanded
  <2>1. effect' = effect
    BY DEF Spoils
  <2> QED BY <1>1, <1>3, <1>4, <2>1 DEF ImageLanded
<1>6. ImageLanded => Front.unowned
  BY NotLanded DEF Spoils
<1>7. Front'.applied <= Len(Front'.records)
  <2>1. U.spans[ledger.oldest] \in SpanTo(clock) /\ Front \in SpanTo(clock)
    BY <1>2, SafetyFacts DEF Typed
  <2>2. DOMAIN U.spans[ledger.oldest].records = DOMAIN Front.records
    BY <1>2 DEF Spoilt
  <2>3. Len(U.spans[ledger.oldest].records) = Len(Front.records)
    BY <2>1, <2>2, SameLen
  <2> QED BY <1>1, <1>3, <2>3 DEF Alike, ImageInv, WithinRecords
<1>8. pump'.pc \in {"idle", "head"} /\ pump'.result = "none"
  BY DEF Spoils
<1> QED BY <1>4, <1>5, <1>6, <1>7, <1>8, ImageAfter DEF TakePCs

LEMMA RetiresImage ==
    ASSUME SafetyInv, ImageInv, Retires
    PROVE  ImageInv'
<1>1. /\ pump'.pc = "head" /\ pump'.result = "none"
      /\ ledger'.oldest = ledger.oldest + 1 /\ ledger'.nextSpan = ledger.nextSpan
      /\ effect'.span \in {effect.span, ledger.oldest}
      /\ \A id \in Live(ledger') : ledger'.spans[id] = ledger.spans[id]
  BY DEF Retires
<1>2. ledger.oldest \in Nat /\ ledger.nextSpan \in Nat /\ ledger.oldest < Back(ledger)
  BY ReleaseFacts, SafetyFacts DEF Retires, Window, Shaped
<1>3. ~ImageLanded'
  <2>1. effect'.span # ledger'.oldest
    BY <1>1, <1>2, FrontFacts
  <2> QED BY <2>1 DEF ImageLanded
<1>4. Front'.applied <= Len(Front'.records)
  <2>1. /\ ledger'.oldest \in Live(ledger') /\ ledger'.oldest \in Live(ledger)
        /\ ledger'.oldest # ledger.oldest
    BY <1>1, <1>2 DEF Live, Back
  <2>2. Front' = ledger.spans[ledger'.oldest]
    BY <1>1, <2>1 DEF Front
  <2>3. Untouched(Front') /\ Front' \in SpanTo(clock)
    BY <2>1, <2>2, SafetyFacts DEF SafetyInv, SpansWait, Typed
  <2>4. Len(Front'.records) \in Nat
    BY <2>3, SameLen
  <2> QED BY <2>3, <2>4 DEF Untouched
<1> QED BY <1>1, <1>3, <1>4, ImageAfter DEF TakePCs

LEMMA ReplaysImage ==
    ASSUME SafetyInv, ImageInv, Replays
    PROVE  ImageInv'
<1>1. /\ Unseen(ledger', ledger) /\ Front'.applied = Front.applied /\ effect' = effect
      /\ ledger'.oldest = ledger.oldest /\ Front'.records = Front.records
      /\ Front'.unowned = Front.unowned
      /\ pump'.pc = "head" /\ pump'.result = "none"
  BY UnseenFront DEF Replays
<1>2. ImageLanded' => ImageLanded
  BY <1>1 DEF ImageLanded
<1>3. ImageLanded => Front.unowned
  BY NotLanded DEF Replays, TakePCs, Written
<1>4. Front'.applied <= Len(Front'.records)
  BY <1>1 DEF ImageInv, WithinRecords
<1> QED BY <1>1, <1>2, <1>3, <1>4, ImageAfter DEF TakePCs

\* While the image's lock is held the front stays.
LEMMA TakesImageImage ==
    ASSUME SafetyInv, ImageInv, TakesImage
    PROVE  ImageInv'
<1>1. /\ pump.pc = "gate" /\ pump'.pc = "take" /\ ~Gone
      /\ pump'.span = pump.span /\ pump'.mark = pump.mark /\ pump'.result = "none"
      /\ ledger' = ledger /\ effect' = effect
  BY DEF TakesImage
<1>2. AtSpan /\ ~Written
  BY <1>1, FrontIsUsed DEF Written
<1>3. ~ImageLanded /\ Releasable(ledger, ledger.oldest)
  BY <1>1, <1>2, NotLandedAtSpan, FrontFacts
<1>4. ~ImageLanded' /\ Rec' = Rec /\ Front' = Front
  BY <1>1, <1>3 DEF ImageLanded, Rec, Index, Cur, Front
<1>5. OnImage'
  BY <1>1, <1>2, <1>4 DEF ImageInv, OnImage
<1>6. NotFailedBefore'
  BY <1>1, <1>3, FrontFacts, SafetyFacts DEF NotFailedBefore, Releasable, Typed, Others
<1>7. AtItsRecord' /\ WithinRecords' /\ WrittenLanded' /\ LandedWritten'
  BY <1>1, <1>4 DEF ImageInv, AtItsRecord, WithinRecords, WrittenLanded, LandedWritten,
                    Written
<1> QED BY <1>5, <1>6, <1>7 DEF ImageInv

LEMMA WritesImageImage ==
    ASSUME SafetyInv, ImageInv, WritesImage
    PROVE  ImageInv'
<1>1. /\ pump.pc = "take" /\ pump'.pc = "took" /\ pump'.span = pump.span
      /\ ledger' = ledger
      /\ \/ pump'.result = "written" /\ EffectAt(1)
         \/ pump'.result # "written" /\ effect' = effect
  BY DEF WritesImage
<1>2. /\ AtSpan /\ pump.span = ledger.oldest /\ Index = Front.applied + 1
      /\ Front.applied < Len(Front.records) /\ Rec = NextRecord
      /\ Front.applied \in Nat /\ DOMAIN Front.records = 1 .. Len(Front.records)
      /\ Len(Front.records) \in Nat
  BY <1>1, FrontIsUsed, AtWork, FrontFacts DEF TakePCs, AccessPCs, NextRecord
<1>3. Rec' = Rec /\ Front' = Front /\ AtSpan'
  BY <1>1, <1>2 DEF Rec, Index, Cur, Front, AtSpan
<1>4. Rec.kind = "Resolve" /\ ~Rec.hostOnly
  BY <1>1, <1>2 DEF ImageInv, OnImage
<1>5. CASE pump'.result = "written" /\ EffectAt(1)
  <2>1. effect'.span = ledger'.oldest /\ effect'.index = Front'.applied + 1
    BY <1>1, <1>2, <1>3, <1>5 DEF EffectAt
  <2>2. effect'.index \in DOMAIN Front'.records
    BY <1>2, <1>3, <2>1
  <2>3. ImageLanded'
    BY <1>2, <1>3, <1>4, <2>1, <2>2 DEF ImageLanded, NextRecord
  <2> QED BY <1>1, <1>3, <1>4, <1>5, <2>3
          DEF ImageInv, OnImage, WrittenLanded, LandedWritten, NotFailedBefore,
              AtItsRecord, WithinRecords, Written, TakePCs
<1>6. CASE pump'.result # "written" /\ effect' = effect
  <2>1. ~ImageLanded
    BY <1>1 DEF ImageInv, LandedWritten, Written, TakePCs
  <2>2. ~ImageLanded'
    BY <1>1, <1>3, <1>6, <2>1 DEF ImageLanded
  <2> QED BY <1>1, <1>3, <1>4, <1>6, <2>2
          DEF ImageInv, OnImage, WrittenLanded, LandedWritten, NotFailedBefore,
              AtItsRecord, WithinRecords, Written, TakePCs
<1> QED BY <1>1, <1>5, <1>6

LEMMA LeavesImageImage ==
    ASSUME SafetyInv, ImageInv, LeavesImage
    PROVE  ImageInv'
<1>1. /\ pump.pc = "took" /\ (Written => Gone) /\ ledger' = ledger /\ effect' = effect
      /\ pump'.pc = "idle" /\ pump'.result = "none"
  BY DEF LeavesImage
<1>2. ImageLanded' <=> ImageLanded
  BY <1>1 DEF ImageLanded, Front
<1>3. ImageLanded => ~Releasable(ledger, ledger.oldest)
  <2>1. ImageLanded => Written
    BY <1>1 DEF ImageInv, LandedWritten, TakePCs
  <2>2. AtSpan => (~Gone <=> Releasable(ledger, ledger.oldest))
    BY FrontFacts
  <2>3. AtSpan
    BY <1>1, FrontFacts DEF TakePCs
  <2> QED BY <1>1, <2>1, <2>2, <2>3
<1>4. Front'.applied <= Len(Front'.records)
  BY <1>1 DEF ImageInv, WithinRecords, Front
<1> QED BY <1>1, <1>2, <1>3, <1>4, ImageAfter DEF TakePCs

LEMMA PumpImage ==
    ASSUME SafetyInv, ImageInv, PumpStep
    PROVE  ImageInv'
<1>1. CASE Performs
  <2>1. AtSpan /\ ledger' = Applied /\ Front.applied < Len(Front.records)
        /\ pump'.pc = "apply" /\ pump'.result = "none"
        /\ (effect' = effect \/ effect'.index = Front.applied + 1)
    BY <1>1 DEF Performs
  <2> QED BY <2>1, AppliedImage
<1>2. CASE CountsImage
  <2>1. AtSpan /\ Front.applied < Len(Front.records)
    BY <1>2, FrontFacts, AtWork DEF CountsImage, Written, TakePCs, AccessPCs
  <2>2. ledger' = Applied /\ effect' = effect
        /\ pump'.pc = "apply" /\ pump'.result = "none"
    BY <1>2 DEF CountsImage
  <2> QED BY <2>1, <2>2, AppliedImage
<1> QED BY <1>1, <1>2, RestsImage, SpoilsImage, RetiresImage, ReplaysImage,
           TakesImageImage, WritesImageImage, LeavesImageImage DEF PumpStep

\* A call while the front is at work or has had its last effect finds it
\* settled, and leaves it as it is.
LEMMA GuestImage ==
    ASSUME SafetyInv, ImageInv, Calls, Stays, Continues(ledger', ledger)
    PROVE  ImageInv'
<1>1. /\ pump' = pump /\ effect' = effect /\ pump.pc # "fence"
      /\ ledger'.oldest = ledger.oldest /\ ledger'.closed = ledger.closed
      /\ ledger.oldest \in Live(ledger')
  BY DEF Calls, Grown, MutexFree, UnlockedPCs, Window, Shaped, Live
<1>2. /\ ledger.oldest \in Settled(ledger) => Front' = Front
      /\ ledger.oldest \in Settled(ledger) \/ Untouched(Front')
  BY <1>1 DEF Stays, Safe, Sound, Since, Front
<1>3. AtSpan' <=> AtSpan
  BY <1>1 DEF AtSpan
<1>4. AtSpan => Front' = Front /\ Rec' = Rec
  <2>1. AtSpan => Front' = Front
    BY <1>2, FrontSettled
  <2> QED BY <1>1, <2>1 DEF AtSpan, Rec, Index, Cur, Front
<1>5. effect.span = ledger.oldest => Front' = Front
  <2>1. effect.span = ledger.oldest => ledger.oldest \in Settled(ledger)
    BY SafetyFacts DEF SafetyInv, EffectsBehind, LastEffect, Settled, Front
  <2> QED BY <1>2, <2>1
<1>6. ImageLanded' <=> ImageLanded
  <2>1. effect.span = ledger.oldest => (ImageLanded' <=> ImageLanded)
    BY <1>1, <1>5 DEF ImageLanded
  <2> QED BY <1>1, <2>1 DEF ImageLanded
<1>7. Releasable(ledger', ledger'.oldest) => Releasable(ledger, ledger.oldest)
  BY <1>1 DEF Continues, Failing, Releasable
<1>8. ImageLanded => Front' = Front
  BY <1>5 DEF ImageLanded
<1>9. OnImage' /\ AtItsRecord'
  BY <1>1, <1>3, <1>4 DEF ImageInv, OnImage, AtItsRecord
<1>10. WrittenLanded' /\ LandedWritten'
  BY <1>1, <1>6, <1>7, <1>8 DEF ImageInv, WrittenLanded, LandedWritten, Written
<1>11. NotFailedBefore'
  <2>1. \A id \in Live(ledger) : id >= ledger.oldest
    BY FrontFacts DEF Live
  <2> QED BY <1>1, <2>1 DEF ImageInv, NotFailedBefore, Continues, Failing
<1>12. WithinRecords'
  <2>1. CASE Front' = Front
    BY <2>1 DEF ImageInv, WithinRecords
  <2>2. CASE Untouched(Front')
    <3>1. Front' \in SpanTo(clock')
      BY <1>1 DEF Stays, Safe, Typed, Front
    <3>2. Len(Front'.records) \in Nat
      BY <3>1, SameLen
    <3> QED BY <2>2, <3>2 DEF Untouched, WithinRecords
  <2> QED BY <1>2, <2>1, <2>2
<1> QED BY <1>9, <1>10, <1>11, <1>12 DEF ImageInv

LEMMA DropImage ==
    ASSUME SafetyInv, ImageInv, DropEpoch, SafetyInv'
    PROVE  ImageInv'
<1>1. /\ pump' = pump /\ effect' = effect /\ pump.pc # "fence"
      /\ pump.pc \notin TakePCs
      /\ ledger'.oldest = ledger.nextSpan /\ ledger'.nextSpan = ledger.nextSpan + 1
  BY FrontFacts, SafetyFacts, DropWindow DEF DropEpoch, MutexFree, UnlockedPCs
<1>2. /\ ledger.nextSpan \in Nat /\ ledger.oldest \in Nat
      /\ ledger.oldest < ledger.nextSpan /\ pump.span \in Nat
      /\ pump.pc \notin {"idle", "head"} => pump.span <= ledger.oldest
  BY SafetyFacts DEF Window, Shaped, PumpOwns, PumpInWindow
<1>3. ~AtSpan' /\ ~ImageLanded'
  BY <1>1, <1>2, FrontFacts DEF AtSpan, ImageLanded
<1>4. pump.result = "none"
  BY <1>1 DEF ImageInv, AtItsRecord, TakePCs
<1>5. Front'.applied <= Len(Front'.records)
  <2>1. ledger'.oldest \in Live(ledger') /\ ledger'.oldest = Back(ledger')
    BY <1>1, <1>2 DEF Live, Back
  <2>2. Window(ledger') /\ Typed(ledger', clock')
    BY DEF SafetyInv, TypeInv, PumpOwns, Clocked
  <2>3. /\ Front'.applied = 0 /\ Front' \in SpanTo(clock')
    BY <2>1, <2>2 DEF Window, OpenAtBack, Typed, Front
  <2>4. Len(Front'.records) \in Nat
    BY <2>3, SameLen
  <2> QED BY <2>3, <2>4
<1> QED BY <1>1, <1>3, <1>4, <1>5, ImageAfter

LEMMA CloseImage ==
    ASSUME SafetyInv, ImageInv, Close
    PROVE  ImageInv'
<1>1. /\ pump' = pump /\ effect' = effect /\ pump.pc # "fence"
      /\ pump.pc \notin TakePCs
      /\ ledger'.oldest = ledger.oldest /\ ledger'.spans = ledger.spans
      /\ ledger'.closed
  BY FrontFacts, FieldNames DEF Close, MutexFree, UnlockedPCs
<1>2. Rec' = Rec /\ Front' = Front /\ (AtSpan' <=> AtSpan)
  BY <1>1 DEF Rec, Index, Cur, Front, AtSpan
<1>3. ~Releasable(ledger', ledger'.oldest)
  BY <1>1 DEF Releasable
<1>4. Front'.applied <= Len(Front'.records)
  BY <1>2 DEF ImageInv, WithinRecords
<1>5. pump.result = "none"
  BY <1>1 DEF ImageInv, AtItsRecord, TakePCs
<1> QED BY <1>1, <1>2, <1>3, <1>4, <1>5, ImageAfter DEF ImageInv, OnImage, AtItsRecord

LEMMA ImageSame ==
    ASSUME ImageInv, UNCHANGED <<ledger, pump, effect>>
    PROVE  ImageInv'
<1>1. Rec' = Rec /\ Front' = Front /\ (AtSpan' <=> AtSpan)
      /\ (ImageLanded' <=> ImageLanded)
  BY DEF Rec, Index, Cur, Front, AtSpan, ImageLanded
<1> QED BY <1>1 DEF ImageInv, OnImage, WrittenLanded, LandedWritten, NotFailedBefore,
                    AtItsRecord, WithinRecords, Written

LEMMA ImageStarts ==
    ASSUME Init
    PROVE  ImageInv
<1>1. /\ pump.pc = "idle" /\ pump.result = "none" /\ effect.span = 0
      /\ ledger.oldest = 1 /\ Front = EmptySpan
  BY DEF Init, NewPump, NewLedger, Front
<1>2. ~ImageLanded
  BY <1>1 DEF ImageLanded
<1>3. Front.applied <= Len(Front.records)
  BY <1>1 DEF EmptySpan
<1> QED BY <1>1, <1>2, <1>3
        DEF ImageInv, OnImage, WrittenLanded, LandedWritten, NotFailedBefore,
            AtItsRecord, WithinRecords, Written, TakePCs, AtSpan

LEMMA GuestStepsStay ==
    ASSUME SafetyInv, GuestSteps
    PROVE  Calls /\ Stays /\ Continues(ledger', ledger)
<1>1. Now /\ Window(ledger)
  BY SafetyFacts
<1>2. Calls /\ Continues(ledger', ledger)
  BY <1>1, GuestContinues
<1>3. Stays
  BY <1>1, GuestStays, DetachedStays, FailureStays DEF GuestSteps
<1> QED BY <1>2, <1>3

LEMMA StepImage ==
    ASSUME SafetyInv, ImageInv, [Next]_vars
    PROVE  ImageInv'
<1>1. CASE GuestSteps
  BY <1>1, GuestStepsStay, GuestImage
<1>2. CASE TeardownOps
  <2>1. SafetyInv'
    BY StepSafe
  <2>2. CASE DiscardGuestImages
    BY <2>2, ImageSame DEF DiscardGuestImages
  <2> QED BY <1>2, <2>1, <2>2, DropImage, CloseImage DEF TeardownOps
<1>3. CASE HolderOps \/ Environment
  BY <1>3, ImageSame DEF HolderOps, BeginImageWrites, EndImageWrites, Environment,
     HostCompletes, HandlerClearsMask, GuestWritesWord
<1>4. CASE PumpNext
  BY <1>4, PumpSeen, PumpImage
<1>5. CASE UNCHANGED vars
  BY <1>5, ImageSame DEF vars
<1> QED BY <1>1, <1>2, <1>3, <1>4, <1>5 DEF Next, GuestSteps

-----------------------------------------------------------------------------
(* The program the ledger stands for.                                      *)

LEMMA PromisedFields ==
    ASSUME NEW c, NEW s \in SpanTo(c)
    PROVE  /\ Len(s.records) \in Nat /\ DOMAIN s.records = 1 .. Len(s.records)
           /\ Len(Promised(s).ops) = Len(s.records)
           /\ \A i \in 1 .. Len(s.records) : Promised(s).ops[i] = Op(s.records[i])
           /\ Promised(s).state = "closed" <=> Closed(s)
           /\ Promised(s).state = "deferred" <=> ~Closed(s) /\ s.deferred # NoSegment
           /\ Promised(s).state = "open" <=> IsOpen(s)
           /\ Promised(s).state \in {"open", "deferred", "closed"}
           /\ Promised(s).pointer = s.kicked
<1> DEFINE recs == s.records
           n == Len(recs)
           ops == [i \in DOMAIN recs |-> Op(recs[i])]
<1>1. n \in Nat /\ DOMAIN recs = 1 .. n
  <2>1. recs \in Seq(RecordTo(c))
    BY DEF SpanTo
  <2> QED BY <2>1, LenProperties
<1>2. Len(ops) = n
  <2> HIDE DEF recs, n
  <2>1. DOMAIN ops = 1 .. n
    BY <1>1
  <2> DEFINE T == {Op(recs[i]) : i \in 1 .. n}
  <2>2. ops \in [1 .. n -> T]
    BY <1>1
  <2> HIDE DEF T, ops
  <2>3. ops \in Seq(T)
    BY <1>1, <2>2, SeqDef
  <2>4. DOMAIN ops = 1 .. Len(ops) /\ Len(ops) \in Nat
    BY <2>3, LenProperties
  <2> DEFINE m == Len(ops)
  <2>5. m \in Nat /\ n \in Nat /\ 1 .. m = 1 .. n
    BY <1>1, <2>1, <2>4
  <2> HIDE DEF m
  <2>6. m > 0 => m \in 1 .. n
    BY <2>5
  <2>7. n > 0 => n \in 1 .. m
    BY <2>5
  <2>8. m = n
    BY <2>5, <2>6, <2>7
  <2> QED BY <2>8 DEF m
<1>3. Promised(s).ops = ops /\ Promised(s).pointer = s.kicked
      /\ Promised(s).state = IF Closed(s) THEN "closed"
                             ELSE IF s.deferred # NoSegment THEN "deferred" ELSE "open"
  BY DEF Promised
<1>4. \A i \in 1 .. n : ops[i] = Op(recs[i])
  BY <1>1
<1>5. /\ Promised(s).state = "closed" <=> Closed(s)
      /\ Promised(s).state = "deferred" <=> ~Closed(s) /\ s.deferred # NoSegment
      /\ Promised(s).state = "open" <=> IsOpen(s)
      /\ Promised(s).state \in {"open", "deferred", "closed"}
  BY <1>3 DEF IsOpen
<1> QED BY <1>1, <1>2, <1>3, <1>4, <1>5

LEMMA AlikePromised ==
    ASSUME NEW new, NEW old, Alike(new, old)
    PROVE  Promised(new) = Promised(old)
BY DEF Alike, Promised, Closed

LEMMA EmptyPromised ==
    Promised(EmptySpan) = Progress!NewSpan
<1>1. EmptySpan.records = <<>> /\ EmptySpan.kicked = 0 /\ EmptySpan.deferred = NoSegment
      /\ EmptySpan.sealed = FALSE
  BY DEF EmptySpan
<1>2. [i \in DOMAIN <<>> |-> Op(EmptySpan.records[i])] = <<>>
  OBVIOUS
<1> QED BY <1>1, <1>2 DEF Promised, Closed, Progress!NewSpan

LEMMA SpanTurns ==
    ASSUME NEW c, NEW old \in SpanTo(c), NEW d, NEW new \in SpanTo(d),
           NEW k \in Int, Turns(new, old),
           \A i \in DOMAIN old.records : i <= k => Op(new.records[i]) = Op(old.records[i])
    PROVE  Progress!SpanEvolves(Promised(old), Promised(new), k)
<1> DEFINE p == Promised(old)
           q == Promised(new)
<1>1. /\ Len(old.records) \in Nat /\ DOMAIN old.records = 1 .. Len(old.records)
      /\ Len(p.ops) = Len(old.records)
      /\ \A i \in 1 .. Len(old.records) : p.ops[i] = Op(old.records[i])
      /\ p.state = "closed" <=> Closed(old)
      /\ p.state = "deferred" <=> ~Closed(old) /\ old.deferred # NoSegment
      /\ p.state = "open" <=> IsOpen(old)
      /\ p.state \in {"open", "deferred", "closed"}
      /\ p.pointer = old.kicked
  BY PromisedFields
<1>2. /\ Len(new.records) \in Nat /\ DOMAIN new.records = 1 .. Len(new.records)
      /\ Len(q.ops) = Len(new.records)
      /\ \A i \in 1 .. Len(new.records) : q.ops[i] = Op(new.records[i])
      /\ q.state = "closed" <=> Closed(new)
      /\ q.state = "deferred" <=> ~Closed(new) /\ new.deferred # NoSegment
      /\ q.state = "open" <=> IsOpen(new)
      /\ q.state \in {"open", "deferred", "closed"}
      /\ q.pointer = new.kicked
  BY PromisedFields
<1> HIDE DEF p, q
<1>3. /\ DOMAIN old.records \subseteq DOMAIN new.records
      /\ \A i \in DOMAIN old.records : Evolves(new.records[i], old.records[i])
      /\ ~IsOpen(old) => DOMAIN new.records = DOMAIN old.records
      /\ old.deferred # NoSegment => new.deferred = old.deferred
      /\ Closed(old) => Closed(new) /\ new.kicked = old.kicked
  BY DEF Turns, Extends
<1>4. Len(new.records) >= Len(old.records)
  BY <1>1, <1>2, <1>3
<1>5. ~IsOpen(old) => Len(new.records) = Len(old.records)
  BY <1>1, <1>2, <1>3
<1>6. <<p.state, q.state>> \in
          {<<"open", "open">>, <<"open", "deferred">>, <<"open", "closed">>,
           <<"deferred", "deferred">>, <<"deferred", "closed">>,
           <<"closed", "closed">>}
  <2>1. /\ p.state = "closed" => q.state = "closed"
        /\ p.state = "deferred" => q.state \in {"deferred", "closed"}
    BY <1>1, <1>2, <1>3 DEF IsOpen
  <2> QED BY <1>1, <1>2, <2>1
<1>7. ASSUME NEW i \in 1 .. Len(p.ops)
      PROVE  IF i <= k THEN q.ops[i] = p.ops[i]
                       ELSE Progress!OpEvolves(p.ops[i], q.ops[i])
  <2>1. /\ i \in DOMAIN old.records /\ i \in 1 .. Len(old.records)
        /\ i \in 1 .. Len(new.records)
    BY <1>1, <1>2, <1>3, <1>7
  <2>2. p.ops[i] = Op(old.records[i]) /\ q.ops[i] = Op(new.records[i])
    BY <1>1, <1>2, <2>1
  <2>3. Evolves(new.records[i], old.records[i])
    BY <1>3, <2>1
  <2> QED BY <2>1, <2>2, <2>3 DEF Evolves
<1>8. /\ Len(q.ops) >= Len(p.ops)
      /\ p.state # "open" => Len(q.ops) = Len(p.ops)
      /\ p.state = "closed" => q.pointer = p.pointer
  BY <1>1, <1>2, <1>3, <1>4, <1>5
<1>9. Progress!SpanEvolves(p, q, k)
  BY <1>6, <1>7, <1>8 DEF Progress!SpanEvolves
<1> QED BY <1>9 DEF p, q

LEMMA ProgramFacts ==
    ASSUME SafetyInv
    PROVE  /\ DOMAIN Program = Live(ledger)
           /\ \A id \in Live(ledger) : Program[id] = Promised(ledger.spans[id])
                                       /\ ledger.spans[id] \in SpanTo(clock)
           /\ ledger.oldest \in Nat /\ ledger.nextSpan \in Nat
           /\ ledger.oldest < ledger.nextSpan
           /\ Back(ledger) \in Live(ledger) /\ Back(ledger) + 1 = ledger.nextSpan
           /\ Progress!Last = Back(ledger) /\ Progress!Oldest = Promised(Front)
<1>1. /\ ledger.oldest \in Nat /\ ledger.nextSpan \in Nat
      /\ ledger.oldest < ledger.nextSpan
  BY SafetyFacts DEF Window, Shaped
<1>2. Back(ledger) \in Live(ledger) /\ Back(ledger) + 1 = ledger.nextSpan
  BY <1>1 DEF Back, Live
<1>3. DOMAIN Program = Live(ledger)
      /\ \A id \in Live(ledger) : Program[id] = Promised(ledger.spans[id])
  BY DEF Program
<1>4. \A id \in Live(ledger) : ledger.spans[id] \in SpanTo(clock)
  BY SafetyFacts DEF Typed
<1>5. Progress!Last = Back(ledger)
  <2>1. \A id \in Live(ledger) : id <= Back(ledger) /\ id \in Int
    BY <1>1 DEF Live, Back
  <2>2. \A id \in Live(ledger) :
           (\A other \in Live(ledger) : other <= id) <=> id = Back(ledger)
    BY <1>1, <1>2, <2>1
  <2> QED BY <1>2, <1>3, <2>2 DEF Progress!Last
<1>6. Progress!Oldest = Promised(Front)
  BY <1>3, SafetyFacts DEF Progress!Oldest, Front
<1> QED BY <1>1, <1>2, <1>3, <1>4, <1>5, <1>6

-----------------------------------------------------------------------------
(* Steps of GuestProgress.                                                 *)

\* The program as the guest's threads and the failures change it.
LEMMA ExtendStep ==
    ASSUME SafetyInv, SafetyInv', ImageInv, ~ledger.closed,
           ledger'.closed = ledger.closed, ledger'.oldest = ledger.oldest,
           ledger'.nextSpan \in {ledger.nextSpan, ledger.nextSpan + 1},
           \A id \in Live(ledger) : Turns(ledger'.spans[id], ledger.spans[id]),
           ledger'.nextSpan = ledger.nextSpan + 1
              => ledger'.spans[ledger.nextSpan] = EmptySpan,
           \A i \in 1 .. Performed : Op(Front'.records[i]) = Op(Front.records[i]),
           Performed' = Performed, Memory' = Memory,
           Frozen' = Frozen \/ (Frozen = 0 /\ Frozen' \in Live(ledger))
    PROVE  Progress!Extend
<1>1. /\ DOMAIN Program = Live(ledger)
      /\ \A id \in Live(ledger) : Program[id] = Promised(ledger.spans[id])
                                  /\ ledger.spans[id] \in SpanTo(clock)
      /\ ledger.oldest \in Nat /\ ledger.nextSpan \in Nat
      /\ ledger.oldest < ledger.nextSpan
      /\ Back(ledger) \in Live(ledger) /\ Back(ledger) + 1 = ledger.nextSpan
      /\ Progress!Last = Back(ledger)
  BY ProgramFacts
<1>2. /\ DOMAIN Program' = Live(ledger')
      /\ \A id \in Live(ledger') : Program'[id] = Promised(ledger'.spans[id])
                                   /\ ledger'.spans[id] \in SpanTo(clock')
  <2>1. Typed(ledger', clock')
    BY DEF SafetyInv, TypeInv, Clocked
  <2> QED BY <2>1 DEF Program, Typed
<1>3. Live(ledger) \subseteq Live(ledger')
  BY <1>1 DEF Live
<1>4. /\ ledger'.nextSpan = ledger.nextSpan => Live(ledger') = Live(ledger)
      /\ ledger'.nextSpan = ledger.nextSpan + 1
            => Live(ledger') = Live(ledger) \cup {ledger.nextSpan}
  BY <1>1 DEF Live
<1>5. Program'[Back(ledger)].state = "open" <=> ledger'.nextSpan = ledger.nextSpan
  <2> DEFINE s == ledger'.spans[Back(ledger)]
  <2>1. s \in SpanTo(clock') /\ Program'[Back(ledger)] = Promised(s)
    BY <1>1, <1>2, <1>3
  <2>2. Program'[Back(ledger)].state = "open" <=> IsOpen(s)
    BY <2>1, PromisedFields
  <2>3. Window(ledger')
    BY DEF SafetyInv, TypeInv, PumpOwns
  <2>4. IF Back(ledger) = Back(ledger') THEN IsOpen(s) ELSE ~IsOpen(s)
    BY <1>1, <1>3, <2>3 DEF Window, OpenAtBack, IsOpen
  <2>5. Back(ledger) = Back(ledger') <=> ledger'.nextSpan = ledger.nextSpan
    BY <1>1 DEF Back
  <2> QED BY <2>2, <2>4, <2>5
<1>6. DOMAIN Program' = IF Program'[Progress!Last].state = "open" THEN DOMAIN Program
                        ELSE DOMAIN Program \cup {Progress!Last + 1}
  BY <1>1, <1>2, <1>4, <1>5
<1>7. ASSUME NEW id \in DOMAIN Program
      PROVE  Progress!SpanEvolves(Program[id], Program'[id],
                IF id = ledger.oldest THEN Performed ELSE 0)
  <2> DEFINE k == IF id = ledger.oldest THEN Performed ELSE 0
             old == ledger.spans[id]
             new == ledger'.spans[id]
  <2>1. /\ id \in Live(ledger) /\ id \in Live(ledger')
        /\ old \in SpanTo(clock) /\ new \in SpanTo(clock')
        /\ Program[id] = Promised(old) /\ Program'[id] = Promised(new)
    BY <1>1, <1>2, <1>3, <1>7
  <2>2. k \in Int
    BY FrontFacts, PerformedWithin
  <2>3. \A i \in DOMAIN old.records : i <= k => Op(new.records[i]) = Op(old.records[i])
    <3>1. DOMAIN old.records = 1 .. Len(old.records) /\ Len(old.records) \in Nat
      BY <2>1, PromisedFields
    <3>2. CASE id = ledger.oldest
      <4>1. /\ old = Front /\ new = Front' /\ k = Performed
        BY <3>2 DEF Front
      <4>2. \A i \in 1 .. Len(old.records) : i <= k => i \in 1 .. Performed
        BY <2>2, <3>1, <4>1
      <4> QED BY <3>1, <4>1, <4>2
    <3>3. CASE id # ledger.oldest
      BY <3>1, <3>3
    <3> QED BY <3>2, <3>3
  <2>4. Turns(new, old)
    BY <2>1
  <2> HIDE DEF k, old, new
  <2>5. Progress!SpanEvolves(Promised(old), Promised(new), k)
    BY <2>1, <2>2, <2>3, <2>4, SpanTurns
  <2> QED BY <2>1, <2>5 DEF k
<1>8. \A id \in DOMAIN Program' \ DOMAIN Program : Program'[id] = Progress!NewSpan
  <2>1. ASSUME NEW id \in DOMAIN Program' \ DOMAIN Program
        PROVE  Program'[id] = Progress!NewSpan
    <3>1. id = ledger.nextSpan /\ ledger'.nextSpan = ledger.nextSpan + 1
          /\ id \in Live(ledger')
      BY <1>1, <1>2, <1>4, <2>1
    <3>2. Program'[id] = Promised(EmptySpan)
      BY <1>2, <3>1
    <3> QED BY <3>2, EmptyPromised
  <2> QED BY <2>1
<1>9. Frozen' = Frozen \/ (Frozen = 0 /\ Frozen' \in DOMAIN Program)
  BY <1>1
<1> QED BY <1>6, <1>7, <1>8, <1>9 DEF Progress!Extend

\* A step the guest does not see.
StutterStep == UNCHANGED <<Program, ledger.oldest, Performed, Memory, Frozen, ledger.closed>>

LEMMA UnseenProgram ==
    ASSUME Unseen(ledger', ledger)
    PROVE  Program' = Program
<1>1. Live(ledger') = Live(ledger)
  BY DEF Unseen, Live
<1>2. \A id \in Live(ledger) : Promised(ledger'.spans[id]) = Promised(ledger.spans[id])
  BY AlikePromised DEF Unseen
<1> QED BY <1>1, <1>2 DEF Program

LEMMA UnseenStutters ==
    ASSUME Unseen(ledger', ledger), Performed' = Performed, Memory' = Memory,
           Frozen' = Frozen
    PROVE  StutterStep
BY UnseenProgram DEF Unseen, StutterStep

\* The next operation is performed.
LEMMA PerformStep ==
    ASSUME SafetyInv, ~ledger.closed, Frozen = 0 \/ ledger.oldest < Frozen, AtSpan,
           pump.pc # "flush", Performed = Front.applied,
           Front.applied < Len(Front.records),
           \/ OpKind(NextRecord) \in {"nothing", "image"} /\ Memory' = Memory
           \/ /\ OpKind(NextRecord) # "nothing"
              /\ Memory' = [Memory EXCEPT ![OpKind(NextRecord)] = Op(NextRecord).value],
           Unseen(ledger', ledger), Performed' = Performed + 1, Frozen' = Frozen
    PROVE  Progress!Perform
<1>1. Progress!Oldest = Promised(Front)
  BY ProgramFacts
<1>2. Front \in SpanTo(clock) /\ Front.applied \in Nat /\ Len(Front.records) \in Nat
      /\ DOMAIN Front.records = 1 .. Len(Front.records)
      /\ Closed(Front) /\ Front.pending = 0
  BY SafetyFacts, FrontFacts, AtWork
<1>3. Promised(Front).state = "closed" /\ Len(Promised(Front).ops) = Len(Front.records)
      /\ Promised(Front).ops[Performed + 1] = Op(NextRecord)
  <2>1. Performed + 1 \in 1 .. Len(Front.records)
    BY <1>2
  <2> QED BY <1>2, <2>1, PromisedFields DEF NextRecord
<1>4. Op(NextRecord).kind = OpKind(NextRecord) /\ Op(NextRecord).owed = NextRecord.pending
  BY DEF Op
<1>5. ~NextRecord.pending
  <2>1. Due(Front) = {}
    BY <1>2, SafetyFacts, NoneDue DEF Front, Safe, Sound
  <2>2. Front.applied + 1 \in DOMAIN Front.records
    BY <1>2
  <2> QED BY <2>1, <2>2 DEF Due, NextRecord
<1>6. Progress!Running
  BY DEF Progress!Running
<1>7. Program' = Program /\ ledger'.oldest = ledger.oldest /\ ledger'.closed = ledger.closed
  BY UnseenProgram DEF Unseen
<1> QED BY <1>1, <1>2, <1>3, <1>4, <1>5, <1>6, <1>7 DEF Progress!Perform

-----------------------------------------------------------------------------
(* Every step of Pump is a step of GuestProgress, or is not seen.          *)

LEMMA FrozenFacts ==
    ASSUME SafetyInv
    PROVE  /\ ledger.failedSpan \in Nat /\ ledger.oldest \in Nat
           /\ pump.pc \notin TakePCs => Frozen = ledger.failedSpan
           /\ Releasable(ledger, ledger.oldest) =>
                 /\ Frozen = ledger.failedSpan /\ ~ledger.closed
                 /\ Frozen = 0 \/ ledger.oldest < Frozen
<1>1. ledger.failedSpan \in Nat /\ ledger.oldest \in Nat
  BY SafetyFacts DEF Typed, Others
<1> QED BY <1>1 DEF Frozen, TakePCs, Releasable

LEMMA FrozenLater ==
    ASSUME \/ pump'.pc \notin TakePCs
           \/ ledger'.failedSpan = 0
           \/ ledger'.failedSpan # ledger'.oldest
    PROVE  Frozen' = ledger'.failedSpan
BY DEF Frozen, TakePCs

LEMMA RestsStep ==
    ASSUME SafetyInv, ImageInv, Rests
    PROVE  StutterStep
<1>1. /\ Unseen(ledger', ledger) /\ Front'.applied = Front.applied /\ Memory' = Memory
      /\ ledger'.oldest = ledger.oldest /\ Front'.records = Front.records
      /\ ledger'.failedSpan = ledger.failedSpan
  BY UnseenFront DEF Rests, Unseen
<1>2. ImageLanded' <=> ImageLanded
  BY <1>1 DEF Rests, ImageLanded, NextRecord
<1>3. Performed' = Performed
  BY <1>1, <1>2 DEF Performed
<1>4. Frozen' = Frozen
  BY <1>1, FrozenFacts, FrozenLater DEF Rests, Leaves
<1> QED BY <1>1, <1>3, <1>4, UnseenStutters

LEMMA PerformsStep ==
    ASSUME SafetyInv, ImageInv, Performs
    PROVE  Progress!Perform
<1>1. Releasable(ledger, ledger.oldest) /\ Performed = Front.applied
  BY NotLandedAtSpan, FrontFacts DEF Performs
<1>2. /\ Unseen(ledger', ledger) /\ Performed' = Performed + 1
      /\ ledger'.failedSpan = ledger.failedSpan
  BY <1>1, AppliedLater DEF Performs, Unseen
<1>3. Frozen' = Frozen
  BY <1>1, <1>2, FrozenFacts, FrozenLater DEF Performs, TakePCs
<1> QED BY <1>1, <1>2, <1>3, FrozenFacts, PerformStep DEF Performs

LEMMA CountsImageStep ==
    ASSUME SafetyInv, ImageInv, CountsImage
    PROVE  StutterStep
<1>1. pump.pc \in TakePCs /\ AtSpan /\ Releasable(ledger, ledger.oldest)
      /\ Performed = Front.applied + 1
  <2>1. ImageLanded
    BY DEF CountsImage, ImageInv, WrittenLanded
  <2> QED BY <2>1, FrontFacts, PerformedWithin DEF CountsImage, Written, TakePCs
<1>2. /\ Unseen(ledger', ledger) /\ Performed' = Performed
      /\ ledger'.failedSpan = ledger.failedSpan /\ Memory' = Memory
  BY <1>1, AppliedLater DEF CountsImage, Unseen
<1>3. Frozen' = Frozen
  BY <1>1, <1>2, FrozenFacts, FrozenLater DEF CountsImage, TakePCs
<1> QED BY <1>2, <1>3, UnseenStutters

LEMMA TakesImageStep ==
    ASSUME SafetyInv, ImageInv, TakesImage
    PROVE  StutterStep
<1>1. /\ ledger' = ledger /\ effect' = effect /\ Memory' = Memory
      /\ Releasable(ledger, ledger.oldest)
  BY FrontIsUsed, FrontFacts DEF TakesImage
<1>2. Unseen(ledger', ledger) /\ Performed' = Performed
  BY <1>1, UnseenSame DEF Performed, ImageLanded, Front
<1>3. Frozen' = Frozen
  <2>1. ledger'.failedSpan = 0 \/ ledger'.failedSpan # ledger'.oldest
    BY <1>1, FrozenFacts
  <2> QED BY <1>1, <2>1, FrozenFacts, FrozenLater
<1> QED BY <1>1, <1>2, <1>3, UnseenStutters

LEMMA WritesImageStep ==
    ASSUME SafetyInv, ImageInv, ImageInv', WritesImage
    PROVE  Progress!Perform \/ StutterStep
<1>1. /\ pump.pc = "take" /\ pump'.pc = "took" /\ ledger' = ledger
      /\ Unseen(ledger', ledger) /\ Front' = Front
  BY UnseenSame DEF WritesImage, Front
<1>2. Frozen' = Frozen
  BY <1>1 DEF Frozen
<1>3. CASE pump'.result # "written" /\ effect' = effect /\ Memory' = Memory
  <2>1. Performed' = Performed
    BY <1>1, <1>3 DEF Performed, ImageLanded
  <2> QED BY <1>1, <1>2, <1>3, <2>1, UnseenStutters
<1>4. CASE pump'.result = "written" /\ Memory' = [Memory EXCEPT !.image = pump.mark]
  <2>1. /\ AtSpan /\ Front.applied < Len(Front.records) /\ Rec = NextRecord
        /\ ~Rec.skipped /\ ~ledger.closed
    BY <1>1, FrontFacts, FrontIsUsed, AtWork DEF TakePCs, AccessPCs, NextRecord
  <2>2. Rec.kind = "Resolve" /\ ~Rec.hostOnly /\ pump.mark = Rec.mark
    BY <1>1, <2>1 DEF ImageInv, OnImage
  <2>3. OpKind(NextRecord) = "image" /\ Op(NextRecord).value = pump.mark
    BY <2>1, <2>2 DEF OpKind, Op
  <2>4. Performed = Front.applied
    <3>1. ~ImageLanded
      BY <1>1 DEF ImageInv, LandedWritten, Written, TakePCs
    <3> QED BY <3>1, PerformedWithin
  <2>5. Performed' = Performed + 1
    <3>1. ImageLanded'
      BY <1>1, <1>4 DEF ImageInv, WrittenLanded, Written
    <3> QED BY <1>1, <2>4, <3>1 DEF Performed
  <2>6. Frozen = 0 \/ ledger.oldest < Frozen
    <3>1. ledger.failedSpan = 0 \/ ledger.failedSpan >= ledger.oldest
      BY <1>1 DEF ImageInv, NotFailedBefore, TakePCs
    <3> QED BY <1>1, <3>1, FrozenFacts DEF Frozen
  <2>7. Memory' = [Memory EXCEPT ![OpKind(NextRecord)] = Op(NextRecord).value]
    BY <1>4, <2>3
  <2>8. OpKind(NextRecord) # "nothing" /\ pump.pc # "flush"
    BY <1>1, <2>3
  <2>9. Progress!Perform
    BY <1>1, <1>2, <2>1, <2>4, <2>5, <2>6, <2>7, <2>8, PerformStep
  <2> QED BY <2>9
<1> QED BY <1>3, <1>4 DEF WritesImage

LEMMA RetiresStep ==
    ASSUME SafetyInv, ImageInv, ImageInv', Retires
    PROVE  Progress!Retire
<1>1. /\ pump.pc = "release" /\ pump'.pc = "head"
      /\ ledger'.oldest = ledger.oldest + 1 /\ ledger'.nextSpan = ledger.nextSpan
      /\ ledger'.closed = ledger.closed /\ ledger'.failedSpan = ledger.failedSpan
      /\ effect'.span \in {effect.span, ledger.oldest}
      /\ \A id \in Live(ledger') : ledger'.spans[id] = ledger.spans[id]
  BY DEF Retires
<1>2. /\ AtSpan /\ ledger.oldest \in Settled(ledger) /\ ledger.oldest < Back(ledger)
      /\ Front.applied = Len(Front.records) /\ ~Front.unowned
      /\ Releasable(ledger, ledger.oldest)
  BY <1>1, ReleaseFacts
<1>3. /\ ledger.oldest \in Nat /\ ledger.nextSpan \in Nat
      /\ Progress!Oldest = Promised(Front) /\ DOMAIN Program = Live(ledger)
      /\ \A id \in Live(ledger) : Program[id] = Promised(ledger.spans[id])
  BY ProgramFacts
<1>4. Live(ledger') = Live(ledger) \ {ledger.oldest} /\ ledger'.oldest \in Live(ledger')
  BY <1>1, <1>2, <1>3 DEF Live, Back
<1>5. Program' = [id \in DOMAIN Program \ {ledger.oldest} |-> Program[id]]
  <2>1. \A id \in Live(ledger') : Promised(ledger'.spans[id]) = Program[id]
    BY <1>1, <1>3, <1>4
  <2> QED BY <1>3, <1>4, <2>1 DEF Program
<1>6. Performed = Front.applied
  BY <1>1, <1>2, NotLanded DEF Written
<1>7. Performed' = 0
  <2>1. Front'.applied = 0
    <3>1. Front' = ledger.spans[ledger'.oldest]
      BY <1>1, <1>4 DEF Front
    <3>2. Untouched(ledger.spans[ledger'.oldest])
      BY <1>4, SafetyFacts DEF SafetyInv, SpansWait
    <3> QED BY <3>1, <3>2 DEF Untouched
  <2>2. ~ImageLanded'
    <3>1. effect'.span # ledger'.oldest
      BY <1>1, <1>3, FrontFacts
    <3> QED BY <3>1 DEF ImageLanded
  <2> QED BY <2>1, <2>2 DEF Performed
<1>8. Frozen' = Frozen /\ Progress!Running
  BY <1>1, <1>2, FrozenFacts, FrozenLater DEF TakePCs, Progress!Running
<1>9. /\ Promised(Front).state = "closed"
      /\ Len(Promised(Front).ops) = Len(Front.records)
      /\ Promised(Front).pointer = Front.kicked
  <2>1. Closed(Front) /\ Front \in SpanTo(clock)
    BY <1>2, SafetyFacts DEF Settled, Front
  <2> QED BY <2>1, PromisedFields
<1>10. \/ Memory' = Memory
       \/ Front.kicked # 0 /\ Memory' = [Memory EXCEPT !.rptr = Front.kicked]
  BY DEF Retires
<1> QED BY <1>1, <1>2, <1>3, <1>5, <1>6, <1>7, <1>8, <1>9, <1>10 DEF Progress!Retire

LEMMA ReplaysStep ==
    ASSUME SafetyInv, ImageInv, Replays
    PROVE  Progress!PassReplay
<1>1. /\ Unseen(ledger', ledger) /\ Front'.applied = Front.applied
      /\ effect' = effect /\ pump.pc \notin TakePCs /\ pump'.pc = "head"
      /\ ledger'.oldest = ledger.oldest /\ Front'.records = Front.records
      /\ Releasable(ledger, ledger.oldest)
      /\ ledger'.failedSpan = ledger.failedSpan /\ ledger'.closed = ledger.closed
      /\ Front.kicked = 0 /\ Memory' = [Memory EXCEPT !.rptr = Memory'.rptr]
  BY UnseenFront DEF Replays, Unseen
<1>2. Performed' = Performed
  BY <1>1 DEF Performed, ImageLanded
<1>3. Frozen' = Frozen /\ Progress!Running
  BY <1>1, FrozenFacts, FrozenLater DEF TakePCs, Progress!Running
<1>4. Program' = Program
  BY <1>1, UnseenProgram
<1>5. Progress!Oldest = Promised(Front) /\ Promised(Front).pointer = 0
  BY <1>1, ProgramFacts, SafetyFacts, PromisedFields
<1> QED BY <1>1, <1>2, <1>3, <1>4, <1>5 DEF Progress!PassReplay

\* A record that loses its owner leaves the others as they are.
LEMMA UnownElsewhere ==
    ASSUME NEW c, NEW L, Typed(L, c), NEW id \in Live(L), NEW i,
           NEW j \in DOMAIN L.spans[id].records, j # i
    PROVE  Unown(L, id, i).spans[id].records[j] = L.spans[id].records[j]
<1> DEFINE recs == L.spans[id].records
           without == IF i \in DOMAIN recs THEN [recs EXCEPT ![i].skipped = TRUE] ELSE recs
           M == Unown(L, id, i)
<1>1. DOMAIN L = Fields /\ DOMAIN L.spans = Live(L) /\ DOMAIN L.spans[id] = SpanFields
  BY SpanOfLedger DEF Typed, Shaped
<1>2. without[j] = recs[j]
  OBVIOUS
<1>3. CASE Mode = "Census"
  <2>1. M = [L EXCEPT !.spans[id].records = without, !.spans[id].partial = TRUE,
                      !.epochPartial = TRUE]
    BY <1>3 DEF Unown
  <2> HIDE DEF without, M
  <2>2. M.spans[id].records = without
    BY <1>1, <2>1, FieldNames, SpanFieldNames
  <2> QED BY <1>2, <2>2 DEF M
<1>4. CASE Mode # "Census"
  <2>1. Spoilt(M.spans[id], L.spans[id], i)
    BY UnownFields
  <2>2. M.spans[id].records = recs
    BY <1>4, <2>1 DEF Spoilt
  <2> QED BY <2>2
<1> QED BY <1>3, <1>4

LEMMA SpoilsStep ==
    ASSUME SafetyInv, SafetyInv', ImageInv, Spoils
    PROVE  Progress!Extend
<1>1. PICK i : /\ i \notin 1 .. Performed
               /\ Unseen(ledger', Unown(ledger, ledger.oldest, i))
               /\ Front'.applied = Front.applied
  BY DEF Spoils
<1>2. /\ Releasable(ledger, ledger.oldest) /\ Memory' = Memory /\ effect' = effect
      /\ pump'.pc \notin TakePCs
  BY DEF Spoils, TakePCs
<1> DEFINE U == Unown(ledger, ledger.oldest, i)
<1>3. Typed(ledger, clock) /\ Window(ledger) /\ ledger.oldest \in Live(ledger)
      /\ ledger.nextSpan \in Nat
  BY SafetyFacts DEF Window, Shaped
<1>4. /\ U.oldest = ledger.oldest /\ Live(U) = Live(ledger)
      /\ U.closed = ledger.closed /\ U.nextSpan = ledger.nextSpan
      /\ Spoilt(U.spans[ledger.oldest], Front, i)
  BY FrontUnowned
<1>5. Continues(U, ledger)
  <2>1. Onward(U, ledger)
    BY <1>3, UnownOnward
  <2> QED BY <1>3, <2>1, OnwardContinues
<1>6. \A j \in DOMAIN Front.records :
         j # i => U.spans[ledger.oldest].records[j] = Front.records[j]
  BY <1>3, UnownElsewhere DEF Front
<1> HIDE DEF U
<1>7. /\ ledger'.oldest = ledger.oldest /\ ledger'.nextSpan = ledger.nextSpan
      /\ ledger'.closed = ledger.closed /\ ledger'.failedSpan = U.failedSpan
      /\ \A id \in Live(ledger) : Alike(ledger'.spans[id], U.spans[id])
  BY <1>1, <1>4 DEF Unseen, U
<1>8. \A id \in Live(ledger) : Turns(ledger'.spans[id], ledger.spans[id])
  BY <1>5, <1>7 DEF Continues, Turns, Extends, Alike, Closed
<1>9. Front'.records = U.spans[ledger.oldest].records
  BY <1>3, <1>7 DEF Alike, Front
<1>10. ImageLanded' <=> ImageLanded
  <2>1. /\ DOMAIN Front'.records = DOMAIN Front.records
        /\ \A j \in DOMAIN Front.records : Front'.records[j].kind = Front.records[j].kind
    BY <1>4, <1>9 DEF Spoilt
  <2> QED BY <1>1, <1>2, <1>7, <2>1 DEF ImageLanded
<1>11. Performed' = Performed
  BY <1>1, <1>10 DEF Performed
<1>12. \A j \in 1 .. Performed : Op(Front'.records[j]) = Op(Front.records[j])
  <2>1. 1 .. Performed \subseteq DOMAIN Front.records
    BY PerformedWithin, FrontFacts
  <2> QED BY <1>1, <1>6, <1>9, <2>1
<1>13. Frozen' = Frozen \/ (Frozen = 0 /\ Frozen' \in Live(ledger))
  <2>1. Frozen = ledger.failedSpan /\ Frozen' = ledger'.failedSpan
    BY <1>2, FrozenFacts, FrozenLater
  <2> QED BY <1>5, <1>7, <2>1 DEF Continues, Failing
<1>14. ~ledger.closed /\ ledger'.nextSpan \in {ledger.nextSpan, ledger.nextSpan + 1}
       /\ ledger'.nextSpan # ledger.nextSpan + 1
  BY <1>2, <1>3, <1>7, FrozenFacts
<1> QED BY <1>2, <1>7, <1>8, <1>11, <1>12, <1>13, <1>14, ExtendStep

LEMMA LeavesImageStep ==
    ASSUME SafetyInv, SafetyInv', ImageInv, LeavesImage
    PROVE  Progress!Extend
<1>1. /\ pump.pc \in TakePCs /\ pump'.pc \notin TakePCs
      /\ ledger' = ledger /\ effect' = effect /\ Memory' = Memory
  BY DEF LeavesImage, TakePCs
<1>2. ~ledger.closed /\ ledger.oldest \in Live(ledger)
  BY <1>1, FrontFacts
<1>3. \A id \in Live(ledger) : Turns(ledger'.spans[id], ledger.spans[id])
  BY <1>1, ExtendsSame DEF Turns
<1>4. Front' = Front /\ (ImageLanded' <=> ImageLanded)
  BY <1>1 DEF ImageLanded, Front
<1>5. Performed' = Performed
  BY <1>4 DEF Performed
<1>6. Frozen' = Frozen \/ (Frozen = 0 /\ Frozen' \in Live(ledger))
  <2>1. Frozen' = ledger.failedSpan
    BY <1>1, FrozenLater
  <2> QED BY <1>2, <2>1 DEF Frozen
<1>7. ledger.nextSpan \in Nat
  BY SafetyFacts DEF Window, Shaped
<1>8. ledger'.nextSpan \in {ledger.nextSpan, ledger.nextSpan + 1}
      /\ ledger'.nextSpan # ledger.nextSpan + 1
  BY <1>1, <1>7
<1> QED BY <1>1, <1>2, <1>3, <1>4, <1>5, <1>6, <1>8, ExtendStep

LEMMA PumpAbstract ==
    ASSUME SafetyInv, SafetyInv', ImageInv, ImageInv', PumpStep
    PROVE  Progress!Next \/ StutterStep
BY RestsStep, PerformsStep, SpoilsStep, RetiresStep, ReplaysStep, TakesImageStep,
   WritesImageStep, CountsImageStep, LeavesImageStep DEF PumpStep, Progress!Next

-----------------------------------------------------------------------------
(* Every other step is a step of GuestProgress, or is not seen.            *)

LEMMA GuestKeepsMemory ==
    ASSUME GuestSteps
    PROVE  guest' = guest
<1>1. ASSUME NEW t \in Threads, GuestOps(t)
      PROVE  guest' = guest
  <2>1. CASE ProgressOps(t) \/ UnmodeledOps(t)
    BY <2>1 DEF ProgressOps, UnmodeledOps, InvalidateState, Barrier, Inert,
         ScratchWrite, GpuWait, Fence, Callback, Unmodeled, BadTimestamp,
         ForeignCallback, Rest
  <2>2. CASE DrawOps(t) \/ ResolveOps(t) \/ FrameOps(t)
    BY <2>2 DEF DrawOps, ResolveOps, FrameOps, BeginDraw, FinishDraw, DetachDraw,
         Resolve, FinishResolve, Clear, Swap, Rest
  <2>3. CASE SubmitOps(t) \/ SilentOps(t) \/ WorkerOps(t)
    BY <2>3 DEF SubmitOps, SilentOps, WorkerOps, Kick, DirectSubmit,
         SilentSubmit, MarkReplayThread, ReplaySubmit, LedgerOnly, Rest
  <2>4. CASE TileOps(t)
    BY <2>4 DEF TileOps, BeginTiledList, TiledSegment, Defer, SideFence,
         SideCallback, FirstPassCallback, LedgerOnly, Rest
  <2>5. CASE DeviceOps(t)
    BY <2>5 DEF DeviceOps, Suspend, Resume, AcquireDevice, ReleaseDevice,
         BeginDeviceOwnerSwap, EndDeviceOwnerSwap, LedgerOnly, Rest
  <2> QED BY <1>1, <2>1, <2>2, <2>3, <2>4, <2>5 DEF GuestOps
<1>2. CASE DetachedOps
  BY <1>2 DEF DetachedOps, FinishDetached, AbandonDraw, Rest
<1>3. CASE FailureOps \/ RegisterOps
  BY <1>3 DEF FailureOps, RegisterOps, Fail, TiledProgress, RegisterWriteback,
       LedgerOnly, Rest
<1> QED BY <1>1, <1>2, <1>3 DEF GuestSteps

\* What is performed of the front stays as it was.
LEMMA GuestFront ==
    ASSUME SafetyInv, Calls, Stays
    PROVE  /\ Performed' = Performed
           /\ \A i \in 1 .. Performed : Op(Front'.records[i]) = Op(Front.records[i])
<1>1. effect' = effect /\ ledger'.oldest = ledger.oldest /\ ledger.oldest \in Live(ledger')
  BY DEF Calls, Grown, Window, Shaped, Live
<1>2. CASE ledger.oldest \in Settled(ledger)
  <2>1. Front' = Front
    BY <1>1, <1>2 DEF Stays, Safe, Sound, Since, Front
  <2>2. ImageLanded' <=> ImageLanded
    BY <1>1, <2>1 DEF ImageLanded
  <2> QED BY <2>1, <2>2 DEF Performed
<1>3. CASE ledger.oldest \notin Settled(ledger)
  <2>1. Untouched(Front) /\ Untouched(Front')
    BY <1>1, <1>3, SafetyFacts DEF Stays, Safe, Sound, Since, Front
  <2>2. effect.span # ledger.oldest
    BY <1>3, SafetyFacts DEF SafetyInv, EffectsBehind, LastEffect, Settled, Front
  <2>3. ~ImageLanded /\ ~ImageLanded'
    BY <1>1, <2>2 DEF ImageLanded
  <2>4. Performed = 0 /\ Performed' = 0
    BY <2>1, <2>3 DEF Performed, Untouched
  <2> QED BY <2>4
<1> QED BY <1>2, <1>3

LEMMA GuestExtends ==
    ASSUME SafetyInv, SafetyInv', ImageInv, GuestSteps, ~ledger.closed
    PROVE  Progress!Extend
<1>1. Calls /\ Stays /\ Continues(ledger', ledger)
  BY GuestStepsStay
<1>2. /\ ledger'.oldest = ledger.oldest /\ ledger'.closed = ledger.closed
      /\ ledger'.nextSpan \in {ledger.nextSpan, ledger.nextSpan + 1}
      /\ pump' = pump
  BY <1>1 DEF Calls, Grown
<1>3. Performed' = Performed
      /\ \A i \in 1 .. Performed : Op(Front'.records[i]) = Op(Front.records[i])
  BY <1>1, GuestFront
<1>4. Memory' = Memory
  BY GuestKeepsMemory DEF Memory
<1>5. Frozen' = Frozen \/ (Frozen = 0 /\ Frozen' \in Live(ledger))
  <2>1. \/ ledger'.failedSpan = ledger.failedSpan
        \/ ledger.failedSpan = 0 /\ ledger'.failedSpan \in Live(ledger)
    BY <1>1 DEF Continues, Failing
  <2> QED BY <1>2, <2>1 DEF Frozen
<1>6. /\ \A id \in Live(ledger) : Turns(ledger'.spans[id], ledger.spans[id])
      /\ ledger'.nextSpan = ledger.nextSpan + 1
            => ledger'.spans[ledger.nextSpan] = EmptySpan
  BY <1>1 DEF Continues
<1> QED BY <1>2, <1>3, <1>4, <1>5, <1>6, ExtendStep

\* After the end nothing is accepted any more.
LEMMA GuestClosed ==
    ASSUME SafetyInv, ImageInv, GuestSteps, ledger.closed
    PROVE  StutterStep
<1>1. Calls /\ Stays
  BY GuestStepsStay
<1>2. ~Enter
  BY DEF Enter, Accepting
<1>3. DOMAIN ledger = Fields
  BY SafetyFacts
<1>4. Unseen(ledger', ledger)
  <2>1. ASSUME NEW t \in Threads, GuestOps(t)
        PROVE  DetachDraw(t) \/ MarkReplayThread(t)
    <3>1. ~(ProgressOps(t) \/ UnmodeledOps(t))
      BY <1>2 DEF ProgressOps, UnmodeledOps, InvalidateState, Barrier, Inert,
           ScratchWrite, GpuWait, Fence, Callback, Unmodeled, BadTimestamp,
           ForeignCallback
    <3>2. ~(ResolveOps(t) \/ FrameOps(t)) /\ (DrawOps(t) => DetachDraw(t))
      BY <1>2 DEF DrawOps, ResolveOps, FrameOps, BeginDraw, FinishDraw,
           Resolve, FinishResolve, Clear, Swap
    <3>3. ~(SubmitOps(t) \/ SilentOps(t)) /\ (WorkerOps(t) => MarkReplayThread(t))
      BY <1>2 DEF SubmitOps, SilentOps, WorkerOps, Kick, DirectSubmit,
           SilentSubmit, ReplaySubmit
    <3>4. ~TileOps(t)
      BY <1>2 DEF TileOps, BeginTiledList, TiledSegment, Defer, SideFence,
           SideCallback, FirstPassCallback
    <3>5. ~DeviceOps(t)
      BY <1>2 DEF DeviceOps, Suspend, Resume, AcquireDevice, ReleaseDevice,
           BeginDeviceOwnerSwap, EndDeviceOwnerSwap
    <3> QED BY <2>1, <3>1, <3>2, <3>3, <3>4, <3>5 DEF GuestOps
  <2>2. ASSUME NEW t \in Threads, DetachDraw(t) \/ MarkReplayThread(t)
        PROVE  Unseen(ledger', ledger)
    <3>1. \/ ledger' = [ledger EXCEPT !.openDraws[t] = NoHandle]
          \/ ledger' = [ledger EXCEPT !.replay = @ \cup {t}]
      BY <2>2 DEF DetachDraw, MarkReplayThread
    <3>2. /\ ledger'.oldest = ledger.oldest /\ ledger'.nextSpan = ledger.nextSpan
          /\ ledger'.closed = ledger.closed /\ ledger'.failedSpan = ledger.failedSpan
          /\ ledger'.spans = ledger.spans
      BY <1>3, <3>1, FieldNames
    <3> QED BY <3>2, UnseenSame
  <2>3. CASE DetachedOps
    <3>1. ledger' = ledger
      BY <2>3 DEF DetachedOps, FinishDetached, AbandonDraw, Detached
    <3> QED BY <3>1, UnseenSame
  <2>4. ~(FailureOps \/ RegisterOps)
    BY <1>2 DEF FailureOps, RegisterOps, Fail, TiledProgress, RegisterWriteback
  <2> QED BY <2>1, <2>2, <2>3, <2>4 DEF GuestSteps
<1>5. Performed' = Performed
  BY <1>1, GuestFront
<1>6. Memory' = Memory
  BY GuestKeepsMemory DEF Memory
<1>7. Frozen' = Frozen
  <2>1. pump' = pump
    BY <1>1 DEF Calls
  <2> QED BY <1>4, <2>1 DEF Unseen, Frozen
<1> QED BY <1>4, <1>5, <1>6, <1>7, UnseenStutters

LEMMA DropStep ==
    ASSUME SafetyInv, DropEpoch
    PROVE  Progress!Discard
<1>1. /\ ledger' = Drop(ledger) /\ pump' = pump /\ effect' = effect /\ guest' = guest
      /\ pump.pc \notin TakePCs
  BY FrontFacts DEF DropEpoch
<1>2. /\ ledger'.oldest = ledger.nextSpan /\ ledger'.closed = ledger.closed
      /\ ledger'.nextSpan = ledger.nextSpan + 1
  BY <1>1, SafetyFacts, DropWindow
<1>3. /\ ledger.oldest \in Nat /\ ledger.nextSpan \in Nat
      /\ ledger.oldest < ledger.nextSpan
      /\ Progress!Last + 1 = ledger.nextSpan
  BY ProgramFacts
<1>4. Live(ledger') = {ledger.nextSpan}
  BY <1>2, <1>3 DEF Live
<1>5. /\ ledger'.spans[ledger.nextSpan] = EmptySpan
      /\ ledger'.failedSpan = ledger.failedSpan
  BY <1>1, <1>3, SafetyFacts, FieldNames DEF Drop, OpenSpan
<1>6. Program' = [id \in {Progress!Last + 1} |-> Progress!NewSpan]
  BY <1>3, <1>4, <1>5, EmptyPromised DEF Program
<1>7. Performed' = 0
  <2>1. Front'.applied = 0
    BY <1>2, <1>5 DEF Front, EmptySpan
  <2>2. ~ImageLanded'
    BY <1>1, <1>2, <1>3, FrontFacts DEF ImageLanded
  <2> QED BY <2>1, <2>2 DEF Performed
<1>8. Frozen' = Frozen
  BY <1>1, <1>5, FrozenFacts, FrozenLater
<1>9. Memory' = Memory
  BY <1>1 DEF Memory
<1> QED BY <1>2, <1>3, <1>6, <1>7, <1>8, <1>9 DEF Progress!Discard

LEMMA CloseStep ==
    ASSUME SafetyInv, Close
    PROVE  Progress!End
<1>1. /\ ledger' = [ledger EXCEPT !.closed = TRUE]
      /\ pump' = pump /\ effect' = effect /\ guest' = guest
  BY DEF Close
<1>2. /\ ledger'.oldest = ledger.oldest /\ ledger'.nextSpan = ledger.nextSpan
      /\ ledger'.spans = ledger.spans /\ ledger'.failedSpan = ledger.failedSpan
      /\ ledger'.closed = TRUE
  BY <1>1, SafetyFacts, FieldNames
<1>3. Program' = Program
  BY <1>2 DEF Program, Live
<1>4. Front' = Front /\ (ImageLanded' <=> ImageLanded)
  BY <1>1, <1>2 DEF Front, ImageLanded
<1>5. Performed' = Performed /\ Frozen' = Frozen /\ Memory' = Memory
  BY <1>1, <1>2, <1>4 DEF Performed, Frozen, Memory
<1> QED BY <1>2, <1>3, <1>5 DEF Progress!End

LEMMA UnchangedStutters ==
    ASSUME UNCHANGED <<ledger, pump, effect>>, Memory' = Memory
    PROVE  StutterStep
<1>1. Front' = Front /\ (ImageLanded' <=> ImageLanded)
  BY DEF Front, ImageLanded
<1> QED BY <1>1, UnseenSame, UnseenStutters DEF Performed, Frozen

\* Every step of the ledger is one of GuestProgress, or is not seen.
LEMMA StepAbstract ==
    ASSUME SafetyInv, ImageInv, [Next]_vars
    PROVE  Progress!Next \/ StutterStep
<1>1. SafetyInv' /\ ImageInv'
  BY StepSafe, StepImage
<1>2. CASE GuestSteps
  BY <1>1, <1>2, GuestExtends, GuestClosed DEF Progress!Next
<1>3. CASE TeardownOps
  <2>1. CASE DiscardGuestImages
    BY <2>1, UnchangedStutters, MemoryFields DEF DiscardGuestImages
  <2> QED BY <1>3, <2>1, DropStep, CloseStep DEF TeardownOps, Progress!Next
<1>4. CASE HolderOps \/ Environment
  <2>1. UNCHANGED <<ledger, pump, effect>>
    BY <1>4 DEF HolderOps, BeginImageWrites, EndImageWrites, Environment,
       HostCompletes, HandlerClearsMask, GuestWritesWord
  <2>2. Memory' = Memory
    <3>1. \/ guest' = guest \/ guest' = [guest EXCEPT !.mask = FALSE]
          \/ \E word \in {0, 1} : guest' = [guest EXCEPT !.word = word]
      BY <1>4 DEF HolderOps, BeginImageWrites, EndImageWrites, Environment,
         HostCompletes, HandlerClearsMask, GuestWritesWord
    <3> QED BY <3>1, MemoryFields
  <2> QED BY <2>1, <2>2, UnchangedStutters
<1>5. CASE PumpNext
  BY <1>1, <1>5, PumpSeen, PumpAbstract
<1>6. CASE UNCHANGED vars
  <2>1. UNCHANGED <<ledger, pump, effect>> /\ Memory' = Memory
    BY <1>6 DEF vars, Memory
  <2> QED BY <2>1, UnchangedStutters
<1> QED BY <1>2, <1>3, <1>4, <1>5, <1>6 DEF Next, GuestSteps

LEMMA ProgramStarts ==
    ASSUME Init
    PROVE  Progress!Init
<1>1. /\ ledger.oldest = 1 /\ ledger.nextSpan = 2 /\ ledger.closed = FALSE
      /\ ledger.failedSpan = 0 /\ ledger.spans = [id \in {1} |-> EmptySpan]
  BY DEF Init, NewLedger
<1>2. Live(ledger) = {1} /\ Front = EmptySpan
  BY <1>1 DEF Live, Front
<1>3. Program = [id \in {1} |-> Progress!NewSpan]
  BY <1>1, <1>2, EmptyPromised DEF Program
<1>4. Performed = 0
  <2>1. ~ImageLanded
    BY <1>1 DEF Init, ImageLanded
  <2> QED BY <1>2, <2>1 DEF Performed, EmptySpan
<1>5. Frozen = 0 /\ Memory = [fence |-> 0, scratch |-> 0, image |-> 0, rptr |-> 0]
  BY <1>1 DEF Init, Frozen, Memory, NewGuest
<1> QED BY <1>1, <1>3, <1>4, <1>5 DEF Progress!Init

\* What the threads, passes and retries of the completion ledger do together
\* is a behaviour of GuestProgress: the guest sees its program performed once
\* and in order, closed spans oldest first, each operation after its verdict,
\* none after a failure, from a discarded epoch or after the end
\* (completion_ledger.cpp, Pump and State::apply against every other call).
THEOREM LedgerKeepsProgress == Spec => ImplementsGuestProgress
<1>1. Init => SafetyInv /\ ImageInv /\ Progress!Init
  BY InitSafe, ImageStarts, ProgramStarts
<1>2. (SafetyInv /\ ImageInv) /\ [Next]_vars => (SafetyInv /\ ImageInv)'
  BY StepSafe, StepImage
<1>3. (SafetyInv /\ ImageInv) /\ [Next]_vars => [Progress!Next]_(Progress!vars)
  <2>1. StutterStep => UNCHANGED Progress!vars
    BY DEF StutterStep, Progress!vars
  <2> QED BY <2>1, StepAbstract
<1> QED BY <1>1, <1>2, <1>3, PTL DEF Spec, ImplementsGuestProgress, Progress!Spec

=============================================================================
