----------------------------- MODULE LedgerSafety -----------------------------
(***************************************************************************)
(* Safety of the completion ledger, for every value of its constants.      *)
(*                                                                         *)
(* The argument: a record awaits its verdict exactly while one party owes  *)
(* it, and a span counts the records that do. So a closed span whose count *)
(* is zero is out of everybody's reach: no operation of a guest thread,    *)
(* late verdict or swap changes anything of it, and Pump finds it after    *)
(* each host call as it left it.                                           *)
(***************************************************************************)
EXTENDS LedgerProofs, FunctionTheorems

-----------------------------------------------------------------------------
(* What is pending, and who owes it. *)

Due(span) == {i \in DOMAIN span.records : span.records[i].pending}

Counted(L) == \A id \in Live(L) : L.spans[id].pending = Cardinality(Due(L.spans[id]))

PendingAs(L, h, kind) ==
    Pending(L, h) /\ L.spans[h.span].records[h.index].kind = kind

\* A handle somebody keeps is of a pending record, or of a span that was
\* dropped.
Owing(L, h, kind) ==
    h.span < L.nextSpan /\ (h.span >= L.oldest => PendingAs(L, h, kind))

\* `out' is the set of detached draws.
Debts(L, out) ==
    /\ \A t \in Threads :
          Owing(L, L.openDraws[t], "Draw") /\ Owing(L, L.openResolves[t], "Resolve")
    /\ out \subseteq Handles /\ \A h \in out : Owing(L, h, "Draw")
    /\ \A h \in L.frontbuffer : Owing(L, h, "Resolve")

\* Nobody else keeps it.
Apart(L, out) ==
    /\ NoHandle \notin out \cup L.frontbuffer
    /\ \A t, u \in Threads : t # u =>
          /\ L.openDraws[t] = L.openDraws[u] => L.openDraws[t] = NoHandle
          /\ L.openResolves[t] = L.openResolves[u] => L.openResolves[t] = NoHandle
    /\ \A t \in Threads :
          L.openDraws[t] \notin out /\ L.openResolves[t] \notin L.frontbuffer

KeptBy(L, out, h) ==
    \/ \E t \in Threads : h = L.openDraws[t] \/ h = L.openResolves[t]
    \/ h \in out \cup L.frontbuffer

Covered(L, out) ==
    ~L.closed => \A h \in Handles : Pending(L, h) => KeptBy(L, out, h)

\* Records held for a side buffer await nothing.
Plain(recs) == \A i \in DOMAIN recs : ~recs[i].pending /\ ~recs[i].skipped
HeldPlain(L) == (\A s \in Segments : Plain(L.held[s])) /\ Plain(L.heldFirst)

\* What a census leaves out it reports; and a sealed span was never deferred.
Reported(span) ==
    \A i \in DOMAIN span.records :
        span.records[i].skipped => Mode = "Census" /\ span.partial
Unsealed(span) == span.deferred # NoSegment => ~span.sealed
SpansSound(L) == \A id \in Live(L) : Reported(L.spans[id]) /\ Unsealed(L.spans[id])

\* The spans that wait for nothing but Pump, and what L keeps of them. Pump
\* has not begun with the others.
Settled(L) == {id \in Live(L) : Closed(L.spans[id]) /\ L.spans[id].pending = 0}
Untouched(span) == span.applied = 0 /\ span.stage = 0 /\ ~span.flushed
Since(L, old) ==
    /\ \A id \in Settled(old) :
          id \in Live(L) /\ id # Back(L) /\ L.spans[id] = old.spans[id]
    /\ \A id \in Live(L) : id \in Settled(old) \/ Untouched(L.spans[id])
    /\ old.failedSpan # 0 => L.failedSpan = old.failedSpan

Sound(L, out, old) ==
    /\ Counted(L) /\ Debts(L, out) /\ Apart(L, out) /\ Covered(L, out)
    /\ HeldPlain(L) /\ SpansSound(L) /\ Since(L, old)

Safe(L, c, out, old) == Typed(L, c) /\ Sound(L, out, old)

-----------------------------------------------------------------------------
(* Counting. *)

LEMMA DueFinite ==
    ASSUME NEW c, NEW s \in SpanTo(c)
    PROVE  IsFiniteSet(Due(s)) /\ Due(s) \subseteq 1 .. Len(s.records)
           /\ DOMAIN s.records = 1 .. Len(s.records) /\ Len(s.records) \in Nat
<1>1. s.records \in Seq(RecordTo(c))
  BY DEF SpanTo
<1>2. DOMAIN s.records = 1 .. Len(s.records) /\ Len(s.records) \in Nat
  BY <1>1, LenProperties
<1>3. Due(s) \subseteq 1 .. Len(s.records)
  BY <1>2 DEF Due
<1>4. IsFiniteSet(1 .. Len(s.records))
  BY <1>2, FS_Interval
<1>5. IsFiniteSet(Due(s))
  BY <1>3, <1>4, FS_Subset
<1> QED BY <1>2, <1>3, <1>5

\* Nothing of a span that counts no pending record is pending.
LEMMA NoneDue ==
    ASSUME NEW c, NEW L, Typed(L, c), Counted(L), NEW id \in Live(L),
           L.spans[id].pending = 0
    PROVE  Due(L.spans[id]) = {}
<1>1. IsFiniteSet(Due(L.spans[id]))
  BY SpanOfLedger, DueFinite
<1>2. Cardinality(Due(L.spans[id])) = 0
  BY DEF Counted
<1> QED BY <1>1, <1>2, FS_EmptySet

LEMMA PendingDue ==
    ASSUME NEW L, NEW h
    PROVE  Pending(L, h) <=> h.span \in Live(L) /\ h.index \in Due(L.spans[h.span])
BY DEF Pending, Due

\* Who a settled span is not.
LEMMA NotSettled ==
    ASSUME NEW c, NEW L, NEW out, NEW old, Safe(L, c, out, old), NEW id \in Live(L),
           id = Back(L) \/ Due(L.spans[id]) # {} \/ ~Closed(L.spans[id])
           \/ (L.spans[id].deferred # NoSegment /\ L.spans[id].kicked = 0)
    PROVE  id \notin Settled(old)
<1> SUFFICES ASSUME id \in Settled(old) PROVE FALSE
  OBVIOUS
<1>1. id # Back(L) /\ L.spans[id] = old.spans[id]
      /\ Closed(L.spans[id]) /\ L.spans[id].pending = 0
  BY DEF Safe, Sound, Since, Settled
<1>2. Due(L.spans[id]) = {}
  BY <1>1, NoneDue DEF Safe, Sound
<1>3. L.spans[id].deferred # NoSegment => L.spans[id].kicked # 0
  BY <1>1 DEF Safe, Sound, SpansSound, Unsealed, Closed
<1> QED BY <1>1, <1>2, <1>3

-----------------------------------------------------------------------------
(* Changes that settle nothing. *)

\* A span keeps what is pending of it, and who owes it.
Quiet(new, old) ==
    /\ new.pending = old.pending /\ Due(new) = Due(old)
    /\ \A i \in DOMAIN old.records :
          i \in DOMAIN new.records /\ new.records[i].kind = old.records[i].kind
    /\ Reported(new) /\ Unsealed(new) /\ Untouched(new)

SameHandles(M, L) ==
    /\ M.oldest = L.oldest /\ M.nextSpan = L.nextSpan /\ M.closed = L.closed
    /\ M.openDraws = L.openDraws /\ M.openResolves = L.openResolves
    /\ M.frontbuffer = L.frontbuffer
    /\ M.failedSpan = L.failedSpan \/ L.failedSpan = 0

LEMMA QuietSound ==
    ASSUME NEW c, NEW L, NEW out, NEW old, Safe(L, c, out, old),
           NEW M, SameHandles(M, L), HeldPlain(M),
           \A id \in Live(L) :
              \/ M.spans[id] = L.spans[id]
              \/ id \notin Settled(old) /\ Quiet(M.spans[id], L.spans[id])
    PROVE  Sound(M, out, old)
<1>1. Live(M) = Live(L) /\ Back(M) = Back(L)
  BY DEF SameHandles, Live, Back
<1>2. \A id \in Live(L) :
         /\ M.spans[id].pending = L.spans[id].pending
         /\ Due(M.spans[id]) = Due(L.spans[id])
         /\ Reported(M.spans[id]) /\ Unsealed(M.spans[id])
         /\ \A i \in DOMAIN L.spans[id].records :
               M.spans[id].records[i].kind = L.spans[id].records[i].kind
  BY DEF Quiet, Safe, Sound, SpansSound
<1>3. \A h : Pending(M, h) <=> Pending(L, h)
  BY <1>1, <1>2, PendingDue
<1>4. \A h, kind : PendingAs(L, h, kind) => PendingAs(M, h, kind)
  BY <1>1, <1>2, <1>3 DEF PendingAs, Pending
<1>5. \A h, kind : Owing(L, h, kind) => Owing(M, h, kind)
  BY <1>4 DEF Owing, SameHandles
<1>6. Debts(M, out) /\ Apart(M, out)
  BY <1>5 DEF Debts, Apart, SameHandles, Safe, Sound
<1>7. Covered(M, out)
  BY <1>3 DEF Covered, KeptBy, SameHandles, Safe, Sound
<1>8. Counted(M) /\ SpansSound(M)
  BY <1>1, <1>2 DEF Counted, SpansSound, Safe, Sound
<1>9. Since(M, old)
  <2>1. ASSUME NEW id \in Settled(old)
        PROVE  id \in Live(M) /\ id # Back(M) /\ M.spans[id] = old.spans[id]
    BY <1>1 DEF Safe, Sound, Since
  <2>2. \A id \in Live(M) : id \in Settled(old) \/ Untouched(M.spans[id])
    BY <1>1 DEF Quiet, Safe, Sound, Since
  <2> QED BY <2>1, <2>2 DEF Since, SameHandles, Safe, Sound
<1> QED BY <1>6, <1>7, <1>8, <1>9 DEF Sound

\* Fields beside the spans and the handles.
LEMMA OtherSound ==
    ASSUME NEW c, NEW L, NEW out, NEW old, Safe(L, c, out, old),
           NEW M, SameHandles(M, L), HeldPlain(M), M.spans = L.spans
    PROVE  Sound(M, out, old)
BY QuietSound

-----------------------------------------------------------------------------
(* The helpers of State. *)

LEMMA FailAtSafe ==
    ASSUME NEW c, NEW L, NEW out, NEW old, Safe(L, c, out, old), NEW id \in Nat
    PROVE  Safe(FailAt(L, id), c, out, old)
<1> DEFINE M == FailAt(L, id)
<1>1. /\ SameHandles(M, L) /\ M.spans = L.spans
      /\ M.held = L.held /\ M.heldFirst = L.heldFirst
  BY FieldNames DEF Safe, Typed, Shaped, FailAt, SameHandles
<1>2. Typed(M, c)
  BY FailAtTyped DEF Safe
<1> HIDE DEF M
<1>3. HeldPlain(M)
  BY <1>1 DEF HeldPlain, Safe, Sound
<1> QED BY <1>1, <1>2, <1>3, OtherSound DEF Safe, M

\* A flag of one span, or of one record of it, that its verdicts do not know.
LEMMA PutQuiet ==
    ASSUME NEW c, NEW L, NEW out, NEW old, Safe(L, c, out, old), NEW id, NEW s,
           id \in Live(L) => id \notin Settled(old) /\ Quiet(s, L.spans[id])
    PROVE  Sound([L EXCEPT !.spans[id] = s], out, old)
<1> DEFINE M == [L EXCEPT !.spans[id] = s]
<1>1. /\ SameHandles(M, L) /\ M.spans = [L.spans EXCEPT ![id] = s]
      /\ M.held = L.held /\ M.heldFirst = L.heldFirst
      /\ DOMAIN L.spans = Live(L)
  BY FieldNames DEF Safe, Typed, Shaped, SameHandles
<1> HIDE DEF M
<1>2. HeldPlain(M)
  BY <1>1 DEF HeldPlain, Safe, Sound
<1>3. \A other \in Live(L) :
         \/ M.spans[other] = L.spans[other]
         \/ other \notin Settled(old) /\ Quiet(M.spans[other], L.spans[other])
  BY <1>1
<1> QED BY <1>1, <1>2, <1>3, QuietSound DEF M

LEMMA UnownSafe ==
    ASSUME NEW c, NEW L, NEW out, NEW old, Safe(L, c, out, old),
           NEW id \in Nat, NEW i, id \in Live(L) => id \notin Settled(old)
    PROVE  Safe(Unown(L, id, i), c, out, old)
<1> DEFINE recs == L.spans[id].records
           without == IF i \in DOMAIN recs THEN [recs EXCEPT ![i].skipped = TRUE] ELSE recs
<1>1. Typed(Unown(L, id, i), c)
  BY UnownTyped DEF Safe
<1>2. ASSUME Mode = "Census"
      PROVE  Sound([L EXCEPT !.spans[id].records = without, !.spans[id].partial = TRUE,
                             !.epochPartial = TRUE], out, old)
  <2> DEFINE N == [L EXCEPT !.spans[id].records = without, !.spans[id].partial = TRUE,
                            !.epochPartial = TRUE]
             s == N.spans[id]
  <2>1. /\ SameHandles(N, L) /\ N.held = L.held /\ N.heldFirst = L.heldFirst
        /\ \A other \in Live(L) : other # id => N.spans[other] = L.spans[other]
    BY FieldNames DEF Safe, Typed, Shaped, SameHandles
  <2>2. ASSUME id \in Live(L) PROVE Quiet(s, L.spans[id])
    <3>1. L.spans[id] \in SpanTo(c)
      BY <2>2, SpanOfLedger DEF Safe
    <3> HIDE DEF without
    <3>2. /\ s.records = without /\ s.pending = L.spans[id].pending /\ s.partial
          /\ s.deferred = L.spans[id].deferred /\ s.sealed = L.spans[id].sealed
          /\ s.applied = L.spans[id].applied /\ s.stage = L.spans[id].stage
          /\ s.flushed = L.spans[id].flushed
      BY <2>2, FieldNames, SpanFieldNames DEF Safe, Typed, Shaped
    <3> HIDE DEF s
    <3>3. \A j \in DOMAIN recs : DOMAIN recs[j] = DOMAIN NewRecord("Draw", NoThread)
      <4>1. \A j \in DOMAIN recs : recs[j] \in RecordTo(c)
        BY <3>1, RecordOfSpan
      <4> QED BY <4>1 DEF RecordTo, NewRecord
    <3>4. /\ DOMAIN without = DOMAIN recs
          /\ \A j \in DOMAIN recs : /\ without[j].pending = recs[j].pending
                                    /\ without[j].kind = recs[j].kind
      BY <3>3 DEF NewRecord, without
    <3>5. Unsealed(L.spans[id]) /\ Untouched(L.spans[id])
      BY <2>2 DEF Safe, Sound, SpansSound, Since
    <3> QED BY <1>2, <3>2, <3>4, <3>5 DEF Quiet, Reported, Unsealed, Untouched, Due
  <2> HIDE DEF N
  <2>3. HeldPlain(N)
    BY <2>1 DEF HeldPlain, Safe, Sound
  <2>4. \A other \in Live(L) :
           \/ N.spans[other] = L.spans[other]
           \/ other \notin Settled(old) /\ Quiet(N.spans[other], L.spans[other])
    BY <2>1, <2>2
  <2> QED BY <2>1, <2>3, <2>4, QuietSound DEF N
<1>3. ASSUME NEW M, Safe(M, c, out, old), Live(M) = Live(L)
      PROVE  Sound([M EXCEPT !.spans[id].unowned = TRUE], out, old)
  <2> DEFINE s == [M.spans[id] EXCEPT !.unowned = TRUE]
  <2>1. ASSUME id \in Live(M) PROVE Quiet(s, M.spans[id])
    <3>1. /\ M.spans[id] \in SpanTo(c) /\ Reported(M.spans[id])
          /\ Unsealed(M.spans[id]) /\ Untouched(M.spans[id])
      BY <1>3, <2>1, SpanOfLedger DEF Safe, Sound, SpansSound, Since
    <3>2. /\ s.records = M.spans[id].records /\ s.pending = M.spans[id].pending
          /\ s.partial = M.spans[id].partial
          /\ s.deferred = M.spans[id].deferred /\ s.sealed = M.spans[id].sealed
          /\ s.applied = M.spans[id].applied /\ s.stage = M.spans[id].stage
          /\ s.flushed = M.spans[id].flushed
      BY <3>1 DEF SpanTo
    <3> HIDE DEF s
    <3> QED BY <3>1, <3>2 DEF Quiet, Reported, Unsealed, Untouched, Due
  <2> HIDE DEF s
  <2>2. Sound([M EXCEPT !.spans[id] = s], out, old)
    BY <1>3, <2>1, PutQuiet
  <2> QED BY <2>2 DEF s
<1>4. Safe(FailAt(L, id), c, out, old) /\ Live(FailAt(L, id)) = Live(L)
  BY FailAtSafe, FieldNames DEF FailAt, Live, Safe, Typed, Shaped
<1> QED BY <1>1, <1>2, <1>3, <1>4 DEF Unown, Safe

-----------------------------------------------------------------------------
(* A verdict comes. *)

\* M is L once nobody keeps h any more; `left' is who is still detached.
Paid(M, L, out, left, h) ==
    /\ SameHandles([M EXCEPT !.openDraws = L.openDraws, !.openResolves = L.openResolves,
                             !.frontbuffer = L.frontbuffer], L)
    /\ M.spans = L.spans /\ M.held = L.held /\ M.heldFirst = L.heldFirst
    /\ \A t \in Threads :
          /\ \/ M.openDraws[t] = L.openDraws[t]
             \/ L.openDraws[t] = h /\ M.openDraws[t] = NoHandle
          /\ \/ M.openResolves[t] = L.openResolves[t]
             \/ L.openResolves[t] = h /\ M.openResolves[t] = NoHandle
    /\ M.frontbuffer \subseteq L.frontbuffer /\ L.frontbuffer \subseteq M.frontbuffer \cup {h}
    /\ left \subseteq out /\ out \subseteq left \cup {h}
    /\ Pending(L, h) => ~KeptBy(M, left, h)

LEMMA PaidFields ==
    ASSUME NEW c, NEW L, Typed(L, c), NEW M, Typed(M, c), NEW out, NEW left, NEW h,
           Paid(M, L, out, left, h)
    PROVE  /\ M.oldest = L.oldest /\ M.nextSpan = L.nextSpan /\ M.closed = L.closed
           /\ M.failedSpan = L.failedSpan \/ L.failedSpan = 0
           /\ Live(M) = Live(L) /\ Back(M) = Back(L)
           /\ 0 \notin Live(L) /\ ~Pending(L, NoHandle)
           /\ \A g : Pending(M, g) <=> Pending(L, g)
<1>1. /\ M.oldest = L.oldest /\ M.nextSpan = L.nextSpan /\ M.closed = L.closed
      /\ M.failedSpan = L.failedSpan \/ L.failedSpan = 0
  BY FieldNames DEF Paid, SameHandles, Typed, Shaped
<1>2. Live(M) = Live(L) /\ Back(M) = Back(L) /\ M.spans = L.spans
  BY <1>1 DEF Live, Back, Paid
<1>3. 0 \notin Live(L)
  BY DEF Typed, Shaped, Live
<1> QED BY <1>1, <1>2, <1>3 DEF Pending, NoHandle

\* A handle of a dropped span, or none, is forgotten.
LEMMA ForgetSafe ==
    ASSUME NEW c, NEW L, NEW out, NEW old, Safe(L, c, out, old), NEW M, Typed(M, c),
           NEW left, NEW h, Paid(M, L, out, left, h), ~Pending(L, h)
    PROVE  Safe(M, c, left, old)
<1>1. /\ M.oldest = L.oldest /\ M.nextSpan = L.nextSpan /\ M.closed = L.closed
      /\ M.failedSpan = L.failedSpan \/ L.failedSpan = 0
      /\ Live(M) = Live(L) /\ Back(M) = Back(L)
      /\ 0 \notin Live(L) /\ ~Pending(L, NoHandle)
      /\ \A g : Pending(M, g) <=> Pending(L, g)
  BY PaidFields DEF Safe
<1>2. M.spans = L.spans /\ M.held = L.held /\ M.heldFirst = L.heldFirst
  BY DEF Paid
<1>3. \A g, kind : Owing(L, g, kind) => Owing(M, g, kind)
  BY <1>1, <1>2 DEF Owing, PendingAs
<1>4. \A kind : Owing(M, NoHandle, kind)
  BY <1>1 DEF Safe, Typed, Shaped, Owing, NoHandle
<1>5. Debts(M, left)
  BY <1>3, <1>4 DEF Debts, Paid, Safe, Sound
<1>6. Apart(M, left)
  BY DEF Apart, Paid, Safe, Sound
<1>7. Covered(M, left)
  <2>1. ASSUME ~M.closed, NEW g \in Handles, Pending(M, g) PROVE KeptBy(M, left, g)
    <3>1. Pending(L, g) /\ g # h /\ KeptBy(L, out, g)
      BY <1>1, <2>1 DEF Safe, Sound, Covered
    <3> QED BY <3>1 DEF KeptBy, Paid
  <2> QED BY <2>1 DEF Covered
<1>8. Counted(M) /\ HeldPlain(M) /\ SpansSound(M) /\ Since(M, old)
  BY <1>1, <1>2 DEF Counted, HeldPlain, SpansSound, Since, Safe, Sound
<1> QED BY <1>5, <1>6, <1>7, <1>8 DEF Safe, Sound

\* The span with one record settled.
SettledIn(s, i) == [s EXCEPT !.records[i].pending = FALSE, !.pending = @ - 1]

LEMMA SettledSpan ==
    ASSUME NEW c, NEW s, NEW i, NEW new,
           s \in SpanTo(c), i \in Due(s), new = SettledIn(s, i)
    PROVE  /\ Due(new) = Due(s) \ {i}
           /\ s.pending = Cardinality(Due(s)) => new.pending = Cardinality(Due(new))
           /\ DOMAIN new.records = DOMAIN s.records
           /\ \A j \in DOMAIN s.records :
                 new.records[j].kind = s.records[j].kind
                 /\ new.records[j].skipped = s.records[j].skipped
           /\ new.partial = s.partial /\ new.deferred = s.deferred
           /\ new.sealed = s.sealed
           /\ new.applied = s.applied /\ new.stage = s.stage /\ new.flushed = s.flushed
<1> DEFINE recs == [s.records EXCEPT ![i].pending = FALSE]
<1>1. /\ new.records = recs /\ new.pending = s.pending - 1
      /\ new.partial = s.partial /\ new.deferred = s.deferred
      /\ new.sealed = s.sealed
      /\ new.applied = s.applied /\ new.stage = s.stage /\ new.flushed = s.flushed
  BY DEF SpanTo, SettledIn
<1>2. \A j \in DOMAIN s.records : s.records[j] \in RecordTo(c)
  BY RecordOfSpan
<1>3. /\ DOMAIN recs = DOMAIN s.records
      /\ \A j \in DOMAIN s.records :
            /\ recs[j].kind = s.records[j].kind /\ recs[j].skipped = s.records[j].skipped
            /\ recs[j].pending <=> s.records[j].pending /\ j # i
  BY <1>2 DEF RecordTo
<1> HIDE DEF recs
<1>4. Due(new) = Due(s) \ {i}
  BY <1>1, <1>3 DEF Due
<1>5. IsFiniteSet(Due(s))
  BY DueFinite
<1>6. Cardinality(Due(new)) = Cardinality(Due(s)) - 1
  BY <1>4, <1>5, FS_RemoveElement
<1> QED BY <1>1, <1>3, <1>4, <1>6

LEMMA SettleSafe ==
    ASSUME NEW c, NEW L, NEW out, NEW old, Safe(L, c, out, old), NEW M, Typed(M, c),
           NEW left, NEW h \in Handles, Paid(M, L, out, left, h), Pending(L, h)
    PROVE  Safe(Settle(M, h), c, left, old)
<1> DEFINE N == Settle(M, h)
<1>1. /\ M.oldest = L.oldest /\ M.nextSpan = L.nextSpan /\ M.closed = L.closed
      /\ M.failedSpan = L.failedSpan \/ L.failedSpan = 0
      /\ Live(M) = Live(L) /\ Back(M) = Back(L)
      /\ ~Pending(L, NoHandle)
  BY PaidFields DEF Safe
<1>2. /\ N.oldest = M.oldest /\ N.nextSpan = M.nextSpan /\ N.closed = M.closed
      /\ N.openDraws = M.openDraws /\ N.openResolves = M.openResolves
      /\ N.frontbuffer = M.frontbuffer /\ N.failedSpan = M.failedSpan
      /\ N.held = L.held /\ N.heldFirst = L.heldFirst
  BY FieldNames DEF Settle, Typed, Shaped, Paid
<1>3. Live(N) = Live(L) /\ Back(N) = Back(L) /\ M.spans = L.spans
  BY <1>1, <1>2 DEF Live, Back, Paid
<1>4. /\ h.span \in Live(L) /\ h.index \in Due(L.spans[h.span])
      /\ L.spans[h.span] \in SpanTo(c)
  BY PendingDue, SpanOfLedger DEF Safe
<1>5. /\ \A id \in Live(L) : id # h.span => N.spans[id] = L.spans[id]
      /\ N.spans[h.span] = SettledIn(L.spans[h.span], h.index)
  BY <1>3, <1>4, FieldNames, SpanFieldNames DEF Settle, SettledIn, Safe, Typed, Shaped
<1>6. Typed(N, c)
  BY SettleTyped
<1> HIDE DEF N
<1>7. PICK s, new :
         /\ s = L.spans[h.span] /\ new = N.spans[h.span]
         /\ Due(new) = Due(s) \ {h.index}
         /\ s.pending = Cardinality(Due(s)) => new.pending = Cardinality(Due(new))
         /\ DOMAIN new.records = DOMAIN s.records
         /\ \A j \in DOMAIN s.records :
               new.records[j].kind = s.records[j].kind
               /\ new.records[j].skipped = s.records[j].skipped
         /\ new.partial = s.partial /\ new.deferred = s.deferred
         /\ new.sealed = s.sealed
         /\ new.applied = s.applied /\ new.stage = s.stage /\ new.flushed = s.flushed
  <2>1. PICK s, new : s = L.spans[h.span] /\ new = N.spans[h.span]
    OBVIOUS
  <2>2. /\ s \in SpanTo(c) /\ h.index \in Due(s)
        /\ new = SettledIn(s, h.index)
    BY <1>4, <1>5, <2>1
  <2>3. /\ Due(new) = Due(s) \ {h.index}
        /\ s.pending = Cardinality(Due(s)) => new.pending = Cardinality(Due(new))
        /\ DOMAIN new.records = DOMAIN s.records
        /\ \A j \in DOMAIN s.records :
              new.records[j].kind = s.records[j].kind
              /\ new.records[j].skipped = s.records[j].skipped
        /\ new.partial = s.partial /\ new.deferred = s.deferred
        /\ new.sealed = s.sealed
        /\ new.applied = s.applied /\ new.stage = s.stage /\ new.flushed = s.flushed
    BY <2>2, SettledSpan
  <2> QED BY ZenonT(30), <2>1, <2>3
<1>8. h.span \notin Settled(old)
  BY <1>4, NotSettled
<1>9. Counted(N)
  BY <1>3, <1>5, <1>7 DEF Counted, Safe, Sound
<1>10. SpansSound(N)
  <2>1. Reported(s) /\ Unsealed(s)
    BY <1>4, <1>7 DEF Safe, Sound, SpansSound
  <2>2. Reported(new) /\ Unsealed(new)
    BY <1>7, <2>1 DEF Reported, Unsealed
  <2>3. ASSUME NEW id \in Live(N), id # h.span
        PROVE  Reported(N.spans[id]) /\ Unsealed(N.spans[id])
    <3>1. N.spans[id] = L.spans[id] /\ id \in Live(L)
      BY <1>3, <1>5, <2>3
    <3> QED BY <3>1 DEF Safe, Sound, SpansSound
  <2> QED BY <1>7, <2>2, <2>3 DEF SpansSound
<1>11. Since(N, old) /\ HeldPlain(N)
  <2>1. Untouched(new)
    BY <1>4, <1>7, <1>8 DEF Untouched, Since, Safe, Sound
  <2> QED BY <1>1, <1>2, <1>3, <1>5, <1>7, <1>8, <2>1 DEF Since, HeldPlain, Safe, Sound
<1>12. \A g \in Handles : Pending(N, g) <=> Pending(L, g) /\ g # h
  <2>1. ASSUME NEW g \in Handles, g.span = h.span
        PROVE  Pending(N, g) <=> Pending(L, g) /\ g # h
    <3>1. g = h <=> g.index = h.index
      BY <2>1 DEF Handles
    <3> QED BY <1>3, <1>7, <2>1, <3>1, PendingDue
  <2>2. ASSUME NEW g \in Handles, g.span # h.span
        PROVE  Pending(N, g) <=> Pending(L, g) /\ g # h
    BY <1>3, <1>5, <2>2, PendingDue
  <2> QED BY <2>1, <2>2
<1>13. \A g \in Handles, kind \in Kinds :
          Owing(L, g, kind) /\ g # h => Owing(N, g, kind)
  <2>1. ASSUME NEW g \in Handles, NEW kind \in Kinds, PendingAs(L, g, kind), g # h
        PROVE  PendingAs(N, g, kind)
    <3>1. Pending(N, g) /\ g.span \in Live(L) /\ g.index \in DOMAIN L.spans[g.span].records
      BY <1>12, <2>1 DEF PendingAs, Pending
    <3>2. N.spans[g.span].records[g.index].kind = L.spans[g.span].records[g.index].kind
      <4>1. CASE g.span = h.span
        <5>1. /\ \A j \in DOMAIN s.records : new.records[j].kind = s.records[j].kind
              /\ s = L.spans[h.span] /\ new = N.spans[h.span]
          BY <1>7
        <5> QED BY <3>1, <4>1, <5>1
      <4>2. CASE g.span # h.span
        BY <1>5, <3>1, <4>2
      <4> QED BY <4>1, <4>2
    <3> QED BY <2>1, <3>1, <3>2 DEF PendingAs
  <2> QED BY <1>1, <1>2, <2>1 DEF Owing
<1>14. \A kind \in Kinds : Owing(N, NoHandle, kind)
  BY <1>1, <1>2 DEF Safe, Typed, Shaped, Owing, NoHandle
<1>15. Debts(N, left)
  <2>1. ~KeptBy(M, left, h) /\ "Draw" \in Kinds /\ "Resolve" \in Kinds
    BY DEF Paid, Kinds
  <2>2. ASSUME NEW t \in Threads
        PROVE  Owing(N, N.openDraws[t], "Draw") /\ Owing(N, N.openResolves[t], "Resolve")
    <3>1. L.openDraws[t] \in Handles /\ L.openResolves[t] \in Handles
      BY HandleTypes DEF Safe
    <3>2. M.openDraws[t] # h /\ M.openResolves[t] # h
      BY <2>1 DEF KeptBy
    <3>3. Owing(L, L.openDraws[t], "Draw") /\ Owing(L, L.openResolves[t], "Resolve")
      BY DEF Safe, Sound, Debts
    <3> QED BY <1>2, <1>13, <1>14, <2>1, <3>1, <3>2, <3>3 DEF Paid
  <2>3. ASSUME NEW g \in left PROVE Owing(N, g, "Draw") /\ g \in Handles
    <3>1. g \in Handles /\ Owing(L, g, "Draw") /\ g # h
      BY <2>1 DEF Safe, Sound, Debts, Paid, KeptBy
    <3> QED BY <1>13, <2>1, <3>1
  <2>4. ASSUME NEW g \in N.frontbuffer PROVE Owing(N, g, "Resolve")
    <3>1. g \in Handles /\ Owing(L, g, "Resolve") /\ g # h
      BY <1>2, <2>1 DEF Safe, Sound, Debts, Paid, KeptBy, Typed, Others
    <3> QED BY <1>13, <2>1, <3>1
  <2> QED BY <2>2, <2>3, <2>4 DEF Debts
<1>16. Apart(N, left)
  BY <1>2 DEF Apart, Paid, Safe, Sound
<1>17. Covered(N, left)
  <2>1. ASSUME ~N.closed, NEW g \in Handles, Pending(N, g) PROVE KeptBy(N, left, g)
    <3>1. g # h /\ KeptBy(L, out, g) /\ g # NoHandle
      BY <1>1, <1>2, <1>12, <2>1 DEF Safe, Sound, Covered
    <3>2. KeptBy(M, left, g)
      BY <3>1 DEF KeptBy, Paid
    <3> QED BY <1>2, <3>2 DEF KeptBy
  <2> QED BY <2>1 DEF Covered
<1> QED BY <1>6, <1>9, <1>10, <1>11, <1>15, <1>16, <1>17 DEF Safe, Sound, N

LEMMA OneKind ==
    ASSUME NEW c, NEW L, Typed(L, c), NEW h \in Handles,
           Owing(L, h, "Draw"), Owing(L, h, "Resolve")
    PROVE  ~Pending(L, h)
BY DEF Owing, PendingAs, Pending, Live, Typed, Shaped, Handles

\* A thread gives up its open draw or its open resolve.
LEMMA ClearPaid ==
    ASSUME NEW c, NEW L, NEW out, NEW old, Safe(L, c, out, old), NEW t \in Threads
    PROVE  /\ Paid([L EXCEPT !.openDraws[t] = NoHandle], L, out, out, L.openDraws[t])
           /\ Paid([L EXCEPT !.openResolves[t] = NoHandle], L, out, out,
                   L.openResolves[t])
<1>1. /\ ~Pending(L, NoHandle) /\ NoHandle \in Handles
      /\ \A u \in Threads : L.openDraws[u] \in Handles /\ L.openResolves[u] \in Handles
  BY HandleTypes DEF Safe, Typed, Shaped, Live, Pending, NoHandle
<1>2. \A u \in Threads : Owing(L, L.openDraws[u], "Draw")
                         /\ Owing(L, L.openResolves[u], "Resolve")
  BY DEF Safe, Sound, Debts
<1>3. /\ \A h \in out : Owing(L, h, "Draw")
      /\ \A h \in L.frontbuffer : Owing(L, h, "Resolve")
  BY DEF Safe, Sound, Debts
<1>4. ASSUME NEW M, M = [L EXCEPT !.openDraws[t] = NoHandle]
      PROVE  Paid(M, L, out, out, L.openDraws[t])
  <2>1. /\ M.openDraws = [L.openDraws EXCEPT ![t] = NoHandle]
        /\ M.openResolves = L.openResolves /\ M.frontbuffer = L.frontbuffer
        /\ M.spans = L.spans /\ M.held = L.held /\ M.heldFirst = L.heldFirst
        /\ DOMAIN L.openDraws = Threads
    BY <1>4, FieldNames DEF Safe, Typed, Shaped, Others
  <2>2. SameHandles([M EXCEPT !.openDraws = L.openDraws, !.openResolves = L.openResolves,
                              !.frontbuffer = L.frontbuffer], L)
    BY <1>4, FieldNames DEF Safe, Typed, Shaped, SameHandles
  <2>3. ASSUME Pending(L, L.openDraws[t]) PROVE ~KeptBy(M, out, L.openDraws[t])
    <3>1. \A u \in Threads : L.openDraws[t] # M.openDraws[u]
      BY <1>1, <2>1, <2>3 DEF Safe, Sound, Apart
    <3>2. \A u \in Threads : L.openDraws[t] # M.openResolves[u]
      BY <1>1, <1>2, <2>1, <2>3, OneKind DEF Safe
    <3>3. L.openDraws[t] \notin out \cup M.frontbuffer
      BY <1>1, <1>2, <1>3, <2>1, <2>3, OneKind DEF Safe, Sound, Apart
    <3> QED BY <3>1, <3>2, <3>3 DEF KeptBy
  <2> QED BY <2>1, <2>2, <2>3 DEF Paid
<1>5. ASSUME NEW M, M = [L EXCEPT !.openResolves[t] = NoHandle]
      PROVE  Paid(M, L, out, out, L.openResolves[t])
  <2>1. /\ M.openResolves = [L.openResolves EXCEPT ![t] = NoHandle]
        /\ M.openDraws = L.openDraws /\ M.frontbuffer = L.frontbuffer
        /\ M.spans = L.spans /\ M.held = L.held /\ M.heldFirst = L.heldFirst
        /\ DOMAIN L.openResolves = Threads
    BY <1>5, FieldNames DEF Safe, Typed, Shaped, Others
  <2>2. SameHandles([M EXCEPT !.openDraws = L.openDraws, !.openResolves = L.openResolves,
                              !.frontbuffer = L.frontbuffer], L)
    BY <1>5, FieldNames DEF Safe, Typed, Shaped, SameHandles
  <2>3. ASSUME Pending(L, L.openResolves[t]) PROVE ~KeptBy(M, out, L.openResolves[t])
    <3>1. \A u \in Threads : L.openResolves[t] # M.openResolves[u]
      BY <1>1, <2>1, <2>3 DEF Safe, Sound, Apart
    <3>2. \A u \in Threads : L.openResolves[t] # M.openDraws[u]
      BY <1>1, <1>2, <2>1, <2>3, OneKind DEF Safe
    <3>3. L.openResolves[t] \notin out \cup M.frontbuffer
      BY <1>1, <1>2, <1>3, <2>1, <2>3, OneKind DEF Safe, Sound, Apart
    <3> QED BY <3>1, <3>2, <3>3 DEF KeptBy
  <2> QED BY <2>1, <2>2, <2>3 DEF Paid
<1> QED BY <1>4, <1>5

LEMMA AbandonSafe ==
    ASSUME NEW c, NEW L, NEW out, NEW old, Safe(L, c, out, old), NEW M, Typed(M, c),
           NEW left, NEW h \in Handles, Paid(M, L, out, left, h)
    PROVE  Safe(Abandon(M, h), c, left, old)
<1>1. Pending(M, h) <=> Pending(L, h)
  BY PaidFields DEF Safe
<1>2. CASE ~Pending(L, h)
  <2>1. Safe(M, c, left, old)
    BY <1>2, ForgetSafe
  <2> QED BY <1>1, <1>2, <2>1 DEF Abandon
<1>3. CASE Pending(L, h)
  <2>1. Safe(Settle(M, h), c, left, old)
    BY <1>3, SettleSafe
  <2>2. h.span \in Live(L) /\ Due(L.spans[h.span]) # {} /\ h.span \in Nat
    BY <1>3, PendingDue DEF Handles
  <2>3. h.span \notin Settled(old)
    BY <2>2, NotSettled
  <2>4. Safe(Unown(Settle(M, h), h.span, h.index), c, left, old)
    BY <2>1, <2>2, <2>3, UnownSafe
  <2> QED BY <1>1, <1>3, <2>4 DEF Abandon
<1> QED BY <1>2, <1>3

LEMMA AbandonOpenResolveSafe ==
    ASSUME NEW c, NEW L, NEW out, NEW old, Safe(L, c, out, old), NEW t \in Threads
    PROVE  Safe(AbandonOpenResolve(L, t), c, out, old)
<1> DEFINE M == [L EXCEPT !.openResolves[t] = NoHandle]
           h == L.openResolves[t]
<1>1. Paid(M, L, out, out, h)
  BY ClearPaid
<1>2. h \in Handles /\ Typed(M, c)
  BY HandleTypes, ClearHandles DEF Safe
<1>3. AbandonOpenResolve(L, t) = Abandon(M, h)
  BY DEF AbandonOpenResolve
<1> HIDE DEF M, h
<1> QED BY <1>1, <1>2, <1>3, AbandonSafe

-----------------------------------------------------------------------------
(* The open span takes records. *)

LEMMA BackNotSettled ==
    ASSUME NEW c, NEW L, NEW out, NEW old, Safe(L, c, out, old)
    PROVE  /\ Back(L) \in Live(L) /\ Back(L) \in Nat /\ Back(L) \notin Settled(old)
           /\ L.spans[Back(L)] \in SpanTo(c)
           /\ Reported(L.spans[Back(L)]) /\ Unsealed(L.spans[Back(L)])
           /\ Untouched(L.spans[Back(L)])
<1>1. Back(L) \in Live(L) /\ Back(L) \in Nat
  BY BackTypes DEF Safe
<1>2. Back(L) \notin Settled(old)
  BY <1>1, NotSettled
<1> QED BY <1>1, <1>2, SpanOfLedger DEF Safe, Sound, SpansSound, Since

\* Fields of a span beside its records' verdicts.
SameDebt(new, s) ==
    /\ new.records = s.records /\ new.pending = s.pending
    /\ s.partial => new.partial
    /\ new.applied = s.applied /\ new.stage = s.stage /\ new.flushed = s.flushed
    /\ Unsealed(new)

LEMMA PutDebt ==
    ASSUME NEW c, NEW L, NEW out, NEW old, Safe(L, c, out, old), NEW id, NEW s,
           id \in Live(L) => id \notin Settled(old) /\ SameDebt(s, L.spans[id])
    PROVE  Sound([L EXCEPT !.spans[id] = s], out, old)
<1>1. ASSUME id \in Live(L) PROVE id \notin Settled(old) /\ Quiet(s, L.spans[id])
  <2>1. /\ Reported(L.spans[id]) /\ (id \in Settled(old) \/ Untouched(L.spans[id]))
    BY <1>1 DEF Safe, Sound, SpansSound, Since
  <2> QED BY <1>1, <2>1 DEF SameDebt, Quiet, Reported, Untouched, Due
<1> QED BY <1>1, PutQuiet

LEMMA PutField ==
    ASSUME NEW c, NEW L, NEW out, NEW old, Safe(L, c, out, old), NEW id,
           id \in Live(L) => id \notin Settled(old), NEW x
    PROVE  /\ Sound([L EXCEPT !.spans[id].thread = x], out, old)
           /\ Sound([L EXCEPT !.spans[id].startsList = x], out, old)
           /\ Sound([L EXCEPT !.spans[id].kicked = x], out, old)
           /\ Sound([L EXCEPT !.spans[id].lastAdmitted = x], out, old)
           /\ Sound([L EXCEPT !.spans[id].dwords = x], out, old)
           /\ Sound([L EXCEPT !.spans[id].partial = TRUE], out, old)
<1> DEFINE s == L.spans[id]
<1>1. ASSUME id \in Live(L)
      PROVE  /\ SameDebt([s EXCEPT !.thread = x], s)
             /\ SameDebt([s EXCEPT !.startsList = x], s)
             /\ SameDebt([s EXCEPT !.kicked = x], s)
             /\ SameDebt([s EXCEPT !.lastAdmitted = x], s)
             /\ SameDebt([s EXCEPT !.dwords = x], s)
             /\ SameDebt([s EXCEPT !.partial = TRUE], s)
  <2>1. s \in SpanTo(c) /\ Unsealed(s)
    BY <1>1, SpanOfLedger DEF Safe, Sound, SpansSound
  <2> HIDE DEF s
  <2> QED BY <2>1 DEF SameDebt, Unsealed, SpanTo
<1> QED BY <1>1, PutDebt

LEMMA AdmitSafe ==
    ASSUME NEW c, NEW L, NEW out, NEW old, Safe(L, c, out, old), NEW t \in Threads,
           NEW allowHeld
    PROVE  Safe(Admit(L, t, allowHeld), c, out, old)
<1> DEFINE b == Back(L)
           M == IF Refused(L, t, allowHeld) THEN FailAt(L, b) ELSE L
<1>1. Safe(M, c, out, old) /\ Back(M) = b
  BY BackNotSettled, FailAtSafe, FieldNames DEF FailAt, Back, Safe, Typed, Shaped
<1>2. \/ Admit(L, t, allowHeld) = M
      \/ Admit(L, t, allowHeld) = [M EXCEPT !.spans[b].thread = t]
  BY DEF Admit
<1>3. Typed(Admit(L, t, allowHeld), c)
  BY AdmitTyped DEF Safe
<1> HIDE DEF M, b
<1>4. b \notin Settled(old)
  BY <1>1, BackNotSettled
<1>5. Sound([M EXCEPT !.spans[b].thread = t], out, old)
  BY <1>1, <1>4, PutField
<1> QED BY <1>1, <1>2, <1>3, <1>5 DEF Safe

\* What appending does, field by field.
Longer(new, s, recs) ==
    /\ new.records = s.records \o recs /\ new.pending = s.pending
    /\ new.partial = s.partial /\ new.deferred = s.deferred
    /\ new.sealed = s.sealed
    /\ new.applied = s.applied /\ new.stage = s.stage /\ new.flushed = s.flushed
    /\ Len(s.records) \in Nat /\ DOMAIN s.records = 1 .. Len(s.records)
    /\ Len(recs) \in Nat /\ DOMAIN recs = 1 .. Len(recs)
    /\ Len(new.records) = Len(s.records) + Len(recs)
    /\ DOMAIN new.records = 1 .. (Len(s.records) + Len(recs))
    /\ \A i \in 1 .. Len(s.records) : new.records[i] = s.records[i]
    /\ \A i \in 1 .. Len(recs) : new.records[Len(s.records) + i] = recs[i]

Appended(N, L, recs) ==
    /\ SameHandles(N, L) /\ N.held = L.held /\ N.heldFirst = L.heldFirst
    /\ N.heldList = L.heldList /\ N.lists = L.lists /\ N.nextList = L.nextList
    /\ Live(N) = Live(L) /\ Back(N) = Back(L)
    /\ \A id \in Live(L) : id # Back(L) => N.spans[id] = L.spans[id]
    /\ Longer(N.spans[Back(L)], L.spans[Back(L)], recs)

LEMMA Appends ==
    ASSUME NEW c, NEW L, NEW recs, Typed(L, c), recs \in Seq(RecordTo(c))
    PROVE  Appended(AppendRecords(L, recs), L, recs)
<1>0. PICK N, b, s, new : /\ N = AppendRecords(L, recs) /\ b = Back(L)
                          /\ s = L.spans[b] /\ new = N.spans[b]
  OBVIOUS
<1>1. b \in Live(L) /\ s \in SpanTo(c)
  BY <1>0, BackTypes, SpanOfLedger
<1>2. /\ SameHandles(N, L) /\ N.held = L.held /\ N.heldFirst = L.heldFirst
      /\ N.heldList = L.heldList /\ N.lists = L.lists /\ N.nextList = L.nextList
      /\ \A id \in Live(L) : id # b => N.spans[id] = L.spans[id]
      /\ new.records = s.records \o recs /\ new.pending = s.pending
      /\ new.partial = s.partial /\ new.deferred = s.deferred
      /\ new.sealed = s.sealed
      /\ new.applied = s.applied /\ new.stage = s.stage /\ new.flushed = s.flushed
  BY <1>0, <1>1, FieldNames, SpanFieldNames
     DEF AppendRecords, Typed, Shaped, SameHandles
<1>3. Live(N) = Live(L) /\ Back(N) = b
  BY <1>0, <1>2 DEF SameHandles, Live, Back
<1>4. /\ s.records \in Seq(RecordTo(c)) /\ Len(s.records) \in Nat
      /\ DOMAIN s.records = 1 .. Len(s.records)
      /\ Len(recs) \in Nat /\ DOMAIN recs = 1 .. Len(recs)
  BY <1>1, LenProperties DEF SpanTo
<1>5. /\ Len(new.records) = Len(s.records) + Len(recs)
      /\ DOMAIN new.records = 1 .. (Len(s.records) + Len(recs))
      /\ \A i \in 1 .. Len(s.records) : new.records[i] = s.records[i]
      /\ \A i \in 1 .. Len(recs) : new.records[Len(s.records) + i] = recs[i]
  BY <1>2, <1>4, ConcatProperties, LenProperties
<1> QED BY ZenonT(30), <1>0, <1>2, <1>3, <1>4, <1>5 DEF Appended, Longer

LEMMA AppendSafe ==
    ASSUME NEW c, NEW L, NEW out, NEW old, Safe(L, c, out, old),
           NEW recs \in Seq(RecordTo(c)), Plain(recs)
    PROVE  Safe(AppendRecords(L, recs), c, out, old)
<1>1. PICK N, b, s, new : /\ N = AppendRecords(L, recs) /\ b = Back(L)
                          /\ s = L.spans[b] /\ new = N.spans[b]
  OBVIOUS
<1>2. Appended(N, L, recs) /\ Longer(new, s, recs)
  BY <1>1, Appends DEF Safe, Appended
<1>3. /\ b \notin Settled(old) /\ Reported(s) /\ Unsealed(s) /\ Untouched(s)
  BY <1>1, BackNotSettled
<1>4. \A i \in DOMAIN new.records :
         \/ i \in DOMAIN s.records /\ new.records[i] = s.records[i]
         \/ ~new.records[i].pending /\ ~new.records[i].skipped
  <2>1. ASSUME NEW i \in DOMAIN new.records, i \notin DOMAIN s.records
        PROVE  ~new.records[i].pending /\ ~new.records[i].skipped
    <3>1. i - Len(s.records) \in 1 .. Len(recs)
      BY <1>2, <2>1 DEF Longer
    <3>2. new.records[Len(s.records) + (i - Len(s.records))] = recs[i - Len(s.records)]
      BY <1>2, <3>1 DEF Longer
    <3>3. Len(s.records) + (i - Len(s.records)) = i
      BY <1>2, <2>1 DEF Longer
    <3> QED BY <1>2, <3>1, <3>2, <3>3 DEF Plain, Longer
  <2> QED BY <1>2, <2>1 DEF Longer
<1>5. \A i \in DOMAIN s.records :
         i \in DOMAIN new.records /\ new.records[i] = s.records[i]
  BY <1>2 DEF Longer
<1>6. Due(new) = Due(s)
  BY <1>4, <1>5 DEF Due
<1>7. Quiet(new, s)
  BY <1>2, <1>3, <1>4, <1>5, <1>6 DEF Quiet, Reported, Unsealed, Untouched, Longer
<1>8. \A id \in Live(L) :
         \/ N.spans[id] = L.spans[id]
         \/ id \notin Settled(old) /\ Quiet(N.spans[id], L.spans[id])
  BY <1>1, <1>2, <1>3, <1>7 DEF Appended
<1>9. HeldPlain(N)
  BY <1>2 DEF Appended, HeldPlain, Safe, Sound
<1>10. Typed(N, c)
  BY <1>1, AppendRecordsTyped DEF Safe
<1>11. Sound(N, out, old)
  BY <1>2, <1>8, <1>9, QuietSound DEF Appended
<1> QED BY <1>1, <1>10, <1>11 DEF Safe

LEMMA RecordOnSafe ==
    ASSUME NEW c, NEW L, NEW out, NEW old, Safe(L, c, out, old), NEW t \in Threads,
           NEW r \in RecordTo(c), ~r.pending, ~r.skipped
    PROVE  Safe(RecordOn(L, t, r), c, out, old)
<1>1. Safe(Admit(AbandonOpenResolve(L, t), t, FALSE), c, out, old)
  BY AbandonOpenResolveSafe, AdmitSafe
<1>2. <<r>> \in Seq(RecordTo(c)) /\ Plain(<<r>>)
  BY DEF Plain
<1> QED BY <1>1, <1>2, AppendSafe DEF RecordOn

LEMMA OtherSafe ==
    ASSUME NEW c, NEW L, NEW out, NEW old, Safe(L, c, out, old), NEW M,
           Typed(M, c), SameHandles(M, L), M.spans = L.spans,
           M.held = L.held, M.heldFirst = L.heldFirst
    PROVE  Safe(M, c, out, old)
<1>1. HeldPlain(M)
  BY DEF HeldPlain, Safe, Sound
<1> QED BY <1>1, OtherSound DEF Safe

LEMMA FlagSafe ==
    ASSUME NEW c, NEW L, NEW out, NEW old, Safe(L, c, out, old)
    PROVE  Safe([L EXCEPT !.epochPartial = TRUE], c, out, old)
<1> DEFINE M == [L EXCEPT !.epochPartial = TRUE]
<1>1. /\ SameHandles(M, L) /\ M.spans = L.spans
      /\ M.held = L.held /\ M.heldFirst = L.heldFirst
  BY FieldNames DEF Safe, Typed, Shaped, SameHandles
<1>2. Typed(M, c)
  BY FlagTyped DEF Safe
<1> QED BY <1>1, <1>2, OtherSafe

LEMMA CheckIdentitySafe ==
    ASSUME NEW c, NEW L, NEW out, NEW old, Safe(L, c, out, old), NEW block
    PROVE  Safe(CheckIdentity(L, block), c, out, old)
BY BackNotSettled, FailAtSafe DEF CheckIdentity

\* The dispatcher's verdict of a record.
LEMMA MarkSafe ==
    ASSUME NEW c, NEW L, NEW out, NEW old, Safe(L, c, out, old), NEW id, NEW i,
           id \in Live(L) => id \notin Settled(old), NEW m \in 0 .. c
    PROVE  Safe([L EXCEPT !.spans[id].records[i].mark = m], c, out, old)
<1> DEFINE recs == [L.spans[id].records EXCEPT ![i].mark = m]
           s == [L.spans[id] EXCEPT !.records = recs]
<1>1. Typed([L EXCEPT !.spans[id].records[i].mark = m], c)
  BY ChangeRecord DEF Safe
<1>2. ASSUME id \in Live(L) PROVE Quiet(s, L.spans[id])
  <2>1. L.spans[id] \in SpanTo(c)
    BY <1>2, SpanOfLedger DEF Safe
  <2>2. \A j \in DOMAIN L.spans[id].records : L.spans[id].records[j] \in RecordTo(c)
    BY <2>1, RecordOfSpan
  <2>3. /\ DOMAIN recs = DOMAIN L.spans[id].records
        /\ \A j \in DOMAIN L.spans[id].records :
              /\ recs[j].kind = L.spans[id].records[j].kind
              /\ recs[j].pending = L.spans[id].records[j].pending
              /\ recs[j].skipped = L.spans[id].records[j].skipped
    BY <2>2 DEF RecordTo
  <2> HIDE DEF recs
  <2>4. /\ s.records = recs /\ s.pending = L.spans[id].pending
        /\ s.partial = L.spans[id].partial
        /\ s.deferred = L.spans[id].deferred /\ s.sealed = L.spans[id].sealed
        /\ s.applied = L.spans[id].applied /\ s.stage = L.spans[id].stage
        /\ s.flushed = L.spans[id].flushed
    BY <2>1 DEF SpanTo
  <2>5. /\ Reported(L.spans[id]) /\ Unsealed(L.spans[id]) /\ Untouched(L.spans[id])
    BY <1>2 DEF Safe, Sound, SpansSound, Since
  <2> HIDE DEF s
  <2> QED BY <2>3, <2>4, <2>5 DEF Quiet, Reported, Unsealed, Untouched, Due
<1> HIDE DEF recs
<1>3. Sound([L EXCEPT !.spans[id] = s], out, old)
  BY <1>2, PutQuiet
<1>4. [L EXCEPT !.spans[id].records[i].mark = m] = [L EXCEPT !.spans[id] = s]
  BY DEF recs
<1> QED BY <1>1, <1>3, <1>4 DEF Safe

LEMMA AdmittedSafe ==
    ASSUME NEW c \in Nat, NEW L, NEW out, NEW old, Safe(L, c, out, old), NEW id,
           id \in Live(L) => id \notin Settled(old), NEW m \in 0 .. c
    PROVE  Safe([L EXCEPT !.spans[id].lastAdmitted = MaxOf(@, m)], c, out, old)
<1> DEFINE newest == MaxOf(L.spans[id].lastAdmitted, m)
<1>1. Typed([L EXCEPT !.spans[id].lastAdmitted = newest], c)
  BY AdmitMarkTyped DEF Safe
<1> HIDE DEF newest
<1>2. Sound([L EXCEPT !.spans[id].lastAdmitted = newest], out, old)
  BY PutField
<1> QED BY <1>1, <1>2 DEF Safe, newest

LEMMA PartialSafe ==
    ASSUME NEW c, NEW L, NEW out, NEW old, Safe(L, c, out, old), NEW id,
           id \in Live(L) => id \notin Settled(old)
    PROVE  Safe([L EXCEPT !.spans[id].partial = TRUE, !.epochPartial = TRUE], c, out, old)
<1> DEFINE M == [L EXCEPT !.spans[id].partial = TRUE]
<1>1. Safe(M, c, out, old)
  BY PutField, PutFlags DEF Safe
<1>2. [L EXCEPT !.spans[id].partial = TRUE, !.epochPartial = TRUE]
         = [M EXCEPT !.epochPartial = TRUE]
  OBVIOUS
<1> HIDE DEF M
<1> QED BY <1>1, <1>2, FlagSafe

LEMMA SettleDrawSafe ==
    ASSUME NEW c \in Nat, NEW L, NEW out, NEW old, Safe(L, c, out, old),
           NEW id \in Nat, NEW i, id \in Live(L) => id \notin Settled(old),
           NEW sequence \in 0 .. c, NEW verdict
    PROVE  Safe(SettleDraw(L, id, i, sequence, verdict), c, out, old)
<1> DEFINE M == [L EXCEPT !.spans[id].records[i].mark = sequence]
<1>1. Safe(M, c, out, old)
  BY MarkSafe
<1>2. Live(M) = Live(L)
  BY FieldNames DEF Safe, Typed, Shaped, Live
<1>3. \/ SettleDraw(L, id, i, sequence, verdict)
            = [M EXCEPT !.spans[id].lastAdmitted = MaxOf(@, sequence)]
      \/ SettleDraw(L, id, i, sequence, verdict)
            = [M EXCEPT !.spans[id].partial = TRUE, !.epochPartial = TRUE]
      \/ SettleDraw(L, id, i, sequence, verdict) = Unown(M, id, i)
  BY DEF SettleDraw
<1> HIDE DEF M
<1>4. Safe([M EXCEPT !.spans[id].lastAdmitted = MaxOf(@, sequence)], c, out, old)
  BY <1>1, <1>2, AdmittedSafe
<1>5. Safe([M EXCEPT !.spans[id].partial = TRUE, !.epochPartial = TRUE], c, out, old)
  BY <1>1, <1>2, PartialSafe
<1>6. Safe(Unown(M, id, i), c, out, old)
  BY <1>1, <1>2, UnownSafe
<1> QED BY <1>3, <1>4, <1>5, <1>6

-----------------------------------------------------------------------------
(* A record that somebody owes a verdict. *)

Opens(M, L) == M.openDraws = L.openDraws /\ M.openResolves = L.openResolves

LEMMA UnownOpens ==
    ASSUME NEW c, NEW L, Typed(L, c), NEW id, NEW i
    PROVE  Opens(Unown(L, id, i), L)
<1>1. Opens(FailAt(L, id), L) /\ DOMAIN FailAt(L, id) = Fields
  BY FieldNames DEF FailAt, Opens, Typed, Shaped
<1>2. \A M, recs : DOMAIN M = Fields =>
         Opens([M EXCEPT !.spans = recs], M) /\ Opens([M EXCEPT !.spans = recs,
                                                               !.epochPartial = TRUE], M)
  BY FieldNames DEF Opens
<1>3. DOMAIN L = Fields
  BY DEF Typed, Shaped
<1>4. CASE Mode = "Census"
  <2> DEFINE recs == L.spans[id].records
             without == IF i \in DOMAIN recs THEN [recs EXCEPT ![i].skipped = TRUE] ELSE recs
             N == [L EXCEPT !.spans[id].records = without, !.spans[id].partial = TRUE,
                            !.epochPartial = TRUE]
  <2>1. Unown(L, id, i) = N
    BY <1>4 DEF Unown
  <2> HIDE DEF without
  <2>2. Opens(N, L)
    BY <1>3, FieldNames DEF Opens
  <2> QED BY <2>1, <2>2
<1>5. CASE Mode # "Census"
  BY <1>1, <1>3, <1>5, FieldNames DEF Unown, Opens
<1> QED BY <1>4, <1>5

LEMMA KeepsOpens ==
    ASSUME NEW c, NEW L, Typed(L, c)
    PROVE  /\ \A h \in Handles : Opens(Abandon(L, h), L)
           /\ \A t \in Threads, allowHeld \in BOOLEAN : Opens(Admit(L, t, allowHeld), L)
<1>1. ASSUME NEW h \in Handles PROVE Opens(Abandon(L, h), L)
  <2>1. Opens(Settle(L, h), L)
    BY FieldNames DEF Settle, Opens, Typed, Shaped
  <2>2. Opens(Unown(Settle(L, h), h.span, h.index), Settle(L, h))
    BY SettleTyped, UnownOpens
  <2> QED BY <2>1, <2>2 DEF Abandon, Opens
<1>2. ASSUME NEW t \in Threads, NEW allowHeld \in BOOLEAN PROVE Opens(Admit(L, t, allowHeld), L)
  <2>1. Opens(FailAt(L, Back(L)), L) /\ DOMAIN FailAt(L, Back(L)) = Fields
    BY FieldNames DEF FailAt, Opens, Typed, Shaped
  <2> QED BY <2>1, FieldNames DEF Admit, Opens, Typed, Shaped
<1> QED BY <1>1, <1>2

\* Thread t will settle record h.
Opened(N, L, t, h, kind) ==
    \/ /\ kind = "Draw" /\ L.openDraws[t] = NoHandle
       /\ N.openDraws = [L.openDraws EXCEPT ![t] = h]
       /\ N.openResolves = L.openResolves
    \/ /\ kind = "Resolve" /\ L.openResolves[t] = NoHandle
       /\ N.openResolves = [L.openResolves EXCEPT ![t] = h]
       /\ N.openDraws = L.openDraws

LEMMA OpenSafe ==
    ASSUME NEW c, NEW L, NEW out, NEW old, Safe(L, c, out, old), NEW t \in Threads,
           NEW r, r.pending, ~r.skipped,
           NEW h, h = [span |-> Back(L), index |-> Len(L.spans[Back(L)].records) + 1],
           NEW N, Typed(N, c),
           N.oldest = L.oldest, N.nextSpan = L.nextSpan, N.closed = L.closed,
           N.frontbuffer = L.frontbuffer, N.failedSpan = L.failedSpan \/ L.failedSpan = 0,
           N.held = L.held, N.heldFirst = L.heldFirst,
           Opened(N, L, t, h, r.kind),
           \A id \in Live(L) : id # Back(L) => N.spans[id] = L.spans[id],
           NEW s, s = L.spans[Back(L)], NEW new, new = N.spans[Back(L)],
           Longer([new EXCEPT !.pending = s.pending], s, <<r>>), 
           DOMAIN new = SpanFields, new.pending = s.pending + 1
    PROVE  Safe(N, c, out, old)
<1> DEFINE b == Back(L)
           n == Len(s.records)
<1>1. /\ b \in Live(L) /\ b \in Nat /\ b \notin Settled(old)
      /\ s \in SpanTo(c) /\ Reported(s) /\ Unsealed(s) /\ Untouched(s)
  BY BackNotSettled
<1>2. Live(N) = Live(L) /\ Back(N) = b
  BY DEF Live, Back
<1>3. /\ n \in Nat /\ DOMAIN s.records = 1 .. n /\ DOMAIN new.records = 1 .. (n + 1)
      /\ \A i \in 1 .. n : new.records[i] = s.records[i]
      /\ new.records[n + 1] = r
      /\ new.partial = s.partial /\ new.deferred = s.deferred /\ new.sealed = s.sealed
      /\ new.applied = s.applied /\ new.stage = s.stage /\ new.flushed = s.flushed
  <2>1. Len(<<r>>) = 1 /\ <<r>>[1] = r /\ 1 \in 1 .. 1
    OBVIOUS
  <2> QED BY <2>1, SpanFieldNames DEF Longer
<1>4. h \in Handles /\ h.span = b /\ h.index = n + 1
  BY <1>1, <1>3 DEF Handles
<1> HIDE DEF b, n
<1>3a. /\ \A i \in DOMAIN new.records :
            i = n + 1 \/ i \in DOMAIN s.records
      /\ \A i \in DOMAIN s.records :
            i \in DOMAIN new.records /\ new.records[i] = s.records[i]
      /\ n + 1 \notin DOMAIN s.records /\ n + 1 \in DOMAIN new.records
  BY <1>3
<1>5. Due(new) = Due(s) \cup {n + 1} /\ n + 1 \notin Due(s)
  BY SMTT(30), <1>3, <1>3a DEF Due
<1>6. Counted(N)
  <2>1. IsFiniteSet(Due(s)) /\ s.pending = Cardinality(Due(s))
    BY <1>1, DueFinite DEF Counted, Safe, Sound, b
  <2>2. Cardinality(Due(new)) = Cardinality(Due(s)) + 1
    <3>1. PICK D, k : /\ D = Due(s) /\ k = n + 1 /\ IsFiniteSet(D) /\ k \notin D
                      /\ Due(new) = D \cup {k}
      BY <1>5, <2>1
    <3>2. IsFiniteSet(D)
      BY <3>1
    <3>3. Cardinality(D \cup {k}) = IF k \in D THEN Cardinality(D) ELSE Cardinality(D) + 1
      BY <3>2, FS_AddElement
    <3> QED BY <2>1, <3>1, <3>3
  <2> QED BY <1>2, <2>1, <2>2 DEF Counted, Safe, Sound, b
<1>7. SpansSound(N)
  <2>1. Reported(new) /\ Unsealed(new)
    BY <1>1, <1>3, <1>3a DEF Reported, Unsealed
  <2> QED BY <1>2, <2>1 DEF SpansSound, Safe, Sound, b
<1>8. Since(N, old) /\ HeldPlain(N)
  <2>1. Untouched(new)
    BY <1>1, <1>3 DEF Untouched
  <2> QED BY <1>1, <1>2, <2>1 DEF Since, HeldPlain, Safe, Sound, b
<1>9. \A g \in Handles : Pending(N, g) <=> Pending(L, g) \/ g = h
  <2>1. ASSUME NEW g \in Handles, g.span = b
        PROVE  Pending(N, g) <=> Pending(L, g) \/ g = h
    <3>1. g = h <=> g.index = n + 1
      BY <1>4, <2>1 DEF Handles
    <3> QED BY <1>1, <1>2, <1>5, <2>1, <3>1, PendingDue DEF b
  <2>2. ASSUME NEW g \in Handles, g.span # b
        PROVE  Pending(N, g) <=> Pending(L, g) \/ g = h
    BY <1>2, <1>4, <2>2, PendingDue DEF b
  <2> QED BY <2>1, <2>2
<1>10. ~Pending(L, h) /\ PendingAs(N, h, r.kind)
  BY <1>1, <1>2, <1>3, <1>4, <1>3a, <1>9 DEF Pending, PendingAs, b
<1>11. \A g \in Handles, kind \in Kinds : Owing(L, g, kind) => Owing(N, g, kind)
  <2>1. ASSUME NEW g \in Handles, NEW kind \in Kinds, PendingAs(L, g, kind)
        PROVE  PendingAs(N, g, kind)
    <3>1. Pending(N, g) /\ g.span \in Live(L) /\ g.index \in DOMAIN L.spans[g.span].records
      BY <1>9, <2>1 DEF PendingAs, Pending
    <3>2. N.spans[g.span].records[g.index].kind = L.spans[g.span].records[g.index].kind
      BY <1>3a, <3>1 DEF b
    <3> QED BY <2>1, <3>1, <3>2 DEF PendingAs
  <2> QED BY <2>1 DEF Owing
<1>12. \A kind : ~Owing(L, h, kind)
  <2>1. b >= L.oldest /\ b < L.nextSpan
    BY <1>1 DEF Live, Safe, Typed, Shaped
  <2> QED BY <1>4, <1>10, <2>1 DEF Owing, PendingAs
<1>13. Owing(N, h, r.kind)
  BY <1>1, <1>2, <1>4, <1>10 DEF Owing, Live, Safe, Typed, Shaped
<1>14. /\ \A u \in Threads : h # L.openDraws[u] /\ h # L.openResolves[u]
       /\ h \notin out \cup L.frontbuffer /\ h # NoHandle
       /\ \A u \in Threads : L.openDraws[u] \in Handles /\ L.openResolves[u] \in Handles
       /\ out \subseteq Handles /\ L.frontbuffer \subseteq Handles
       /\ "Draw" \in Kinds /\ "Resolve" \in Kinds
  <2>1. h # NoHandle
    BY <1>4, <1>1 DEF NoHandle, Live, Safe, Typed, Shaped
  <2>2. \A u \in Threads : L.openDraws[u] \in Handles /\ L.openResolves[u] \in Handles
    BY HandleTypes DEF Safe
  <2> QED BY <1>12, <2>1, <2>2 DEF Safe, Sound, Debts, Typed, Others, Kinds
<1>15. L.openDraws \in [Threads -> Handles] /\ L.openResolves \in [Threads -> Handles]
  BY DEF Safe, Typed, Others
<1>16. Debts(N, out)
  BY <1>11, <1>13, <1>14, <1>15 DEF Debts, Opened, Safe, Sound
<1>17. Apart(N, out)
  BY <1>14, <1>15 DEF Apart, Opened, Safe, Sound
<1>18. Covered(N, out)
  <2>1. ASSUME ~N.closed, NEW g \in Handles, Pending(N, g) PROVE KeptBy(N, out, g)
    <3>1. CASE g = h
      BY <1>15, <3>1 DEF KeptBy, Opened
    <3>2. CASE g # h
      <4>1. Pending(L, g) /\ KeptBy(L, out, g)
        BY <1>9, <2>1, <3>2 DEF Safe, Sound, Covered
      <4>2. g # NoHandle
        BY <4>1 DEF Pending, NoHandle, Live, Safe, Typed, Shaped
      <4> QED BY <1>15, <4>1, <4>2 DEF KeptBy, Opened
    <3> QED BY <3>1, <3>2
  <2> QED BY <2>1 DEF Covered
<1> QED BY <1>6, <1>7, <1>8, <1>16, <1>17, <1>18 DEF Safe, Sound

-----------------------------------------------------------------------------
(* What guest threads record. *)

Now ==
    /\ clock \in Nat /\ "detached" \in DOMAIN host
    /\ Safe(ledger, clock, host.detached, ledger)
Stays == Safe(ledger', clock', host'.detached, ledger)

LEMMA TickSafe ==
    ASSUME Now, clock' \in {clock, clock + 1}
    PROVE  /\ Safe(ledger, clock', host.detached, ledger)
           /\ clock' \in Nat /\ clock' \in 0 .. clock'
BY TypedLater DEF Now, Safe

LEMMA PlainRecords ==
    ASSUME NEW t, NEW kind, NEW n
    PROVE  /\ LET r == NewRecord(kind, t)
              IN ~r.pending /\ ~r.skipped /\ r.kind = kind
           /\ LET r == [NewRecord(kind, t) EXCEPT !.value = n]
              IN ~r.pending /\ ~r.skipped /\ r.kind = kind
           /\ LET r == [NewRecord(kind, t) EXCEPT !.mark = n]
              IN ~r.pending /\ ~r.skipped /\ r.kind = kind
           /\ LET r == [NewRecord(kind, t) EXCEPT !.value = n, !.pending = TRUE]
              IN r.pending /\ ~r.skipped /\ r.kind = kind
           /\ \A block : ~FenceRecord(t, block, n).pending /\ ~FenceRecord(t, block, n).skipped
           /\ \A flags : ~CallbackRecord(t, flags, n).pending
                         /\ ~CallbackRecord(t, flags, n).skipped
BY DEF NewRecord, FenceRecord, CallbackRecord

LEMMA RecordStays ==
    ASSUME Now, clock' \in {clock, clock + 1}, host' = host,
           NEW t \in Threads, NEW r \in RecordTo(clock'), ~r.pending, ~r.skipped,
           ledger' = RecordOn(ledger, t, r)
    PROVE  Stays
BY TickSafe, RecordOnSafe DEF Stays

LEMMA ProgressStays ==
    ASSUME Now, NEW t \in Threads, ProgressOps(t)
    PROVE  Stays
<1>1. ASSUME clock' \in {clock, clock + 1}, NEW kind \in Kinds, NEW n \in Nat
      PROVE  /\ NewRecord(kind, t) \in RecordTo(clock')
             /\ [NewRecord(kind, t) EXCEPT !.value = n] \in RecordTo(clock')
  BY <1>1, TickSafe, RecordTypes
<1>2. {"InvalidateState", "Barrier", "ScratchWrite", "GpuWait"} \subseteq Kinds
  BY DEF Kinds
<1>3. CASE InvalidateState(t) \/ Barrier(t)
  <2>1. PICK kind \in Kinds : ledger' = RecordOn(ledger, t, NewRecord(kind, t))
    BY <1>2, <1>3 DEF InvalidateState, Barrier, Inert
  <2>2. clock' \in {clock, clock + 1} /\ host' = host
    BY <1>3 DEF InvalidateState, Barrier, Inert
  <2>3. NewRecord(kind, t) \in RecordTo(clock')
    BY <1>1, <2>2
  <2> QED BY <2>1, <2>2, <2>3, RecordStays, PlainRecords
<1>4. CASE ScratchWrite(t)
  <2> DEFINE r == [NewRecord("ScratchWrite", t) EXCEPT !.value = clock']
  <2>1. clock' \in {clock, clock + 1} /\ host' = host /\ ledger' = RecordOn(ledger, t, r)
    BY <1>4 DEF ScratchWrite, Tick
  <2>2. r \in RecordTo(clock')
    BY <1>1, <1>2, <2>1, TickSafe
  <2>3. ~r.pending /\ ~r.skipped
    BY PlainRecords
  <2> HIDE DEF r
  <2> QED BY <2>1, <2>2, <2>3, RecordStays
<1>5. ASSUME NEW word \in {0, 1}, GpuWait(t, word)
      PROVE  Stays
  <2> DEFINE r == [NewRecord("GpuWait", t) EXCEPT !.value = word]
  <2>1. clock' \in {clock, clock + 1} /\ host' = host /\ ledger' = RecordOn(ledger, t, r)
    BY <1>5 DEF GpuWait
  <2>2. r \in RecordTo(clock')
    BY <1>1, <1>2, <2>1
  <2>3. ~r.pending /\ ~r.skipped
    BY PlainRecords
  <2> HIDE DEF r
  <2> QED BY <2>1, <2>2, <2>3, RecordStays
<1>6. ASSUME NEW block \in Blocks, Fence(t, block)
      PROVE  Stays
  <2> DEFINE r == FenceRecord(t, block, clock')
             L == RecordOn(ledger, t, r)
  <2>1. clock' \in {clock, clock + 1} /\ host' = host
        /\ ledger' = CheckIdentity(L, block)
    BY <1>6 DEF Fence, Tick
  <2>2. r \in RecordTo(clock')
    BY <2>1, TickSafe, FenceTypes
  <2>3. ~r.pending /\ ~r.skipped
    BY PlainRecords
  <2> HIDE DEF r
  <2>4. Safe(L, clock', host.detached, ledger)
    BY <2>1, <2>2, <2>3, TickSafe, RecordOnSafe
  <2> HIDE DEF L
  <2> QED BY <2>1, <2>4, CheckIdentitySafe DEF Stays
<1>7. ASSUME NEW flags \in CallbackFlags, Callback(t, flags)
      PROVE  Stays
  <2> DEFINE r == CallbackRecord(t, flags, clock')
  <2>1. clock' \in {clock, clock + 1} /\ host' = host /\ ledger' = RecordOn(ledger, t, r)
    BY <1>7 DEF Callback, Tick
  <2>2. r \in RecordTo(clock')
    BY <2>1, TickSafe, CallbackTypes
  <2>3. ~r.pending /\ ~r.skipped
    BY PlainRecords
  <2> HIDE DEF r
  <2> QED BY <2>1, <2>2, <2>3, RecordStays
<1> QED BY <1>3, <1>4, <1>5, <1>6, <1>7 DEF ProgressOps

LEMMA UnownBackSafe ==
    ASSUME NEW c, NEW L, NEW out, NEW old, Safe(L, c, out, old), NEW i
    PROVE  Safe(Unown(L, Back(L), i), c, out, old)
BY BackNotSettled, UnownSafe

LEMMA UnmodeledStays ==
    ASSUME Now, NEW t \in Threads, UnmodeledOps(t)
    PROVE  Stays
<1>1. CASE Unmodeled(t)
  <2> DEFINE r == NewRecord("Unmodeled", t)
             L == RecordOn(ledger, t, r)
  <2>1. clock' \in {clock, clock + 1} /\ host' = host
        /\ ledger' = Unown(L, Back(L), Len(L.spans[Back(L)].records))
    BY <1>1 DEF Unmodeled
  <2>2. "Unmodeled" \in Kinds
    BY DEF Kinds
  <2>3. r \in RecordTo(clock') /\ ~r.pending /\ ~r.skipped
    BY <2>1, <2>2, TickSafe, RecordTypes, PlainRecords
  <2> HIDE DEF r
  <2>4. Safe(L, clock', host.detached, ledger)
    BY <2>1, <2>3, TickSafe, RecordOnSafe
  <2> HIDE DEF L
  <2> QED BY <2>1, <2>4, UnownBackSafe DEF Stays
<1>2. CASE BadTimestamp(t)
  <2> DEFINE L == Admit(AbandonOpenResolve(ledger, t), t, FALSE)
  <2>1. clock' = clock /\ host' = host /\ ledger' = FailAt(L, Back(L))
    BY <1>2 DEF BadTimestamp
  <2>2. Safe(L, clock, host.detached, ledger)
    BY AbandonOpenResolveSafe, AdmitSafe DEF Now
  <2> HIDE DEF L
  <2> QED BY <2>1, <2>2, BackNotSettled, FailAtSafe DEF Stays
<1>3. ASSUME NEW flags \in CallbackFlags, ForeignCallback(t, flags)
      PROVE  Stays
  <2> DEFINE r == CallbackRecord(t, flags, clock')
             L == RecordOn(ledger, t, r)
  <2>1. clock' \in {clock, clock + 1} /\ host' = host
        /\ ledger' = Unown(L, Back(L), Len(L.spans[Back(L)].records))
    BY <1>3 DEF ForeignCallback, Tick
  <2>2. r \in RecordTo(clock') /\ ~r.pending /\ ~r.skipped
    BY <2>1, TickSafe, CallbackTypes, PlainRecords
  <2> HIDE DEF r
  <2>3. Safe(L, clock', host.detached, ledger)
    BY <2>1, <2>2, TickSafe, RecordOnSafe
  <2> HIDE DEF L
  <2> QED BY <2>1, <2>3, UnownBackSafe DEF Stays
<1> QED BY <1>1, <1>2, <1>3 DEF UnmodeledOps

-----------------------------------------------------------------------------
(* Draws. *)

\* The record a root or a resolve opens.
SpanPut(N, M, b, s) ==
    /\ N.oldest = M.oldest /\ N.nextSpan = M.nextSpan /\ N.closed = M.closed
    /\ N.frontbuffer = M.frontbuffer /\ N.failedSpan = M.failedSpan
    /\ N.held = M.held /\ N.heldFirst = M.heldFirst
    /\ \A id \in Live(M) : id # b => N.spans[id] = M.spans[id]
    /\ N.spans[b] = s

LEMMA OpenRecordSafe ==
    ASSUME NEW c, NEW L, NEW out, NEW old, Safe(L, c, out, old), NEW t \in Threads,
           NEW r \in RecordTo(c), r.pending, ~r.skipped,
           NEW M, M = AppendRecords(L, <<r>>), NEW b, b = Back(M),
           NEW h, h = [span |-> b, index |-> Len(M.spans[b].records)],
           NEW N, Typed(N, c),
           \/ /\ r.kind = "Draw" /\ L.openDraws[t] = NoHandle
              /\ N = [M EXCEPT !.spans[b].pending = @ + 1, !.openDraws[t] = h]
           \/ /\ r.kind = "Resolve" /\ L.openResolves[t] = NoHandle
              /\ N = [M EXCEPT !.spans[b].pending = @ + 1, !.openResolves[t] = h]
    PROVE  Safe(N, c, out, old)
<1>1. Typed(M, c) /\ Appended(M, L, <<r>>)
  <2>1. <<r>> \in Seq(RecordTo(c)) /\ Typed(L, c)
    BY DEF Safe
  <2> QED BY <2>1, AppendRecordsTyped, Appends
<1>2. PICK s, m, new : s = L.spans[b] /\ m = M.spans[b] /\ new = N.spans[b]
  OBVIOUS
<1>3. b = Back(L) /\ b \in Live(M) /\ m \in SpanTo(c)
  BY <1>1, <1>2, BackTypes, SpanOfLedger DEF Appended
<1> DEFINE counted == [m EXCEPT !.pending = m.pending + 1]
<1>3a. \/ /\ r.kind = "Draw" /\ L.openDraws[t] = NoHandle
          /\ N = [M EXCEPT !.spans[b] = counted, !.openDraws[t] = h]
       \/ /\ r.kind = "Resolve" /\ L.openResolves[t] = NoHandle
          /\ N = [M EXCEPT !.spans[b] = counted, !.openResolves[t] = h]
  <2>1. [M EXCEPT !.spans[b].pending = @ + 1] = [M EXCEPT !.spans[b] = counted]
    BY <1>2
  <2>2. CASE /\ r.kind = "Draw" /\ L.openDraws[t] = NoHandle
             /\ N = [M EXCEPT !.spans[b].pending = @ + 1, !.openDraws[t] = h]
    BY <1>2, <2>2
  <2>3. CASE /\ r.kind = "Resolve" /\ L.openResolves[t] = NoHandle
             /\ N = [M EXCEPT !.spans[b].pending = @ + 1, !.openResolves[t] = h]
    BY <1>2, <2>3
  <2> QED BY <2>2, <2>3
<1>3b. counted.pending = m.pending + 1
       /\ DOMAIN counted = SpanFields /\ [counted EXCEPT !.pending = m.pending] = m
  <2>2. DOMAIN m = SpanFields /\ m = [f \in DOMAIN m |-> m[f]]
    BY <1>3, SpanFieldNames DEF SpanTo
  <2>3. DOMAIN counted = SpanFields /\ counted.pending = m.pending + 1
    BY <2>2, SpanFieldNames
  <2>4. [counted EXCEPT !.pending = m.pending] = m
    BY <2>2, SpanFieldNames
  <2> QED BY <2>3, <2>4
<1> HIDE DEF counted
<1>3c. DOMAIN M = Fields /\ DOMAIN M.spans = Live(M)
  BY <1>1 DEF Typed, Shaped
<1>4. SpanPut(N, M, b, counted)
  <2>1. CASE N = [M EXCEPT !.spans[b] = counted, !.openDraws[t] = h]
    BY <1>3, <1>3c, <2>1, FieldNames DEF SpanPut
  <2>2. CASE N = [M EXCEPT !.spans[b] = counted, !.openResolves[t] = h]
    BY <1>3, <1>3c, <2>2, FieldNames DEF SpanPut
  <2> QED BY <1>3a, <2>1, <2>2
<1>6. \/ /\ r.kind = "Draw" /\ L.openDraws[t] = NoHandle
         /\ N.openDraws = [M.openDraws EXCEPT ![t] = h] /\ N.openResolves = M.openResolves
      \/ /\ r.kind = "Resolve" /\ L.openResolves[t] = NoHandle
         /\ N.openResolves = [M.openResolves EXCEPT ![t] = h] /\ N.openDraws = M.openDraws
  <2>1. ASSUME N = [M EXCEPT !.spans[b] = counted, !.openDraws[t] = h]
        PROVE  N.openDraws = [M.openDraws EXCEPT ![t] = h]
               /\ N.openResolves = M.openResolves
    BY <1>3c, <2>1, FieldNames
  <2>2. ASSUME N = [M EXCEPT !.spans[b] = counted, !.openResolves[t] = h]
        PROVE  N.openResolves = [M.openResolves EXCEPT ![t] = h]
               /\ N.openDraws = M.openDraws
    BY <1>3c, <2>2, FieldNames
  <2> QED BY <1>3a, <2>1, <2>2
<1>7. Opened(N, L, t, h, r.kind)
  BY <1>1, <1>6 DEF Opened, Appended, SameHandles
<1>8. Longer(m, s, <<r>>) /\ m.pending = s.pending
  <2>1. Longer(m, s, <<r>>)
    BY <1>1, <1>2, <1>3 DEF Appended
  <2> QED BY <2>1 DEF Longer
<1>9. /\ DOMAIN new = SpanFields /\ new.pending = s.pending + 1
      /\ [new EXCEPT !.pending = s.pending] = m
  BY <1>2, <1>3b, <1>4, <1>8 DEF SpanPut
<1>10. h = [span |-> Back(L), index |-> Len(L.spans[Back(L)].records) + 1]
  BY <1>2, <1>3, <1>8 DEF Longer
<1>11. /\ N.oldest = L.oldest /\ N.nextSpan = L.nextSpan /\ N.closed = L.closed
       /\ N.frontbuffer = L.frontbuffer
       /\ N.failedSpan = L.failedSpan \/ L.failedSpan = 0
       /\ N.held = L.held /\ N.heldFirst = L.heldFirst
       /\ \A id \in Live(L) : id # Back(L) => N.spans[id] = L.spans[id]
  BY <1>1, <1>3, <1>4 DEF SpanPut, Appended, SameHandles
<1>12. Longer([new EXCEPT !.pending = s.pending], s, <<r>>)
  BY <1>8, <1>9
<1> QED BY <1>2, <1>3, <1>7, <1>9, <1>10, <1>11, <1>12, OpenSafe

LEMMA BeginDrawStays ==
    ASSUME Now, NEW t \in Threads, NEW site \in Nat, BeginDraw(t, site)
    PROVE  Stays
<1> DEFINE A == AbandonOpenResolve(ledger, t)
           B == [A EXCEPT !.openDraws[t] = NoHandle]
           C == Abandon(B, A.openDraws[t])
           D == Admit(C, t, FALSE)
           r == [NewRecord("Draw", t) EXCEPT !.value = site, !.pending = TRUE]
           M == AppendRecords(D, <<r>>)
           b == Back(M)
           h == [span |-> b, index |-> Len(M.spans[b].records)]
           N == [M EXCEPT !.spans[b].pending = @ + 1, !.openDraws[t] = h]
           out == host.detached
<1>1. clock' = clock /\ ledger' = N /\ host' = host
  BY DEF BeginDraw
<1>2. Safe(A, clock, out, ledger)
  BY AbandonOpenResolveSafe DEF Now
<1>3. clock \in Nat
  BY DEF Now
<1> HIDE DEF A
<1>4. A.openDraws[t] \in Handles /\ Typed(B, clock)
  BY <1>2, HandleTypes, ClearHandles DEF Safe
<1>5. Paid(B, A, out, out, A.openDraws[t])
  BY <1>2, ClearPaid
<1>6. B.openDraws[t] = NoHandle
  BY <1>2, FieldNames DEF Safe, Typed, Shaped, Others
<1> HIDE DEF B
<1>7. Safe(C, clock, out, ledger) /\ C.openDraws[t] = NoHandle
  BY <1>2, <1>4, <1>5, <1>6, AbandonSafe, KeepsOpens DEF Opens
<1> HIDE DEF C
<1>8. Safe(D, clock, out, ledger) /\ D.openDraws[t] = NoHandle
  BY <1>7, AdmitSafe, KeepsOpens DEF Safe, Opens
<1> HIDE DEF D
<1>9. r \in RecordTo(clock) /\ r.pending /\ ~r.skipped /\ r.kind = "Draw"
  <2>1. "Draw" \in Kinds
    BY DEF Kinds
  <2>2. r \in RecordTo(clock)
    BY <1>3, <2>1, RecordTypes
  <2>3. r.pending /\ ~r.skipped /\ r.kind = "Draw"
    BY PlainRecords
  <2> QED BY <2>2, <2>3
<1> HIDE DEF r
<1>10. Typed(N, clock)
  <2>1. Typed(M, clock)
    BY <1>8, <1>9, AppendOneTyped DEF Safe
  <2> HIDE DEF M
  <2> QED BY <1>3, <2>1, PendingRecordTyped
<1>11. Safe(N, clock, out, ledger)
  BY <1>8, <1>9, <1>10, OpenRecordSafe
<1> QED BY <1>1, <1>11 DEF Stays

LEMMA FinishDrawStays ==
    ASSUME Now, NEW t \in Threads, NEW site \in Nat, NEW verdict,
           FinishDraw(t, site, verdict)
    PROVE  Stays
<1> DEFINE A == AbandonOpenResolve(ledger, t)
           h == A.openDraws[t]
           L == [A EXCEPT !.openDraws[t] = NoHandle]
           D == Admit(Abandon(L, h), t, FALSE)
           r == [NewRecord("Draw", t) EXCEPT !.value = site]
           M == AppendRecords(D, <<r>>)
           out == host.detached
<1>1. /\ clock' \in {clock, clock + 1} /\ host' = host
      /\ \/ Pending(L, h)
            /\ ledger' = SettleDraw(Settle(L, h), h.span, h.index, clock', verdict)
         \/ ledger' = SettleDraw(M, Back(M), Len(M.spans[Back(M)].records),
                                 clock', verdict)
  BY DEF FinishDraw, Tick
<1>2. Safe(ledger, clock', out, ledger) /\ clock' \in Nat /\ clock' \in 0 .. clock'
  BY <1>1, TickSafe
<1>3. Safe(A, clock', out, ledger)
  BY <1>2, AbandonOpenResolveSafe
<1> HIDE DEF A
<1>4. h \in Handles /\ Typed(L, clock')
  BY <1>3, HandleTypes, ClearHandles DEF Safe
<1>5. Paid(L, A, out, out, h)
  BY <1>3, ClearPaid
<1> HIDE DEF L, h
<1>6. Safe(D, clock', out, ledger)
  BY <1>3, <1>4, <1>5, AbandonSafe, AdmitSafe
<1> HIDE DEF D
<1>7. r \in RecordTo(clock') /\ ~r.pending /\ ~r.skipped
  <2>1. "Draw" \in Kinds
    BY DEF Kinds
  <2>2. r \in RecordTo(clock')
    BY <1>2, <2>1, RecordTypes
  <2>3. ~r.pending /\ ~r.skipped
    BY PlainRecords
  <2> QED BY <2>2, <2>3
<1> HIDE DEF r
<1>8. Safe(M, clock', out, ledger)
  <2>1. <<r>> \in Seq(RecordTo(clock')) /\ Plain(<<r>>)
    BY <1>7 DEF Plain
  <2> QED BY <1>6, <2>1, AppendSafe
<1> HIDE DEF M
<1>9. ASSUME Pending(L, h)
      PROVE  /\ Safe(Settle(L, h), clock', out, ledger)
             /\ h.span \in Nat /\ h.span \notin Settled(ledger)
  <2>1. Pending(A, h)
    BY <1>3, <1>4, <1>5, <1>9, PaidFields DEF Safe
  <2>2. Safe(Settle(L, h), clock', out, ledger)
    BY <1>3, <1>4, <1>5, <2>1, SettleSafe
  <2>3. h.span \in Live(A) /\ Due(A.spans[h.span]) # {} /\ h.span \in Nat
    BY <1>4, <2>1, PendingDue DEF Handles
  <2> QED BY <1>3, <2>2, <2>3, NotSettled
<1>10. Back(M) \in Nat /\ Back(M) \notin Settled(ledger)
  BY <1>8, BackNotSettled
<1>11. Safe(ledger', clock', out, ledger)
  BY <1>1, <1>2, <1>8, <1>9, <1>10, SettleDrawSafe
<1> QED BY <1>1, <1>11 DEF Stays

\* A debt changes hands: a root is detached, a resolve awaits its swap.
Moved(N, L, t, h, left, out) ==
    /\ N.oldest = L.oldest /\ N.nextSpan = L.nextSpan /\ N.closed = L.closed
    /\ N.failedSpan = L.failedSpan /\ N.spans = L.spans
    /\ N.held = L.held /\ N.heldFirst = L.heldFirst
    /\ \/ /\ h = L.openDraws[t]
          /\ N.openDraws = [L.openDraws EXCEPT ![t] = NoHandle]
          /\ left = out \cup {h}
          /\ N.openResolves = L.openResolves /\ N.frontbuffer = L.frontbuffer
       \/ /\ h = L.openResolves[t]
          /\ N.openResolves = [L.openResolves EXCEPT ![t] = NoHandle]
          /\ N.frontbuffer = L.frontbuffer \cup {h}
          /\ left = out /\ N.openDraws = L.openDraws

LEMMA MoveSafe ==
    ASSUME NEW c, NEW L, NEW out, NEW old, Safe(L, c, out, old), NEW t \in Threads,
           NEW h \in Handles, h # NoHandle, NEW left, NEW N, Typed(N, c),
           Moved(N, L, t, h, left, out)
    PROVE  Safe(N, c, left, old)
<1>1. Live(N) = Live(L) /\ Back(N) = Back(L)
  BY DEF Moved, Live, Back
<1>2. \A g, kind : Owing(L, g, kind) => Owing(N, g, kind)
  BY <1>1 DEF Moved, Owing, PendingAs, Pending
<1>3. \A kind : Owing(N, NoHandle, kind)
  BY DEF Moved, Owing, NoHandle, Safe, Typed, Shaped
<1>4. L.openDraws \in [Threads -> Handles] /\ L.openResolves \in [Threads -> Handles]
  BY DEF Safe, Typed, Others
<1>5. Debts(N, left)
  BY <1>2, <1>3, <1>4 DEF Moved, Debts, Safe, Sound
<1>6. Apart(N, left)
  BY <1>4 DEF Moved, Apart, Safe, Sound
<1>7. \A g : Pending(N, g) <=> Pending(L, g)
  BY <1>1 DEF Moved, Pending
<1>8. Covered(N, left)
  <2>1. ASSUME ~N.closed, NEW g \in Handles, Pending(N, g) PROVE KeptBy(N, left, g)
    <3>1. KeptBy(L, out, g)
      BY <1>7, <2>1 DEF Moved, Safe, Sound, Covered
    <3> QED BY <1>4, <3>1 DEF Moved, KeptBy
  <2> QED BY <2>1 DEF Covered
<1>9. Counted(N) /\ HeldPlain(N) /\ SpansSound(N) /\ Since(N, old)
  BY <1>1 DEF Moved, Counted, HeldPlain, SpansSound, Since, Safe, Sound
<1> QED BY <1>5, <1>6, <1>8, <1>9 DEF Safe, Sound

LEMMA PresentSafe ==
    ASSUME NEW c, NEW L, NEW out, NEW old, Safe(L, c, out, old), NEW t \in Threads,
           NEW h, h = L.openResolves[t], h # NoHandle,
           NEW M, M = [L EXCEPT !.openResolves[t] = NoHandle]
    PROVE  Safe([M EXCEPT !.frontbuffer = @ \cup {h}], c, out, old)
<1> DEFINE N == [M EXCEPT !.frontbuffer = @ \cup {h}]
<1>1. h \in Handles /\ Typed(M, c)
  BY HandleTypes, ClearHandles DEF Safe
<1>2. Typed(N, c)
  BY <1>1, PresentTyped
<1>3. /\ N.oldest = L.oldest /\ N.nextSpan = L.nextSpan
      /\ N.closed = L.closed /\ N.failedSpan = L.failedSpan
      /\ N.spans = L.spans /\ N.held = L.held /\ N.heldFirst = L.heldFirst
      /\ N.openResolves = [L.openResolves EXCEPT ![t] = NoHandle]
      /\ N.openDraws = L.openDraws /\ N.frontbuffer = L.frontbuffer \cup {h}
  BY FieldNames DEF Safe, Typed, Shaped
<1> HIDE DEF N
<1>4. Safe(N, c, out, old)
  <2>1. Moved(N, L, t, h, out, out)
    BY <1>3 DEF Moved
  <2> QED BY <1>1, <1>2, <2>1, MoveSafe
<1> QED BY <1>4 DEF N

LEMMA DetachDrawStays ==
    ASSUME Now, NEW t \in Threads, DetachDraw(t)
    PROVE  Stays
<1> DEFINE h == ledger.openDraws[t]
           N == [ledger EXCEPT !.openDraws[t] = NoHandle]
<1>1. /\ clock' = clock /\ ledger' = N /\ h # NoHandle
      /\ host' = [host EXCEPT !.detached = @ \cup {h}]
  BY DEF DetachDraw
<1>2. /\ Safe(ledger, clock, host.detached, ledger) /\ h \in Handles /\ Typed(N, clock)
  BY HandleTypes, ClearHandles DEF Now, Safe
<1>3. /\ N.oldest = ledger.oldest /\ N.nextSpan = ledger.nextSpan
      /\ N.closed = ledger.closed /\ N.failedSpan = ledger.failedSpan
      /\ N.spans = ledger.spans /\ N.held = ledger.held
      /\ N.heldFirst = ledger.heldFirst
      /\ N.openDraws = [ledger.openDraws EXCEPT ![t] = NoHandle]
      /\ N.openResolves = ledger.openResolves /\ N.frontbuffer = ledger.frontbuffer
  BY <1>2, FieldNames DEF Safe, Typed, Shaped
<1> HIDE DEF N
<1>4. Safe(N, clock, host.detached \cup {h}, ledger)
  <2>1. Moved(N, ledger, t, h, host.detached \cup {h}, host.detached)
    BY <1>3 DEF Moved
  <2> QED BY <1>1, <1>2, <2>1, MoveSafe
<1>5. host'.detached = host.detached \cup {h}
  BY <1>1 DEF Now
<1> QED BY <1>1, <1>4, <1>5 DEF Stays

LEMMA DrawStays ==
    ASSUME Now, NEW t \in Threads, DrawOps(t)
    PROVE  Stays
<1>1. \A site \in Sites : site \in Nat
  BY DataTypes DEF AssumedSites
<1> QED BY <1>1, BeginDrawStays, FinishDrawStays, DetachDrawStays DEF DrawOps

\* Nobody asks for the verdicts of a closed session.
LEMMA ClosedSafe ==
    ASSUME NEW c, NEW L, NEW out, NEW old, Safe(L, c, out, old), L.closed,
           NEW left, left \subseteq out
    PROVE  Safe(L, c, left, old)
<1>1. Debts(L, left)
  BY DEF Debts, Safe, Sound
<1>2. Apart(L, left)
  BY DEF Apart, Safe, Sound
<1>3. Covered(L, left)
  BY DEF Covered
<1> QED BY <1>1, <1>2, <1>3 DEF Safe, Sound

\* A verdict from another thread.
LEMMA DetachedStays ==
    ASSUME Now, DetachedOps
    PROVE  Stays
<1>1. PICK h \in host.detached :
         \/ \E site \in Sites, verdict \in Verdicts :
               FinishDetached(h, site, verdict)
         \/ AbandonDraw(h)
  BY DEF DetachedOps
<1> DEFINE out == host.detached
           left == host.detached \ {h}
<1>2. clock' \in {clock, clock + 1} /\ host'.detached = left
  BY <1>1 DEF FinishDetached, AbandonDraw, Tick, Now
<1>3. Safe(ledger, clock', out, ledger) /\ clock' \in Nat /\ clock' \in 0 .. clock'
  BY <1>2, TickSafe
<1>4. h \in Handles /\ h.span \in Nat /\ Owing(ledger, h, "Draw")
  BY <1>1, <1>3 DEF Handles, Safe, Sound, Debts
<1>5. Paid(ledger, ledger, out, left, h)
  <2>1. ASSUME Pending(ledger, h) PROVE ~KeptBy(ledger, left, h)
    <3>1. \A t \in Threads : h # ledger.openDraws[t]
      BY <1>1, <1>3 DEF Safe, Sound, Apart
    <3>2. \A t \in Threads : h # ledger.openResolves[t]
      BY <1>3, <1>4, <2>1, OneKind DEF Safe, Sound, Debts
    <3>3. h \notin ledger.frontbuffer
      BY <1>3, <1>4, <2>1, OneKind DEF Safe, Sound, Debts
    <3> QED BY <3>1, <3>2, <3>3 DEF KeptBy
  <2>2. SameHandles([ledger EXCEPT !.openDraws = ledger.openDraws,
                                   !.openResolves = ledger.openResolves,
                                   !.frontbuffer = ledger.frontbuffer], ledger)
    BY <1>3, FieldNames DEF Safe, Typed, Shaped, SameHandles
  <2> QED BY <1>1, <2>1, <2>2 DEF Paid
<1> HIDE DEF left, out
<1>6. Typed(ledger, clock')
  BY <1>3 DEF Safe
<1>7. Safe(Abandon(ledger, h), clock', left, ledger)
  BY <1>3, <1>4, <1>5, <1>6, AbandonSafe
<1>8. ASSUME Pending(ledger, h)
      PROVE  /\ Safe(Settle(ledger, h), clock', left, ledger)
             /\ h.span \notin Settled(ledger)
             /\ ledger.spans[h.span].records[h.index].kind = "Draw"
  <2>1. Safe(Settle(ledger, h), clock', left, ledger)
    BY <1>3, <1>4, <1>5, <1>6, <1>8, SettleSafe
  <2>2. h.span \in Live(ledger) /\ Due(ledger.spans[h.span]) # {}
    BY <1>8, PendingDue
  <2>3. h.span >= ledger.oldest
    BY <2>2 DEF Live
  <2> QED BY <1>3, <1>4, <2>1, <2>2, <2>3, NotSettled DEF Owing, PendingAs
<1>9. ASSUME Pending(ledger, h), NEW verdict
      PROVE  Safe(SettleDraw(Settle(ledger, h), h.span, h.index, clock', verdict),
                  clock', left, ledger)
  BY <1>3, <1>4, <1>8, <1>9, SettleDrawSafe
<1>10. ASSUME NEW settled, Pending(ledger, h) => Safe(settled, clock', left, ledger)
       PROVE  Safe(Detached(h, settled), clock', left, ledger)
  <2>1. CASE ~Pending(ledger, h)
    <3>1. Safe(ledger, clock', left, ledger)
      BY <1>3, <1>5, <1>6, <2>1, ForgetSafe
    <3> QED BY <2>1, <3>1 DEF Detached
  <2>2. CASE Pending(ledger, h) /\ ledger.closed
    <3>1. Safe(ledger, clock', left, ledger)
      BY <1>3, <2>2, ClosedSafe DEF left, out
    <3> QED BY <2>2, <3>1 DEF Detached
  <2>3. CASE Pending(ledger, h) /\ ~ledger.closed
    BY <1>8, <1>10, <2>3 DEF Detached
  <2> QED BY <2>1, <2>2, <2>3
<1>11. \E settled : /\ Pending(ledger, h) => Safe(settled, clock', left, ledger)
                    /\ ledger' = Detached(h, settled)
  <2>1. CASE AbandonDraw(h)
    BY <1>7, <2>1 DEF AbandonDraw
  <2>2. ASSUME NEW site, NEW verdict, FinishDetached(h, site, verdict)
        PROVE  \/ ledger' = Detached(h, SettleDraw(Settle(ledger, h), h.span,
                                                   h.index, clock', verdict))
               \/ ledger' = Detached(h, Abandon(ledger, h))
    BY <2>2 DEF FinishDetached
  <2> QED BY <1>1, <1>7, <1>9, <2>1, <2>2
<1> QED BY <1>2, <1>10, <1>11 DEF Stays

-----------------------------------------------------------------------------
(* Resolves, clears and swaps. *)

LEMMA ResolveStays ==
    ASSUME Now, NEW t \in Threads, NEW dest \in Nat, Resolve(t, dest)
    PROVE  Stays
<1> DEFINE A == AbandonOpenResolve(ledger, t)
           D == Admit(A, t, FALSE)
           r == [NewRecord("Resolve", t) EXCEPT !.value = dest, !.pending = TRUE]
           M == AppendRecords(D, <<r>>)
           b == Back(M)
           h == [span |-> b, index |-> Len(M.spans[b].records)]
           N == [M EXCEPT !.spans[b].pending = @ + 1, !.openResolves[t] = h]
           out == host.detached
<1>1. clock' = clock /\ ledger' = N /\ host' = host
  BY DEF Resolve, RecordOn
<1>2. Safe(A, clock, out, ledger)
  BY AbandonOpenResolveSafe DEF Now
<1>3. clock \in Nat
  BY DEF Now
<1>4. A.openResolves[t] = NoHandle
  <2> DEFINE B == [ledger EXCEPT !.openResolves[t] = NoHandle]
  <2>1. ledger.openResolves[t] \in Handles /\ Typed(B, clock)
    BY HandleTypes, ClearHandles DEF Now, Safe
  <2>2. B.openResolves[t] = NoHandle
    BY FieldNames DEF Now, Safe, Typed, Shaped, Others
  <2>3. A = Abandon(B, ledger.openResolves[t])
    BY DEF AbandonOpenResolve
  <2> HIDE DEF A, B
  <2> QED BY <2>1, <2>2, <2>3, KeepsOpens DEF Opens
<1> HIDE DEF A
<1>5. Safe(D, clock, out, ledger) /\ D.openResolves[t] = NoHandle
  BY <1>2, <1>4, AdmitSafe, KeepsOpens DEF Safe, Opens
<1> HIDE DEF D
<1>6. r \in RecordTo(clock) /\ r.pending /\ ~r.skipped /\ r.kind = "Resolve"
  <2>1. "Resolve" \in Kinds
    BY DEF Kinds
  <2>2. r \in RecordTo(clock)
    BY <1>3, <2>1, RecordTypes
  <2>3. r.pending /\ ~r.skipped /\ r.kind = "Resolve"
    BY PlainRecords
  <2> QED BY <2>2, <2>3
<1> HIDE DEF r
<1>7. Typed(N, clock)
  <2>1. Typed(M, clock)
    BY <1>5, <1>6, AppendOneTyped DEF Safe
  <2> HIDE DEF M
  <2> QED BY <1>3, <2>1, PendingRecordTyped
<1>8. Safe(N, clock, out, ledger)
  BY <1>5, <1>6, <1>7, OpenRecordSafe
<1> QED BY <1>1, <1>8 DEF Stays

LEMMA ClearStays ==
    ASSUME Now, NEW t \in Threads, NEW admitted, Clear(t, admitted)
    PROVE  Stays
<1> DEFINE r == [NewRecord("Clear", t) EXCEPT !.mark = clock']
           L == RecordOn(ledger, t, r)
           b == Back(L)
           out == host.detached
<1>1. /\ clock' \in {clock, clock + 1} /\ host' = host
      /\ \/ ledger' = [L EXCEPT !.spans[b].lastAdmitted = MaxOf(@, clock')]
         \/ ledger' = [L EXCEPT !.spans[b].partial = TRUE, !.epochPartial = TRUE]
         \/ ledger' = Unown(L, b, Len(L.spans[b].records))
  BY DEF Clear, Tick
<1>2. clock' \in Nat /\ clock' \in 0 .. clock' /\ Safe(ledger, clock', out, ledger)
  BY <1>1, TickSafe
<1>3. r \in RecordTo(clock') /\ ~r.pending /\ ~r.skipped
  <2>1. "Clear" \in Kinds
    BY DEF Kinds
  <2>2. r \in RecordTo(clock')
    BY <1>2, <2>1, RecordTypes
  <2>3. ~r.pending /\ ~r.skipped
    BY PlainRecords
  <2> QED BY <2>2, <2>3
<1> HIDE DEF r
<1>4. Safe(L, clock', out, ledger)
  BY <1>2, <1>3, RecordOnSafe
<1> HIDE DEF L
<1>5. b \notin Settled(ledger)
  BY <1>4, BackNotSettled
<1>6. Safe(ledger', clock', out, ledger)
  <2>1. Safe([L EXCEPT !.spans[b].lastAdmitted = MaxOf(@, clock')], clock', out, ledger)
    BY <1>2, <1>4, <1>5, AdmittedSafe
  <2>2. Safe([L EXCEPT !.spans[b].partial = TRUE, !.epochPartial = TRUE], clock', out, ledger)
    BY <1>4, <1>5, PartialSafe
  <2>3. Safe(Unown(L, b, Len(L.spans[b].records)), clock', out, ledger)
    BY <1>4, UnownBackSafe
  <2> QED BY <1>1, <2>1, <2>2, <2>3
<1> QED BY <1>1, <1>6 DEF Stays

LEMMA FinishResolveStays ==
    ASSUME Now, NEW t \in Threads, NEW outcome, FinishResolve(t, outcome)
    PROVE  Stays
<1> DEFINE h == ledger.openResolves[t]
           mark == IF outcome = "no mark" THEN 0 ELSE clock'
           K == [ledger EXCEPT !.spans[h.span].records[h.index].mark = mark]
           L == [ledger EXCEPT !.openResolves[t] = NoHandle]
           M == [K EXCEPT !.openResolves[t] = NoHandle]
           S == Settle(M, h)
           out == host.detached
<1>1. /\ clock' \in {clock, clock + 1} /\ host' = host /\ h # NoHandle
      /\ [L EXCEPT !.spans[h.span].records[h.index].mark = mark] = M =>
         \/ h.span \notin Live(L) /\ ledger' = L
         \/ /\ h.span \in Live(L)
            /\ \/ ledger' = [M EXCEPT !.frontbuffer = @ \cup {h}]
               \/ ledger' = [S EXCEPT !.spans[h.span].lastAdmitted = MaxOf(@, mark)]
               \/ ledger' = Unown(S, h.span, h.index)
  BY DEF FinishResolve
<1>2. /\ clock' \in Nat /\ clock' \in 0 .. clock' /\ mark \in 0 .. clock'
      /\ Safe(ledger, clock', out, ledger)
  <2>1. clock' \in Nat /\ clock' \in 0 .. clock' /\ Safe(ledger, clock', out, ledger)
    BY <1>1, TickSafe
  <2>2. 0 \in 0 .. clock'
    BY <2>1
  <2>3. mark = 0 \/ mark = clock'
    OBVIOUS
  <2> HIDE DEF mark
  <2> QED BY <2>1, <2>2, <2>3
<1>3. [L EXCEPT !.spans[h.span].records[h.index].mark = mark] = M
  BY <1>2, FieldNames DEF Safe, Typed, Shaped
<1>4. Live(L) = Live(ledger)
  BY <1>2, FieldNames DEF Safe, Typed, Shaped, Live
<1>5. /\ h \in Handles /\ h.span \in Nat /\ Typed(L, clock')
      /\ Paid(L, ledger, out, out, h) /\ Owing(ledger, h, "Resolve")
  <2>1. h \in Handles /\ Typed(L, clock')
    BY <1>2, HandleTypes, ClearHandles DEF Safe
  <2> QED BY <1>2, <2>1, ClearPaid DEF Handles, Safe, Sound, Debts
<1>6. K.openResolves[t] = h
  BY <1>2, FieldNames DEF Safe, Typed, Shaped
<1> HIDE DEF L
<1>7. CASE h.span \notin Live(ledger)
  <2>1. ~Pending(ledger, h)
    BY <1>7 DEF Pending
  <2>2. Safe(L, clock', out, ledger)
    BY <1>2, <1>5, <2>1, ForgetSafe
  <2> QED BY <1>1, <1>3, <1>4, <1>7, <2>2 DEF Stays
<1>8. CASE h.span \in Live(ledger)
  <2>1. Pending(ledger, h)
    BY SMTT(30), <1>5, <1>8 DEF Owing, PendingAs, Live
  <2>2. h.span \notin Settled(ledger)
    <3>1. Due(ledger.spans[h.span]) # {}
      BY <2>1, PendingDue
    <3> QED BY <1>2, <1>8, <3>1, NotSettled
  <2> HIDE DEF h, mark
  <2>3. Safe(K, clock', out, ledger)
    BY <1>2, <2>2, MarkSafe
  <2>4. Live(K) = Live(ledger)
    BY <1>2, FieldNames DEF Safe, Typed, Shaped, Live
  <2> HIDE DEF K
  <2>5. Typed(M, clock') /\ Paid(M, K, out, out, h)
    BY <1>6, <2>3, HandleTypes, ClearHandles, ClearPaid DEF Safe
  <2>6. Pending(K, h)
    <3>1. Owing(K, h, "Resolve")
      BY <1>6, <2>3 DEF Safe, Sound, Debts
    <3>2. h.span \in Live(K) /\ Typed(K, clock')
      BY <1>8, <2>3, <2>4 DEF Safe
    <3>3. h.span >= K.oldest
      BY <3>2 DEF Live, Typed, Shaped
    <3> QED BY <3>1, <3>3 DEF Owing, PendingAs
  <2>7. Safe(S, clock', out, ledger)
    BY <1>5, <2>3, <2>5, <2>6, SettleSafe
  <2>8. Safe([M EXCEPT !.frontbuffer = @ \cup {h}], clock', out, ledger)
    BY <1>1, <1>6, <2>3, PresentSafe
  <2> HIDE DEF M, S
  <2>9. Safe([S EXCEPT !.spans[h.span].lastAdmitted = MaxOf(@, mark)], clock', out, ledger)
    BY <1>2, <2>2, <2>7, AdmittedSafe
  <2>10. Safe(Unown(S, h.span, h.index), clock', out, ledger)
    BY <1>5, <2>2, <2>7, UnownSafe
  <2> QED BY <1>1, <1>3, <1>4, <1>8, <2>8, <2>9, <2>10 DEF Stays
<1> QED BY <1>7, <1>8

\* The presented resolves of a span, and what a swap leaves of it.
PresentedOf(L, id) == {h \in Presented(L) : h.span = id}
Indices(hs) == {h.index : h \in hs}
Swapped(new, s, hs) ==
    /\ Due(new) = Due(s) \ Indices(hs)
    /\ new.pending = s.pending - Cardinality(hs)
    /\ DOMAIN new.records = DOMAIN s.records
    /\ \A i \in DOMAIN s.records : new.records[i].kind = s.records[i].kind
    /\ Reported(s) => Reported(new)
    /\ new.deferred = s.deferred /\ new.sealed = s.sealed
    /\ new.applied = s.applied /\ new.stage = s.stage /\ new.flushed = s.flushed
    /\ hs = {} => new = s

LEMMA SwapsSpan ==
    ASSUME NEW c \in Nat, NEW L, Typed(L, c), NEW id \in Live(L), NEW front
    PROVE  Swapped(SwapSettles(L, id, front), L.spans[id], PresentedOf(L, id))
<1> DEFINE old == L.spans[id]
           mine == {h \in Presented(L) : h.span = id}
           bad == mine \cap Mismatched(L, front)
           marks == {ResolveOf(L, h).mark : h \in mine \ bad}
           due(i) == \E h \in mine : h.index = i
           wrong(i) == \E h \in bad : h.index = i
           settled(r, i) == [r EXCEPT
                               !.pending = @ /\ ~due(i),
                               !.hostOnly = @ \/ (due(i) /\ ~wrong(i)),
                               !.skipped = @ \/ (wrong(i) /\ Mode = "Census")]
           recs == [i \in DOMAIN old.records |-> settled(old.records[i], i)]
           pending == old.pending - Cardinality(mine)
           last == CHOOSE m \in marks \cup {old.lastAdmitted} :
                      \A n \in marks \cup {old.lastAdmitted} : n <= m
           unowned == old.unowned \/ (bad # {} /\ Mode # "Census")
           partial == old.partial \/ (bad # {} /\ Mode = "Census")
           new == [old EXCEPT !.records = recs, !.pending = pending,
                              !.lastAdmitted = last, !.unowned = unowned,
                              !.partial = partial]
<1>1. old \in SpanTo(c) /\ DOMAIN old = SpanFields
  BY SpanOfLedger DEF Typed, Shaped
<1>2. SwapSettles(L, id, front) = new
  BY <1>1, SpanFieldNames DEF SwapSettles
<1>3. \A i \in DOMAIN old.records :
         /\ recs[i].pending = (old.records[i].pending /\ ~due(i))
         /\ recs[i].skipped = (old.records[i].skipped \/ (wrong(i) /\ Mode = "Census"))
         /\ recs[i].kind = old.records[i].kind
  <2> SUFFICES ASSUME NEW i \in DOMAIN old.records
               PROVE  /\ recs[i].pending = (old.records[i].pending /\ ~due(i))
                      /\ recs[i].skipped = (old.records[i].skipped \/ (wrong(i) /\ Mode = "Census"))
                      /\ recs[i].kind = old.records[i].kind
    OBVIOUS
  <2>1. PICK r : r = old.records[i]
    OBVIOUS
  <2>2. r \in RecordTo(c)
    BY <1>1, <2>1, RecordOfSpan
  <2>3. recs[i] = settled(r, i)
    BY <2>1
  <2> HIDE DEF recs
  <2>4. /\ settled(r, i).pending = (r.pending /\ ~due(i))
        /\ settled(r, i).skipped = (r.skipped \/ (wrong(i) /\ Mode = "Census"))
        /\ settled(r, i).kind = r.kind
    BY <2>2 DEF RecordTo
  <2> QED BY <2>1, <2>3, <2>4
<1>4. DOMAIN recs = DOMAIN old.records
  OBVIOUS
<1>5. \A i : wrong(i) => bad # {}
  OBVIOUS
<1>6. ASSUME mine = {} PROVE recs = old.records /\ last = old.lastAdmitted
                             /\ unowned = old.unowned /\ partial = old.partial
                             /\ pending = old.pending
  <2>1. bad = {} /\ marks = {} /\ \A i : ~due(i) /\ ~wrong(i)
    BY <1>6
  <2>2. ASSUME NEW i \in DOMAIN old.records PROVE recs[i] = old.records[i]
    <3>1. PICK r : r = old.records[i]
      OBVIOUS
    <3>2. r \in RecordTo(c)
      BY <1>1, <3>1, RecordOfSpan
    <3>3. recs[i] = settled(r, i)
      BY <3>1
    <3> HIDE DEF recs
    <3>4. settled(r, i) = r
      <4>1. [r EXCEPT !.pending = @ /\ TRUE, !.hostOnly = @ \/ FALSE,
                      !.skipped = @ \/ FALSE] = r
        BY <3>2 DEF RecordTo
      <4> QED BY <2>1, <4>1
    <3> QED BY <3>1, <3>3, <3>4
  <2>3. recs = old.records
    <3>1. old.records \in Seq(RecordTo(c))
      BY <1>1 DEF SpanTo
    <3>2. old.records = [i \in DOMAIN old.records |-> old.records[i]]
      BY <3>1
    <3>3. recs = [i \in DOMAIN old.records |-> recs[i]]
      OBVIOUS
    <3> HIDE DEF recs
    <3> QED BY <2>2, <3>2, <3>3
  <2>4. old.lastAdmitted \in 0 .. c /\ old.unowned \in BOOLEAN /\ old.partial \in BOOLEAN
        /\ old.pending \in Int
    BY <1>1 DEF SpanTo
  <2>5. last = old.lastAdmitted
    BY <2>1, <2>4
  <2>6. pending = old.pending
    <3>1. Cardinality(mine) = 0
      BY <1>6, FS_EmptySet
    <3> HIDE DEF mine
    <3>2. \A n \in Int : n - 0 = n
      OBVIOUS
    <3> QED BY <2>4, <3>1, <3>2
  <2> HIDE DEF recs, last, pending
  <2> QED BY <2>1, <2>3, <2>4, <2>5, <2>6
<1>7. mine = PresentedOf(L, id)
  BY DEF PresentedOf
<1>8. \A i : due(i) <=> i \in Indices(mine)
  BY DEF Indices
<1> HIDE DEF recs, pending, last, due, wrong, bad, marks
<1>9. /\ new.records = recs /\ new.pending = pending /\ new.partial = partial
      /\ new.deferred = old.deferred /\ new.sealed = old.sealed
      /\ new.applied = old.applied /\ new.stage = old.stage /\ new.flushed = old.flushed
  BY <1>1, SpanFieldNames
<1>10. mine = {} => new = old
  <2>1. old = [old EXCEPT !.records = old.records, !.pending = old.pending,
                          !.lastAdmitted = old.lastAdmitted, !.unowned = old.unowned,
                          !.partial = old.partial]
    BY <1>1 DEF SpanTo
  <2> QED BY <1>6, <2>1
<1>11. Due(new) = Due(old) \ Indices(mine)
  BY <1>3, <1>4, <1>8, <1>9 DEF Due
<1>12. Reported(old) => Reported(new)
  BY <1>3, <1>4, <1>5, <1>9 DEF Reported
<1>13. pending = old.pending - Cardinality(mine)
  BY DEF pending
<1> HIDE DEF new, old, mine, partial
<1> QED BY <1>2, <1>3, <1>4, <1>7, <1>9, <1>10, <1>11, <1>12, <1>13 DEF Swapped, old

LEMMA Indexed ==
    ASSUME NEW c, NEW L, Typed(L, c), NEW id \in Live(L)
    PROVE  /\ IsFiniteSet(PresentedOf(L, id))
           /\ Cardinality(Indices(PresentedOf(L, id))) = Cardinality(PresentedOf(L, id))
           /\ Indices(PresentedOf(L, id)) \subseteq Due(L.spans[id])
           /\ \A h \in Handles : h.span = id /\ h.index \in Indices(PresentedOf(L, id))
                                 => h \in L.frontbuffer
<1> DEFINE hs == PresentedOf(L, id)
           at == [h \in hs |-> h.index]
<1>1. /\ hs \subseteq L.frontbuffer /\ L.frontbuffer \subseteq Handles
      /\ IsFiniteSet(L.frontbuffer) /\ \A h \in hs : h.span = id /\ Pending(L, h)
  BY DEF PresentedOf, Presented, Typed, Others
<1>2. IsFiniteSet(hs)
  BY <1>1, FS_Subset
<1>3. \A g, h \in Handles : g.span = h.span /\ g.index = h.index => g = h
  BY DEF Handles
<1>4. ExistsBijection(hs, Indices(hs))
  <2>1. at \in [hs -> Indices(hs)]
    BY DEF Indices
  <2>2. \A a, b \in hs : at[a] = at[b] => a = b
    BY <1>1, <1>3
  <2>3. \A i \in Indices(hs) : \E h \in hs : at[h] = i
    BY DEF Indices
  <2> HIDE DEF at
  <2> QED BY <2>1, <2>2, <2>3, Fun_IsBij DEF ExistsBijection
<1>5. Cardinality(Indices(hs)) = Cardinality(hs)
  BY <1>2, <1>4, FS_Bijection
<1>6. Indices(hs) \subseteq Due(L.spans[id])
  BY <1>1, PendingDue DEF Indices
<1>7. ASSUME NEW h \in Handles, h.span = id, h.index \in Indices(hs)
      PROVE  h \in L.frontbuffer
  BY <1>1, <1>3, <1>7 DEF Indices
<1> QED BY <1>2, <1>5, <1>6, <1>7

LEMMA SwapsSafe ==
    ASSUME NEW c \in Nat, NEW L, NEW out, NEW old, Safe(L, c, out, old), NEW front,
           NEW N, Typed(N, c), N.oldest = L.oldest, N.nextSpan = L.nextSpan,
           N.closed = L.closed, N.failedSpan = L.failedSpan,
           N.openDraws = L.openDraws, N.openResolves = L.openResolves,
           N.frontbuffer = {}, N.held = L.held, N.heldFirst = L.heldFirst,
           N.spans = [id \in Live(L) |-> SwapSettles(L, id, front)]
    PROVE  Safe(N, c, out, old)
<1>1. Typed(L, c) /\ Live(N) = Live(L) /\ Back(N) = Back(L)
  BY DEF Safe, Live, Back
<1>2. \A id \in Live(L) : Swapped(N.spans[id], L.spans[id], PresentedOf(L, id))
  BY <1>1, SwapsSpan
<1>3. \A h \in Handles : h.span \in Live(L) => h.index \in Nat
  BY DEF Handles
<1>4. ASSUME NEW h \in Handles
      PROVE  /\ Pending(N, h) => Pending(L, h) /\ h \notin L.frontbuffer
             /\ Pending(L, h) /\ h \notin L.frontbuffer => Pending(N, h)
  <2>1. CASE h.span \in Live(L)
    <3>1. Due(N.spans[h.span]) = Due(L.spans[h.span]) \ Indices(PresentedOf(L, h.span))
      BY <1>2, <2>1 DEF Swapped
    <3>2. h.index \in Indices(PresentedOf(L, h.span)) => h \in L.frontbuffer
      BY <1>1, <2>1, Indexed
    <3>3. Pending(L, h) /\ h \in L.frontbuffer => h.index \in Indices(PresentedOf(L, h.span))
      BY DEF PresentedOf, Presented, Indices
    <3> QED BY <1>1, <2>1, <3>1, <3>2, <3>3, PendingDue
  <2>2. CASE h.span \notin Live(L)
    BY <1>1, <2>2 DEF Pending
  <2> QED BY <2>1, <2>2
<1>5. ASSUME NEW h \in Handles, NEW kind, Owing(L, h, kind), h \notin L.frontbuffer
      PROVE  Owing(N, h, kind)
  <2>1. ASSUME PendingAs(L, h, kind) PROVE PendingAs(N, h, kind)
    <3>1. /\ Pending(L, h) /\ Pending(N, h) /\ h.span \in Live(L)
          /\ h.index \in DOMAIN L.spans[h.span].records
          /\ L.spans[h.span].records[h.index].kind = kind
      BY <1>4, <1>5, <2>1 DEF PendingAs, Pending
    <3>2. N.spans[h.span].records[h.index].kind = kind
      BY <1>2, <3>1 DEF Swapped
    <3> QED BY <3>1, <3>2 DEF PendingAs
  <2> QED BY <1>5, <2>1 DEF Owing
<1>6. L.openDraws \in [Threads -> Handles] /\ L.openResolves \in [Threads -> Handles]
      /\ L.frontbuffer \subseteq Handles
  BY <1>1 DEF Typed, Others
<1>7. ASSUME NEW h \in Handles, Owing(L, h, "Draw") PROVE Owing(N, h, "Draw")
  <2>1. CASE h \notin L.frontbuffer
    BY <1>5, <1>7, <2>1
  <2>2. CASE h \in L.frontbuffer
    <3>1. ~Pending(L, h)
      BY <1>1, <1>7, <2>2, OneKind DEF Safe, Sound, Debts
    <3> QED BY <1>7, <3>1 DEF Owing, PendingAs
  <2> QED BY <2>1, <2>2
<1>8. Debts(N, out)
  <2>1. \A t \in Threads : Owing(N, N.openDraws[t], "Draw")
    BY <1>6, <1>7 DEF Debts, Safe, Sound
  <2>2. \A t \in Threads : Owing(N, N.openResolves[t], "Resolve")
    BY <1>5, <1>6 DEF Debts, Apart, Safe, Sound
  <2>3. out \subseteq Handles /\ \A h \in out : Owing(N, h, "Draw")
    BY <1>7 DEF Debts, Safe, Sound
  <2> QED BY <2>1, <2>2, <2>3 DEF Debts
<1>9. Apart(N, out)
  BY DEF Apart, Safe, Sound
<1>10. Covered(N, out)
  <2>1. ASSUME ~N.closed, NEW h \in Handles, Pending(N, h) PROVE KeptBy(N, out, h)
    <3>1. Pending(L, h) /\ h \notin L.frontbuffer
      BY <1>4, <2>1
    <3>2. KeptBy(L, out, h)
      BY <2>1, <3>1 DEF Covered, Safe, Sound
    <3> QED BY <3>1, <3>2 DEF KeptBy
  <2> QED BY <2>1 DEF Covered
<1>11. Counted(N)
  <2> SUFFICES ASSUME NEW id \in Live(L)
               PROVE  N.spans[id].pending = Cardinality(Due(N.spans[id]))
    BY <1>1 DEF Counted
  <2> DEFINE s == L.spans[id]
             hs == PresentedOf(L, id)
  <2>1. s \in SpanTo(c) /\ s.pending = Cardinality(Due(s))
    BY <1>1, SpanOfLedger DEF Counted, Safe, Sound
  <2>2. IsFiniteSet(Due(s))
    BY <2>1, DueFinite
  <2>3. Cardinality(Indices(hs)) = Cardinality(hs) /\ Indices(hs) \subseteq Due(s)
    BY <1>1, Indexed
  <2> HIDE DEF hs, s
  <2>4. Cardinality(Due(s) \ Indices(hs)) = Cardinality(Due(s)) - Cardinality(Due(s) \cap Indices(hs))
    BY <2>2, FS_Difference
  <2>5. Due(s) \cap Indices(hs) = Indices(hs)
    BY <2>3
  <2>6. N.spans[id].pending = s.pending - Cardinality(hs)
        /\ Due(N.spans[id]) = Due(s) \ Indices(hs)
    BY <1>2 DEF Swapped, hs, s
  <2> QED BY <2>1, <2>3, <2>4, <2>5, <2>6
<1>12. SpansSound(N)
  BY <1>1, <1>2 DEF Swapped, SpansSound, Unsealed, Safe, Sound
<1>13. HeldPlain(N)
  BY DEF HeldPlain, Safe, Sound
<1>14. Since(N, old)
  <2>1. ASSUME NEW id \in Settled(old)
        PROVE  id \in Live(N) /\ id # Back(N) /\ N.spans[id] = old.spans[id]
    <3>1. id \in Live(L) /\ id # Back(L) /\ L.spans[id] = old.spans[id]
          /\ L.spans[id].pending = 0
      BY DEF Safe, Sound, Since, Settled
    <3>2. Due(L.spans[id]) = {}
      BY <1>1, <3>1, NoneDue DEF Safe, Sound
    <3>3. PresentedOf(L, id) = {}
      BY <3>2, PendingDue DEF PresentedOf, Presented
    <3> QED BY <1>1, <1>2, <3>1, <3>3 DEF Swapped
  <2>2. \A id \in Live(N) : id \in Settled(old) \/ Untouched(N.spans[id])
    BY <1>1, <1>2 DEF Swapped, Untouched, Safe, Sound, Since
  <2> QED BY <2>1, <2>2 DEF Since, Safe, Sound
<1> QED BY <1>8, <1>9, <1>10, <1>11, <1>12, <1>13, <1>14 DEF Safe, Sound

LEMMA SettleFrontbuffersSafe ==
    ASSUME NEW c \in Nat, NEW L, NEW out, NEW old, Safe(L, c, out, old), NEW front
    PROVE  Safe(SettleFrontbuffers(L, front), c, out, old)
<1> DEFINE wrong == Mismatched(L, front)
           first == CHOOSE h \in wrong : \A g \in wrong :
                      ResolveOf(L, h).mark <= ResolveOf(L, g).mark
           partial == L.epochPartial \/ (wrong # {} /\ Mode = "Census")
           M == [L EXCEPT !.spans = [id \in Live(L) |-> SwapSettles(L, id, front)],
                          !.frontbuffer = {},
                          !.epochPartial = partial]
<1>1. \/ SettleFrontbuffers(L, front) = M
      \/ wrong # {} /\ SettleFrontbuffers(L, front) = FailAt(M, first.span)
  BY DEF SettleFrontbuffers
<1>2. wrong # {} => first.span \in Nat
  <2> DEFINE marks == {ResolveOf(L, h).mark : h \in wrong}
  <2>1. ASSUME wrong # {}
        PROVE  first \in wrong
    <3>1. marks \subseteq Nat /\ marks # {}
      BY <2>1, PresentedTypes DEF Mismatched, Safe
    <3>2. PICK m \in marks : \A n \in marks : m <= n
      BY <3>1, OldestExists
    <3>3. PICK h \in wrong : m = ResolveOf(L, h).mark
      BY <3>2
    <3>4. \A g \in wrong : ResolveOf(L, g).mark \in marks
      OBVIOUS
    <3>5. \A g \in wrong : ResolveOf(L, h).mark <= ResolveOf(L, g).mark
      BY <3>2, <3>3, <3>4
    <3> QED BY <3>5
  <2> QED BY <2>1, PresentedTypes DEF Mismatched, Safe
<1> HIDE DEF wrong, first, partial
<1>3. /\ M.oldest = L.oldest /\ M.nextSpan = L.nextSpan
      /\ M.closed = L.closed /\ M.failedSpan = L.failedSpan
      /\ M.openDraws = L.openDraws /\ M.openResolves = L.openResolves
      /\ M.frontbuffer = {} /\ M.held = L.held /\ M.heldFirst = L.heldFirst
      /\ M.spans = [id \in Live(L) |-> SwapSettles(L, id, front)]
  BY FieldNames DEF Safe, Typed, Shaped
<1>4. Typed(M, c)
  <2>1. Typed(L, c) /\ partial \in BOOLEAN
    BY DEF Safe, partial
  <2>2. DOMAIN M = Fields /\ M.kicks = L.kicks
    BY <2>1, FieldNames DEF Typed, Shaped
  <2>3. Live(M) = Live(L)
    BY <1>3 DEF Live
  <2>4. M.spans \in [Live(M) -> SpanTo(c)]
    <3>1. \A id \in Live(L) : SwapSettles(L, id, front) \in SpanTo(c)
      BY <2>1, SwapSettlesTyped
    <3> HIDE DEF M
    <3> QED BY <1>3, <2>3, <3>1
  <2>5. Others(M, c)
    BY <2>1, FieldNames, FS_EmptySet DEF Typed, Shaped, Others
  <2>6. Shaped(M)
    <3>1. \A id \in Live(L) : DOMAIN SwapSettles(L, id, front) = SpanFields
      BY <2>1, SwapSettlesKept DEF Kept, Typed
    <3> HIDE DEF M
    <3> QED BY <1>3, <2>1, <2>2, <2>3, <3>1 DEF Typed, Shaped
  <2> HIDE DEF M
  <2> QED BY <1>3, <2>1, <2>4, <2>5, <2>6 DEF Typed
<1> HIDE DEF M
<1>5. Safe(M, c, out, old)
  BY <1>3, <1>4, SwapsSafe
<1> QED BY <1>1, <1>2, <1>5, FailAtSafe

LEMMA NowClocked ==
    ASSUME Now
    PROVE  Clocked
BY DEF Now, Safe, Clocked

LEMMA SwapStays ==
    ASSUME Now, NEW t \in Threads, NEW front \in Nat, Swap(t, front)
    PROVE  Stays
<1> DEFINE A == AbandonOpenResolve(ledger, t)
           B == IF SideHeld(A) \/ A.heldFirst # <<>> THEN FailAt(A, Back(A)) ELSE A
           C == Admit(B, t, FALSE)
           r == [NewRecord("Swap", t) EXCEPT !.value = front]
           E == AppendRecords(C, <<r>>)
           D == SettleFrontbuffers(E, front)
           out == host.detached
<1>1. /\ clock' = clock /\ host' = host
      /\ ledger' = [D EXCEPT !.epochWork = FALSE, !.epochPartial = FALSE,
                             !.ownerSwapSawSwap = @ \/ D.ownerSwapThread = t]
  BY DEF Swap
<1>2. Typed(ledger', clock) /\ clock \in Nat
  BY <1>1, NowClocked, SwapClocked DEF Clocked
<1>3. Safe(A, clock, out, ledger)
  BY AbandonOpenResolveSafe DEF Now
<1> HIDE DEF A
<1>4. Safe(B, clock, out, ledger)
  BY <1>3, BackNotSettled, FailAtSafe
<1> HIDE DEF B
<1>5. Safe(C, clock, out, ledger)
  BY <1>4, AdmitSafe
<1> HIDE DEF C
<1>6. <<r>> \in Seq(RecordTo(clock)) /\ Plain(<<r>>)
  <2>1. "Swap" \in Kinds
    BY DEF Kinds
  <2>2. r \in RecordTo(clock)
    BY <1>2, <2>1, RecordTypes
  <2>3. ~r.pending /\ ~r.skipped
    BY PlainRecords
  <2> HIDE DEF r
  <2> QED BY <2>2, <2>3 DEF Plain
<1> HIDE DEF r
<1>7. Safe(E, clock, out, ledger)
  BY <1>5, <1>6, AppendSafe
<1> HIDE DEF E
<1>8. Safe(D, clock, out, ledger)
  BY <1>2, <1>7, SettleFrontbuffersSafe
<1> HIDE DEF D
<1>9. SameHandles(ledger', D) /\ ledger'.spans = D.spans
      /\ ledger'.held = D.held /\ ledger'.heldFirst = D.heldFirst
  BY <1>1, <1>8, FieldNames DEF Safe, Typed, Shaped, SameHandles
<1> QED BY <1>1, <1>2, <1>8, <1>9, OtherSafe DEF Stays

LEMMA FrameStays ==
    ASSUME Now, NEW t \in Threads, ResolveOps(t) \/ FrameOps(t)
    PROVE  Stays
<1>1. \A dest \in Dests : dest \in Nat
  BY DataTypes DEF AssumedSites
<1> QED BY <1>1, ResolveStays, FinishResolveStays, ClearStays, SwapStays
        DEF ResolveOps, FrameOps

-----------------------------------------------------------------------------
(* Submits and kicks. *)

LEMMA StartListSafe ==
    ASSUME NEW c, NEW L, NEW out, NEW old, Safe(L, c, out, old), NEW id \in Live(L)
    PROVE  Safe(StartList(L, id), c, out, old)
<1>1. Typed(StartList(L, id), c)
  BY StartListTyped DEF Safe
<1>2. LET M == StartList(L, id)
      IN  SameHandles(M, L) /\ M.spans = L.spans /\ M.held = L.held
          /\ M.heldFirst = L.heldFirst
  BY FieldNames DEF StartList, SameHandles, Safe, Typed, Shaped
<1> QED BY <1>1, <1>2, OtherSafe

\* Records held for a side buffer are as plain as those that join a span.
LEMMA HoldSafe ==
    ASSUME NEW c, NEW L, NEW out, NEW old, Safe(L, c, out, old), NEW M, Typed(M, c),
           SameHandles(M, L), M.spans = L.spans, HeldPlain(M)
    PROVE  Safe(M, c, out, old)
BY OtherSound DEF Safe

LEMMA AttachHeldSafe ==
    ASSUME NEW c, NEW L, NEW out, NEW old, Safe(L, c, out, old),
           NEW segment \in Segments
    PROVE  Safe(AttachHeld(L, segment), c, out, old)
<1> DEFINE M == AppendRecords(L, L.held[segment])
           N == [M EXCEPT !.held[segment] = <<>>, !.heldList[segment] = 0]
           list == IF L.heldList[segment] # 0 THEN L.heldList[segment]
                   ELSE M.spans[Back(L)].startsList
           P == [N EXCEPT !.spans[Back(L)].startsList = list]
<1>1. L.held[segment] \in Seq(RecordTo(c)) /\ Plain(L.held[segment])
      /\ L.heldList[segment] \in Nat
  BY HeldTypes DEF Safe, Sound, HeldPlain
<1>2. Safe(M, c, out, old) /\ Appended(M, L, L.held[segment])
  BY <1>1, AppendSafe, Appends DEF Safe
<1>3. Back(M) = Back(L)
  BY <1>2 DEF Appended
<1>4. AttachHeld(L, segment) = P
  <2>1. DOMAIN M = Fields /\ DOMAIN M.spans = Live(M)
    BY <1>2 DEF Safe, Typed, Shaped
  <2> HIDE DEF M
  <2>2. [M EXCEPT !.held[segment] = <<>>, !.heldList[segment] = 0,
                  !.spans[Back(L)].startsList =
                      IF L.heldList[segment] # 0 THEN L.heldList[segment] ELSE @] = P
    BY <2>1, FieldNames
  <2> QED BY <2>2 DEF AttachHeld, M
<1> HIDE DEF M
<1>5. Safe(N, c, out, old)
  <2>1. Typed(N, c)
    <3>1. Typed(M, c) /\ <<>> \in Seq(RecordTo(c))
      BY <1>2 DEF Safe
    <3>2. N.held \in [Segments -> Seq(RecordTo(c))] /\ N.heldList \in [Segments -> Nat]
      BY <3>1, FieldNames DEF Typed, Shaped, Others
    <3>3. Others(N, c)
      BY <3>1, <3>2, FieldNames DEF Typed, Shaped, Others
    <3>4. DOMAIN N = Fields /\ N.oldest = M.oldest /\ N.nextSpan = M.nextSpan
          /\ N.spans = M.spans
      BY <3>1, FieldNames DEF Typed, Shaped
    <3> HIDE DEF N
    <3> QED BY <3>1, <3>3, <3>4, PutOther
  <2>2. SameHandles(N, M) /\ N.spans = M.spans
    BY <1>2, FieldNames DEF Safe, Typed, Shaped, SameHandles
  <2>3. HeldPlain(N)
    <3>1. /\ \A s \in Segments : N.held[s] = M.held[s] \/ N.held[s] = <<>>
          /\ N.heldFirst = M.heldFirst
      BY <1>2, FieldNames DEF Safe, Typed, Shaped, Others
    <3>2. Plain(<<>>)
      BY DEF Plain
    <3> HIDE DEF N
    <3> QED BY <1>2, <3>1, <3>2 DEF HeldPlain, Safe, Sound
  <2> HIDE DEF N
  <2> QED BY <1>2, <2>1, <2>2, <2>3, HoldSafe
<1>6. N.spans = M.spans
  BY <1>2, FieldNames DEF Safe, Typed, Shaped
<1>7. Back(L) \in Live(N) /\ Back(L) = Back(N) /\ Back(L) \notin Settled(old)
  <2>1. Back(N) = Back(M)
    BY <1>2, FieldNames DEF Back, Safe, Typed, Shaped
  <2> HIDE DEF N
  <2> QED BY <1>3, <1>5, <2>1, BackNotSettled
<1> HIDE DEF N
<1>8. list \in Nat
  <2>1. N.spans[Back(L)].startsList \in Nat
    BY <1>5, <1>7, SpanOfLedger DEF Safe, SpanTo
  <2> QED BY <1>1, <1>6, <2>1
<1> HIDE DEF list
<1>9. Safe(P, c, out, old)
  <2>1. Typed(P, c)
    BY <1>5, <1>8, PutNumbers DEF Safe
  <2>2. Sound(P, out, old)
    BY <1>5, <1>7, PutField
  <2> QED BY <2>1, <2>2 DEF Safe
<1> QED BY <1>4, <1>9

\* A new open span owes nothing, and no settled span becomes the last.
LEMMA OpenSpanSafe ==
    ASSUME NEW c \in Nat, NEW L, NEW out, NEW old, Safe(L, c, out, old)
    PROVE  Safe(OpenSpan(L), c, out, old)
<1> DEFINE M == OpenSpan(L)
<1>1. Typed(M, c)
  BY OpenNextTyped DEF Safe
<1>2. /\ M.oldest = L.oldest /\ M.nextSpan = L.nextSpan + 1
      /\ M.closed = L.closed /\ M.failedSpan = L.failedSpan
      /\ M.openDraws = L.openDraws /\ M.openResolves = L.openResolves
      /\ M.frontbuffer = L.frontbuffer
      /\ M.held = L.held /\ M.heldFirst = L.heldFirst
      /\ M.spans = [id \in L.oldest .. L.nextSpan |->
                       IF id = L.nextSpan THEN EmptySpan ELSE L.spans[id]]
  BY FieldNames DEF OpenSpan, Safe, Typed, Shaped
<1> HIDE DEF M
<1>3. /\ L.oldest \in Nat /\ L.nextSpan \in Nat /\ L.oldest < L.nextSpan
  BY DEF Safe, Typed, Shaped
<1>4. /\ Live(M) = Live(L) \cup {L.nextSpan} /\ L.nextSpan \notin Live(L)
      /\ Back(M) = L.nextSpan
  BY <1>2, <1>3 DEF Live, Back
<1>5. /\ \A id \in Live(L) : M.spans[id] = L.spans[id]
      /\ M.spans[L.nextSpan] = EmptySpan
  BY <1>2, <1>3 DEF Live
<1>6. /\ Due(EmptySpan) = {} /\ EmptySpan.pending = Cardinality(Due(EmptySpan))
      /\ Reported(EmptySpan) /\ Unsealed(EmptySpan) /\ Untouched(EmptySpan)
  <2>1. Due(EmptySpan) = {} /\ EmptySpan.pending = 0
        /\ Reported(EmptySpan) /\ Unsealed(EmptySpan) /\ Untouched(EmptySpan)
    BY DEF Due, Reported, Unsealed, Untouched, EmptySpan
  <2> QED BY <2>1, FS_EmptySet
<1>7. \A h : Pending(M, h) <=> Pending(L, h)
  BY <1>4, <1>5, <1>6, PendingDue
<1>8. \A h \in Handles : \A kind : Owing(L, h, kind) => h.span < M.nextSpan
  BY <1>2, <1>3 DEF Owing, Handles
<1>9. \A h \in Handles : \A kind : Owing(L, h, kind) => Owing(M, h, kind)
  <2> SUFFICES ASSUME NEW h \in Handles, NEW kind, Owing(L, h, kind), h.span >= L.oldest
               PROVE  PendingAs(M, h, kind)
    BY <1>2, <1>8 DEF Owing
  <2>1. PendingAs(L, h, kind)
    BY DEF Owing
  <2>2. h.span \in Live(L) /\ Pending(L, h)
    BY <2>1 DEF PendingAs, Pending
  <2> QED BY <1>5, <1>7, <2>1, <2>2 DEF PendingAs
<1>10. Debts(M, out) /\ Apart(M, out)
  <2>1. L.openDraws \in [Threads -> Handles] /\ L.openResolves \in [Threads -> Handles]
        /\ L.frontbuffer \subseteq Handles
    BY DEF Safe, Typed, Others
  <2> QED BY <1>2, <1>9, <2>1 DEF Debts, Apart, Safe, Sound
<1>11. Covered(M, out)
  BY <1>2, <1>7 DEF Covered, KeptBy, Safe, Sound
<1>12. Counted(M) /\ SpansSound(M) /\ HeldPlain(M)
  BY <1>2, <1>4, <1>5, <1>6 DEF Counted, SpansSound, HeldPlain, Safe, Sound
<1>13. Since(M, old)
  BY <1>2, <1>4, <1>5, <1>6 DEF Since, Safe, Sound
<1> QED BY <1>1, <1>10, <1>11, <1>12, <1>13 DEF Safe, Sound, M

LEMMA KickedSafe ==
    ASSUME NEW c \in Nat, NEW L, NEW out, NEW old, Safe(L, c, out, old),
           NEW id \in Live(L), id \notin Settled(old), NEW kick \in Nat
    PROVE  Safe(StartList([L EXCEPT !.spans[id].kicked = kick], id), c, out, old)
<1> DEFINE M == [L EXCEPT !.spans[id].kicked = kick]
<1>1. Safe(M, c, out, old)
  <2>1. Typed(M, c)
    BY PutNumbers DEF Safe
  <2> QED BY <2>1, PutField DEF Safe
<1>2. Live(M) = Live(L)
  BY FieldNames DEF Safe, Typed, Shaped, Live
<1> HIDE DEF M
<1>3. Safe(StartList(M, id), c, out, old)
  BY <1>1, <1>2, StartListSafe
<1> QED BY <1>3 DEF M

LEMMA WorkerKickSafe ==
    ASSUME NEW c \in Nat, NEW L, NEW out, NEW old, Safe(L, c, out, old), NEW p
    PROVE  Safe(WorkerKick(L, p), c, out, old)
<1> DEFINE waiting == Unsubmitted(L)
           oldest == OldestOf(waiting)
<1>1. waiting # {} => oldest \in waiting
  <2>1. waiting \subseteq Nat
    BY DEF Unsubmitted, Live, Safe, Typed, Shaped
  <2> HIDE DEF waiting
  <2> QED BY <2>1, OldestExists DEF OldestOf
<1>2. waiting # {} =>
         /\ oldest \in Live(L) /\ oldest \in Nat /\ oldest \notin Settled(old)
         /\ L.kicks \in Nat
  <2>1. ASSUME NEW id \in waiting
        PROVE  id \in Live(L) /\ id \in Nat /\ id \notin Settled(old)
    <3>1. id \in Live(L) /\ L.spans[id].deferred # NoSegment /\ L.spans[id].kicked = 0
      BY DEF Unsubmitted
    <3>2. id \in Nat
      BY <3>1 DEF Live, Safe, Typed, Shaped
    <3> QED BY <3>1, <3>2, NotSettled
  <2> QED BY <1>1, <2>1 DEF Safe, Typed, Shaped
<1>3. waiting # {} =>
         Safe(StartList([L EXCEPT !.spans[oldest].kicked = L.kicks], oldest), c, out, old)
  BY <1>2, KickedSafe
<1>4. Safe([L EXCEPT !.replayPointer = L.kicks], c, out, old)
  <2> DEFINE M == [L EXCEPT !.replayPointer = L.kicks]
  <2>1. /\ DOMAIN M = Fields /\ SameHandles(M, L) /\ M.spans = L.spans
        /\ M.held = L.held /\ M.heldFirst = L.heldFirst
    BY FieldNames DEF Safe, Typed, Shaped, SameHandles
  <2>2. Others(M, c)
    BY FieldNames DEF Safe, Typed, Shaped, Others
  <2>3. Typed(M, c)
    BY <2>1, <2>2, PutOther DEF Safe, SameHandles
  <2> HIDE DEF M
  <2>4. Safe(M, c, out, old)
    BY <2>1, <2>3, OtherSafe
  <2> QED BY <2>4 DEF M
<1>5. Safe(FailAt(L, IF waiting # {} THEN oldest ELSE Back(L)), c, out, old)
  BY <1>2, BackNotSettled, FailAtSafe
<1> QED BY <1>3, <1>4, <1>5 DEF WorkerKick

LEMMA MainKickSafe ==
    ASSUME NEW c \in Nat, NEW L, NEW out, NEW old, Safe(L, c, out, old),
           NEW t \in Threads, NEW submitted, NEW p, submitted => p.segment \in Segments
    PROVE  Safe(MainKick(L, t, submitted, p), c, out, old)
<1> DEFINE A == Admit(AbandonOpenResolve(L, t), t, TRUE)
           b == Back(A)
           M == IF submitted THEN AttachHeld(A, p.segment)
                ELSE IF SideHeld(A) THEN FailAt(A, b) ELSE A
<1>1. /\ MainKick(L, t, submitted, p) =
            OpenSpan(StartList([M EXCEPT !.spans[b].kicked = L.kicks], b))
  BY DEF MainKick
<1>2. Safe(A, c, out, old) /\ L.kicks \in Nat
  <2>1. Safe(A, c, out, old)
    BY AbandonOpenResolveSafe, AdmitSafe
  <2>2. L.kicks \in Nat
    BY DEF Safe, Typed, Shaped
  <2> QED BY <2>1, <2>2
<1> HIDE DEF A
<1>3. b \in Nat
  BY <1>2, BackNotSettled
<1>4. Safe(M, c, out, old)
  BY <1>2, <1>3, AttachHeldSafe, FailAtSafe
<1>5. Same(M, A)
  BY <1>2, AttachHeldSame, FailAtSame, SameRefl DEF Safe, Typed
<1>6. Back(M) = b
  BY <1>5 DEF Same, Back
<1> HIDE DEF M, b
<1>7. b \in Live(M) /\ b \notin Settled(old)
  BY <1>4, <1>6, BackNotSettled
<1>8. Safe(StartList([M EXCEPT !.spans[b].kicked = L.kicks], b), c, out, old)
  BY <1>2, <1>4, <1>7, KickedSafe
<1> QED BY <1>1, <1>8, OpenSpanSafe

LEMMA SubmitSafe ==
    ASSUME NEW c, NEW L, NEW out, NEW old, Safe(L, c, out, old), NEW t, NEW p,
           Typed([L EXCEPT !.pendingSubmit[t] = p], c)
    PROVE  Safe([L EXCEPT !.pendingSubmit[t] = p], c, out, old)
<1> DEFINE M == [L EXCEPT !.pendingSubmit[t] = p]
<1>1. /\ SameHandles(M, L) /\ M.spans = L.spans
      /\ M.held = L.held /\ M.heldFirst = L.heldFirst
  BY FieldNames DEF Safe, Typed, Shaped, SameHandles
<1> QED BY <1>1, OtherSafe

LEMMA KickStays ==
    ASSUME Now, NEW t \in Threads, Kick(t)
    PROVE  Stays
<1> DEFINE p == ledger.pendingSubmit[t]
           submitted == HasPending(ledger, t)
           K == [ledger EXCEPT !.kicks = @ + 1]
           L == [K EXCEPT !.pendingSubmit[t] = NoSubmit]
           out == host.detached
<1>1. \/ ledger' = WorkerKick(L, p)
      \/ ledger' = FailAt(L, Back(L))
      \/ ledger' = MainKick(L, t, submitted, p)
  <2>1. [ledger EXCEPT !.kicks = @ + 1, !.pendingSubmit[t] = NoSubmit] = L
    OBVIOUS
  <2> QED BY <2>1, Zenon DEF Kick
<1>2. clock' = clock /\ host' = host /\ clock \in Nat /\ Typed(ledger, clock)
      /\ Safe(ledger, clock, out, ledger)
  BY DEF Kick, LedgerOnly, Now, Safe
<1>3. Typed(K, clock)
  <2>1. /\ DOMAIN K = Fields
        /\ K.oldest = ledger.oldest /\ K.nextSpan = ledger.nextSpan
        /\ K.spans = ledger.spans
    BY <1>2, FieldNames DEF Typed, Shaped
  <2>2. Shaped(K)
    BY <1>2, FieldNames DEF Typed, Shaped, Live
  <2>3. Others(K, clock)
    <3>1. DOMAIN ledger = Fields /\ Others(ledger, clock)
      BY <1>2 DEF Typed, Shaped
    <3>2. /\ K.kicks = ledger.kicks + 1
          /\ \A f \in Fields \ {"kicks"} : K[f] = ledger[f]
      BY <3>1, FieldNames
    <3> QED BY <3>1, <3>2, FieldNames DEF Others
  <2> QED BY <1>2, <2>1, <2>2, <2>3 DEF Typed, Live
<1>4. /\ SameHandles(K, ledger) /\ K.spans = ledger.spans
      /\ K.held = ledger.held /\ K.heldFirst = ledger.heldFirst
  BY <1>2, FieldNames DEF Typed, Shaped, SameHandles
<1> HIDE DEF K
<1>5. Safe(K, clock, out, ledger)
  BY <1>2, <1>3, <1>4, OtherSafe
<1>6. Safe(L, clock, out, ledger)
  BY <1>3, <1>5, NoSubmitTyped, SubmitSafe
<1> HIDE DEF L
<1>7. submitted => p.segment \in Segments
  BY <1>2 DEF HasPending, Typed, Others
<1> HIDE DEF submitted, p
<1>8. Safe(WorkerKick(L, p), clock, out, ledger)
  BY <1>2, <1>6, WorkerKickSafe
<1>9. Safe(MainKick(L, t, submitted, p), clock, out, ledger)
  BY <1>2, <1>6, <1>7, MainKickSafe
<1>10. Safe(FailAt(L, Back(L)), clock, out, ledger)
  BY <1>6, BackNotSettled, FailAtSafe
<1> QED BY <1>1, <1>2, <1>8, <1>9, <1>10 DEF Stays

LEMMA FailStays ==
    ASSUME Now, clock' = clock, host' = host, ledger' = FailAt(ledger, Back(ledger))
    PROVE  Stays
BY BackNotSettled, FailAtSafe DEF Now, Stays

LEMMA SubmitsStays ==
    ASSUME Now, NEW t \in Threads, NEW s \in Segments, NEW n \in Nat,
           DirectSubmit(t, s, n) \/ ReplaySubmit(t, s, n)
    PROVE  Stays
<1> DEFINE out == host.detached
           R == [ledger EXCEPT !.replay = @ \cup {t}]
<1>1. clock' = clock /\ host' = host /\ clock \in Nat /\ Typed(ledger, clock)
      /\ Safe(ledger, clock, out, ledger)
  BY DEF DirectSubmit, ReplaySubmit, LedgerOnly, Now, Safe
<1>2. ASSUME NEW L, Safe(L, clock, out, ledger), NEW worker \in BOOLEAN
      PROVE  Safe(Submitted(L, t, s, n, worker), clock, out, ledger)
  <2> DEFINE p == [segment |-> s, dwords |-> n, epoch |-> L.submitEpoch,
                   worker |-> worker]
  <2>1. p \in Submits /\ (p.epoch # 0 => p.segment \in Segments)
    BY <1>2 DEF Submits, Safe, Typed, Others
  <2>2. Safe([L EXCEPT !.pendingSubmit[t] = p], clock, out, ledger)
    BY <1>2, <2>1, PutSubmitTyped, SubmitSafe DEF Safe
  <2>3. Safe(FailAt(L, Back(L)), clock, out, ledger)
    BY <1>2, BackNotSettled, FailAtSafe
  <2> QED BY <2>2, <2>3 DEF Submitted
<1>3. CASE DirectSubmit(t, s, n)
  <2>1. \/ ledger' = Submitted(ledger, t, s, n, FALSE)
        \/ ledger' = FailAt(ledger, Back(ledger))
    BY <1>3 DEF DirectSubmit, Unreplayed
  <2> QED BY <1>1, <1>2, <2>1, FailStays DEF Stays
<1>4. CASE ReplaySubmit(t, s, n)
  <2>1. /\ DOMAIN R = Fields /\ SameHandles(R, ledger) /\ R.spans = ledger.spans
        /\ R.held = ledger.held /\ R.heldFirst = ledger.heldFirst
    BY <1>1, FieldNames DEF Typed, Shaped, SameHandles
  <2>2. Others(R, clock)
    BY <1>1, FieldNames DEF Typed, Shaped, Others
  <2>3. ledger' = Submitted(R, t, s, n, TRUE)
    BY <1>4 DEF ReplaySubmit
  <2> HIDE DEF R
  <2>4. Typed(R, clock)
    BY <1>1, <2>1, <2>2, PutOther DEF SameHandles
  <2>5. Safe(R, clock, out, ledger)
    BY <1>1, <2>1, <2>4, OtherSafe
  <2> QED BY <1>1, <1>2, <2>3, <2>5 DEF Stays
<1> QED BY <1>3, <1>4

\* The back span of the ledger, its thread admitted and its held records attached.
LEMMA AttachedSafe ==
    ASSUME NEW c, NEW L, NEW out, NEW old, Safe(L, c, out, old), NEW t \in Threads,
           NEW segment \in Segments
    PROVE  Safe(AttachHeld(Admit(AbandonOpenResolve(L, t), t, TRUE), segment), c, out, old)
BY AbandonOpenResolveSafe, AdmitSafe, AttachHeldSafe

\* A span that a Silent submit seals was not deferred, and the other way round.
LEMMA SealSafe ==
    ASSUME NEW c, NEW L, NEW out, NEW old, Safe(L, c, out, old), NEW b, b = Back(L)
    PROVE  /\ L.spans[b].deferred = NoSegment =>
                 Safe([L EXCEPT !.spans[b].sealed = TRUE], c, out, old)
           /\ \A s \in Segments : ~L.spans[b].sealed =>
                 Safe([L EXCEPT !.spans[b].deferred = s], c, out, old)
<1> DEFINE span == L.spans[b]
<1>1. b \in Live(L) /\ b \notin Settled(old) /\ span \in SpanTo(c)
  BY BackNotSettled
<1>2. ASSUME span.deferred = NoSegment
      PROVE  Safe([L EXCEPT !.spans[b].sealed = TRUE], c, out, old)
  <2> DEFINE s == [span EXCEPT !.sealed = TRUE]
  <2>1. SameDebt(s, span)
    BY <1>1, <1>2 DEF SameDebt, Unsealed, SpanTo
  <2> HIDE DEF s
  <2>2. Sound([L EXCEPT !.spans[b] = s], out, old)
    BY <1>1, <2>1, PutDebt
  <2>3. [L EXCEPT !.spans[b] = s] = [L EXCEPT !.spans[b].sealed = TRUE]
    BY DEF s
  <2>4. Typed([L EXCEPT !.spans[b].sealed = TRUE], c)
    BY PutFlags DEF Safe
  <2> QED BY <2>2, <2>3, <2>4 DEF Safe
<1>3. ASSUME NEW segment \in Segments, ~span.sealed
      PROVE  Safe([L EXCEPT !.spans[b].deferred = segment], c, out, old)
  <2> DEFINE s == [span EXCEPT !.deferred = segment]
  <2>1. SameDebt(s, span)
    BY <1>1, <1>3 DEF SameDebt, Unsealed, SpanTo
  <2> HIDE DEF s
  <2>2. Sound([L EXCEPT !.spans[b] = s], out, old)
    BY <1>1, <2>1, PutDebt
  <2>3. [L EXCEPT !.spans[b] = s] = [L EXCEPT !.spans[b].deferred = segment]
    BY DEF s
  <2>4. Typed([L EXCEPT !.spans[b].deferred = segment], c)
    BY PutDeferred DEF Safe
  <2> QED BY <2>2, <2>3, <2>4 DEF Safe
<1> QED BY <1>2, <1>3

LEMMA SilentStays ==
    ASSUME Now, Window(ledger), NEW t \in Threads, SilentSubmit(t)
    PROVE  Stays
<1> DEFINE p == ledger.pendingSubmit[t]
           L == [ledger EXCEPT !.pendingSubmit[t] = NoSubmit]
           M == AttachHeld(Admit(AbandonOpenResolve(L, t), t, TRUE), p.segment)
           b == Back(M)
           N == [M EXCEPT !.spans[b].sealed = TRUE]
           out == host.detached
<1>1. ledger' = M \/ ledger' = OpenSpan(StartList(N, b))
  BY DEF SilentSubmit
<1>2. clock' = clock /\ host' = host /\ clock \in Nat /\ Typed(ledger, clock)
      /\ Safe(ledger, clock, out, ledger)
  BY DEF SilentSubmit, LedgerOnly, Now, Safe
<1>3. p.segment \in Segments
  BY <1>2 DEF SilentSubmit, HasPending, Typed, Others
<1>4. Safe(L, clock, out, ledger)
  BY <1>2, NoSubmitTyped, SubmitSafe
<1>5. Same(L, ledger) /\ Shaped(L)
  BY <1>2, FieldNames, OtherField, SameShaped DEF Typed, Shaped
<1> HIDE DEF p, L
<1>6. Safe(M, clock, out, ledger)
  BY <1>3, <1>4, AttachedSafe
<1>7. Same(M, ledger)
  BY <1>5, AttachedSame, SameTrans
<1> HIDE DEF M
<1>8. M.spans[b].deferred = NoSegment
  <2>1. b = Back(ledger) /\ b \in Live(ledger)
    BY <1>2, <1>7, BackTypes DEF Same, Back
  <2> QED BY <1>7, <2>1 DEF Same, Kept, Window, OpenAtBack
<1>9. Safe(N, clock, out, ledger)
  BY <1>6, <1>8, SealSafe
<1>10. b \in Live(N)
  <2>1. Live(N) = Live(M) /\ b \in Live(M)
    BY <1>6, BackTypes, FieldNames DEF Safe, Typed, Shaped, Live
  <2> QED BY <2>1
<1> HIDE DEF N, b
<1>11. Safe(OpenSpan(StartList(N, b)), clock, out, ledger)
  BY <1>2, <1>9, <1>10, StartListSafe, OpenSpanSafe
<1> QED BY <1>1, <1>2, <1>6, <1>11 DEF Stays

LEMMA DeferStays ==
    ASSUME Now, Window(ledger), NEW t \in Threads, NEW s \in Segments, NEW n \in Nat,
           Defer(t, s, n)
    PROVE  Stays
<1> DEFINE M == AttachHeld(Admit(AbandonOpenResolve(ledger, t), t, TRUE), s)
           b == Back(M)
           N == [M EXCEPT !.spans[b].deferred = s]
           K == [N EXCEPT !.spans[b].dwords = n]
           out == host.detached
<1>1. ledger' = OpenSpan(K) \/ ledger' = FailAt(ledger, Back(ledger))
  <2>1. [M EXCEPT !.spans[b].deferred = s, !.spans[b].dwords = n] = K
    OBVIOUS
  <2> QED BY <2>1, Zenon DEF Defer, Unreplayed
<1>2. clock' = clock /\ host' = host /\ clock \in Nat /\ Typed(ledger, clock)
      /\ Safe(ledger, clock, out, ledger)
  BY DEF Defer, LedgerOnly, Now, Safe
<1>3. Safe(M, clock, out, ledger)
  BY <1>2, AttachedSafe
<1>4. Same(M, ledger)
  BY <1>2, AttachedSame DEF Typed
<1> HIDE DEF M
<1>5. ~M.spans[b].sealed
  <2>1. b = Back(ledger) /\ b \in Live(ledger)
    BY <1>2, <1>4, BackTypes DEF Same, Back
  <2> QED BY <1>4, <2>1 DEF Same, Kept, Window, OpenAtBack, Closed
<1>6. Safe(N, clock, out, ledger)
  BY <1>3, <1>5, SealSafe
<1>7. b = Back(N)
  BY <1>3, FieldNames DEF Safe, Typed, Shaped, Back
<1> HIDE DEF N, b
<1>8. Safe(K, clock, out, ledger)
  <2>1. Typed(K, clock)
    BY <1>6, PutNumbers DEF Safe
  <2>2. b \notin Settled(ledger)
    BY <1>6, <1>7, BackNotSettled
  <2> QED BY <1>6, <2>1, <2>2, PutField DEF Safe
<1> HIDE DEF K
<1>9. Safe(OpenSpan(K), clock, out, ledger)
  BY <1>2, <1>8, OpenSpanSafe
<1> QED BY <1>1, <1>2, <1>9, FailStays DEF Stays

-----------------------------------------------------------------------------
(* Side buffers, tiled lists and the device bracket. *)

LEMMA PlainConcat ==
    ASSUME NEW c, NEW a \in Seq(RecordTo(c)), NEW b \in Seq(RecordTo(c)),
           Plain(a), Plain(b)
    PROVE  a \o b \in Seq(RecordTo(c)) /\ Plain(a \o b)
<1>1. /\ a \o b \in Seq(RecordTo(c)) /\ Len(a \o b) = Len(a) + Len(b)
      /\ \A i \in 1 .. Len(a) + Len(b) :
            (a \o b)[i] = IF i <= Len(a) THEN a[i] ELSE b[i - Len(a)]
  BY ConcatProperties
<1>2. /\ DOMAIN a = 1 .. Len(a) /\ DOMAIN b = 1 .. Len(b)
      /\ DOMAIN (a \o b) = 1 .. Len(a) + Len(b)
      /\ Len(a) \in Nat /\ Len(b) \in Nat
  BY <1>1, LenProperties
<1>3. ASSUME NEW i \in 1 .. Len(a) + Len(b)
      PROVE  ~(a \o b)[i].pending /\ ~(a \o b)[i].skipped
  <2>1. CASE i <= Len(a)
    BY <1>1, <1>2, <2>1 DEF Plain
  <2>2. CASE ~(i <= Len(a))
    <3>1. i - Len(a) \in 1 .. Len(b) /\ (a \o b)[i] = b[i - Len(a)]
      BY <1>1, <1>2, <2>2
    <3> QED BY <1>2, <3>1 DEF Plain
  <2> QED BY <2>1, <2>2
<1> QED BY <1>1, <1>2, <1>3 DEF Plain

\* A side buffer takes more records.
LEMMA SideSafe ==
    ASSUME NEW c, NEW L, NEW out, NEW old, Safe(L, c, out, old), NEW M, Typed(M, c),
           SameHandles(M, L), M.spans = L.spans, NEW side,
           \A s \in Segments : s # side => M.held[s] = L.held[s],
           Plain(M.held[side]), Plain(M.heldFirst)
    PROVE  Safe(M, c, out, old)
<1>1. HeldPlain(M)
  BY DEF HeldPlain, Safe, Sound
<1> QED BY <1>1, HoldSafe

LEMMA SideFenceStays ==
    ASSUME Now, NEW t \in Threads, NEW s \in Segments, NEW block \in Blocks,
           SideFence(t, block, s)
    PROVE  Stays
<1> DEFINE L == Admit(AbandonOpenResolve(ledger, t), t, TRUE)
           new == <<NewRecord("InvalidateState", t), FenceRecord(t, block, clock')>>
           recs == L.held[s] \o new
           M == [L EXCEPT !.held[s] = recs]
           out == host.detached
<1>1. /\ clock' \in {clock, clock + 1} /\ host' = host
      /\ ledger' = CheckIdentity(M, block)
  BY DEF SideFence, Tick
<1>2. clock' \in Nat /\ Safe(L, clock', out, ledger)
  <2>1. clock' \in Nat /\ Safe(ledger, clock', out, ledger)
    BY <1>1, TickSafe
  <2> QED BY <2>1, AbandonOpenResolveSafe, AdmitSafe
<1>3. new \in Seq(RecordTo(clock')) /\ Plain(new)
  <2>1. "InvalidateState" \in Kinds
    BY DEF Kinds
  <2>2. NewRecord("InvalidateState", t) \in RecordTo(clock')
        /\ FenceRecord(t, block, clock') \in RecordTo(clock')
    BY <1>2, <2>1, RecordTypes, FenceTypes
  <2>3. new \in Seq(RecordTo(clock'))
    BY <2>2
  <2>4. \A i \in DOMAIN new : i = 1 \/ i = 2
    OBVIOUS
  <2>5. ~new[1].pending /\ ~new[1].skipped /\ ~new[2].pending /\ ~new[2].skipped
    <3>1. new[1] = NewRecord("InvalidateState", t) /\ new[2] = FenceRecord(t, block, clock')
      OBVIOUS
    <3> HIDE DEF new
    <3> QED BY <3>1, PlainRecords
  <2> HIDE DEF new
  <2> QED BY <2>3, <2>4, <2>5 DEF Plain
<1> HIDE DEF L, new
<1>4. L.held[s] \in Seq(RecordTo(clock')) /\ Plain(L.held[s]) /\ Plain(L.heldFirst)
  BY <1>2, HeldTypes DEF Safe, Sound, HeldPlain
<1>5. recs \in Seq(RecordTo(clock')) /\ Plain(recs)
  BY <1>3, <1>4, PlainConcat
<1> HIDE DEF recs
<1>6. Typed(M, clock')
  BY <1>2, <1>5, HoldTyped DEF Safe
<1>7. /\ SameHandles(M, L) /\ M.spans = L.spans /\ M.heldFirst = L.heldFirst
      /\ M.held[s] = recs /\ \A r \in Segments : r # s => M.held[r] = L.held[r]
  BY <1>2, FieldNames DEF Safe, Typed, Shaped, Others, SameHandles
<1> HIDE DEF M
<1>8. Safe(M, clock', out, ledger)
  BY <1>2, <1>4, <1>5, <1>6, <1>7, SideSafe
<1> QED BY <1>1, <1>8, CheckIdentitySafe DEF Stays

LEMMA CallbackAdmits ==
    ASSUME Now, clock' \in {clock, clock + 1}, NEW t \in Threads, NEW allowHeld
    PROVE  /\ clock' \in Nat
           /\ Safe(Admit(AbandonOpenResolve(ledger, t), t, allowHeld), clock',
                   host.detached, ledger)
BY TickSafe, AbandonOpenResolveSafe, AdmitSafe

\* The callbacks held for the first pass, and one more.
LEMMA CallbackHeld ==
    ASSUME NEW c, NEW L, NEW out, NEW old, Safe(L, c, out, old),
           NEW r \in RecordTo(c), ~r.pending, ~r.skipped
    PROVE  Append(L.heldFirst, r) \in Seq(RecordTo(c)) /\ Plain(Append(L.heldFirst, r))
<1>1. L.heldFirst \in Seq(RecordTo(c)) /\ Plain(L.heldFirst)
  BY DEF Safe, Sound, HeldPlain, Typed, Others
<1>2. <<r>> \in Seq(RecordTo(c)) /\ Plain(<<r>>)
  BY DEF Plain
<1>3. Append(L.heldFirst, r) = L.heldFirst \o <<r>>
  BY <1>1
<1> QED BY <1>1, <1>2, <1>3, PlainConcat

LEMMA SideCallbackStays ==
    ASSUME Now, NEW t \in Threads, NEW s \in Segments,
           NEW flags \in CallbackFlags, SideCallback(t, flags, s)
    PROVE  Stays
<1> DEFINE L == Admit(AbandonOpenResolve(ledger, t), t, FALSE)
           newest == IF DOMAIN L.lists = {} THEN 0 ELSE L.nextList - 1
           r == CallbackRecord(t, flags, clock')
           first == Append(L.heldFirst, r)
           recs == L.held[s] \o first
           list == IF newest # 0 THEN newest ELSE L.heldList[s]
           M == [L EXCEPT !.held[s] = recs, !.heldList[s] = list, !.heldFirst = <<>>]
           out == host.detached
<1>1. clock' \in {clock, clock + 1} /\ host' = host /\ ledger' = M
  BY DEF SideCallback, Tick
<1>2. clock' \in Nat /\ Safe(L, clock', out, ledger)
  BY <1>1, CallbackAdmits
<1>3. r \in RecordTo(clock') /\ ~r.pending /\ ~r.skipped
  BY <1>2, CallbackTypes, PlainRecords
<1> HIDE DEF L, r
<1>4. /\ L.held[s] \in Seq(RecordTo(clock')) /\ Plain(L.held[s])
      /\ L.heldList[s] \in Nat /\ L.nextList \in Nat \ {0}
  BY <1>2, HeldTypes DEF Safe, Sound, HeldPlain
<1>5. first \in Seq(RecordTo(clock')) /\ Plain(first)
  BY <1>2, <1>3, CallbackHeld
<1> HIDE DEF first
<1>6. recs \in Seq(RecordTo(clock')) /\ Plain(recs) /\ list \in Nat
      /\ <<>> \in Seq(RecordTo(clock')) /\ Plain(<<>>)
  <2>1. recs \in Seq(RecordTo(clock')) /\ Plain(recs)
    BY <1>4, <1>5, PlainConcat
  <2> QED BY <1>4, <2>1 DEF Plain
<1> HIDE DEF recs, list
<1>7. Typed(M, clock')
  BY <1>2, <1>6, HoldTyped DEF Safe
<1>8. /\ SameHandles(M, L) /\ M.spans = L.spans /\ M.heldFirst = <<>>
      /\ M.held[s] = recs /\ \A k \in Segments : k # s => M.held[k] = L.held[k]
  BY <1>2, FieldNames DEF Safe, Typed, Shaped, Others, SameHandles
<1> HIDE DEF M
<1> QED BY <1>1, <1>2, <1>6, <1>7, <1>8, SideSafe DEF Stays

LEMMA FirstPassStays ==
    ASSUME Now, NEW t \in Threads, NEW flags \in CallbackFlags,
           FirstPassCallback(t, flags)
    PROVE  Stays
<1> DEFINE L == Admit(AbandonOpenResolve(ledger, t), t, FALSE)
           r == CallbackRecord(t, flags, clock')
           first == Append(L.heldFirst, r)
           N == [L EXCEPT !.heldFirst = first]
           out == host.detached
<1>1. clock' \in {clock, clock + 1} /\ host' = host /\ ledger' = N
  BY DEF FirstPassCallback, Tick
<1>2. clock' \in Nat /\ Safe(L, clock', out, ledger)
  BY <1>1, CallbackAdmits
<1>3. r \in RecordTo(clock') /\ ~r.pending /\ ~r.skipped
  BY <1>2, CallbackTypes, PlainRecords
<1> HIDE DEF L, r
<1>4. first \in Seq(RecordTo(clock')) /\ Plain(first)
  BY <1>2, <1>3, CallbackHeld
<1> HIDE DEF first
<1>5. Typed(N, clock')
  BY <1>2, <1>4, FirstTyped DEF Safe
<1>6. /\ SameHandles(N, L) /\ N.spans = L.spans /\ N.heldFirst = first
      /\ N.held = L.held
  BY <1>2, FieldNames DEF Safe, Typed, Shaped, SameHandles
<1> HIDE DEF N
<1>7. HeldPlain(N)
  BY <1>2, <1>4, <1>6 DEF HeldPlain, Safe, Sound
<1> QED BY <1>1, <1>2, <1>5, <1>6, <1>7, HoldSafe DEF Stays

LEMMA TileStays ==
    ASSUME Now, Window(ledger), NEW t \in Threads, TileOps(t) \/ TiledProgress
    PROVE  Stays
<1>1. Safe(ledger, clock, host.detached, ledger) /\ DOMAIN ledger = Fields
      /\ clock \in Nat
  BY DEF Now, Safe, Typed, Shaped
<1>2. CASE BeginTiledList
  <2>1. clock' = clock /\ host' = host /\ Typed(ledger', clock)
    BY <1>2, NowClocked, TileClocked DEF TileOps, BeginTiledList, LedgerOnly, Clocked
  <2>2. SameHandles(ledger', ledger) /\ ledger'.spans = ledger.spans
        /\ ledger'.held = ledger.held /\ ledger'.heldFirst = ledger.heldFirst
    BY <1>1, <1>2, FieldNames DEF BeginTiledList, SameHandles
  <2> QED BY <1>1, <2>1, <2>2, OtherSafe DEF Stays
<1>3. ASSUME NEW s \in Segments, NEW n \in Sizes, TiledSegment(t, s, n)
      PROVE  Stays
  <2> DEFINE M == [ledger EXCEPT !.lists[ledger.nextList - 1][s] = n]
  <2>1. clock' = clock /\ host' = host
        /\ (ledger' = M \/ ledger' = FailAt(ledger, Back(ledger)))
    BY <1>3 DEF TiledSegment, Unreplayed, LedgerOnly
  <2>2. Typed(ledger', clock)
    BY <1>3, <2>1, NowClocked, TileClocked DEF TileOps, Clocked
  <2>3. SameHandles(M, ledger) /\ M.spans = ledger.spans
        /\ M.held = ledger.held /\ M.heldFirst = ledger.heldFirst
    BY <1>1, FieldNames DEF SameHandles
  <2> HIDE DEF M
  <2> QED BY <1>1, <2>1, <2>2, <2>3, OtherSafe, FailStays DEF Stays
<1>4. CASE TiledProgress
  BY <1>4, FailStays DEF TiledProgress, LedgerOnly
<1>5. ASSUME NEW s \in Segments, NEW n \in Sizes, Defer(t, s, n)
      PROVE  Stays
  BY <1>5, DataTypes, DeferStays
<1>6. ASSUME NEW s \in Segments, NEW block \in Blocks, SideFence(t, block, s)
      PROVE  Stays
  BY <1>6, SideFenceStays
<1>7. ASSUME NEW s \in Segments, NEW flags \in CallbackFlags, SideCallback(t, flags, s)
      PROVE  Stays
  BY <1>7, SideCallbackStays
<1>8. ASSUME NEW flags \in CallbackFlags, FirstPassCallback(t, flags)
      PROVE  Stays
  BY <1>8, FirstPassStays
<1> QED BY <1>2, <1>3, <1>4, <1>5, <1>6, <1>7, <1>8 DEF TileOps

LEMMA ThreadSafe ==
    ASSUME NEW c, NEW L, NEW out, NEW old, Safe(L, c, out, old), NEW b, b = Back(L),
           NEW t \in Threads \cup {NoThread}
    PROVE  Safe([L EXCEPT !.spans[b].thread = t], c, out, old)
<1>1. Typed([L EXCEPT !.spans[b].thread = t], c)
  BY PutThread DEF Safe
<1>2. Sound([L EXCEPT !.spans[b].thread = t], out, old)
  BY BackNotSettled, PutField
<1> QED BY <1>1, <1>2 DEF Safe

LEMMA BracketSafe ==
    ASSUME NEW c, NEW L, NEW out, NEW old, Safe(L, c, out, old),
           NEW t \in Threads \cup {NoThread}
    PROVE  /\ Safe([L EXCEPT !.suspended = TRUE], c, out, old)
           /\ Safe([L EXCEPT !.suspended = FALSE], c, out, old)
           /\ Safe([L EXCEPT !.deviceOwner = t], c, out, old)
           /\ Safe([L EXCEPT !.ownerSwapThread = t], c, out, old)
           /\ Safe([L EXCEPT !.ownerSwapThread = t, !.ownerSwapSawSwap = FALSE],
                   c, out, old)
<1>1. ASSUME NEW M, M \in {[L EXCEPT !.suspended = TRUE],
                           [L EXCEPT !.suspended = FALSE],
                           [L EXCEPT !.deviceOwner = t],
                           [L EXCEPT !.ownerSwapThread = t],
                           [L EXCEPT !.ownerSwapThread = t, !.ownerSwapSawSwap = FALSE]}
      PROVE  Safe(M, c, out, old)
  <2>1. DOMAIN L = Fields /\ Typed(L, c)
    BY DEF Safe, Typed, Shaped
  <2>2. Typed(M, c)
    <3>1. /\ Typed([L EXCEPT !.suspended = TRUE], c)
          /\ Typed([L EXCEPT !.suspended = FALSE], c)
          /\ Typed([L EXCEPT !.deviceOwner = t], c)
          /\ Typed([L EXCEPT !.ownerSwapThread = t], c)
          /\ Typed([L EXCEPT !.ownerSwapThread = t, !.ownerSwapSawSwap = FALSE], c)
      BY <2>1, DeviceFields
    <3> QED BY <1>1, <3>1
  <2>3. SameHandles(M, L) /\ M.spans = L.spans
        /\ M.held = L.held /\ M.heldFirst = L.heldFirst
    BY <1>1, <2>1, FieldNames DEF SameHandles
  <2> QED BY <2>2, <2>3, OtherSafe
<1> QED BY <1>1

LEMMA DeviceStays ==
    ASSUME Now, NEW t \in Threads, DeviceOps(t) \/ MarkReplayThread(t)
    PROVE  Stays
<1> DEFINE b == Back(ledger)
           F == FailAt(ledger, b)
           out == host.detached
<1>1. /\ clock' = clock /\ host' = host /\ clock \in Nat
      /\ Safe(ledger, clock, out, ledger)
      /\ t \in Threads \cup {NoThread} /\ NoThread \in Threads \cup {NoThread}
  BY DEF Now, DeviceOps, MarkReplayThread, Suspend, Resume, AcquireDevice,
         ReleaseDevice, BeginDeviceOwnerSwap, EndDeviceOwnerSwap, LedgerOnly
<1>2. Safe(F, clock, out, ledger)
  BY <1>1, BackNotSettled, FailAtSafe
<1>3. CASE MarkReplayThread(t)
  <2>1. Typed(ledger', clock)
    BY <1>1, <1>3, NowClocked, DeviceClocked DEF Clocked
  <2>2. SameHandles(ledger', ledger) /\ ledger'.spans = ledger.spans
        /\ ledger'.held = ledger.held /\ ledger'.heldFirst = ledger.heldFirst
    BY <1>1, <1>3, FieldNames DEF MarkReplayThread, SameHandles, Safe, Typed, Shaped
  <2> QED BY <1>1, <2>1, <2>2, OtherSafe DEF Stays
<1>4. CASE Suspend \/ Resume
  <2>1. \E L \in {ledger, F} : \/ ledger' = [L EXCEPT !.suspended = TRUE]
                               \/ ledger' = [L EXCEPT !.suspended = FALSE]
    BY <1>4 DEF Suspend, Resume
  <2>2. PICK L \in {ledger, F} : \/ ledger' = [L EXCEPT !.suspended = TRUE]
                                 \/ ledger' = [L EXCEPT !.suspended = FALSE]
    BY <2>1
  <2> HIDE DEF F
  <2>3. Safe(L, clock, out, ledger)
    BY <1>1, <1>2
  <2>4. Safe([L EXCEPT !.suspended = TRUE], clock, out, ledger)
        /\ Safe([L EXCEPT !.suspended = FALSE], clock, out, ledger)
    BY <1>1, <2>3, BracketSafe
  <2> QED BY <1>1, <2>2, <2>4 DEF Stays
<1>5. CASE AcquireDevice(t)
  <2> DEFINE M == [ledger EXCEPT !.deviceOwner = t]
  <2>1. \/ ledger' \in {M, F}
        \/ ledger' = [M EXCEPT !.spans[b].thread = t]
    BY <1>5 DEF AcquireDevice
  <2>2. Safe(M, clock, out, ledger) /\ b = Back(M)
    <3>1. Safe(M, clock, out, ledger)
      BY <1>1, BracketSafe
    <3>2. b = Back(M)
      BY <1>1, FieldNames DEF Back, Safe, Typed, Shaped
    <3> QED BY <3>1, <3>2
  <2> HIDE DEF M, F
  <2>3. Safe([M EXCEPT !.spans[b].thread = t], clock, out, ledger)
    BY <1>1, <2>2, ThreadSafe
  <2> QED BY <1>1, <1>2, <2>1, <2>2, <2>3 DEF Stays
<1>6. CASE ReleaseDevice(t)
  <2> DEFINE A == AbandonOpenResolve(ledger, t)
             owner == IF A.deviceOwner = t THEN NoThread ELSE A.deviceOwner
  <2>1. ledger' = [A EXCEPT !.deviceOwner = owner]
    BY <1>6, Zenon DEF ReleaseDevice
  <2>2. Safe(A, clock, out, ledger)
    BY <1>1, AbandonOpenResolveSafe
  <2> HIDE DEF A
  <2>3. owner \in Threads \cup {NoThread}
    BY <2>2 DEF Safe, Typed, Others
  <2> HIDE DEF owner
  <2>4. Safe([A EXCEPT !.deviceOwner = owner], clock, out, ledger)
    BY <2>2, <2>3, BracketSafe
  <2> QED BY <1>1, <2>1, <2>4 DEF Stays
<1>7. CASE BeginDeviceOwnerSwap(t)
  <2> DEFINE M == [ledger EXCEPT !.ownerSwapThread = t, !.ownerSwapSawSwap = FALSE]
  <2>1. ledger' = [M EXCEPT !.spans[b].thread = t] \/ ledger' = F
    BY <1>7 DEF BeginDeviceOwnerSwap
  <2>2. Safe(M, clock, out, ledger) /\ b = Back(M)
    <3>1. Safe(M, clock, out, ledger)
      BY <1>1, BracketSafe
    <3>2. b = Back(M)
      BY <1>1, FieldNames DEF Back, Safe, Typed, Shaped
    <3> QED BY <3>1, <3>2
  <2> HIDE DEF M, F
  <2>3. Safe([M EXCEPT !.spans[b].thread = t], clock, out, ledger)
    BY <1>1, <2>2, ThreadSafe
  <2> QED BY <1>1, <1>2, <2>1, <2>3 DEF Stays
<1>8. CASE EndDeviceOwnerSwap(t)
  <2> DEFINE M == [ledger EXCEPT !.ownerSwapThread = NoThread]
  <2>1. ledger' = [M EXCEPT !.spans[b].thread = NoThread] \/ ledger' = F
    BY <1>8 DEF EndDeviceOwnerSwap
  <2>2. Safe(M, clock, out, ledger) /\ b = Back(M)
    <3>1. Safe(M, clock, out, ledger)
      BY <1>1, BracketSafe
    <3>2. b = Back(M)
      BY <1>1, FieldNames DEF Back, Safe, Typed, Shaped
    <3> QED BY <3>1, <3>2
  <2> HIDE DEF M, F
  <2>3. Safe([M EXCEPT !.spans[b].thread = NoThread], clock, out, ledger)
    BY <1>1, <2>2, ThreadSafe
  <2> QED BY <1>1, <1>2, <2>1, <2>3 DEF Stays
<1> QED BY <1>3, <1>4, <1>5, <1>6, <1>7, <1>8 DEF DeviceOps

LEMMA GuestStays ==
    ASSUME Now, Window(ledger), NEW t \in Threads, GuestOps(t)
    PROVE  Stays
<1>1. \A n \in Sizes : n \in Nat
  BY DataTypes
<1> QED BY <1>1, ProgressStays, UnmodeledStays, DrawStays, FrameStays, KickStays,
           SubmitsStays, SilentStays, TileStays, DeviceStays
        DEF GuestOps, SubmitOps, SilentOps, WorkerOps

-----------------------------------------------------------------------------
(* Failures and the writeback address. *)

LEMMA RegisterStays ==
    ASSUME Now, NEW block \in Blocks, RegisterWriteback(block)
    PROVE  Stays
<1> DEFINE L == [ledger EXCEPT !.writeback = block]
           bad == {id \in Live(L) : \E i \in DOMAIN L.spans[id].records :
                      /\ L.spans[id].records[i].kind = "Fence"
                      /\ L.spans[id].records[i].block # block}
<1>1. ledger' = IF bad = {} THEN L ELSE FailAt(L, OldestOf(bad))
  BY Zenon DEF RegisterWriteback
<1>2. clock' = clock /\ host' = host /\ clock \in Nat
      /\ Safe(ledger, clock, host.detached, ledger)
  BY DEF RegisterWriteback, Now
<1>3. Safe(L, clock, host.detached, ledger)
  <2>1. /\ DOMAIN L = Fields /\ SameHandles(L, ledger) /\ L.spans = ledger.spans
        /\ L.held = ledger.held /\ L.heldFirst = ledger.heldFirst
    BY <1>2, FieldNames DEF Safe, Typed, Shaped, SameHandles
  <2>2. Others(L, clock)
    BY <1>2, FieldNames DEF Safe, Typed, Shaped, Others
  <2> HIDE DEF L
  <2>3. Typed(L, clock)
    BY <1>2, <2>1, <2>2, PutOther DEF Safe, SameHandles
  <2> QED BY <1>2, <2>1, <2>3, OtherSafe
<1> HIDE DEF L
<1>4. bad \subseteq Nat
  BY <1>3 DEF Live, Safe, Typed, Shaped
<1> HIDE DEF bad
<1>5. bad # {} => OldestOf(bad) \in Nat
  BY <1>4, OldestExists DEF OldestOf
<1> QED BY <1>1, <1>2, <1>3, <1>5, FailAtSafe DEF Stays

LEMMA FailureStays ==
    ASSUME Now, FailureOps \/ RegisterOps
    PROVE  Stays
<1>1. CASE Fail
  BY <1>1, FailStays DEF Fail
<1>2. CASE TiledProgress
  BY <1>2, FailStays DEF TiledProgress, LedgerOnly
<1> QED BY <1>1, <1>2, RegisterStays DEF FailureOps, RegisterOps

-----------------------------------------------------------------------------
(* Between two steps. What Pump and the tear-down change.                  *)

\* Every step starts over from the spans that are settled now.
LEMMA Renewed ==
    ASSUME NEW c, NEW L, NEW out, NEW old, Safe(L, c, out, old), Window(L)
    PROVE  Sound(L, out, L)
<1>1. ASSUME NEW id \in Settled(L)
      PROVE  id \in Live(L) /\ id # Back(L) /\ L.spans[id] = L.spans[id]
  BY DEF Settled, Window, OpenAtBack
<1>2. ASSUME NEW id \in Live(L)
      PROVE  id \in Settled(L) \/ Untouched(L.spans[id])
  BY DEF Safe, Sound, Since, Settled
<1>3. Since(L, L)
  BY <1>1, <1>2 DEF Since
<1> QED BY <1>3 DEF Safe, Sound

\* Pump keeps everything that is settled of the front.
Kin(new, old) ==
    /\ new.pending = old.pending /\ Due(new) = Due(old)
    /\ \A i \in DOMAIN old.records :
          i \in DOMAIN new.records /\ new.records[i].kind = old.records[i].kind
    /\ Reported(new)
    /\ new.kicked = old.kicked /\ new.sealed = old.sealed
    /\ new.deferred = old.deferred

LEMMA FrontSound ==
    ASSUME NEW c, NEW L, NEW out, Safe(L, c, out, L),
           NEW M, SameHandles(M, L), M.held = L.held, M.heldFirst = L.heldFirst,
           NEW f \in Settled(L), Kin(M.spans[f], L.spans[f]),
           \A id \in Live(L) : id # f => M.spans[id] = L.spans[id]
    PROVE  Sound(M, out, M)
<1>1. Live(M) = Live(L) /\ Back(M) = Back(L)
  BY DEF SameHandles, Live, Back
<1>2. \A id \in Live(L) :
         /\ M.spans[id].pending = L.spans[id].pending
         /\ Due(M.spans[id]) = Due(L.spans[id])
         /\ Closed(M.spans[id]) <=> Closed(L.spans[id])
         /\ Reported(M.spans[id]) /\ Unsealed(M.spans[id])
         /\ \A i \in DOMAIN L.spans[id].records :
               M.spans[id].records[i].kind = L.spans[id].records[i].kind
  BY DEF Kin, Safe, Sound, SpansSound, Unsealed, Closed
<1>3. \A h : Pending(M, h) <=> Pending(L, h)
  BY <1>1, <1>2, PendingDue
<1>4. \A h, kind : PendingAs(L, h, kind) => PendingAs(M, h, kind)
  BY <1>1, <1>2, <1>3 DEF PendingAs, Pending
<1>5. \A h, kind : Owing(L, h, kind) => Owing(M, h, kind)
  BY <1>4 DEF Owing, SameHandles
<1>6. Debts(M, out) /\ Apart(M, out)
  BY <1>5 DEF Debts, Apart, SameHandles, Safe, Sound
<1>7. Covered(M, out)
  BY <1>3 DEF Covered, KeptBy, SameHandles, Safe, Sound
<1>8. Counted(M) /\ SpansSound(M) /\ HeldPlain(M)
  BY <1>1, <1>2 DEF Counted, SpansSound, HeldPlain, Safe, Sound
<1>9. Settled(M) = Settled(L)
  BY <1>1, <1>2 DEF Settled
<1>10. Since(M, M)
  <2>1. ASSUME NEW id \in Settled(M)
        PROVE  id \in Live(M) /\ id # Back(M) /\ M.spans[id] = M.spans[id]
    BY <1>1, <1>9 DEF Safe, Sound, Since
  <2>2. ASSUME NEW id \in Live(M)
        PROVE  id \in Settled(M) \/ Untouched(M.spans[id])
    BY <1>1, <1>9 DEF Safe, Sound, Since
  <2> QED BY <2>1, <2>2 DEF Since
<1> QED BY <1>6, <1>7, <1>8, <1>10 DEF Sound

\* What Unown leaves of a span.
Spoilt(new, old, i) ==
    /\ DOMAIN new.records = DOMAIN old.records
    /\ \A j \in DOMAIN old.records :
          /\ new.records[j].pending = old.records[j].pending
          /\ new.records[j].kind = old.records[j].kind
          /\ \/ new.records[j].skipped = old.records[j].skipped
             \/ j = i /\ new.records[j].skipped = TRUE /\ Mode = "Census"
    /\ new.pending = old.pending
    /\ new.kicked = old.kicked /\ new.sealed = old.sealed
    /\ new.deferred = old.deferred /\ new.lastAdmitted = old.lastAdmitted
    /\ new.hostTarget = old.hostTarget /\ new.flushed = old.flushed
    /\ new.applied = old.applied /\ new.stage = old.stage
    /\ old.partial => new.partial
    /\ IF Mode = "Census"
       THEN /\ new.partial /\ new.unowned = old.unowned
            /\ i \in DOMAIN old.records => new.records[i].skipped = TRUE
       ELSE new.unowned = TRUE /\ new.records = old.records

LEMMA UnownFields ==
    ASSUME NEW c, NEW L, Typed(L, c), NEW id \in Live(L), NEW i,
           NEW M, M = Unown(L, id, i)
    PROVE  /\ DOMAIN M = Fields
           /\ SameHandles(M, L) /\ M.held = L.held /\ M.heldFirst = L.heldFirst
           /\ M.replayPointer = L.replayPointer /\ M.writeback = L.writeback
           /\ M.failedSpan = L.failedSpan \/ (Mode = "Strict" /\ M.failedSpan = id)
           /\ \A other \in Live(L) : other # id => M.spans[other] = L.spans[other]
           /\ Spoilt(M.spans[id], L.spans[id], i)
<1> DEFINE recs == L.spans[id].records
           without == IF i \in DOMAIN recs THEN [recs EXCEPT ![i].skipped = TRUE] ELSE recs
<1>1. L.spans[id] \in SpanTo(c) /\ DOMAIN L = Fields /\ DOMAIN L.spans = Live(L)
      /\ DOMAIN L.spans[id] = SpanFields
  BY SpanOfLedger DEF Typed, Shaped
<1>2. /\ DOMAIN without = DOMAIN recs
      /\ i \in DOMAIN recs => without[i].skipped = TRUE
      /\ \A j \in DOMAIN recs : /\ without[j].pending = recs[j].pending
                                /\ without[j].kind = recs[j].kind
                                /\ j # i => without[j].skipped = recs[j].skipped
  <2>1. \A j \in DOMAIN recs : DOMAIN recs[j] = DOMAIN NewRecord("Draw", NoThread)
    <3>1. \A j \in DOMAIN recs : recs[j] \in RecordTo(c)
      BY <1>1, RecordOfSpan
    <3> QED BY <3>1 DEF RecordTo, NewRecord
  <2> QED BY <2>1 DEF NewRecord
<1>3. CASE Mode = "Census"
  <2>1. M = [L EXCEPT !.spans[id].records = without, !.spans[id].partial = TRUE,
                      !.epochPartial = TRUE]
    BY <1>3 DEF Unown
  <2> HIDE DEF without
  <2>2. /\ DOMAIN M = Fields /\ SameHandles(M, L) /\ M.failedSpan = L.failedSpan
        /\ M.held = L.held /\ M.heldFirst = L.heldFirst
        /\ M.replayPointer = L.replayPointer /\ M.writeback = L.writeback
    BY <1>1, <2>1, FieldNames DEF SameHandles
  <2>3. \A other \in Live(L) : other # id => M.spans[other] = L.spans[other]
    BY <1>1, <2>1, FieldNames
  <2>4. Spoilt(M.spans[id], L.spans[id], i)
    <3> DEFINE s == M.spans[id]
    <3>1. /\ s.records = without /\ s.partial /\ s.unowned = L.spans[id].unowned
          /\ s.pending = L.spans[id].pending
          /\ s.kicked = L.spans[id].kicked /\ s.sealed = L.spans[id].sealed
          /\ s.deferred = L.spans[id].deferred
          /\ s.lastAdmitted = L.spans[id].lastAdmitted
          /\ s.hostTarget = L.spans[id].hostTarget
          /\ s.flushed = L.spans[id].flushed
          /\ s.applied = L.spans[id].applied /\ s.stage = L.spans[id].stage
      BY <1>1, <2>1, FieldNames, SpanFieldNames
    <3> HIDE DEF s
    <3> QED BY <1>2, <1>3, <3>1 DEF Spoilt, s
  <2> QED BY <2>2, <2>3, <2>4
<1>4. CASE Mode # "Census"
  <2> DEFINE F == IF Mode = "Strict" THEN FailAt(L, id) ELSE L
  <2>1. M = [F EXCEPT !.spans[id].unowned = TRUE]
    BY <1>4 DEF Unown
  <2>2. /\ DOMAIN F = Fields /\ SameHandles(F, L) /\ F.spans = L.spans
        /\ F.held = L.held /\ F.heldFirst = L.heldFirst
        /\ F.replayPointer = L.replayPointer /\ F.writeback = L.writeback
        /\ F.failedSpan = L.failedSpan \/ (Mode = "Strict" /\ F.failedSpan = id)
    BY <1>1, FieldNames DEF FailAt, SameHandles
  <2> HIDE DEF F
  <2>3. /\ DOMAIN M = Fields /\ SameHandles(M, L) /\ M.failedSpan = F.failedSpan
        /\ M.held = L.held /\ M.heldFirst = L.heldFirst
        /\ M.replayPointer = L.replayPointer /\ M.writeback = L.writeback
        /\ M.spans = [L.spans EXCEPT ![id] = [L.spans[id] EXCEPT !.unowned = TRUE]]
    BY <2>1, <2>2, FieldNames DEF SameHandles
  <2>4. M.spans[id] = [L.spans[id] EXCEPT !.unowned = TRUE]
        /\ \A other \in Live(L) : other # id => M.spans[other] = L.spans[other]
    BY <1>1, <2>3
  <2>5. Spoilt(M.spans[id], L.spans[id], i)
    BY <1>1, <1>4, <2>4, SpanFieldNames DEF Spoilt
  <2> QED BY <2>2, <2>3, <2>4, <2>5
<1> QED BY <1>3, <1>4

LEMMA SpoiltKin ==
    ASSUME NEW new, NEW old, NEW i, Spoilt(new, old, i), Reported(old)
    PROVE  Kin(new, old)
<1>1. Due(new) = Due(old)
  BY DEF Spoilt, Due
<1>2. Reported(new)
  BY DEF Spoilt, Reported
<1> QED BY <1>1, <1>2 DEF Spoilt, Kin

LEMMA UnownKept ==
    ASSUME NEW c, NEW L, NEW out, Safe(L, c, out, L), Window(L), NEW id \in Live(L), NEW i
    PROVE  Safe(Unown(L, id, i), c, out, Unown(L, id, i))
<1> DEFINE M == Unown(L, id, i)
<1>1. Typed(L, c) /\ id \in Nat
  BY DEF Safe, Typed, Shaped, Live
<1>2. Typed(M, c)
  BY <1>1, UnownTyped
<1>3. CASE id \in Settled(L)
  <2>1. /\ SameHandles(M, L) /\ M.held = L.held /\ M.heldFirst = L.heldFirst
        /\ \A other \in Live(L) : other # id => M.spans[other] = L.spans[other]
        /\ Spoilt(M.spans[id], L.spans[id], i)
    BY <1>1, UnownFields
  <2> HIDE DEF M
  <2>2. Kin(M.spans[id], L.spans[id])
    BY <2>1, SpoiltKin DEF Safe, Sound, SpansSound
  <2> QED BY <1>2, <1>3, <2>1, <2>2, FrontSound DEF Safe, M
<1>4. CASE id \notin Settled(L)
  <2>1. Safe(M, c, out, L)
    BY <1>1, <1>4, UnownSafe
  <2>2. Window(M)
    BY UnownSame, SameWindow DEF Window
  <2> HIDE DEF M
  <2> QED BY <1>2, <2>1, <2>2, Renewed DEF Safe, M
<1> QED BY <1>3, <1>4

\* Nobody waits for a record of the span that leaves.
LEMMA PopSound ==
    ASSUME NEW c, NEW L, NEW out, Safe(L, c, out, L), L.oldest \in Settled(L),
           L.oldest < Back(L)
    PROVE  Sound(PopFront(L), out, PopFront(L))
<1> DEFINE M == PopFront(L)
<1>1. /\ DOMAIN L = Fields /\ DOMAIN L.spans = Live(L) /\ Typed(L, c)
      /\ L.oldest \in Nat /\ L.nextSpan \in Nat /\ L.oldest # 0
  BY DEF Safe, Typed, Shaped
<1>2. /\ M.oldest = L.oldest + 1 /\ M.nextSpan = L.nextSpan /\ M.closed = L.closed
      /\ M.openDraws = L.openDraws /\ M.openResolves = L.openResolves
      /\ M.frontbuffer = L.frontbuffer /\ M.failedSpan = L.failedSpan
      /\ M.held = L.held /\ M.heldFirst = L.heldFirst
      /\ M.spans = [id \in (L.oldest + 1) .. Back(L) |-> L.spans[id]]
  BY <1>1, FieldNames DEF PopFront
<1> HIDE DEF M
<1>3. /\ Back(M) = Back(L) /\ Live(M) = Live(L) \ {L.oldest}
      /\ \A id \in Live(M) : M.spans[id] = L.spans[id]
  BY <1>1, <1>2 DEF Live, Back
<1>4. Due(L.spans[L.oldest]) = {}
  BY <1>1, NoneDue DEF Settled, Safe, Sound
<1>5. \A h : Pending(M, h) <=> Pending(L, h)
  BY <1>3, <1>4, PendingDue
<1>6. \A h, kind : PendingAs(L, h, kind) => PendingAs(M, h, kind)
  BY <1>3, <1>5 DEF PendingAs, Pending
<1>7. \A h \in Handles : \A kind : Owing(L, h, kind) => Owing(M, h, kind)
  BY <1>1, <1>2, <1>6 DEF Owing, Handles
<1>8. /\ out \subseteq Handles /\ L.frontbuffer \subseteq Handles
      /\ \A t \in Threads : L.openDraws[t] \in Handles /\ L.openResolves[t] \in Handles
  BY <1>1, HandleTypes DEF Safe, Sound, Debts, Typed, Others
<1>9. Debts(M, out) /\ Apart(M, out)
  BY <1>2, <1>7, <1>8 DEF Debts, Apart, Safe, Sound
<1>10. Covered(M, out)
  BY <1>2, <1>5 DEF Covered, KeptBy, Safe, Sound
<1>11. Counted(M) /\ SpansSound(M) /\ HeldPlain(M)
  BY <1>2, <1>3 DEF Counted, SpansSound, HeldPlain, Safe, Sound
<1>12. Since(M, M)
  BY <1>3 DEF Since, Settled, Safe, Sound
<1> QED BY <1>9, <1>10, <1>11, <1>12 DEF Sound, M

\* The draws that are still detached are of dropped spans.
LEMMA DropSound ==
    ASSUME NEW c \in Nat, NEW L, NEW out, Safe(L, c, out, L)
    PROVE  Sound(Drop(L), out, Drop(L))
<1> DEFINE M == [L EXCEPT !.oldest = L.nextSpan,
                !.spans = <<>>,
                !.openDraws = [t \in Threads |-> NoHandle],
                !.openResolves = [t \in Threads |-> NoHandle],
                !.frontbuffer = {},
                !.submitEpoch = @ + 1,
                !.lists = <<>>,
                !.activeList = 0,
                !.held = [s \in Segments |-> <<>>],
                !.heldList = [s \in Segments |-> 0],
                !.heldFirst = <<>>,
                !.replayPointer = 0,
                !.epochPartial = FALSE,
                !.writeback = 0]
           D == Drop(L)
           b == L.nextSpan
<1>1. /\ DOMAIN L = Fields /\ Typed(L, c) /\ L.nextSpan \in Nat /\ L.oldest \in Nat
      /\ L.oldest < L.nextSpan
  BY DEF Safe, Typed, Shaped
<1>2. /\ DOMAIN M = Fields /\ M.oldest = b /\ M.nextSpan = b
      /\ M.openDraws = [t \in Threads |-> NoHandle]
      /\ M.openResolves = [t \in Threads |-> NoHandle]
      /\ M.frontbuffer = {} /\ M.held = [s \in Segments |-> <<>>]
      /\ M.heldFirst = <<>>
  BY <1>1, FieldNames
<1>3. D = OpenSpan(M)
  BY DEF Drop
<1> HIDE DEF M
<1>4. /\ D.oldest = b /\ D.nextSpan = b + 1
      /\ D.openDraws = [t \in Threads |-> NoHandle]
      /\ D.openResolves = [t \in Threads |-> NoHandle]
      /\ D.frontbuffer = {} /\ D.held = [s \in Segments |-> <<>>]
      /\ D.heldFirst = <<>>
      /\ D.spans = [id \in b .. b |-> IF id = b THEN EmptySpan ELSE M.spans[id]]
  BY <1>2, <1>3, FieldNames DEF OpenSpan
<1> HIDE DEF D
<1>5. Live(D) = {b} /\ Back(D) = b
  BY <1>1, <1>4 DEF Live, Back
<1>5a. D.spans[b] = EmptySpan
  BY <1>1, <1>4
<1>6. /\ Due(EmptySpan) = {} /\ EmptySpan.pending = 0 /\ Untouched(EmptySpan)
      /\ Reported(EmptySpan) /\ Unsealed(EmptySpan) /\ ~Closed(EmptySpan)
  BY DEF EmptySpan, Due, Untouched, Reported, Unsealed, Closed
<1>7. Cardinality({}) = 0
  BY FS_EmptySet
<1>8. Counted(D) /\ SpansSound(D)
  BY <1>5, <1>5a, <1>6, <1>7 DEF Counted, SpansSound
<1>9. Since(D, D)
  BY <1>5, <1>5a, <1>6 DEF Since, Settled
<1>10. HeldPlain(D)
  BY <1>4 DEF HeldPlain, Plain
<1>11. \A h : ~Pending(D, h)
  BY <1>5, <1>5a, <1>6, PendingDue
<1>12. \A h \in Handles : \A kind : h.span < b => Owing(D, h, kind)
  BY <1>1, <1>4 DEF Owing, Handles
<1>13. NoHandle \in Handles /\ NoHandle.span < b
  BY <1>1 DEF NoHandle, Handles
<1>14. out \subseteq Handles /\ \A h \in out : h.span < b
  BY DEF Safe, Sound, Debts, Owing
<1>15. Debts(D, out)
  BY <1>4, <1>12, <1>13, <1>14 DEF Debts
<1>16. Apart(D, out)
  BY <1>4 DEF Apart, Safe, Sound
<1>17. Covered(D, out)
  BY <1>11 DEF Covered
<1> QED BY <1>8, <1>9, <1>10, <1>15, <1>16, <1>17 DEF Sound, D

\* A closed session owes nobody a verdict.
LEMMA CloseSound ==
    ASSUME NEW c, NEW L, NEW out, Safe(L, c, out, L)
    PROVE  Sound([L EXCEPT !.closed = TRUE], out, [L EXCEPT !.closed = TRUE])
<1> DEFINE M == [L EXCEPT !.closed = TRUE]
<1>1. /\ M.oldest = L.oldest /\ M.nextSpan = L.nextSpan /\ M.closed = TRUE
      /\ M.openDraws = L.openDraws /\ M.openResolves = L.openResolves
      /\ M.frontbuffer = L.frontbuffer /\ M.failedSpan = L.failedSpan
      /\ M.held = L.held /\ M.heldFirst = L.heldFirst /\ M.spans = L.spans
  BY FieldNames DEF Safe, Typed, Shaped
<1> HIDE DEF M
<1>2. Live(M) = Live(L) /\ Back(M) = Back(L) /\ Settled(M) = Settled(L)
  BY <1>1 DEF Live, Back, Settled
<1>3. \A h, kind : PendingAs(M, h, kind) <=> PendingAs(L, h, kind)
  BY <1>1, <1>2 DEF PendingAs, Pending
<1>4. Debts(M, out) /\ Apart(M, out)
  BY <1>1, <1>3 DEF Debts, Apart, Owing, Safe, Sound
<1>5. Covered(M, out)
  BY <1>1 DEF Covered
<1>6. Counted(M) /\ SpansSound(M) /\ HeldPlain(M) /\ Since(M, M)
  BY <1>1, <1>2 DEF Counted, SpansSound, HeldPlain, Since, Safe, Sound
<1> QED BY <1>4, <1>5, <1>6 DEF Sound, M

-----------------------------------------------------------------------------
(* What Pump may rely on, before and after it lets the lock go.            *)

\* Only the front is released from, and not before it was flushed when host
\* work was admitted into it. Its target covers that work, unless a census
\* counts the host's failure; a callback is half done only as the front's
\* next record.
Awaited(span) ==
    /\ span.flushed => \/ span.hostTarget >= span.lastAdmitted
                       \/ Mode = "Census" /\ span.partial
    /\ span.lastAdmitted # 0 /\ ~span.flushed => Untouched(span)
Staged(span) ==
    span.stage # 0 => /\ span.applied < Len(span.records)
                      /\ span.records[span.applied + 1].kind = "Callback"
SpansWait ==
    \A id \in Live(ledger) :
        /\ id # ledger.oldest => Untouched(ledger.spans[id])
        /\ Awaited(ledger.spans[id]) /\ Staged(ledger.spans[id])

\* While the span of a pass is the front, it is what the pass found there.
AtSpan == pump.pc \notin {"idle", "head"} /\ pump.span = ledger.oldest
AccessPCs == {"fence", "mask", "gate", "take", "took", "raise"}
FrontTaken ==
    AtSpan => /\ Closed(Cur) /\ Cur.pending = 0 /\ ~Cur.unowned
              /\ IF pump.pc = "flush"
                 THEN pump.mark = Cur.lastAdmitted /\ Untouched(Cur)
                 ELSE HostDone(Cur) /\ (Cur.lastAdmitted # 0 => Cur.flushed)
PassSteady ==
    /\ pump.pc \in LockedPCs => ~Gone
    /\ pump.pc = "release" => Cur.applied = Len(Cur.records)
    /\ AtSpan /\ pump.pc \in AccessPCs \cup {"skip"} =>
          Cur.applied < Len(Cur.records)
    /\ AtSpan /\ pump.pc \in AccessPCs =>
          ~Rec.skipped /\ Cur.stage = IF pump.pc = "raise" THEN 1 ELSE 0
    /\ AtSpan /\ pump.pc = "mask" => Rec.kind = "Callback"

\* The effect released last is of the front or of a span before it; and of the
\* front's next record it is a step that record has behind it, as long as the
\* front may release another.
Behind ==
    IF Front.stage # 0 THEN Front.stage + 1
    ELSE IF \/ pump.pc \in {"fence", "mask"}
            \/ pump.pc = "took" /\ pump.result = "written" THEN 1 ELSE 0
MayRelease == AtSpan \/ (Releasable(ledger, ledger.oldest) /\ ~Front.unowned)
LastEffect ==
    effect.span = ledger.oldest =>
        /\ Closed(Front) /\ Front.pending = 0
        /\ MayRelease =>
              /\ effect.index <= Front.applied + 1
              /\ effect.index = Front.applied + 1 =>
                    /\ Front.applied < Len(Front.records)
                    /\ \/ Front.records[effect.index].skipped
                       \/ effect.step <= Behind
EffectsBehind == effect.span <= ledger.oldest /\ LastEffect

Intact == Sound(ledger, host.detached, ledger)
SafetyInv == TypeInv /\ Intact /\ SpansWait /\ FrontTaken /\ PassSteady /\ EffectsBehind

LEMMA SafetyFacts ==
    ASSUME SafetyInv
    PROVE  /\ TypeInv /\ PumpOwns /\ Window(ledger) /\ Clocked /\ PeerTypes
           /\ Typed(ledger, clock) /\ clock \in Nat
           /\ Now /\ Safe(ledger, clock, host.detached, ledger)
           /\ ledger.oldest \in Live(ledger) /\ ledger.oldest \in Nat
           /\ Front \in SpanTo(clock) /\ DOMAIN Front = SpanFields
           /\ DOMAIN ledger = Fields /\ DOMAIN ledger.spans = Live(ledger)
<1>1. TypeInv /\ PumpOwns /\ Window(ledger) /\ Clocked /\ PeerTypes
  BY DEF SafetyInv, TypeInv, PumpOwns
<1>2. Typed(ledger, clock) /\ clock \in Nat
  BY <1>1 DEF Clocked
<1>3. Safe(ledger, clock, host.detached, ledger)
  BY <1>2 DEF Safe, SafetyInv, Intact
<1>4. ledger.oldest \in Live(ledger) /\ ledger.oldest \in Nat
  BY <1>2 DEF Typed, Shaped, Live
<1>5. Front \in SpanTo(clock)
  BY <1>2, <1>4, SpanOfLedger DEF Front
<1>6. "detached" \in DOMAIN host
  BY <1>1 DEF PeerTypes
<1> QED BY <1>1, <1>2, <1>3, <1>4, <1>5, <1>6 DEF Now, Typed, Shaped, Front

\* The span of a pass that is still the front is settled.
LEMMA FrontSettled ==
    ASSUME SafetyInv, AtSpan
    PROVE  /\ Cur = Front /\ ledger.oldest \in Settled(ledger)
           /\ ledger.oldest < Back(ledger)
<1>1. Cur = Front /\ Closed(Front) /\ Front.pending = 0
  BY DEF SafetyInv, FrontTaken, AtSpan, Cur, Front
<1>2. ledger.oldest \in Settled(ledger)
  BY <1>1, SafetyFacts DEF Settled, Front
<1>3. ledger.oldest < Back(ledger)
  BY <1>1, SafetyFacts, ClosedFront
<1> QED BY <1>1, <1>2, <1>3

-----------------------------------------------------------------------------
(* Guest threads, failures, tear-down and the partners. *)

LEMMA CallsSafe ==
    ASSUME SafetyInv, Stays, Calls, host'.completed = host.completed, TypeInv'
    PROVE  SafetyInv'
<1>1. /\ pump' = pump /\ effect' = effect /\ pump.pc \notin LockedPCs
      /\ ledger'.oldest = ledger.oldest /\ ledger'.closed = ledger.closed
      /\ Window(ledger')
  BY DEF Calls, Grown, MutexFree, UnlockedPCs, LockedPCs
<1>2. Intact'
  <2>1. Safe(ledger', clock', host'.detached, ledger)
    BY DEF Stays
  <2> QED BY <1>1, <2>1, Renewed DEF Intact
<1>3. /\ \A id \in Settled(ledger) :
            id \in Live(ledger') /\ ledger'.spans[id] = ledger.spans[id]
      /\ \A id \in Live(ledger') : id \in Settled(ledger) \/ Untouched(ledger'.spans[id])
      /\ ledger.failedSpan # 0 => ledger'.failedSpan = ledger.failedSpan
  BY DEF Stays, Safe, Sound, Since
<1>4. SpansWait'
  <2>1. ASSUME NEW id \in Live(ledger')
        PROVE  /\ id # ledger.oldest => Untouched(ledger'.spans[id])
               /\ Awaited(ledger'.spans[id]) /\ Staged(ledger'.spans[id])
    <3>1. CASE id \in Settled(ledger)
      BY <1>3, <3>1 DEF SafetyInv, SpansWait, Settled
    <3>2. CASE Untouched(ledger'.spans[id])
      BY <3>2 DEF Untouched, Awaited, Staged
    <3> QED BY <1>3, <3>1, <3>2
  <2> QED BY <1>1, <2>1 DEF SpansWait
<1>5. AtSpan' <=> AtSpan
  BY <1>1 DEF AtSpan
<1>6. AtSpan => Cur' = Cur /\ Front' = Front
  BY <1>1, <1>3, FrontSettled DEF AtSpan, Cur, Front
<1>7. FrontTaken'
  BY <1>1, <1>5, <1>6 DEF SafetyInv, FrontTaken, HostDone
<1>8. PassSteady'
  BY <1>1, <1>5, <1>6 DEF SafetyInv, PassSteady, LockedPCs, Rec, Index
<1>9. EffectsBehind'
  <2>1. effect.span = ledger.oldest =>
           /\ Front' = Front
           /\ Closed(Front) /\ Front.pending = 0
    <3>1. ASSUME effect.span = ledger.oldest
          PROVE  ledger.oldest \in Settled(ledger) /\ Closed(Front) /\ Front.pending = 0
      BY <3>1, SafetyFacts DEF SafetyInv, EffectsBehind, LastEffect, Settled, Front
    <3> QED BY <1>1, <1>3, <3>1 DEF Front
  <2>2. Front' = Front => (MayRelease' => MayRelease) /\ Behind' = Behind
    BY <1>1, <1>3, <1>5 DEF MayRelease, Releasable, Behind
  <2> QED BY <1>1, <2>1, <2>2 DEF SafetyInv, EffectsBehind, LastEffect
<1> QED BY <1>2, <1>4, <1>7, <1>8, <1>9 DEF SafetyInv

\* A step of nobody in the ledger.
LEMMA IdleSafe ==
    ASSUME SafetyInv, TypeInv', UNCHANGED <<ledger, pump, effect>>,
           host'.completed >= host.completed, host'.detached = host.detached
    PROVE  SafetyInv'
<1>1. Intact'
  BY DEF SafetyInv, Intact
<1>2. SpansWait'
  BY DEF SafetyInv, SpansWait
<1>3. AtSpan' <=> AtSpan
  BY DEF AtSpan
<1>4. Cur' = Cur /\ Front' = Front
  BY DEF Cur, Front
<1>5. AtSpan /\ HostDone(Cur) => HostDone(Cur)'
  <2>1. SUFFICES ASSUME AtSpan, HostDone(Cur) PROVE HostDone(Cur)'
    OBVIOUS
  <2>2. Cur \in SpanTo(clock) /\ host \in [submitted: Nat, completed: Nat, discarding: Nat,
                 discarded: Nat, detached: SUBSET Handles] /\ host'.completed \in Nat
    BY <2>1, FrontSettled, SafetyFacts DEF SafetyInv, TypeInv, PeerTypes
  <2>3. Cur.hostTarget \in Nat /\ host.completed \in Nat /\ host'.completed \in Nat
    BY <2>2 DEF SpanTo
  <2> QED BY <1>4, <2>1, <2>3 DEF HostDone
<1>6. FrontTaken'
  BY <1>3, <1>4, <1>5 DEF SafetyInv, FrontTaken
<1>7. PassSteady'
  BY <1>3, <1>4 DEF SafetyInv, PassSteady, Rec, Index, Gone
<1>8. EffectsBehind'
  BY <1>3, <1>4 DEF SafetyInv, EffectsBehind, LastEffect, MayRelease, Behind
<1> QED BY <1>1, <1>2, <1>6, <1>7, <1>8 DEF SafetyInv

LEMMA PartnersSafe ==
    ASSUME SafetyInv, TypeInv', HolderOps \/ Environment \/ DiscardGuestImages
    PROVE  SafetyInv'
<1>1. host \in [submitted: Nat, completed: Nat, discarding: Nat,
                discarded: Nat, detached: SUBSET Handles]
  BY SafetyFacts DEF PeerTypes
<1>2. CASE HostCompletes
  BY <1>1, <1>2, IdleSafe DEF HostCompletes
<1>3. CASE DiscardGuestImages
  BY <1>1, <1>3, IdleSafe DEF DiscardGuestImages
<1>4. CASE HolderOps \/ HandlerClearsMask \/ \E word \in {0, 1} : GuestWritesWord(word)
  <2>1. UNCHANGED <<ledger, pump, effect, host>>
    BY <1>4 DEF HolderOps, BeginImageWrites, EndImageWrites, HandlerClearsMask,
                GuestWritesWord
  <2> QED BY <1>1, <2>1, IdleSafe
<1> QED BY <1>2, <1>3, <1>4 DEF Environment

LEMMA CloseSafe ==
    ASSUME SafetyInv, TypeInv', Close
    PROVE  SafetyInv'
<1>1. /\ ledger' = [ledger EXCEPT !.closed = TRUE] /\ ~ledger.closed
      /\ UNCHANGED <<pump, host, effect>> /\ pump.pc \notin LockedPCs
  BY DEF Close, MutexFree, UnlockedPCs, LockedPCs
<1>2. Intact'
  BY <1>1, SafetyFacts, CloseSound DEF Intact
<1>3. /\ ledger'.oldest = ledger.oldest /\ ledger'.nextSpan = ledger.nextSpan
      /\ ledger'.spans = ledger.spans /\ ledger'.closed
  BY <1>1, SafetyFacts, FieldNames
<1>4. Cur' = Cur /\ Front' = Front /\ (AtSpan' <=> AtSpan)
  BY <1>1, <1>3 DEF Cur, Front, AtSpan
<1>5. SpansWait'
  BY <1>3 DEF SafetyInv, SpansWait, Live
<1>6. FrontTaken'
  BY <1>1, <1>4 DEF SafetyInv, FrontTaken, HostDone
<1>7. PassSteady'
  BY <1>1, <1>4 DEF SafetyInv, PassSteady, Rec, Index, LockedPCs
<1>8. EffectsBehind'
  <2>1. (MayRelease' => MayRelease) /\ Behind' = Behind
    BY <1>1, <1>3, <1>4 DEF MayRelease, Releasable, Behind
  <2> QED BY <1>1, <1>3, <1>4, <2>1 DEF SafetyInv, EffectsBehind, LastEffect
<1> QED BY <1>2, <1>5, <1>6, <1>7, <1>8 DEF SafetyInv

LEMMA DropSafe ==
    ASSUME SafetyInv, TypeInv', DropEpoch
    PROVE  SafetyInv'
<1>1. /\ ledger' = Drop(ledger) /\ UNCHANGED <<pump, effect>>
      /\ pump.pc \notin LockedPCs /\ host'.detached = host.detached
  BY SafetyFacts DEF DropEpoch, MutexFree, UnlockedPCs, LockedPCs, PeerTypes
<1>2. Intact'
  BY <1>1, SafetyFacts, DropSound DEF Intact
<1>3. ledger'.oldest = ledger.nextSpan /\ ledger'.nextSpan = ledger.nextSpan + 1
  BY <1>1, SafetyFacts, DropWindow
<1>4. /\ ledger.nextSpan \in Nat /\ ledger.oldest \in Nat
      /\ ledger.oldest < ledger.nextSpan
      /\ Live(ledger') = {ledger.nextSpan}
      /\ Window(ledger')
  BY <1>3, SafetyFacts DEF Typed, Shaped, Live, TypeInv, PumpOwns
<1>5. Untouched(ledger'.spans[ledger.nextSpan])
  <2>1. Since(ledger', ledger')
    BY <1>2 DEF Intact, Sound
  <2>2. ~Closed(ledger'.spans[ledger.nextSpan])
    BY <1>3, <1>4 DEF Window, OpenAtBack, Back
  <2> QED BY <1>4, <2>1, <2>2 DEF Since, Settled
<1>6. SpansWait'
  BY <1>3, <1>4, <1>5 DEF SpansWait, Untouched, Awaited, Staged
<1>7. ~AtSpan'
  BY <1>1, <1>3, <1>4, SafetyFacts DEF AtSpan, PumpOwns, PumpInWindow, Back
<1>8. FrontTaken'
  BY <1>7 DEF FrontTaken
<1>9. PassSteady'
  BY <1>1, <1>7 DEF PassSteady, LockedPCs
<1>10. EffectsBehind'
  <2>1. effect.span <= ledger.oldest /\ effect.span \in Nat
    BY SafetyFacts DEF SafetyInv, EffectsBehind, PeerTypes
  <2>2. effect'.span < ledger'.oldest
    BY <1>1, <1>3, <1>4, <2>1
  <2> QED BY <1>1, <1>3, <1>4, <2>1, <2>2 DEF EffectsBehind, LastEffect
<1> QED BY <1>2, <1>6, <1>8, <1>9, <1>10 DEF SafetyInv

LEMMA GuestSafe ==
    ASSUME SafetyInv, TypeInv',
           \/ \E t \in Threads : GuestOps(t)
           \/ DetachedOps \/ FailureOps \/ RegisterOps
    PROVE  SafetyInv'
<1>1. Calls /\ Stays
  BY SafetyFacts, GuestCalls, GuestStays, DetachedCalls, DetachedStays,
     FailureCalls, FailureStays
<1>2. host'.completed = host.completed
  <2>1. host \in [submitted: Nat, completed: Nat, discarding: Nat,
                  discarded: Nat, detached: SUBSET Handles]
    BY SafetyFacts DEF PeerTypes
  <2>2. ASSUME NEW t \in Threads, GuestOps(t), ~DetachDraw(t)
        PROVE  host' = host
    <3>1. CASE ProgressOps(t) \/ UnmodeledOps(t)
      BY <3>1 DEF ProgressOps, UnmodeledOps, InvalidateState, Barrier, Inert,
           ScratchWrite, GpuWait, Fence, Callback, Unmodeled, BadTimestamp,
           ForeignCallback
    <3>2. CASE DrawOps(t) \/ ResolveOps(t) \/ FrameOps(t)
      BY <2>2, <3>2 DEF DrawOps, ResolveOps, FrameOps, BeginDraw, FinishDraw,
           Resolve, FinishResolve, Clear, Swap
    <3>3. CASE SubmitOps(t) \/ SilentOps(t) \/ WorkerOps(t)
      BY <3>3 DEF SubmitOps, SilentOps, WorkerOps, Kick, DirectSubmit,
           SilentSubmit, MarkReplayThread, ReplaySubmit, LedgerOnly
    <3>4. CASE TileOps(t)
      BY <3>4 DEF TileOps, BeginTiledList, TiledSegment, Defer, SideFence,
           SideCallback, FirstPassCallback, LedgerOnly
    <3>5. CASE DeviceOps(t)
      BY <3>5 DEF DeviceOps, Suspend, Resume, AcquireDevice, ReleaseDevice,
           BeginDeviceOwnerSwap, EndDeviceOwnerSwap, LedgerOnly
    <3> QED BY <2>2, <3>1, <3>2, <3>3, <3>4, <3>5 DEF GuestOps
  <2>3. CASE \E t \in Threads : DetachDraw(t)
    BY <2>1, <2>3 DEF DetachDraw
  <2>4. CASE DetachedOps
    <3>1. \E h \in host.detached :
             host' = [host EXCEPT !.detached = host.detached \ {h}]
      BY <2>4 DEF DetachedOps, FinishDetached, AbandonDraw
    <3> QED BY <2>1, <3>1
  <2>5. CASE FailureOps \/ RegisterOps
    BY <2>5 DEF FailureOps, RegisterOps, Fail, TiledProgress, RegisterWriteback,
                LedgerOnly
  <2> QED BY <2>2, <2>3, <2>4, <2>5
<1> QED BY <1>1, <1>2, CallsSafe

-----------------------------------------------------------------------------
(* The steps of Pump. *)

\* M is L but for the front, and what the session's failure changes.
OnlyFront(M, L) ==
    /\ SameHandles(M, L) /\ M.held = L.held /\ M.heldFirst = L.heldFirst
    /\ M.writeback = L.writeback
    /\ \A id \in Live(L) : id # L.oldest => M.spans[id] = L.spans[id]

\* Nothing of a span but Pump's own progress in it.
Progressed(new, old) ==
    /\ new.records = old.records /\ new.pending = old.pending
    /\ new.kicked = old.kicked /\ new.sealed = old.sealed
    /\ new.deferred = old.deferred /\ new.lastAdmitted = old.lastAdmitted
    /\ new.unowned = old.unowned /\ new.partial = old.partial

LEMMA FrontIsUsed ==
    ASSUME SafetyInv
    PROVE  /\ pump.pc \notin {"idle", "head"} /\ ~Gone => AtSpan
           /\ pump.pc \in LockedPCs \cup TakePCs => AtSpan
           /\ pump.pc \in LockedPCs => ~Gone
<1>1. pump.pc \notin {"idle", "head"} /\ ~Gone => AtSpan
  BY SafetyFacts, StillFront DEF AtSpan
<1>2. pump.pc \in LockedPCs \cup TakePCs => AtSpan
  BY SafetyFacts, LockedFront DEF AtSpan
<1> QED BY <1>1, <1>2 DEF SafetyInv, PassSteady

LEMMA AppliedFields ==
    ASSUME SafetyInv, AtSpan, NEW M, M = Applied
    PROVE  /\ OnlyFront(M, ledger) /\ M.failedSpan = ledger.failedSpan
           /\ Progressed(M.spans[ledger.oldest], Front)
           /\ M.spans[ledger.oldest].applied = Front.applied + 1
           /\ M.spans[ledger.oldest].stage = 0
           /\ M.spans[ledger.oldest].flushed = Front.flushed
           /\ M.spans[ledger.oldest].hostTarget = Front.hostTarget
<1>1. /\ DOMAIN ledger = Fields /\ DOMAIN ledger.spans = Live(ledger)
      /\ ledger.oldest \in Live(ledger) /\ DOMAIN Front = SpanFields
      /\ Front = ledger.spans[ledger.oldest] /\ pump.span = ledger.oldest
  BY SafetyFacts DEF Front, AtSpan
<1> DEFINE n == Front.applied + 1
           o == ledger.oldest
           s == M.spans[o]
<1>2. M = [ledger EXCEPT !.spans[o].applied = n, !.spans[o].stage = 0]
  BY <1>1 DEF Applied
<1> HIDE DEF n
<1>3. OnlyFront(M, ledger) /\ M.failedSpan = ledger.failedSpan
  BY <1>1, <1>2, FieldNames DEF OnlyFront, SameHandles
<1>4. /\ s.records = ledger.spans[o].records /\ s.pending = ledger.spans[o].pending
      /\ s.kicked = ledger.spans[o].kicked /\ s.sealed = ledger.spans[o].sealed
      /\ s.deferred = ledger.spans[o].deferred
      /\ s.lastAdmitted = ledger.spans[o].lastAdmitted
      /\ s.unowned = ledger.spans[o].unowned /\ s.partial = ledger.spans[o].partial
      /\ s.flushed = ledger.spans[o].flushed
      /\ s.hostTarget = ledger.spans[o].hostTarget
  BY <1>1, <1>2, FieldNames, SpanFieldNames
<1>5. s.stage = 0
  BY <1>1, <1>2, FieldNames, SpanFieldNames
<1>6. s.applied = n
  BY <1>1, <1>2, FieldNames, SpanFieldNames
<1> QED BY <1>1, <1>3, <1>4, <1>5, <1>6 DEF Progressed, n

\* A step of the front's callback.
FrontStaged(L, n) == [L EXCEPT !.spans[pump.span].stage = n]

OnlyStaged(M, n) ==
    /\ OnlyFront(M, ledger) /\ M.failedSpan = ledger.failedSpan
    /\ Progressed(M.spans[ledger.oldest], Front)
    /\ M.spans[ledger.oldest].applied = Front.applied
    /\ M.spans[ledger.oldest].stage = n
    /\ M.spans[ledger.oldest].flushed = Front.flushed
    /\ M.spans[ledger.oldest].hostTarget = Front.hostTarget

LEMMA StageFields ==
    ASSUME SafetyInv, AtSpan, NEW n
    PROVE  OnlyStaged(FrontStaged(ledger, n), n)
<1> DEFINE M == FrontStaged(ledger, n)
           o == ledger.oldest
<1>1. /\ DOMAIN ledger = Fields /\ DOMAIN ledger.spans = Live(ledger)
      /\ o \in Live(ledger) /\ DOMAIN Front = SpanFields
      /\ Front = ledger.spans[o] /\ pump.span = o
  BY SafetyFacts DEF Front, AtSpan
<1>2. OnlyFront(M, ledger) /\ M.failedSpan = ledger.failedSpan
  BY <1>1, FieldNames DEF OnlyFront, SameHandles, FrontStaged
<1>3. /\ Progressed(M.spans[o], Front)
      /\ M.spans[o].applied = Front.applied /\ M.spans[o].stage = n
      /\ M.spans[o].flushed = Front.flushed
      /\ M.spans[o].hostTarget = Front.hostTarget
  BY <1>1, FieldNames, SpanFieldNames DEF Progressed, FrontStaged
<1> HIDE DEF M
<1>4. OnlyStaged(M, n)
  BY <1>2, <1>3 DEF OnlyStaged
<1> QED BY <1>4 DEF M

\* The flush of the front.
FrontFlushed(L, n) ==
    [L EXCEPT !.spans[L.oldest].hostTarget = n, !.spans[L.oldest].flushed = TRUE]

OnlyFlushed(M, L, n) ==
    /\ OnlyFront(M, L) /\ M.failedSpan = L.failedSpan
    /\ Progressed(M.spans[L.oldest], L.spans[L.oldest])
    /\ M.spans[L.oldest].applied = L.spans[L.oldest].applied
    /\ M.spans[L.oldest].stage = L.spans[L.oldest].stage
    /\ M.spans[L.oldest].flushed = TRUE /\ M.spans[L.oldest].hostTarget = n

LEMMA FlushFields ==
    ASSUME NEW c, NEW L, Typed(L, c), NEW n
    PROVE  OnlyFlushed(FrontFlushed(L, n), L, n)
<1> DEFINE f == L.oldest
           M == FrontFlushed(L, n)
<1>1. /\ DOMAIN L = Fields /\ DOMAIN L.spans = Live(L)
      /\ f \in Live(L) /\ DOMAIN L.spans[f] = SpanFields
  BY DEF Typed, Shaped, Live
<1>2. OnlyFront(M, L) /\ M.failedSpan = L.failedSpan
  BY <1>1, FieldNames DEF OnlyFront, SameHandles, FrontFlushed
<1>3. /\ Progressed(M.spans[f], L.spans[f])
      /\ M.spans[f].applied = L.spans[f].applied
      /\ M.spans[f].stage = L.spans[f].stage
      /\ M.spans[f].flushed = TRUE /\ M.spans[f].hostTarget = n
  BY <1>1, FieldNames, SpanFieldNames DEF Progressed, FrontFlushed
<1> HIDE DEF M
<1>4. OnlyFlushed(M, L, n)
  BY <1>2, <1>3 DEF OnlyFlushed
<1> QED BY <1>4 DEF M

LEMMA ProgressedKin ==
    ASSUME NEW new, NEW old, Progressed(new, old), Reported(old)
    PROVE  Kin(new, old)
BY DEF Progressed, Kin, Due, Reported

\* What a step of Pump leaves of the ledger.
LEMMA FrontKeeps ==
    ASSUME SafetyInv, AtSpan, host'.detached = host.detached,
           OnlyFront(ledger', ledger), Kin(Front', Front),
           Awaited(Front'), Staged(Front')
    PROVE  Intact' /\ SpansWait'
<1> DEFINE s == ledger'.spans[ledger.oldest]
<1>1. /\ ledger'.oldest = ledger.oldest /\ ledger'.nextSpan = ledger.nextSpan
      /\ Live(ledger') = Live(ledger) /\ Front' = s
  BY DEF OnlyFront, SameHandles, Live, Front
<1>2. Kin(s, ledger.spans[ledger.oldest]) /\ Awaited(s) /\ Staged(s)
  BY <1>1 DEF Front
<1> HIDE DEF s
<1>3. Sound(ledger', host.detached, ledger')
  BY <1>2, SafetyFacts, FrontSettled, FrontSound DEF OnlyFront, s
<1>4. SpansWait'
  BY <1>1, <1>2 DEF SpansWait, SafetyInv, OnlyFront, s
<1> QED BY <1>3, <1>4 DEF Intact

\* An effect already released stays behind.
LEMMA EffectStays ==
    ASSUME SafetyInv, effect' = effect, ledger'.oldest = ledger.oldest,
           Front'.kicked = Front.kicked, Front'.sealed = Front.sealed,
           Front'.pending = Front.pending, Front'.applied = Front.applied,
           Len(Front'.records) = Len(Front.records),
           \A i \in DOMAIN Front.records :
              Front.records[i].skipped => Front'.records[i].skipped,
           MayRelease' =>
              /\ MayRelease
              /\ \/ Behind' = Behind
                 \/ /\ Front.applied < Len(Front.records)
                       => Front'.records[Front.applied + 1].skipped
    PROVE  EffectsBehind'
<1>1. /\ effect.index \in Nat /\ effect.step \in Nat /\ Front.applied \in Nat
      /\ Front.stage \in 0 .. 2 /\ Front.records \in Seq(RecordTo(clock))
  BY SafetyFacts DEF PeerTypes, SpanTo
<1>2. DOMAIN Front.records = 1 .. Len(Front.records) /\ Len(Front.records) \in Nat
  BY <1>1, LenProperties
<1>3. Behind \in Nat
  BY <1>1 DEF Behind
<1>4. EffectsBehind
  BY DEF SafetyInv
<1>5. ASSUME effect.span = ledger.oldest
      PROVE  Closed(Front') /\ Front'.pending = 0
  BY <1>4, <1>5 DEF EffectsBehind, LastEffect, Closed
<1>6. ASSUME effect.span = ledger.oldest, MayRelease'
      PROVE  /\ effect.index <= Front'.applied + 1
             /\ effect.index = Front'.applied + 1 =>
                   /\ Front'.applied < Len(Front'.records)
                   /\ \/ Front'.records[effect.index].skipped
                      \/ effect.step <= Behind'
  <2>1. /\ effect.index <= Front.applied + 1
        /\ effect.index = Front.applied + 1 =>
              /\ Front.applied < Len(Front.records)
              /\ \/ Front.records[effect.index].skipped
                 \/ effect.step <= Behind
    BY <1>4, <1>6 DEF EffectsBehind, LastEffect
  <2>3. CASE effect.index # Front.applied + 1
    BY <2>1, <2>3
  <2>4. CASE effect.index = Front.applied + 1
    <3>1. effect.index \in DOMAIN Front.records
      BY <1>1, <1>2, <2>1, <2>4
    <3> QED BY <1>1, <1>3, <1>6, <2>1, <2>4, <3>1
  <2> QED BY <2>3, <2>4
<1> QED BY <1>4, <1>5, <1>6 DEF EffectsBehind, LastEffect

LEMMA EffectPassed ==
    ASSUME SafetyInv, AtSpan, effect' = effect, ledger'.oldest = ledger.oldest,
           Progressed(Front', Front), Front'.applied = Front.applied + 1
    PROVE  EffectsBehind'
<1>1. effect.index \in Nat /\ Front.applied \in Nat
  BY SafetyFacts DEF PeerTypes, SpanTo
<1>2. EffectsBehind /\ MayRelease
  BY DEF SafetyInv, MayRelease
<1>3. ASSUME effect.span = ledger.oldest
      PROVE  /\ Closed(Front') /\ Front'.pending = 0
             /\ effect.index <= Front'.applied
  BY <1>1, <1>2, <1>3 DEF EffectsBehind, LastEffect, Closed, Progressed
<1> QED BY <1>1, <1>2, <1>3 DEF EffectsBehind, LastEffect

\* The next effect comes after it.
LEMMA EffectLands ==
    ASSUME SafetyInv, AtSpan, Front.applied < Len(Front.records), ~Rec.skipped,
           NEW n \in Nat, Behind < n, EffectAt(n)
    PROVE  Precedes(effect, effect')
<1>1. /\ effect.index \in Nat /\ effect.step \in Nat /\ Front.applied \in Nat
      /\ effect.span \in Nat /\ ledger.oldest \in Nat /\ Front.stage \in 0 .. 2
  BY SafetyFacts DEF PeerTypes, SpanTo
<1>2. EffectsBehind /\ MayRelease /\ Cur = Front
  BY FrontSettled DEF SafetyInv, MayRelease
<1>3. effect'.span = ledger.oldest /\ effect'.index = Front.applied + 1
      /\ effect'.step = n
  BY <1>2 DEF EffectAt, Index, AtSpan
<1>4. Behind \in Nat
  BY <1>1 DEF Behind
<1>5. ~Front.records[Front.applied + 1].skipped
  BY <1>2 DEF Rec, Index
<1>6. CASE effect.span = ledger.oldest
  <2>1. /\ effect.index <= Front.applied + 1
        /\ effect.index = Front.applied + 1 => effect.step <= Behind
    BY <1>2, <1>5, <1>6 DEF EffectsBehind, LastEffect
  <2> QED BY <1>1, <1>3, <1>4, <1>6, <2>1 DEF Precedes
<1>7. CASE effect.span # ledger.oldest
  BY <1>1, <1>2, <1>3, <1>7 DEF EffectsBehind, Precedes
<1> QED BY <1>6, <1>7

LEMMA EffectLanded ==
    ASSUME SafetyInv, AtSpan, ledger'.oldest = ledger.oldest,
           Progressed(Front', Front), NEW n \in Nat, EffectAt(n),
           \/ Front'.applied = Front.applied + 1
           \/ /\ Front'.applied = Front.applied /\ Behind' = n
              /\ Front.applied < Len(Front.records)
    PROVE  EffectsBehind'
<1>1. Front.applied \in Nat /\ ledger.oldest \in Nat
  BY SafetyFacts DEF SpanTo
<1>2. Closed(Front) /\ Front.pending = 0 /\ Cur = Front
  BY FrontSettled DEF Settled, Front
<1>3. effect'.span = ledger.oldest /\ effect'.index = Front.applied + 1
      /\ effect'.step = n
  BY <1>2 DEF EffectAt, Index, AtSpan
<1>4. Closed(Front') /\ Front'.pending = 0
  BY <1>2 DEF Closed, Progressed
<1>5. Front'.records = Front.records
  BY DEF Progressed
<1> QED BY <1>1, <1>3, <1>4, <1>5 DEF EffectsBehind, LastEffect

\* The end of a pass: the pump is at no span.
LEMMA EndSafe ==
    ASSUME TypeInv', Intact', SpansWait', EffectsBehind',
           pump'.pc \in {"idle", "head"}
    PROVE  SafetyInv'
<1>1. FrontTaken' /\ PassSteady'
  BY DEF FrontTaken, PassSteady, AtSpan, LockedPCs
<1> QED BY <1>1 DEF SafetyInv

LEMMA IntactLater ==
    ASSUME SafetyInv, TypeInv', ledger' = ledger, host'.detached = host.detached
    PROVE  /\ Intact' /\ SpansWait' /\ Front' = Front
           /\ Front'.records = Front.records
BY DEF SafetyInv, Intact, SpansWait, Front

\* Pump's pass ends and nothing of the ledger changed.
LEMMA EndUnchanged ==
    ASSUME SafetyInv, TypeInv', UNCHANGED <<ledger, effect>>,
           host'.detached = host.detached,
           pump'.pc \in {"idle", "head"}, Releasable(ledger, ledger.oldest) => Behind' = Behind
    PROVE  SafetyInv'
<1>1. Intact' /\ SpansWait' /\ Front' = Front /\ ledger'.oldest = ledger.oldest
  BY IntactLater
<1>2. MayRelease' => MayRelease /\ Releasable(ledger, ledger.oldest)
  BY <1>1 DEF MayRelease, AtSpan
<1>3. EffectsBehind'
  BY <1>1, <1>2, EffectStays
<1> QED BY <1>1, <1>3, EndSafe

\* A span whose next record lost its owner, and the pass ends there.
Ended(new, old, i) ==
    /\ DOMAIN new.records = DOMAIN old.records
    /\ \A j \in DOMAIN old.records : old.records[j].skipped => new.records[j].skipped
    /\ new.pending = old.pending
    /\ new.kicked = old.kicked /\ new.sealed = old.sealed
    /\ new.applied = old.applied /\ new.stage = old.stage
    /\ Awaited(new) /\ Staged(new)
    /\ IF Mode = "Census"
       THEN /\ new.unowned = old.unowned
            /\ i \in DOMAIN old.records => new.records[i].skipped
       ELSE new.unowned

LEMMA SameLen ==
    ASSUME NEW c, NEW new \in SpanTo(c), NEW old \in SpanTo(c),
           DOMAIN new.records = DOMAIN old.records
    PROVE  /\ Len(new.records) = Len(old.records) /\ Len(old.records) \in Nat
           /\ DOMAIN old.records = 1 .. Len(old.records)
<1>1. new.records \in Seq(RecordTo(c)) /\ old.records \in Seq(RecordTo(c))
  BY DEF SpanTo
<1> QED BY <1>1, LenProperties

LEMMA SpoiltEnded ==
    ASSUME NEW c, NEW new \in SpanTo(c), NEW old \in SpanTo(c), NEW i,
           Spoilt(new, old, i), Awaited(old), Staged(old)
    PROVE  Ended(new, old, i)
<1>1. Len(new.records) = Len(old.records) /\ old.applied \in Nat
      /\ DOMAIN old.records = 1 .. Len(old.records) /\ Len(old.records) \in Nat
  BY SameLen DEF Spoilt, SpanTo
<1>2. Awaited(new)
  BY DEF Spoilt, Awaited, Untouched
<1>3. Staged(new)
  BY <1>1 DEF Spoilt, Staged
<1> QED BY <1>2, <1>3 DEF Spoilt, Ended

LEMMA EndedSafe ==
    ASSUME SafetyInv, TypeInv', Intact', ledger'.oldest = ledger.oldest,
           Live(ledger') = Live(ledger), ledger'.closed = ledger.closed,
           Mode = "Census" => ledger'.failedSpan = ledger.failedSpan,
           \A id \in Live(ledger) : id # ledger.oldest => ledger'.spans[id] = ledger.spans[id],
           NEW i, Ended(Front', Front, i), effect' = effect,
           pump'.pc \in {"idle", "head"}, AtSpan \/ pump.pc \in {"idle", "head"},
           i = Front.applied + 1 \/ pump.pc \notin {"fence", "mask", "took"}
    PROVE  SafetyInv'
<1>1. Front \in SpanTo(clock) /\ Front' \in SpanTo(clock')
  <2>1. Typed(ledger', clock') /\ ledger.oldest \in Live(ledger')
    BY SafetyFacts DEF TypeInv, Clocked
  <2> QED BY <2>1, SpanOfLedger, SafetyFacts DEF Front
<1>2. /\ Len(Front'.records) = Len(Front.records) /\ Len(Front.records) \in Nat
      /\ DOMAIN Front.records = 1 .. Len(Front.records) /\ Front.applied \in Nat
  <2>1. /\ Front.records \in Seq(RecordTo(clock)) /\ Front.applied \in Nat
        /\ Front'.records \in Seq(RecordTo(clock'))
    BY <1>1 DEF SpanTo
  <2> QED BY <2>1, LenProperties DEF Ended
<1>3. SpansWait'
  BY DEF SafetyInv, SpansWait, Ended, Front
<1>4. MayRelease' => Mode = "Census" /\ MayRelease
  BY DEF MayRelease, AtSpan, Ended, Releasable
<1>5. MayRelease' => \/ Behind' = Behind
                     \/ Front.applied < Len(Front.records)
                           => Front'.records[Front.applied + 1].skipped
  BY <1>2, <1>4 DEF Behind, Ended
<1>6. EffectsBehind'
  BY <1>2, <1>4, <1>5, EffectStays DEF Ended
<1> QED BY <1>3, <1>6, EndSafe

\* Unown of the front, or of what it leaves.
LEMMA FrontUnowned ==
    ASSUME SafetyInv, NEW i, NEW U, U = Unown(ledger, ledger.oldest, i)
    PROVE  /\ Safe(U, clock, host.detached, U) /\ Window(U) /\ DOMAIN U = Fields
           /\ U.oldest = ledger.oldest /\ Live(U) = Live(ledger)
           /\ U.closed = ledger.closed /\ Back(U) = Back(ledger)
           /\ U.nextSpan = ledger.nextSpan
           /\ Mode = "Census" => U.failedSpan = ledger.failedSpan
           /\ \A id \in Live(ledger) : id # ledger.oldest => U.spans[id] = ledger.spans[id]
           /\ Spoilt(U.spans[ledger.oldest], Front, i)
           /\ Ended(U.spans[ledger.oldest], Front, i)
<1>1. Safe(U, clock, host.detached, U)
  BY SafetyFacts, UnownKept
<1>2. Window(U)
  BY SafetyFacts, UnownWindow
<1>3. /\ DOMAIN U = Fields /\ SameHandles(U, ledger)
      /\ U.failedSpan = ledger.failedSpan \/ Mode = "Strict"
      /\ \A id \in Live(ledger) : id # ledger.oldest => U.spans[id] = ledger.spans[id]
      /\ Spoilt(U.spans[ledger.oldest], Front, i)
  BY SafetyFacts, UnownFields DEF Front
<1>4. Live(U) = Live(ledger) /\ Back(U) = Back(ledger)
  BY <1>3 DEF SameHandles, Live, Back
<1>5. U.spans[ledger.oldest] \in SpanTo(clock)
  <2>1. Typed(U, clock) /\ ledger.oldest \in Live(U)
    BY <1>1, <1>4, SafetyFacts DEF Safe
  <2> QED BY <2>1, SpanOfLedger
<1>6. Awaited(Front) /\ Staged(Front)
  BY SafetyFacts DEF SafetyInv, SpansWait, Front
<1>7. Ended(U.spans[ledger.oldest], Front, i)
  BY <1>3, <1>5, <1>6, SafetyFacts, SpoiltEnded
<1> QED BY <1>1, <1>2, <1>3, <1>4, <1>7 DEF SameHandles

LEMMA ReplayForgotten ==
    ASSUME NEW c, NEW L, NEW out, Safe(L, c, out, L), Window(L), NEW M,
           M = [L EXCEPT !.replayPointer = 0]
    PROVE  /\ Sound(M, out, M) /\ M.oldest = L.oldest /\ M.spans = L.spans
           /\ Live(M) = Live(L) /\ M.closed = L.closed
           /\ M.failedSpan = L.failedSpan
<1>1. /\ SameHandles(M, L) /\ M.spans = L.spans /\ M.held = L.held
      /\ M.heldFirst = L.heldFirst /\ M.failedSpan = L.failedSpan
  BY FieldNames DEF Safe, Typed, Shaped, SameHandles
<1>2. Typed(M, c)
  BY ReplayTyped DEF Safe
<1>3. HeldPlain(M)
  BY <1>1 DEF HeldPlain, Safe, Sound
<1>4. Sound(M, out, L)
  BY <1>1, <1>3, OtherSound
<1>5. Live(M) = Live(L) /\ Back(M) = Back(L)
  BY <1>1 DEF SameHandles, Live, Back
<1>6. Since(M, M)
  BY <1>1, <1>5 DEF Since, Settled, Safe, Sound
<1> QED BY <1>1, <1>4, <1>5, <1>6 DEF Sound, SameHandles

\* The front leaves and the next span becomes the front.
LEMMA PopSafe ==
    ASSUME SafetyInv, TypeInv', NEW L, Safe(L, clock, host.detached, L),
           L.oldest = ledger.oldest, L.nextSpan = ledger.nextSpan,
           L.oldest \in Settled(L), L.oldest < Back(L),
           \A id \in Live(ledger) : id # ledger.oldest => L.spans[id] = ledger.spans[id],
           ledger' = PopFront(L), host'.detached = host.detached, Step("head"),
           effect'.span \in {effect.span, ledger.oldest}
    PROVE  SafetyInv'
<1>1. Intact'
  BY PopSound DEF Intact
<1>2. /\ DOMAIN L = Fields /\ L.oldest \in Nat /\ L.nextSpan \in Nat
      /\ effect.span \in Nat /\ effect.span <= ledger.oldest
  BY SafetyFacts DEF Safe, Typed, Shaped, PeerTypes, SafetyInv, EffectsBehind
<1>3. /\ ledger'.oldest = L.oldest + 1 /\ ledger'.nextSpan = L.nextSpan
      /\ ledger'.spans = [id \in (L.oldest + 1) .. Back(L) |-> L.spans[id]]
  BY <1>2, FieldNames DEF PopFront
<1>4. Live(ledger') \subseteq Live(ledger) \ {ledger.oldest}
      /\ \A id \in Live(ledger') : ledger'.spans[id] = ledger.spans[id]
  BY <1>2, <1>3 DEF Live, Back
<1>5. SpansWait'
  BY <1>4 DEF SafetyInv, SpansWait
<1>6. EffectsBehind'
  BY <1>2, <1>3 DEF EffectsBehind, LastEffect
<1>7. pump'.pc = "head"
  BY DEF Step
<1> QED BY <1>1, <1>5, <1>6, <1>7, EndSafe

LEMMA ReleaseFacts ==
    ASSUME SafetyInv, pump.pc = "release"
    PROVE  /\ AtSpan /\ pump.span = ledger.oldest /\ Cur = Front
           /\ ledger.oldest \in Settled(ledger) /\ ledger.oldest < Back(ledger)
           /\ Front.applied = Len(Front.records) /\ ~Front.unowned
           /\ Releasable(ledger, ledger.oldest)
<1>1. AtSpan /\ ~Gone
  BY FrontIsUsed DEF LockedPCs
<1> QED BY <1>1, FrontSettled DEF SafetyInv, PassSteady, FrontTaken, Gone, AtSpan

LEMMA LoopSafe ==
    ASSUME SafetyInv, TypeInv', LoopSteps
    PROVE  SafetyInv'
<1>1. CASE WriteReplayPointer
  <2>1. /\ ledger' = [ledger EXCEPT !.replayPointer = 0] /\ Step("head")
        /\ UNCHANGED <<host, effect>> /\ pump.pc \in {"idle", "head"}
    BY <1>1 DEF WriteReplayPointer, AtHead
  <2>2. /\ Sound(ledger', host.detached, ledger') /\ ledger'.oldest = ledger.oldest
        /\ ledger'.spans = ledger.spans /\ Live(ledger') = Live(ledger)
        /\ ledger'.closed = ledger.closed /\ ledger'.failedSpan = ledger.failedSpan
    BY <2>1, SafetyFacts, ReplayForgotten
  <2>3. Intact' /\ SpansWait' /\ Front' = Front /\ pump'.pc = "head"
    BY <2>1, <2>2 DEF Intact, SafetyInv, SpansWait, Front, Step
  <2>4. (MayRelease' => MayRelease) /\ Behind' = Behind
    BY <2>1, <2>2, <2>3 DEF MayRelease, AtSpan, Releasable, Behind
  <2>5. EffectsBehind'
    BY <2>1, <2>2, <2>3, <2>4, EffectStays
  <2> QED BY <2>3, <2>5, EndSafe
<1>2. CASE LoseReplayPointer
  <2> DEFINE i == Len(Front.records) + 1
             U == Unown(ledger, ledger.oldest, i)
  <2>1. /\ UNCHANGED <<host, effect>> /\ pump.pc \in {"idle", "head"}
        /\ pump'.pc \in {"idle", "head"}
        /\ ledger' \in {U, [U EXCEPT !.replayPointer = 0]}
    BY <1>2 DEF LoseReplayPointer, AtHead, Step
  <2>2. /\ Safe(U, clock, host.detached, U) /\ Window(U)
        /\ U.oldest = ledger.oldest /\ Live(U) = Live(ledger)
        /\ U.closed = ledger.closed
        /\ Mode = "Census" => U.failedSpan = ledger.failedSpan
        /\ \A id \in Live(ledger) : id # ledger.oldest => U.spans[id] = ledger.spans[id]
        /\ Ended(U.spans[ledger.oldest], Front, i)
    BY FrontUnowned
  <2> HIDE DEF U, i
  <2>3. /\ Sound(ledger', host.detached, ledger') /\ ledger'.oldest = U.oldest
        /\ ledger'.spans = U.spans /\ Live(ledger') = Live(U)
        /\ ledger'.closed = U.closed /\ ledger'.failedSpan = U.failedSpan
    BY <2>1, <2>2, ReplayForgotten DEF Safe
  <2>4. Intact' /\ Ended(Front', Front, i)
    BY <2>1, <2>2, <2>3 DEF Intact, Front
  <2> QED BY <2>1, <2>2, <2>3, <2>4, EndedSafe
<1>3. CASE Pause
  BY <1>3, EndUnchanged, IntactLater DEF Pause, Step, Behind
<1>4. CASE BeginFlush \/ BeginApply
  <2>1. /\ UNCHANGED <<ledger, host, effect>> /\ pump.pc \in {"idle", "head"}
        /\ pump'.pc \in {"flush", "apply"} /\ pump'.span = ledger.oldest
        /\ pump'.pc = "flush" => /\ pump'.mark = Front.lastAdmitted
                                 /\ Front.lastAdmitted # 0 /\ ~Front.flushed
        /\ pump'.pc = "apply" => \/ Front.lastAdmitted = 0
                                 \/ Front.flushed /\ HostDone(Front)
        /\ Closed(Front) /\ Front.pending = 0 /\ ~Front.unowned
        /\ Releasable(ledger, ledger.oldest)
    BY <1>4, SafetyFacts DEF BeginFlush, BeginApply, AtHead, Ready, PeerTypes
  <2>2. Intact' /\ SpansWait' /\ Front' = Front
    BY <2>1, IntactLater
  <2>3. AtSpan' /\ Cur' = Front /\ (HostDone(Cur)' <=> HostDone(Front))
    BY <2>1 DEF AtSpan, Cur, Front, HostDone
  <2>4. pump'.pc = "flush" => Untouched(Front)
    BY <2>1, SafetyFacts DEF SafetyInv, SpansWait, Awaited, Front
  <2>5. FrontTaken'
    BY <2>1, <2>2, <2>3, <2>4 DEF FrontTaken, HostDone
  <2>6. PassSteady'
    <3>1. ~Gone'
      BY <2>1, <2>2, SafetyFacts DEF Gone, Releasable
    <3> QED BY <2>1, <3>1 DEF PassSteady, AccessPCs
  <2>7. EffectsBehind'
    <3>1. MayRelease /\ Behind' = Behind
      BY <2>1, <2>2 DEF MayRelease, Behind
    <3> QED BY <2>1, <2>2, <3>1, EffectStays
  <2> QED BY <2>2, <2>5, <2>6, <2>7 DEF SafetyInv
<1>5. CASE Release
  <2>1. /\ ledger' = PopFront(ledger) /\ Step("head") /\ host' = host
        /\ effect'.span \in {effect.span, pump.span} /\ pump.pc = "release"
    BY <1>5 DEF Release, EffectAt
  <2>2. /\ pump.span = ledger.oldest
        /\ ledger.oldest \in Settled(ledger) /\ ledger.oldest < Back(ledger)
    BY <2>1, ReleaseFacts
  <2> QED BY <2>1, <2>2, SafetyFacts, PopSafe
<1>6. CASE ReleaseFailed
  <2> DEFINE U == Unown(ledger, ledger.oldest, Index)
  <2>1. /\ AtSpan /\ pump.span = ledger.oldest /\ Cur = Front
        /\ ledger.oldest \in Settled(ledger) /\ ledger.oldest < Back(ledger)
    BY <1>6, ReleaseFacts DEF ReleaseFailed
  <2>2. /\ UNCHANGED <<host, effect>> /\ pump.pc = "release"
        /\ \/ ledger' = PopFront(U) /\ Step("head")
           \/ ledger' = U /\ Step("idle")
    BY <1>6, <2>1 DEF ReleaseFailed
  <2>3. /\ Safe(U, clock, host.detached, U) /\ Window(U)
        /\ U.oldest = ledger.oldest /\ Live(U) = Live(ledger)
        /\ U.closed = ledger.closed /\ U.nextSpan = ledger.nextSpan
        /\ Back(U) = Back(ledger)
        /\ Mode = "Census" => U.failedSpan = ledger.failedSpan
        /\ \A id \in Live(ledger) : id # ledger.oldest => U.spans[id] = ledger.spans[id]
        /\ Ended(U.spans[ledger.oldest], Front, Index)
        /\ Spoilt(U.spans[ledger.oldest], Front, Index)
    BY FrontUnowned
  <2> HIDE DEF U
  <2>4. CASE ledger' = U /\ Step("idle")
    <3>1. Intact' /\ Ended(Front', Front, Index) /\ pump'.pc = "idle"
      BY <2>2, <2>3, <2>4 DEF Intact, Safe, Front, Step
    <3> QED BY <2>1, <2>2, <2>3, <2>4, <3>1, EndedSafe
  <2>5. CASE ledger' = PopFront(U) /\ Step("head")
    <3>1. U.oldest \in Settled(U) /\ U.oldest < Back(U)
      <4>1. ledger.oldest \in Live(U)
        BY <2>3, SafetyFacts
      <4>2. Closed(U.spans[ledger.oldest]) /\ U.spans[ledger.oldest].pending = 0
        BY <2>1, <2>3 DEF Settled, Spoilt, Closed, Front
      <4> QED BY <2>1, <2>3, <4>1, <4>2 DEF Settled
    <3>2. ledger' = PopFront(U) /\ host'.detached = host.detached
          /\ effect'.span \in {effect.span, ledger.oldest}
      BY <2>2, <2>5
    <3> QED BY <2>3, <2>5, <3>1, <3>2, PopSafe
  <2> QED BY <2>2, <2>4, <2>5
<1> QED BY <1>1, <1>2, <1>3, <1>4, <1>5, <1>6 DEF LoopSteps

LEMMA FrontWaits ==
    ASSUME SafetyInv
    PROVE  /\ Awaited(Front) /\ Staged(Front) /\ Reported(Front)
           /\ Front.applied \in Nat /\ Front.stage \in 0 .. 2
           /\ Front.lastAdmitted \in Nat /\ Front.hostTarget \in Nat
           /\ Front.records \in Seq(RecordTo(clock)) /\ Len(Front.records) \in Nat
           /\ DOMAIN Front.records = 1 .. Len(Front.records)
           /\ Index \in Nat \/ ~AtSpan
<1>1. Awaited(Front) /\ Staged(Front)
  BY SafetyFacts DEF SafetyInv, SpansWait, Front
<1>2. Reported(Front)
  BY SafetyFacts DEF SafetyInv, Intact, Sound, SpansSound, Front
<1>3. /\ Front.applied \in Nat /\ Front.stage \in 0 .. 2
      /\ Front.lastAdmitted \in Nat /\ Front.hostTarget \in Nat
      /\ Front.records \in Seq(RecordTo(clock))
  BY SafetyFacts DEF SpanTo
<1>4. Len(Front.records) \in Nat /\ DOMAIN Front.records = 1 .. Len(Front.records)
  BY <1>3, LenProperties
<1>5. AtSpan => Index \in Nat
  BY <1>3, FrontSettled DEF Index
<1> QED BY <1>1, <1>2, <1>3, <1>4, <1>5

\* Flushes: a later pass looks at the host again.
LEMMA FlushSafe ==
    ASSUME SafetyInv, TypeInv', FlushOps
    PROVE  SafetyInv'
<1>1. /\ pump.pc = "flush" /\ effect' = effect /\ host'.detached = host.detached
      /\ host.detached \subseteq Handles
      /\ AtSpan => /\ Cur = Front /\ Closed(Front) /\ Front.pending = 0
                   /\ ~Front.unowned /\ Untouched(Front)
                   /\ pump.mark = Front.lastAdmitted
  BY SafetyFacts, FrontSettled
     DEF FlushOps, FlushFenced, FlushRetry, FlushFailed, PeerTypes, SafetyInv, FrontTaken
<1>2. ~Gone => AtSpan /\ pump.span = ledger.oldest /\ Releasable(ledger, ledger.oldest)
  BY <1>1, FrontIsUsed DEF Gone, AtSpan
<1>3. ASSUME ledger' = ledger, Step("idle")
      PROVE  SafetyInv'
  <2>1. pump'.pc = "idle"
    BY <1>3 DEF Step
  <2>2. Behind' = Behind
    BY <1>1, <1>3, <2>1, IntactLater DEF Behind
  <2> QED BY <1>1, <1>3, <2>1, <2>2, EndUnchanged
<1>4. CASE FlushRetry
  BY <1>3, <1>4 DEF FlushRetry
<1>5. CASE FlushFenced
  <2> DEFINE fence == MaxOf(host.submitted, pump.mark)
  <2>1. CASE Gone
    BY <1>3, <1>5, <2>1 DEF FlushFenced
  <2>2. CASE ~Gone
    <3>1. /\ ledger' = [ledger EXCEPT !.spans[pump.span].hostTarget = fence,
                                      !.spans[pump.span].flushed = TRUE]
          /\ Step(IF host.completed >= fence THEN "apply" ELSE "idle")
          /\ host' = [host EXCEPT !.submitted = fence]
      BY <1>5, <2>2 DEF FlushFenced
    <3>2. /\ host.submitted \in Nat /\ pump.mark \in Nat /\ host.completed \in Nat
          /\ host'.completed = host.completed
      BY <3>1, SafetyFacts DEF PeerTypes
    <3>3. fence \in Nat /\ fence >= pump.mark
      BY <3>2 DEF MaxOf
    <3> HIDE DEF fence
    <3>4. /\ OnlyFront(ledger', ledger) /\ ledger'.failedSpan = ledger.failedSpan
          /\ Progressed(ledger'.spans[ledger.oldest], Front)
          /\ ledger'.spans[ledger.oldest].applied = Front.applied
          /\ ledger'.spans[ledger.oldest].stage = Front.stage
          /\ ledger'.spans[ledger.oldest].flushed = TRUE
          /\ ledger'.spans[ledger.oldest].hostTarget = fence
      <4>1. ledger' = FrontFlushed(ledger, fence)
        BY <1>2, <2>2, <3>1 DEF FrontFlushed
      <4>2. Typed(ledger, clock)
        BY SafetyFacts
      <4>3. OnlyFlushed(ledger', ledger, fence)
        BY <4>1, <4>2, FlushFields, Zenon
      <4> QED BY <4>3 DEF OnlyFlushed, Front
    <3>5. /\ ledger'.oldest = ledger.oldest /\ Front' = ledger'.spans[ledger.oldest]
          /\ ledger'.closed = ledger.closed /\ Live(ledger') = Live(ledger)
          /\ ledger'.nextSpan = ledger.nextSpan
      BY <3>4 DEF OnlyFront, SameHandles, Front, Live
    <3>6. Awaited(Front') /\ Staged(Front') /\ Kin(Front', Front)
      <4>1. Kin(Front', Front)
        BY <3>4, <3>5, FrontWaits, ProgressedKin
      <4>2. Awaited(Front') /\ Staged(Front')
        BY <1>1, <1>2, <2>2, <3>3, <3>4, <3>5 DEF Awaited, Staged, Untouched, Progressed
      <4> QED BY <4>1, <4>2
    <3>7. Intact' /\ SpansWait'
      BY <1>1, <1>2, <2>2, <3>4, <3>6, FrontKeeps
    <3>8. EffectsBehind'
      <4>1. MayRelease
        BY <1>2, <2>2 DEF MayRelease
      <4>2. pump'.pc \in {"apply", "idle"}
        BY <3>1 DEF Step
      <4>3. Behind' = Behind
        BY <1>1, <3>4, <3>5, <4>2 DEF Behind
      <4> QED BY <1>1, <3>4, <3>5, <4>1, <4>3, EffectStays DEF Progressed
    <3>9. CASE host.completed >= fence
      <4>1. pump'.pc = "apply" /\ pump'.span = ledger.oldest
        BY <1>2, <2>2, <3>1, <3>9 DEF Step
      <4>2. AtSpan' /\ Cur' = Front'
        BY <3>5, <4>1 DEF AtSpan, Cur, Front
      <4>3. FrontTaken'
        BY <1>1, <1>2, <2>2, <3>2, <3>4, <3>5, <3>9, <4>1, <4>2
           DEF FrontTaken, HostDone, Progressed, Closed
      <4>4. ~Gone'
        BY <1>2, <2>2, <3>4, <3>5, <4>1, SafetyFacts DEF Gone, Releasable
      <4>5. PassSteady'
        BY <4>1, <4>4 DEF PassSteady, AccessPCs
      <4> QED BY <3>7, <3>8, <4>3, <4>5 DEF SafetyInv
    <3>10. CASE ~(host.completed >= fence)
      <4>1. pump'.pc = "idle"
        BY <3>1, <3>10 DEF Step
      <4> QED BY <3>7, <3>8, <4>1, EndSafe
    <3> QED BY <3>9, <3>10
  <2> QED BY <2>1, <2>2
<1>6. CASE FlushFailed
  <2>1. CASE Gone
    BY <1>3, <1>6, <2>1 DEF FlushFailed
  <2>2. CASE ~Gone
    <3> DEFINE i == AdmittedRecord(Cur)
               U == Unown(ledger, ledger.oldest, i)
               F == [U EXCEPT !.spans[ledger.oldest].hostTarget = host.submitted,
                              !.spans[ledger.oldest].flushed = TRUE]
    <3>1. /\ pump'.pc = "idle" /\ effect' = effect /\ host' = host
          /\ ledger' = IF Mode = "Census" THEN F ELSE U
      BY <1>2, <1>6, <2>2 DEF FlushFailed, Step
    <3>2. /\ Safe(U, clock, host.detached, U) /\ Window(U) /\ DOMAIN U = Fields
          /\ U.oldest = ledger.oldest /\ Live(U) = Live(ledger)
          /\ U.closed = ledger.closed
          /\ Mode = "Census" => U.failedSpan = ledger.failedSpan
          /\ \A id \in Live(ledger) : id # ledger.oldest => U.spans[id] = ledger.spans[id]
          /\ Spoilt(U.spans[ledger.oldest], Front, i)
          /\ Ended(U.spans[ledger.oldest], Front, i)
      BY FrontUnowned
    <3> HIDE DEF U, i
    <3>3. AtSpan /\ pump.pc \notin {"fence", "mask", "took"}
      BY <1>1, <1>2, <2>2
    <3>4. CASE Mode # "Census"
      <4>1. ledger' = U
        BY <3>1, <3>4
      <4>2. Intact' /\ Ended(Front', Front, i)
        BY <3>1, <3>2, <4>1 DEF Intact, Safe, Front
      <4> QED BY <3>1, <3>2, <3>3, <4>1, <4>2, EndedSafe
    <3>5. CASE Mode = "Census"
      <4> DEFINE s == U.spans[ledger.oldest]
                 n == F.spans[ledger.oldest]
      <4>1. ledger' = F
        BY <3>1, <3>5
      <4>2. /\ OnlyFront(F, U) /\ F.failedSpan = U.failedSpan
            /\ Progressed(n, s) /\ n.applied = s.applied /\ n.stage = s.stage
            /\ n.flushed /\ n.hostTarget = host.submitted
        <5>1. Typed(U, clock)
          BY <3>2 DEF Safe
        <5>2. F = FrontFlushed(U, host.submitted)
          BY <3>2 DEF FrontFlushed
        <5> HIDE DEF F
        <5>3. /\ OnlyFront(F, U) /\ F.failedSpan = U.failedSpan
              /\ Progressed(F.spans[U.oldest], U.spans[U.oldest])
              /\ F.spans[U.oldest].applied = U.spans[U.oldest].applied
              /\ F.spans[U.oldest].stage = U.spans[U.oldest].stage
              /\ F.spans[U.oldest].flushed = TRUE
              /\ F.spans[U.oldest].hostTarget = host.submitted
          <6>1. OnlyFlushed(F, U, host.submitted)
            BY <5>1, <5>2, FlushFields, Zenon
          <6> QED BY <6>1 DEF OnlyFlushed
        <5> QED BY <3>2, <5>3
      <4> HIDE DEF F
      <4>3. /\ F.oldest = ledger.oldest /\ Live(F) = Live(ledger)
            /\ F.closed = ledger.closed /\ F.failedSpan = ledger.failedSpan
            /\ \A id \in Live(ledger) : id # ledger.oldest => F.spans[id] = ledger.spans[id]
        BY <3>2, <3>5, <4>2 DEF OnlyFront, SameHandles, Live
      <4>4. ledger.oldest \in Settled(U)
        <5>1. Closed(Front) /\ Front.pending = 0
          BY <1>1, <3>3
        <5>2. ledger.oldest \in Live(U)
          BY <3>2, SafetyFacts
        <5>3. Closed(s) /\ s.pending = 0
          BY <3>2, <5>1 DEF Spoilt, Closed
        <5> QED BY <5>2, <5>3 DEF Settled
      <4>5. Kin(n, s)
        <5>1. Reported(s)
          BY <3>2, <4>4 DEF Safe, Sound, SpansSound, Settled
        <5> QED BY <4>2, <5>1, ProgressedKin
      <4>6. Sound(F, host.detached, F)
        BY <3>2, <4>2, <4>4, <4>5, FrontSound DEF OnlyFront
      <4>7. Ended(n, Front, i)
        <5>1. Awaited(n) /\ Staged(n)
          BY <3>2, <3>5, <4>2 DEF Awaited, Staged, Progressed, Spoilt, Ended
        <5> QED BY <3>2, <3>5, <4>2, <5>1 DEF Ended, Progressed
      <4>8. Intact' /\ Ended(Front', Front, i)
        BY <3>1, <4>1, <4>3, <4>6, <4>7 DEF Intact, Front
      <4> QED BY <3>1, <3>3, <4>1, <4>3, <4>8, EndedSafe
    <3> QED BY <3>4, <3>5
  <2> QED BY <2>1, <2>2
<1> QED BY <1>4, <1>5, <1>6 DEF FlushOps

\* Pump is at a record of the front, with the lock or without it.
LEMMA AtWork ==
    ASSUME SafetyInv, AtSpan, pump.pc # "flush"
    PROVE  /\ pump.pc \notin {"idle", "head", "flush"}
           /\ pump.span = ledger.oldest /\ ledger.oldest \in Live(ledger)
           /\ Cur = Front /\ Index = Front.applied + 1
           /\ Closed(Front) /\ Front.pending = 0 /\ ~Front.unowned
           /\ HostDone(Front) /\ (Front.lastAdmitted # 0 => Front.flushed)
           /\ (~Gone <=> Releasable(ledger, ledger.oldest))
           /\ Awaited(Front) /\ Staged(Front) /\ Reported(Front)
           /\ Front.applied \in Nat /\ Front.stage \in 0 .. 2
           /\ pump.pc \in AccessPCs \cup {"skip"} => Front.applied < Len(Front.records)
           /\ pump.pc \in AccessPCs =>
                 ~Rec.skipped /\ Front.stage = IF pump.pc = "raise" THEN 1 ELSE 0
           /\ pump.pc = "mask" => Rec.kind = "Callback"
<1>1. Cur = Front /\ pump.span = ledger.oldest /\ ledger.oldest \in Live(ledger)
  BY FrontSettled, SafetyFacts DEF AtSpan
<1>2. FrontTaken /\ PassSteady
  BY DEF SafetyInv
<1> QED BY <1>1, <1>2, FrontWaits DEF FrontTaken, PassSteady, AtSpan, Index, Gone

LEMMA Locked ==
    ASSUME SafetyInv, pump.pc \in LockedPCs \cup TakePCs
    PROVE  /\ AtSpan /\ pump.pc # "flush"
           /\ pump.pc \in LockedPCs => ~Gone
BY FrontIsUsed DEF LockedPCs, TakePCs

\* Pump goes on with the span it is at, and the ledger stays.
LEMMA PassKept ==
    ASSUME SafetyInv, TypeInv', AtSpan, pump.pc # "flush",
           UNCHANGED <<ledger, host>>, pump'.span = pump.span,
           pump'.pc \notin {"idle", "head", "flush"},
           pump'.pc \in LockedPCs => ~Gone,
           pump'.pc = "release" => Front.applied = Len(Front.records),
           pump'.pc \in AccessPCs \cup {"skip"} => Front.applied < Len(Front.records),
           pump'.pc \in AccessPCs =>
              ~Rec.skipped /\ Front.stage = IF pump'.pc = "raise" THEN 1 ELSE 0,
           pump'.pc = "mask" => Rec.kind = "Callback",
           \/ \E n \in Nat : EffectAt(n) /\ Behind' = n
                             /\ Front.applied < Len(Front.records)
           \/ effect' = effect /\ Behind' = Behind
    PROVE  SafetyInv'
<1>1. Intact' /\ SpansWait' /\ Front' = Front /\ ledger'.oldest = ledger.oldest
  BY IntactLater
<1>2. AtSpan' /\ Cur' = Cur /\ Rec' = Rec /\ (Gone' <=> Gone)
  BY DEF AtSpan, Cur, Rec, Index, Gone
<1>3. FrontTaken'
  BY <1>2, AtWork DEF FrontTaken, HostDone
<1>4. PassSteady'
  BY <1>2, AtWork DEF PassSteady
<1>5. EffectsBehind'
  <2>1. CASE effect' = effect /\ Behind' = Behind
    <3>1. MayRelease' => MayRelease
      BY DEF MayRelease
    <3> QED BY <1>1, <2>1, <3>1, EffectStays
  <2>2. ASSUME NEW n \in Nat, EffectAt(n), Behind' = n,
               Front.applied < Len(Front.records)
        PROVE  EffectsBehind'
    BY <1>1, <2>2, EffectLanded DEF Progressed
  <2> QED BY <2>1, <2>2
<1> QED BY <1>1, <1>3, <1>4, <1>5 DEF SafetyInv

\* Pump's own progress in the front leaves the pass where it was.
LEMMA PassOn ==
    ASSUME SafetyInv, TypeInv', AtSpan, pump.pc # "flush", ~Gone,
           host' = host, pump'.span = pump.span, pump'.pc \in {"apply", "raise"},
           OnlyFront(ledger', ledger), ledger'.failedSpan = ledger.failedSpan,
           Progressed(ledger'.spans[ledger.oldest], Front),
           ledger'.spans[ledger.oldest].flushed = Front.flushed,
           ledger'.spans[ledger.oldest].hostTarget = Front.hostTarget,
           Staged(ledger'.spans[ledger.oldest]),
           pump'.pc = "raise" =>
              /\ ledger'.spans[ledger.oldest].applied = Front.applied
              /\ ledger'.spans[ledger.oldest].stage = 1
              /\ Front.applied < Len(Front.records) /\ ~Rec.skipped,
           EffectsBehind'
    PROVE  SafetyInv'
<1>1. /\ ledger'.oldest = ledger.oldest /\ Front' = ledger'.spans[ledger.oldest]
      /\ ledger'.closed = ledger.closed /\ Live(ledger') = Live(ledger)
  BY DEF OnlyFront, SameHandles, Front, Live
<1>2. Kin(Front', Front)
  BY <1>1, AtWork, ProgressedKin
<1>3. Awaited(Front')
  BY <1>1, AtWork DEF Awaited, Progressed
<1>4. Intact' /\ SpansWait'
  BY <1>1, <1>2, <1>3, FrontKeeps
<1>5. AtSpan' /\ Cur' = Front' /\ ~Gone'
  <2>1. pump'.pc \notin {"idle", "head"} /\ pump'.span = ledger.oldest
    BY AtWork
  <2> QED BY <1>1, <2>1, AtWork DEF AtSpan, Cur, Front, Gone, Releasable
<1>6. FrontTaken'
  <2>1. HostDone(Cur)'
    BY <1>1, <1>5, AtWork DEF HostDone, Progressed
  <2>2. Closed(Front') /\ Front'.pending = 0 /\ ~Front'.unowned
        /\ (Front'.lastAdmitted # 0 => Front'.flushed)
    BY <1>1, AtWork DEF Closed, Progressed
  <2> QED BY <1>5, <2>1, <2>2 DEF FrontTaken
<1>7. PassSteady'
  <2>1. pump'.pc = "raise" => Rec' = Rec
    BY <1>1, <1>5, AtWork DEF Rec, Index, Progressed
  <2>2. Front'.records = Front.records
    BY <1>1 DEF Progressed
  <2> QED BY <1>1, <1>5, <2>1, <2>2, AtWork DEF PassSteady, LockedPCs, AccessPCs
<1> QED BY <1>4, <1>6, <1>7 DEF SafetyInv

\* The next record is applied, with its last effect or without one.
LEMMA RecordApplied ==
    ASSUME SafetyInv, TypeInv', AtSpan, pump.pc # "flush", ~Gone,
           ledger' = Applied, host' = host, pump'.span = pump.span,
           pump'.pc = "apply",
           effect' = effect \/ \E n \in Nat : EffectAt(n)
    PROVE  SafetyInv'
<1> DEFINE s == ledger'.spans[ledger.oldest]
<1>1. /\ OnlyFront(ledger', ledger) /\ ledger'.failedSpan = ledger.failedSpan
      /\ Progressed(s, Front) /\ s.applied = Front.applied + 1
      /\ s.stage = 0
      /\ s.flushed = Front.flushed /\ s.hostTarget = Front.hostTarget
  BY AppliedFields
<1>2. Front' = s /\ ledger'.oldest = ledger.oldest
  BY <1>1 DEF OnlyFront, SameHandles, Front
<1> HIDE DEF s
<1>3. EffectsBehind'
  <2>1. CASE effect' = effect
    BY <1>1, <1>2, <2>1, EffectPassed
  <2>2. ASSUME NEW n \in Nat, EffectAt(n)
        PROVE  EffectsBehind'
    BY <1>1, <1>2, <2>2, EffectLanded
  <2> QED BY <2>1, <2>2
<1>4. Staged(s)
  BY <1>1 DEF Staged
<1> QED BY <1>1, <1>3, <1>4, PassOn DEF s

\* At a record that is not a callback, nothing is half done.
LEMMA AtNext ==
    ASSUME SafetyInv, AtRecord
    PROVE  /\ AtSpan /\ pump.pc = "apply" /\ pump.pc # "flush" /\ ~Gone
           /\ pump.span = ledger.oldest /\ Cur = Front
           /\ Front.applied < Len(Front.records)
           /\ Rec.kind # "Callback" => Front.stage = 0
           /\ Front.stage \in 0 .. 2
           /\ Behind = IF Front.stage # 0 THEN Front.stage + 1 ELSE 0
<1>1. AtSpan /\ ~Gone /\ pump.pc = "apply"
  BY Locked DEF AtRecord, LockedPCs
<1>2. Cur = Front /\ pump.span = ledger.oldest /\ Staged(Front)
      /\ Front.stage \in 0 .. 2
  BY <1>1, AtWork
<1>3. Rec.kind # "Callback" => Front.stage = 0
  BY <1>2 DEF Staged, Rec, Index
<1> QED BY <1>1, <1>2, <1>3 DEF AtRecord, Behind

\* A pass that gives up at its record.
LEMMA GivenUp ==
    ASSUME SafetyInv, TypeInv', AtSpan, pump.pc # "flush",
           ledger' = Unown(ledger, pump.span, Index), pump'.pc = "idle",
           UNCHANGED <<host, effect>>
    PROVE  SafetyInv'
<1> DEFINE i == Index
           U == Unown(ledger, ledger.oldest, i)
<1>1. ledger' = U /\ i = Front.applied + 1
  BY AtWork
<1>2. /\ Safe(U, clock, host.detached, U)
      /\ U.oldest = ledger.oldest /\ Live(U) = Live(ledger)
      /\ U.closed = ledger.closed
      /\ Mode = "Census" => U.failedSpan = ledger.failedSpan
      /\ \A id \in Live(ledger) : id # ledger.oldest => U.spans[id] = ledger.spans[id]
      /\ Ended(U.spans[ledger.oldest], Front, i)
  BY FrontUnowned
<1> HIDE DEF U, i
<1>3. Intact' /\ Ended(Front', Front, i)
  BY <1>1, <1>2 DEF Intact, Safe, Front
<1> QED BY <1>1, <1>2, <1>3, EndedSafe

\* The fields a step of Pump gives it.
LEMMA StepFields ==
    ASSUME NEW pc, Step(pc)
    PROVE  /\ pump'.pc = pc
           /\ pc \notin {"idle", "head"} => pump'.span = pump.span
           /\ pump'.result = "none"
BY DEF Step

LEMMA ApplySafe ==
    ASSUME SafetyInv, TypeInv', ApplySteps
    PROVE  SafetyInv'
<1>1. CASE ApplySkipped \/ ApplyInert \/ WaitOver
  <2>1. /\ AtRecord /\ ledger' = Applied /\ UNCHANGED <<pump, host, effect>>
    BY <1>1 DEF ApplySkipped, ApplyInert, WaitOver, ApplyKind
  <2> QED BY <2>1, AtNext, RecordApplied
<1>2. CASE WriteScratch
  <2>1. AtRecord /\ ledger' = Applied /\ UNCHANGED <<pump, host>> /\ EffectAt(1)
    BY <1>2 DEF WriteScratch, ApplyKind
  <2> QED BY <2>1, AtNext, RecordApplied
<1>3. CASE WriteFence
  <2>1. /\ pump.pc = "fence" /\ ledger' = Applied /\ host' = host /\ EffectAt(2)
        /\ pump'.pc = "apply" /\ pump'.span = pump.span
    BY <1>3, StepFields DEF WriteFence
  <2>2. AtSpan /\ ~Gone
    BY <2>1, Locked DEF LockedPCs
  <2> QED BY <2>1, <2>2, RecordApplied
<1>4. CASE WriteCursor
  <2>1. /\ AtRecord /\ ~Rec.skipped /\ Rec.kind = "Fence"
        /\ UNCHANGED <<ledger, host>> /\ EffectAt(1)
        /\ pump'.pc = "fence" /\ pump'.span = pump.span
    BY <1>4, StepFields DEF WriteCursor, ApplyKind
  <2>2. /\ AtSpan /\ pump.pc # "flush" /\ ~Gone
        /\ Front.applied < Len(Front.records) /\ Front.stage = 0
    BY <2>1, AtNext
  <2>3. Behind' = 1
    BY <2>1, <2>2 DEF Behind, Front
  <2> QED BY <2>1, <2>2, <2>3, PassKept
<1>5. CASE WaitLonger
  <2>1. AtRecord /\ UNCHANGED <<ledger, host, effect>> /\ pump'.pc = "idle"
    BY <1>5, StepFields DEF WaitLonger, ApplyKind
  <2>2. Behind' = Behind
    BY <2>1, AtNext DEF Behind, Front
  <2> QED BY <2>1, <2>2, EndUnchanged
<1>6. CASE AccessFailed
  <2>1. /\ pump.pc \in LockedPCs /\ ledger' = Unown(ledger, pump.span, Index)
        /\ UNCHANGED <<host, effect>> /\ pump'.pc = "idle"
    BY <1>6, StepFields DEF AccessFailed, GiveUp, ApplyKind, RaiseDone, AtRecord, LockedPCs
  <2> QED BY <2>1, Locked, GivenUp
<1>7. CASE ApplyDone
  <2>1. /\ pump.pc = "apply" /\ Cur.applied = Len(Cur.records)
        /\ UNCHANGED <<ledger, host, effect>>
        /\ \/ pump'.pc = "idle"
           \/ pump'.pc = "release" /\ pump'.span = pump.span
    BY <1>7, StepFields DEF ApplyDone
  <2>2. AtSpan /\ ~Gone /\ Cur = Front
    BY <2>1, Locked, AtWork DEF LockedPCs
  <2>3. Behind' = Behind
    BY <2>1, <2>2 DEF Behind, Front
  <2>4. CASE pump'.pc = "idle"
    BY <2>1, <2>3, <2>4, EndUnchanged
  <2>5. CASE pump'.pc = "release" /\ pump'.span = pump.span
    BY <2>1, <2>2, <2>3, <2>5, PassKept DEF AccessPCs
  <2> QED BY <2>1, <2>4, <2>5
<1> QED BY <1>1, <1>2, <1>3, <1>4, <1>5, <1>6, <1>7 DEF ApplySteps

\* A callback that is half done.
LEMMA StageSafe ==
    ASSUME SafetyInv, TypeInv', AtSpan, pump.pc \in {"mask", "raise"}, ~Gone,
           NEW n \in 1 .. 2,
           ledger' = [ledger EXCEPT !.spans[pump.span].stage = n],
           host' = host, pump'.span = pump.span,
           pump'.pc = (IF n = 1 THEN "raise" ELSE "apply"), EffectAt(n + 1)
    PROVE  SafetyInv'
<1> DEFINE s == ledger'.spans[ledger.oldest]
<1>1. /\ OnlyFront(ledger', ledger) /\ ledger'.failedSpan = ledger.failedSpan
      /\ Progressed(s, Front) /\ s.applied = Front.applied /\ s.stage = n
      /\ s.flushed = Front.flushed /\ s.hostTarget = Front.hostTarget
  <2>1. ledger' = FrontStaged(ledger, n)
    BY DEF FrontStaged
  <2>2. OnlyStaged(ledger', n)
    BY <2>1, StageFields, Zenon
  <2> QED BY <2>2 DEF OnlyStaged
<1>2. Front' = s /\ ledger'.oldest = ledger.oldest
  BY <1>1 DEF OnlyFront, SameHandles, Front
<1> HIDE DEF s
<1>3. /\ Front.applied < Len(Front.records) /\ ~Rec.skipped
      /\ Front.records[Front.applied + 1].kind = "Callback"
  BY AtWork DEF AccessPCs, Rec, Index, Staged
<1>4. Staged(s)
  BY <1>1, <1>3 DEF Staged, Progressed
<1>5. n + 1 \in Nat /\ Behind' = n + 1
  BY <1>1, <1>2 DEF Behind
<1>6. EffectsBehind'
  BY <1>1, <1>2, <1>3, <1>5, EffectLanded
<1> QED BY <1>1, <1>3, <1>4, <1>6, PassOn DEF s

LEMMA CallbackSafe ==
    ASSUME SafetyInv, TypeInv', CallbackSteps
    PROVE  SafetyInv'
<1>1. CASE RetireSlot
  <2>1. AtRecord /\ ledger' = Applied /\ UNCHANGED <<pump, host>> /\ EffectAt(4)
    BY <1>1 DEF RetireSlot, RaiseDone, ApplyKind
  <2> QED BY <2>1, AtNext, RecordApplied
<1>2. CASE CallbackDone
  <2>1. AtRecord /\ ledger' = Applied /\ UNCHANGED <<pump, host, effect>>
    BY <1>2 DEF CallbackDone, RaiseDone, ApplyKind
  <2> QED BY <2>1, AtNext, RecordApplied
<1>3. CASE AwaitMask
  <2>1. AtRecord /\ UNCHANGED <<ledger, host, effect>> /\ pump'.pc = "idle"
    BY <1>3, StepFields DEF AwaitMask, RaiseDone, ApplyKind
  <2>2. Behind' = Behind
    BY <2>1, AtNext DEF Behind, Front
  <2> QED BY <2>1, <2>2, EndUnchanged
<1>4. CASE WriteSlot
  <2>1. /\ AtRecord /\ ~Rec.skipped /\ Rec.kind = "Callback" /\ Cur.stage = 0
        /\ UNCHANGED <<ledger, host>> /\ EffectAt(1)
        /\ pump'.pc = "mask" /\ pump'.span = pump.span
    BY <1>4, StepFields DEF WriteSlot, ApplyKind
  <2>2. /\ AtSpan /\ pump.pc # "flush" /\ ~Gone
        /\ Front.applied < Len(Front.records) /\ Front.stage = 0
    BY <2>1, AtNext
  <2>3. Behind' = 1
    BY <2>1, <2>2 DEF Behind, Front
  <2> QED BY <2>1, <2>2, <2>3, PassKept
<1>5. CASE RaiseAgain
  <2>1. /\ AtRecord /\ ~Rec.skipped /\ Cur.stage = 1
        /\ UNCHANGED <<ledger, host, effect>>
        /\ pump'.pc = "raise" /\ pump'.span = pump.span
    BY <1>5, StepFields DEF RaiseAgain, ApplyKind
  <2>2. /\ AtSpan /\ pump.pc # "flush" /\ ~Gone
        /\ Front.applied < Len(Front.records) /\ Front.stage = 1
    BY <2>1, AtNext
  <2>3. Behind' = Behind
    BY <2>1, <2>2, AtNext DEF Behind, Front
  <2> QED BY <2>1, <2>2, <2>3, PassKept
<1>6. CASE WriteMask
  <2>1. /\ pump.pc = "mask" /\ host' = host /\ EffectAt(2)
        /\ ledger' = [ledger EXCEPT !.spans[pump.span].stage = 1]
        /\ pump'.pc = "raise" /\ pump'.span = pump.span
    BY <1>6, StepFields DEF WriteMask
  <2>2. AtSpan /\ ~Gone
    BY <2>1, Locked DEF LockedPCs
  <2> QED BY <2>1, <2>2, StageSafe
<1>7. CASE Raised /\ ~Gone
  <2>1. /\ pump.pc = "raise" /\ host' = host /\ EffectAt(3)
        /\ ledger' = [ledger EXCEPT !.spans[pump.span].stage = 2]
        /\ pump'.pc = "apply" /\ pump'.span = pump.span
    BY <1>7, StepFields DEF Raised
  <2>2. AtSpan
    BY <1>7, <2>1, FrontIsUsed
  <2> QED BY <1>7, <2>1, <2>2, StageSafe
<1>8. CASE NotRaised \/ (Raised /\ Gone)
  <2>1. /\ pump.pc = "raise" /\ UNCHANGED <<ledger, host, effect>> /\ pump'.pc = "idle"
    BY <1>8, StepFields DEF NotRaised, Raised
  <2>2. Behind' = Behind
    BY <2>1 DEF Behind, Front
  <2> QED BY <2>1, <2>2, EndUnchanged
<1> QED BY <1>1, <1>2, <1>3, <1>4, <1>5, <1>6, <1>7, <1>8 DEF CallbackSteps

LEMMA ImageSafe ==
    ASSUME SafetyInv, TypeInv', ImageOps
    PROVE  SafetyInv'
<1>1. CASE SkipImage \/ WantImage
  <2>1. /\ AtRecord /\ Rec.kind = "Resolve"
        /\ UNCHANGED <<ledger, host, effect>>
        /\ \/ pump'.pc = "skip"
           \/ pump'.pc = "gate" /\ ~Rec.skipped
        /\ pump'.span = pump.span
    <3>1. CASE SkipImage
      BY <3>1, StepFields DEF SkipImage, SkipsImage
    <3>2. CASE WantImage
      <4>1. "pc" \in DOMAIN pump /\ DOMAIN pump = {"pc", "span", "mark", "result"}
        BY SafetyFacts DEF PumpOwns, PumpInWindow
      <4> QED BY <3>2, <4>1 DEF WantImage, ApplyKind
    <3> QED BY <1>1, <3>1, <3>2
  <2>2. /\ AtSpan /\ pump.pc # "flush" /\ ~Gone
        /\ Front.applied < Len(Front.records) /\ Front.stage = 0
    BY <2>1, AtNext
  <2>3. Behind' = Behind
    BY <2>1, <2>2, AtNext DEF Behind, Front
  <2> QED BY <2>1, <2>2, <2>3, PassKept DEF AccessPCs
<1>2. CASE ImageSkipped
  <2>1. pump.pc = "skip" /\ UNCHANGED <<host, effect>>
    BY <1>2 DEF ImageSkipped
  <2>2. CASE Gone
    <3>1. ledger' = ledger /\ pump'.pc = "idle"
      BY <1>2, <2>2, StepFields DEF ImageSkipped
    <3>2. Behind' = Behind
      BY <2>1, <3>1 DEF Behind, Front
    <3> QED BY <2>1, <3>1, <3>2, EndUnchanged
  <2>3. CASE ~Gone
    <3>1. ledger' = Applied /\ pump'.pc = "apply" /\ pump'.span = pump.span
      BY <1>2, <2>3, StepFields DEF ImageSkipped
    <3>2. AtSpan
      BY <2>1, <2>3, FrontIsUsed
    <3> QED BY <2>1, <2>3, <3>1, <3>2, RecordApplied
  <2> QED BY <2>2, <2>3
<1>3. CASE PassGate
  <2>1. pump.pc = "gate" /\ UNCHANGED <<ledger, host, effect>>
    BY <1>3 DEF PassGate
  <2>2. CASE Gone
    <3>1. pump'.pc = "idle"
      BY <1>3, <2>2, StepFields DEF PassGate
    <3>2. Behind' = Behind
      BY <2>1, <3>1 DEF Behind, Front
    <3> QED BY <2>1, <3>1, <3>2, EndUnchanged
  <2>3. CASE ~Gone
    <3>1. pump'.pc = "take" /\ pump'.span = pump.span
      BY <1>3, <2>3, StepFields DEF PassGate
    <3>2. AtSpan
      BY <2>1, <2>3, FrontIsUsed
    <3>3. Front.applied < Len(Front.records) /\ ~Rec.skipped /\ Front.stage = 0
      BY <2>1, <3>2, AtWork DEF AccessPCs
    <3>4. Behind' = Behind
      BY <2>1, <3>1 DEF Behind, Front
    <3> QED BY <2>1, <2>3, <3>1, <3>2, <3>3, <3>4, PassKept
  <2> QED BY <2>2, <2>3
<1>4. CASE WriteImage \/ \E result \in {"held", "error", "closing"} : NoImage(result)
  <2>1. /\ pump.pc = "take" /\ UNCHANGED <<ledger, host>>
        /\ pump'.pc = "took" /\ pump'.span = pump.span
        /\ \/ EffectAt(1) /\ pump'.result = "written"
           \/ effect' = effect /\ pump'.result # "written"
    BY <1>4, SafetyFacts DEF WriteImage, NoImage, PeerTypes
  <2>2. AtSpan /\ Front.applied < Len(Front.records) /\ ~Rec.skipped /\ Front.stage = 0
    BY <2>1, Locked, AtWork DEF AccessPCs, TakePCs
  <2>3. IF pump'.result = "written" THEN Behind' = 1 ELSE Behind' = Behind
    BY <2>1, <2>2 DEF Behind, Front
  <2> QED BY <2>1, <2>2, <2>3, PassKept DEF LockedPCs
<1>5. CASE ImageTaken
  <2>1. pump.pc = "took" /\ UNCHANGED <<host, effect>>
    BY <1>5 DEF ImageTaken
  <2>2. AtSpan /\ pump.pc # "flush" /\ (~Gone <=> Releasable(ledger, ledger.oldest))
    BY <2>1, Locked, AtWork DEF TakePCs
  <2>3. CASE /\ Gone \/ pump.result = "closing"
             /\ Step("idle") /\ UNCHANGED ledger
    <3>1. pump'.pc = "idle" /\ ledger' = ledger
      BY <2>3, StepFields
    <3>2. Releasable(ledger, ledger.oldest) => Behind' = Behind
      BY <2>1, <2>2, <2>3, <3>1 DEF Behind, Front
    <3> QED BY <2>1, <3>1, <3>2, EndUnchanged
  <2>4. CASE ledger' = Unown(ledger, pump.span, Index) /\ Step("idle")
    <3>1. pump'.pc = "idle"
      BY <2>4, StepFields
    <3> QED BY <2>1, <2>2, <2>4, <3>1, GivenUp
  <2>5. CASE ~Gone /\ ledger' = Applied /\ Step("apply")
    <3>1. pump'.pc = "apply" /\ pump'.span = pump.span
      BY <2>5, StepFields
    <3> QED BY <2>1, <2>2, <2>5, <3>1, RecordApplied
  <2> QED BY <1>5, <2>3, <2>4, <2>5 DEF ImageTaken
<1> QED BY <1>1, <1>2, <1>3, <1>4, <1>5 DEF ImageOps

-----------------------------------------------------------------------------
(* Every step. *)

LEMMA InitSafe ==
    ASSUME Init
    PROVE  SafetyInv
<1>1. /\ ledger = NewLedger /\ pump.pc = "idle" /\ host.detached = {}
      /\ effect.span = 0
  BY DEF Init, NewPump, NewHost
<1>2. /\ ledger.oldest = 1 /\ ledger.nextSpan = 2 /\ Live(ledger) = {1}
      /\ ledger.spans[1] = EmptySpan /\ Front = EmptySpan
      /\ ledger.frontbuffer = {} /\ ledger.failedSpan = 0
      /\ \A t \in Threads : ledger.openDraws[t] = NoHandle
                            /\ ledger.openResolves[t] = NoHandle
      /\ \A s \in Segments : ledger.held[s] = <<>>
      /\ ledger.heldFirst = <<>>
  BY <1>1 DEF NewLedger, Live, Front
<1>3. /\ EmptySpan.records = <<>> /\ EmptySpan.pending = 0 /\ ~Closed(EmptySpan)
      /\ Unsealed(EmptySpan) /\ Untouched(EmptySpan)
      /\ EmptySpan.lastAdmitted = 0 /\ EmptySpan.stage = 0
  BY DEF EmptySpan, Closed, Unsealed, Untouched
<1>4. DOMAIN EmptySpan.records = {}
  BY <1>3
<1>5. Due(EmptySpan) = {} /\ Reported(EmptySpan)
  BY <1>4 DEF Due, Reported
<1>6. Cardinality({}) = 0
  BY FS_EmptySet
<1>7. Counted(ledger) /\ SpansSound(ledger)
  BY <1>2, <1>3, <1>5, <1>6 DEF Counted, SpansSound
<1>8. Debts(ledger, {}) /\ Apart(ledger, {})
  BY <1>2 DEF Debts, Owing, Apart, NoHandle
<1>9. Covered(ledger, {})
  BY <1>2, <1>4 DEF Covered, Pending
<1>10. HeldPlain(ledger)
  BY <1>2 DEF HeldPlain, Plain
<1>11. Since(ledger, ledger)
  BY <1>2, <1>3 DEF Since, Settled
<1>12. Intact
  BY <1>1, <1>7, <1>8, <1>9, <1>10, <1>11 DEF Intact, Sound
<1>13. SpansWait
  BY <1>2, <1>3 DEF SpansWait, Awaited, Staged, Untouched
<1>14. EffectsBehind
  BY <1>1, <1>2 DEF EffectsBehind, LastEffect
<1>15. FrontTaken /\ PassSteady
  BY <1>1 DEF FrontTaken, PassSteady, AtSpan, LockedPCs
<1> QED BY <1>12, <1>13, <1>14, <1>15, InitTyped DEF SafetyInv

LEMMA StepSafe ==
    ASSUME SafetyInv, [Next]_vars
    PROVE  SafetyInv'
<1>1. TypeInv'
  BY SafetyFacts, StepKeepsTypes
<1>2. CASE \/ \E t \in Threads : GuestOps(t)
           \/ DetachedOps \/ FailureOps \/ RegisterOps
  BY <1>1, <1>2, GuestSafe
<1>3. CASE TeardownOps
  BY <1>1, <1>3, DropSafe, CloseSafe, PartnersSafe DEF TeardownOps
<1>4. CASE HolderOps \/ Environment
  BY <1>1, <1>4, PartnersSafe
<1>5. CASE PumpNext
  BY <1>1, <1>5, LoopSafe, FlushSafe, ApplySafe, CallbackSafe, ImageSafe DEF PumpNext
<1>6. CASE UNCHANGED vars
  <2>1. UNCHANGED <<ledger, pump, effect, host>>
    BY <1>6 DEF vars
  <2>2. host'.completed >= host.completed
    BY <2>1, SafetyFacts DEF PeerTypes
  <2> QED BY <1>1, <2>1, <2>2, IdleSafe
<1> QED BY <1>2, <1>3, <1>4, <1>5, <1>6 DEF Next

\* In every reachable state a record that awaits its verdict has one party
\* that owes it, its span counts it, only the oldest span was begun, and what
\* Pump read before it unlocked is still so. The theorems below rest on this.
THEOREM SafetyHolds == Spec => []SafetyInv
<1>1. Init => SafetyInv
  BY InitSafe
<1>2. SafetyInv /\ [Next]_vars => SafetyInv'
  BY StepSafe
<1> QED BY <1>1, <1>2, PTL DEF Spec

\* A span's unsigned count of pending records is exactly the number of its
\* records that await a verdict: no path of finishDraw, Unown, Swap or Close
\* counts one down twice (the count would wrap) or forgets one.
THEOREM CountsAreRight == Spec => []PendingCounted
<1>1. SafetyInv => PendingCounted
  BY DEF SafetyInv, Intact, Sound, Counted, Due, PendingCounted
<1> QED BY <1>1, SafetyHolds, PTL

LEMMA OwedOnce ==
    ASSUME SafetyInv, ~ledger.closed, NEW h \in Handles, Pending(ledger, h)
    PROVE  OwedBy(h) = 1
<1> DEFINE L == ledger
           out == host.detached
           D == {t \in Threads : L.openDraws[t] = h}
           R == {t \in Threads : L.openResolves[t] = h}
<1>1. Debts(L, out) /\ Apart(L, out) /\ KeptBy(L, out, h)
  BY DEF SafetyInv, Intact, Sound, Covered
<1>2. h.span >= L.oldest /\ h # NoHandle
  BY SafetyFacts DEF Pending, Live, NoHandle, Typed, Shaped
<1>3. /\ \A t \in Threads : L.openDraws[t] = h => PendingAs(L, h, "Draw")
      /\ \A t \in Threads : L.openResolves[t] = h => PendingAs(L, h, "Resolve")
      /\ h \in out => PendingAs(L, h, "Draw")
      /\ h \in L.frontbuffer => PendingAs(L, h, "Resolve")
  BY <1>1, <1>2 DEF Debts, Owing
<1>4. ~(PendingAs(L, h, "Draw") /\ PendingAs(L, h, "Resolve"))
  BY DEF PendingAs
<1>5. \A t, u \in Threads :
         /\ L.openDraws[t] = h /\ L.openDraws[u] = h => t = u
         /\ L.openResolves[t] = h /\ L.openResolves[u] = h => t = u
         /\ L.openDraws[t] = h => h \notin out
         /\ L.openResolves[t] = h => h \notin L.frontbuffer
  BY <1>1, <1>2 DEF Apart
<1>6. Cardinality({}) = 0
  BY FS_EmptySet
<1>7. \A t \in Threads : Cardinality({t}) = 1
  BY FS_Singleton
<1>8. OwedBy(h) = Cardinality(D) + Cardinality(R)
                  + (IF h \in out THEN 1 ELSE 0)
                  + (IF h \in L.frontbuffer THEN 1 ELSE 0)
  BY DEF OwedBy
<1> HIDE DEF L, out
<1>9. CASE \E t \in Threads : L.openDraws[t] = h
  <2>1. PICK t \in Threads : L.openDraws[t] = h
    BY <1>9
  <2>2. D = {t} /\ R = {} /\ h \notin out /\ h \notin L.frontbuffer
    BY <1>3, <1>4, <1>5, <2>1
  <2>3. Cardinality(D) = 1 /\ Cardinality(R) = 0
    BY <1>6, <1>7, <2>2
  <2> QED BY <1>8, <2>2, <2>3
<1>10. CASE \E t \in Threads : L.openResolves[t] = h
  <2>1. PICK t \in Threads : L.openResolves[t] = h
    BY <1>10
  <2>2. D = {} /\ R = {t} /\ h \notin out /\ h \notin L.frontbuffer
    BY <1>3, <1>4, <1>5, <2>1
  <2>3. Cardinality(D) = 0 /\ Cardinality(R) = 1
    BY <1>6, <1>7, <2>2
  <2> QED BY <1>8, <2>2, <2>3
<1>11. CASE h \in out \cup L.frontbuffer
  <2>1. D = {} /\ R = {} /\ ~(h \in out /\ h \in L.frontbuffer)
    BY <1>3, <1>4, <1>5, <1>11
  <2>2. Cardinality(D) = 0 /\ Cardinality(R) = 0
    BY <1>6, <2>1
  <2> QED BY <1>8, <1>11, <2>1, <2>2
<1> QED BY <1>1, <1>9, <1>10, <1>11 DEF KeptBy

\* Until the session closes, whatever a span still waits for is owed by
\* exactly one of the opening thread, the copying thread, the holder of a
\* detached draw and the next swap: none is lost, and none is settled twice.
THEOREM PendingIsOwed == Spec => []EveryPendingIsOwed
<1>1. ASSUME SafetyInv, ~ledger.closed, NEW id \in Live(ledger),
             NEW i \in DOMAIN ledger.spans[id].records,
             ledger.spans[id].records[i].pending
      PROVE  OwedBy([span |-> id, index |-> i]) = 1
  <2> DEFINE h == [span |-> id, index |-> i]
  <2>1. id \in Nat /\ i \in Nat
    <3>1. ledger.spans[id] \in SpanTo(clock)
      BY <1>1, SafetyFacts, SpanOfLedger
    <3>2. ledger.spans[id].records \in Seq(RecordTo(clock))
      BY <3>1 DEF SpanTo
    <3>3. i \in Nat
      BY <1>1, <3>2, LenProperties
    <3>4. id \in Nat
      BY <1>1, SafetyFacts DEF Live, Typed, Shaped
    <3> QED BY <3>3, <3>4
  <2>2. h \in Handles /\ Pending(ledger, h)
    BY <1>1, <2>1 DEF Handles, Pending
  <2> QED BY <1>1, <2>2, OwedOnce
<1>2. SafetyInv => EveryPendingIsOwed
  BY <1>1 DEF EveryPendingIsOwed
<1> QED BY <1>2, SafetyHolds, PTL

\* A span Pump has begun to release is out of every guest call's reach: it is
\* the oldest one, closed, and no record of it awaits anything.
THEOREM ReleasingStaysFrozen == Spec => []ReleasingIsFrozen
<1>1. ASSUME SafetyInv, NEW id \in Live(ledger),
             \/ ledger.spans[id].applied > 0 \/ ledger.spans[id].stage > 0
             \/ ledger.spans[id].flushed
      PROVE  /\ Closed(ledger.spans[id]) /\ ledger.spans[id].pending = 0
             /\ id = ledger.oldest
  <2>1. ~Untouched(ledger.spans[id])
    BY <1>1 DEF Untouched
  <2>2. id \in Settled(ledger) /\ id = ledger.oldest
    BY <1>1, <2>1 DEF SafetyInv, Intact, Sound, Since, SpansWait
  <2> QED BY <2>2 DEF Settled
<1>2. SafetyInv => ReleasingIsFrozen
  BY <1>1 DEF ReleasingIsFrozen
<1> QED BY <1>2, SafetyHolds, PTL

-----------------------------------------------------------------------------
(* What a step may do. *)

\* Guest threads, failures, tear-down and the partners release no effect, and
\* only tear-down moves the front, past every span.
LEMMA OthersRest ==
    ASSUME SafetyInv, Next, ~PumpNext
    PROVE  /\ effect' = effect
           /\ ledger'.oldest = ledger.oldest \/ ledger'.nextSpan # ledger.nextSpan
<1>1. /\ Window(ledger) /\ ledger.nextSpan \in Nat /\ DOMAIN ledger = Fields
  BY SafetyFacts DEF Typed, Shaped
<1>2. Calls => effect' = effect /\ ledger'.oldest = ledger.oldest
  BY DEF Calls, Grown
<1>3. CASE \/ \E t \in Threads : GuestOps(t)
           \/ DetachedOps \/ FailureOps \/ RegisterOps
  BY <1>1, <1>2, <1>3, GuestCalls, DetachedCalls, FailureCalls
<1>4. CASE DropEpoch
  <2>1. ledger' = Drop(ledger) /\ effect' = effect
    BY <1>4 DEF DropEpoch
  <2>2. ledger'.nextSpan = ledger.nextSpan + 1
    BY <2>1, SafetyFacts, DropWindow
  <2> QED BY <1>1, <2>1, <2>2
<1>5. CASE Close
  BY <1>1, <1>5, FieldNames DEF Close
<1>6. CASE HolderOps \/ Environment \/ DiscardGuestImages
  BY <1>6 DEF HolderOps, BeginImageWrites, EndImageWrites, Environment,
              HostCompletes, HandlerClearsMask, GuestWritesWord, DiscardGuestImages
<1> QED BY <1>3, <1>4, <1>5, <1>6 DEF Next, TeardownOps

\* What an effect needs: Pump is at the front, whose host work is done, and
\* the effect comes after the last one.
Lands(n) == AtSpan /\ pump.pc # "flush" /\ EffectAt(n) /\ Precedes(effect, effect')

LEMMA EffectDue ==
    ASSUME SafetyInv, PumpNext, effect' # effect
    PROVE  \E n \in Nat : Lands(n)
<1>1. CASE Release
  <2>1. pump.pc = "release" /\ EffectAt(1)
    BY <1>1 DEF Release
  <2>2. AtSpan /\ Cur = Front /\ Front.applied = Len(Front.records)
        /\ Releasable(ledger, ledger.oldest) /\ ~Front.unowned
    BY <2>1, ReleaseFacts
  <2>3. effect'.span = ledger.oldest /\ effect'.index = Front.applied + 1
    BY <2>1, <2>2 DEF EffectAt, Index, AtSpan
  <2>4. EffectsBehind /\ MayRelease
    BY <2>2 DEF SafetyInv, MayRelease
  <2>5. /\ Front.applied \in Nat /\ effect.index \in Nat /\ effect.span \in Nat
        /\ ledger.oldest \in Nat
    BY SafetyFacts DEF PeerTypes, SpanTo
  <2>6. Precedes(effect, effect')
    BY <2>2, <2>3, <2>4, <2>5 DEF EffectsBehind, LastEffect, Precedes
  <2> QED BY <2>1, <2>2, <2>6 DEF Lands
<1>2. ASSUME AtRecord, ~Rec.skipped, NEW n \in {1, 4}, EffectAt(n),
             n = 1 => Front.stage = 0
      PROVE  Lands(n)
  <2>1. /\ AtSpan /\ pump.pc # "flush" /\ Front.applied < Len(Front.records)
        /\ Behind < n /\ n \in Nat
    BY <1>2, AtNext
  <2> QED BY <1>2, <2>1, EffectLands DEF Lands
<1>3. ASSUME pump.pc \in {"fence", "mask", "take", "raise"}, AtSpan,
             NEW n \in 1 .. 3, EffectAt(n),
             n = IF pump.pc = "raise" THEN 3
                 ELSE IF pump.pc = "take" THEN 1 ELSE 2
      PROVE  Lands(n)
  <2>1. /\ pump.pc # "flush" /\ Front.applied < Len(Front.records) /\ ~Rec.skipped
        /\ Front.stage = IF pump.pc = "raise" THEN 1 ELSE 0
    BY <1>3, AtWork DEF AccessPCs
  <2>2. Behind < n /\ n \in Nat
    BY <1>3, <2>1 DEF Behind
  <2> QED BY <1>3, <2>1, <2>2, EffectLands DEF Lands
<1>4. CASE LoopSteps
  BY <1>1, <1>4 DEF LoopSteps, WriteReplayPointer, LoseReplayPointer, Pause,
                    BeginFlush, BeginApply, ReleaseFailed
<1>5. CASE FlushOps
  BY <1>5 DEF FlushOps, FlushFenced, FlushRetry, FlushFailed
<1>6. CASE ApplySteps
  <2>1. CASE WriteCursor \/ WriteScratch
    <3>1. AtRecord /\ ~Rec.skipped /\ Rec.kind # "Callback" /\ EffectAt(1)
      BY <2>1 DEF WriteCursor, WriteScratch, ApplyKind
    <3>2. Front.stage = 0
      BY <3>1, AtNext
    <3> QED BY <1>2, <3>1, <3>2
  <2>2. CASE WriteFence
    <3>1. pump.pc = "fence" /\ EffectAt(2)
      BY <2>2 DEF WriteFence
    <3> QED BY <1>3, <3>1, Locked DEF LockedPCs
  <2> QED BY <1>6, <2>1, <2>2
          DEF ApplySteps, ApplySkipped, ApplyInert, WaitOver, WaitLonger,
              AccessFailed, GiveUp, ApplyDone
<1>7. CASE CallbackSteps
  <2>1. CASE WriteSlot
    <3>1. AtRecord /\ ~Rec.skipped /\ Cur.stage = 0 /\ EffectAt(1)
      BY <2>1 DEF WriteSlot, ApplyKind
    <3>2. Front.stage = 0
      BY <3>1, AtNext
    <3> QED BY <1>2, <3>1, <3>2
  <2>2. CASE RetireSlot
    <3>1. AtRecord /\ ~Rec.skipped /\ EffectAt(4)
      BY <2>2 DEF RetireSlot, RaiseDone, ApplyKind
    <3> QED BY <1>2, <3>1
  <2>3. CASE WriteMask
    <3>1. pump.pc = "mask" /\ EffectAt(2)
      BY <2>3 DEF WriteMask
    <3> QED BY <1>3, <3>1, Locked DEF LockedPCs
  <2>4. CASE Raised
    <3>1. pump.pc = "raise" /\ ~Gone /\ EffectAt(3)
      BY <2>4 DEF Raised
    <3> QED BY <1>3, <3>1, FrontIsUsed
  <2> QED BY <1>7, <2>1, <2>2, <2>3, <2>4
          DEF CallbackSteps, RaiseAgain, NotRaised, AwaitMask, CallbackDone
<1>8. CASE ImageOps
  <2>1. CASE WriteImage
    <3>1. pump.pc = "take" /\ EffectAt(1)
      BY <2>1 DEF WriteImage
    <3> QED BY <1>3, <3>1, Locked DEF TakePCs
  <2> QED BY <1>8, <2>1
          DEF ImageOps, SkipImage, ImageSkipped, WantImage, PassGate, NoImage,
              ImageTaken
<1> QED BY <1>4, <1>5, <1>6, <1>7, <1>8 DEF PumpNext

\* Guest memory changes in the order the guest recorded: no effect of Pump, in
\* whatever interleaving with guest calls and tear-down, comes before the one
\* made last.
THEOREM NoEffectOvertakes == Spec => EffectsInOrder
<1> DEFINE InOrder == Effect => Precedes(effect, effect')
<1>1. ASSUME SafetyInv, Next
      PROVE  InOrder
  BY <1>1, OthersRest, EffectDue DEF Lands, Effect
<1>2. UNCHANGED vars => InOrder
  BY DEF vars, Effect
<1>3. SafetyInv /\ [Next]_vars => [InOrder]_vars
  BY <1>1, <1>2
<1> QED BY <1>3, SafetyHolds, PTL DEF Spec, EffectsInOrder

\* Pump writes nothing of a span before the host completed the work admitted
\* with it, although it reads the target before it unlocks and waits.
THEOREM HostIsDoneBeforeEffects == Spec => HostBeforeEffects
<1> DEFINE HostFirst ==
        Effect /\ effect'.span \in Live(ledger) =>
           \/ Mode = "Census" /\ ledger.spans[effect'.span].partial
           \/ host.completed >= ledger.spans[effect'.span].lastAdmitted
<1>1. ASSUME SafetyInv, Next
      PROVE  HostFirst
  <2>1. SUFFICES ASSUME Effect PROVE HostFirst
    OBVIOUS
  <2>2. PICK n \in Nat : Lands(n)
    BY <1>1, <2>1, OthersRest, EffectDue DEF Effect
  <2>3. effect'.span = ledger.oldest
    BY <2>2 DEF Lands, EffectAt, AtSpan
  <2>4. /\ HostDone(Front) /\ Awaited(Front)
        /\ Front.lastAdmitted # 0 => Front.flushed
    BY <1>1, <2>2, AtWork DEF Lands
  <2>5. /\ host.completed \in Nat /\ Front.hostTarget \in Nat
        /\ Front.lastAdmitted \in Nat
    BY <1>1, SafetyFacts, FrontWaits DEF PeerTypes
  <2>6. \/ Mode = "Census" /\ Front.partial
        \/ host.completed >= Front.lastAdmitted
    BY <2>4, <2>5 DEF HostDone, Awaited
  <2> QED BY <2>3, <2>6 DEF Front
<1>2. UNCHANGED vars => HostFirst
  BY DEF vars, Effect
<1>3. SafetyInv /\ [Next]_vars => [HostFirst]_vars
  BY <1>1, <1>2
<1> QED BY <1>3, SafetyHolds, PTL DEF Spec, HostBeforeEffects

\* Only a release moves the front.
LEMMA PassStaysAtFront ==
    ASSUME SafetyInv, PumpNext, ledger'.oldest # ledger.oldest
    PROVE  Release \/ ReleaseFailed
<1>1. DOMAIN ledger = Fields
  BY SafetyFacts
<1>2. \A id, i : Unown(ledger, id, i).oldest = ledger.oldest
  BY <1>1, FieldNames DEF Unown, FailAt
<1>3. Applied.oldest = ledger.oldest
  BY <1>1, FieldNames DEF Applied
<1>4. CASE LoopSteps
  <2>1. CASE WriteReplayPointer
    BY <1>1, <2>1, FieldNames DEF WriteReplayPointer
  <2>2. CASE LoseReplayPointer
    <3> DEFINE U == Unown(ledger, ledger.oldest, Len(Front.records) + 1)
    <3>1. ledger' \in {U, [U EXCEPT !.replayPointer = 0]}
      BY <2>2 DEF LoseReplayPointer
    <3>2. U.oldest = ledger.oldest
      BY <1>2
    <3> HIDE DEF U
    <3>3. [U EXCEPT !.replayPointer = 0].oldest = U.oldest
      BY FieldNames
    <3> QED BY <3>1, <3>2, <3>3
  <2> QED BY <1>4, <2>1, <2>2 DEF LoopSteps, Pause, BeginFlush, BeginApply
<1>5. CASE FlushOps
  <2> DEFINE U == Unown(ledger, pump.span, AdmittedRecord(Cur))
  <2>1. \/ ledger' \in {ledger, U}
        \/ \E n : ledger' = [ledger EXCEPT !.spans[pump.span].hostTarget = n,
                                            !.spans[pump.span].flushed = TRUE]
        \/ \E n : ledger' = [U EXCEPT !.spans[pump.span].hostTarget = n,
                                      !.spans[pump.span].flushed = TRUE]
    BY <1>5 DEF FlushOps, FlushFenced, FlushRetry, FlushFailed
  <2>2. U.oldest = ledger.oldest
    BY <1>2
  <2> HIDE DEF U
  <2>3. ASSUME NEW L, NEW n
        PROVE  [L EXCEPT !.spans[pump.span].hostTarget = n,
                         !.spans[pump.span].flushed = TRUE].oldest = L.oldest
    OBVIOUS
  <2> QED BY ZenonT(30), <2>1, <2>2, <2>3
<1>6. CASE ApplySteps
  BY <1>2, <1>3, <1>6
     DEF ApplySteps, ApplySkipped, ApplyInert, WriteCursor, WriteFence,
         WriteScratch, WaitOver, WaitLonger, AccessFailed, GiveUp, ApplyDone
<1>7. CASE CallbackSteps
  <2>1. CASE WriteMask
    BY <1>1, <2>1, FieldNames DEF WriteMask
  <2>2. CASE Raised
    BY <1>1, <2>2, FieldNames DEF Raised
  <2> QED BY <1>3, <1>7, <2>1, <2>2
          DEF CallbackSteps, WriteSlot, RaiseAgain, NotRaised, AwaitMask,
              RetireSlot, CallbackDone
<1>8. CASE ImageOps
  BY <1>2, <1>3, <1>8
     DEF ImageOps, SkipImage, ImageSkipped, WantImage, PassGate, WriteImage,
         NoImage, ImageTaken
<1> QED BY <1>4, <1>5, <1>6, <1>7, <1>8 DEF PumpNext, LoopSteps

\* A span leaves the front only whole: closed, owned and before the failing
\* span, with every record settled and applied, those a census left out
\* reported. (A tear-down, which empties the window, releases nothing.)
THEOREM SpansReleaseWhole == Spec => ReleasedWhole
<1> DEFINE span == ledger.spans[ledger.oldest]
           Whole ==
              ledger'.oldest = ledger.oldest + 1 /\ ledger'.nextSpan = ledger.nextSpan =>
                 /\ Closed(span) /\ ~span.unowned
                 /\ span.applied = Len(span.records)
                 /\ \A i \in DOMAIN span.records :
                       /\ ~span.records[i].pending
                       /\ span.records[i].skipped => Mode = "Census" /\ span.partial
                 /\ Releasable(ledger, ledger.oldest)
<1>1. ASSUME SafetyInv, Next
      PROVE  Whole
  <2>1. SUFFICES ASSUME ledger'.oldest = ledger.oldest + 1,
                        ledger'.nextSpan = ledger.nextSpan
                 PROVE  Whole
    OBVIOUS
  <2>2. ledger'.oldest # ledger.oldest
    BY <1>1, <2>1, SafetyFacts
  <2>3. pump.pc = "release"
    BY <1>1, <2>1, <2>2, OthersRest, PassStaysAtFront DEF Release, ReleaseFailed
  <2>4. /\ ledger.oldest \in Settled(ledger)
        /\ span.applied = Len(span.records) /\ ~span.unowned
        /\ Releasable(ledger, ledger.oldest)
    BY <1>1, <2>3, ReleaseFacts DEF Front
  <2>5. Due(span) = {}
    BY <1>1, <2>4, SafetyFacts, NoneDue DEF Settled, Safe, Sound
  <2>6. Reported(span)
    BY <1>1, FrontWaits DEF Front
  <2>7. Closed(span)
    BY <2>4 DEF Settled
  <2> QED BY <2>4, <2>5, <2>6, <2>7 DEF Due, Reported
<1>2. ASSUME UNCHANGED vars, SafetyInv
      PROVE  Whole
  BY <1>2, SafetyFacts DEF vars
<1>3. SafetyInv /\ [Next]_vars => [Whole]_vars
  BY <1>1, <1>2
<1> QED BY <1>3, SafetyHolds, PTL DEF Spec, ReleasedWhole

=============================================================================
