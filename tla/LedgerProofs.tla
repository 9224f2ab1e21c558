----------------------------- MODULE LedgerProofs -----------------------------
(***************************************************************************)
(* Theorems of the completion ledger for every set of threads, blocks,     *)
(* segments and destinations and in every draw mode.                       *)
(*                                                                         *)
(* The argument: whatever guest threads and the host do to the ledger      *)
(* between two steps of Pump, they only extend the window of spans at its  *)
(* back, or drop it whole; only Pump takes a span off the front. So a span *)
(* Pump still finds after it let the lock go is the front it left.         *)
(*                                                                         *)
(* The ledger is type correct: first what each helper of State returns,    *)
(* then every operation of a guest thread, then every step of Pump, of     *)
(* tear-down and of Pump's partners. The argument needs two facts beyond   *)
(* the types. No op mark is newer than the clock, so the newest mark that  *)
(* a swap or a tear-down looks for exists; and what Pump holds is the      *)
(* front of the window (PumpOwns), so the record it reads after each guest *)
(* access is still there.                                                  *)
(***************************************************************************)
EXTENDS CompletionLedger, SequenceTheorems, FiniteSetTheorems,
        WellFoundedInduction, TLAPS

-----------------------------------------------------------------------------
(* What the helpers of State do to the window of spans. All but openSpan   *)
(* and the kicks leave alone which spans there are, how each one closed    *)
(* and what Pump did to it.                                                *)

Fields == DOMAIN NewLedger
SpanFields == DOMAIN EmptySpan

\* A window of consecutive ids, each a span.
Shaped(L) ==
    /\ DOMAIN L = Fields
    /\ L.oldest \in Nat /\ L.nextSpan \in Nat /\ L.kicks \in Nat
    /\ DOMAIN L.spans = Live(L)
    /\ \A id \in Live(L) : DOMAIN L.spans[id] = SpanFields

\* A span keeps how it closed and what Pump did to it.
Kept(new, old) ==
    /\ DOMAIN new = SpanFields
    /\ new.kicked = old.kicked /\ new.sealed = old.sealed
    /\ new.deferred = old.deferred
    /\ new.applied = old.applied /\ new.flushed = old.flushed

\* M is L after calls that leave the window alone.
Same(M, L) ==
    /\ DOMAIN M = Fields
    /\ M.oldest = L.oldest /\ M.nextSpan = L.nextSpan
    /\ M.kicks = L.kicks /\ M.closed = L.closed
    /\ DOMAIN M.spans = Live(L)
    /\ \A id \in Live(L) : Kept(M.spans[id], L.spans[id])

LEMMA FieldNames ==
    Fields = {"spans", "oldest", "nextSpan", "openDraws", "openResolves",
              "frontbuffer", "writeback", "closed", "epochPartial",
              "epochWork", "failedSpan", "submitEpoch", "pendingSubmit",
              "replay", "lists", "activeList", "nextList", "held",
              "heldList", "heldFirst", "replayPointer", "kicks",
              "suspended", "ownerSwapThread", "ownerSwapSawSwap",
              "deviceOwner"}
BY DEF Fields, NewLedger

LEMMA SpanFieldNames ==
    SpanFields = {"records", "kicked", "sealed", "deferred", "dwords",
                  "startsList", "thread", "pending", "unowned", "partial",
                  "lastAdmitted", "hostTarget", "flushed", "applied", "stage"}
BY DEF SpanFields, EmptySpan

LEMMA SameTrans ==
    ASSUME NEW L, NEW M, NEW N, Same(M, L), Same(N, M)
    PROVE  Same(N, L)
BY DEF Same, Kept, Live

LEMMA SameShaped ==
    ASSUME NEW L, NEW M, Shaped(L), Same(M, L)
    PROVE  Shaped(M)
BY DEF Same, Kept, Live, Shaped

LEMMA SameRefl ==
    ASSUME NEW L, Shaped(L)
    PROVE  Same(L, L)
BY DEF Same, Kept, Shaped

\* A change of fields the window does not know of.
LEMMA OtherField ==
    ASSUME NEW L, Shaped(L), NEW M, DOMAIN M = Fields,
           M.oldest = L.oldest, M.nextSpan = L.nextSpan,
           M.kicks = L.kicks, M.closed = L.closed,
           M.spans = L.spans
    PROVE  Same(M, L)
BY DEF Same, Kept, Shaped

-----------------------------------------------------------------------------
(* The helpers, in the order of LedgerState and LedgerRecords. *)

LEMMA FailAtSame ==
    ASSUME NEW L, Shaped(L), NEW id
    PROVE  Same(FailAt(L, id), L)
BY FieldNames, SameRefl, OtherField DEF FailAt, Shaped

LEMMA UnownSame ==
    ASSUME NEW L, Shaped(L), NEW id, NEW i
    PROVE  Same(Unown(L, id, i), L)
<1>1. ASSUME NEW recs
      PROVE  Same([L EXCEPT !.spans[id].records = recs,
                            !.spans[id].partial = TRUE,
                            !.epochPartial = TRUE], L)
  BY FieldNames, SpanFieldNames DEF Same, Kept, Shaped
<1>2. Same(FailAt(L, id), L) /\ Shaped(FailAt(L, id))
  BY FailAtSame, SameShaped
<1>3. ASSUME NEW M, Same(M, L)
      PROVE  Same([M EXCEPT !.spans[id].unowned = TRUE], L)
  BY <1>3, FieldNames, SpanFieldNames DEF Same, Kept, Live
<1>4. QED
  BY <1>1, <1>2, <1>3, SameRefl DEF Unown

LEMMA SettleSame ==
    ASSUME NEW L, Shaped(L), NEW h
    PROVE  Same(Settle(L, h), L)
<1>1. ASSUME NEW recs, NEW n
      PROVE  Same([L EXCEPT !.spans[h.span].records = recs,
                            !.spans[h.span].pending = n], L)
  BY FieldNames, SpanFieldNames DEF Same, Kept, Shaped
<1> DEFINE old == L.spans[h.span]
<1> DEFINE recs == [old.records EXCEPT ![h.index].pending = FALSE]
<1>2. Settle(L, h) = [L EXCEPT !.spans[h.span].records = recs,
                               !.spans[h.span].pending = old.pending - 1]
  BY DEF Settle
<1> HIDE DEF recs, old
<1>3. Same([L EXCEPT !.spans[h.span].records = recs,
                     !.spans[h.span].pending = old.pending - 1], L)
  BY <1>1
<1>4. QED
  BY <1>2, <1>3

LEMMA AbandonSame ==
    ASSUME NEW L, Shaped(L), NEW h
    PROVE  Same(Abandon(L, h), L)
<1>1. Same(Settle(L, h), L) /\ Shaped(Settle(L, h))
  BY SettleSame, SameShaped
<1>2. Same(Unown(Settle(L, h), h.span, h.index), Settle(L, h))
  BY <1>1, UnownSame
<1>3. QED
  BY <1>1, <1>2, SameTrans, SameRefl DEF Abandon

LEMMA AbandonOpenResolveSame ==
    ASSUME NEW L, Shaped(L), NEW t
    PROVE  Same(AbandonOpenResolve(L, t), L)
<1> DEFINE M == [L EXCEPT !.openResolves[t] = NoHandle]
<1>1. Same(M, L) /\ Shaped(M)
  BY FieldNames, OtherField, SameShaped DEF Shaped
<1>2. Same(Abandon(M, L.openResolves[t]), M)
  BY <1>1, AbandonSame
<1>3. QED
  BY <1>1, <1>2, SameTrans DEF AbandonOpenResolve

LEMMA AdmitSame ==
    ASSUME NEW L, Shaped(L), NEW t, NEW allowHeld
    PROVE  Same(Admit(L, t, allowHeld), L)
<1>1. Same(FailAt(L, Back(L)), L)
  BY FailAtSame
<1>2. ASSUME NEW M, Same(M, L)
      PROVE  Same([M EXCEPT !.spans[Back(L)].thread = t], L)
  BY <1>2, FieldNames, SpanFieldNames DEF Same, Kept, Live
<1>3. QED
  BY <1>1, <1>2, SameRefl DEF Admit

LEMMA AppendRecordsSame ==
    ASSUME NEW L, Shaped(L), NEW recs
    PROVE  Same(AppendRecords(L, recs), L)
<1>1. ASSUME NEW work
      PROVE  Same([L EXCEPT !.spans[Back(L)].records = @ \o recs,
                            !.epochWork = work], L)
  BY FieldNames, SpanFieldNames DEF Same, Kept, Shaped
<1>2. QED
  BY <1>1, Zenon DEF AppendRecords

LEMMA RecordOnSame ==
    ASSUME NEW L, Shaped(L), NEW t, NEW r
    PROVE  Same(RecordOn(L, t, r), L)
<1> DEFINE A == AbandonOpenResolve(L, t)
<1> DEFINE B == Admit(A, t, FALSE)
<1> HIDE DEF A, B
<1>1. Same(A, L) /\ Shaped(A)
  BY AbandonOpenResolveSame, SameShaped DEF A
<1>2. Same(B, A) /\ Shaped(B)
  BY <1>1, AdmitSame, SameShaped DEF B
<1>3. Same(AppendRecords(B, <<r>>), B)
  BY <1>2, AppendRecordsSame
<1>4. QED
  BY <1>1, <1>2, <1>3, SameTrans DEF RecordOn, A, B

LEMMA CheckIdentitySame ==
    ASSUME NEW L, Shaped(L), NEW block
    PROVE  Same(CheckIdentity(L, block), L)
BY FailAtSame, SameRefl DEF CheckIdentity

LEMMA SettleDrawSame ==
    ASSUME NEW L, Shaped(L), NEW id, NEW i, NEW sequence, NEW verdict
    PROVE  Same(SettleDraw(L, id, i, sequence, verdict), L)
<1> DEFINE M == [L EXCEPT !.spans[id].records[i].mark = sequence]
<1>1. Same(M, L)
  BY FieldNames, SpanFieldNames DEF Same, Kept, Shaped
<1>2. Shaped(M)
  BY <1>1, SameShaped
<1> HIDE DEF M
<1>3. Same(Unown(M, id, i), M)
  BY <1>2, UnownSame
<1>4. ASSUME NEW m
      PROVE  Same([M EXCEPT !.spans[id].lastAdmitted = m], M)
  BY <1>2, FieldNames, SpanFieldNames DEF Same, Kept, Shaped
<1>5. Same([M EXCEPT !.spans[id].partial = TRUE, !.epochPartial = TRUE], M)
  BY <1>2, FieldNames, SpanFieldNames DEF Same, Kept, Shaped
<1>6. QED
  BY <1>1, <1>3, <1>4, <1>5, SameTrans DEF SettleDraw, M

LEMMA SwapSettlesKept ==
    ASSUME NEW L, Shaped(L), NEW id \in Live(L), NEW front
    PROVE  Kept(SwapSettles(L, id, front), L.spans[id])
<1>1. ASSUME NEW recs, NEW pending, NEW last, NEW unowned, NEW partial
      PROVE  Kept([L.spans[id] EXCEPT !.records = recs, !.pending = pending,
                                      !.lastAdmitted = last,
                                      !.unowned = unowned,
                                      !.partial = partial], L.spans[id])
  BY SpanFieldNames DEF Kept, Shaped
<1>2. QED
  BY <1>1, Zenon DEF SwapSettles

LEMMA SettleFrontbuffersSame ==
    ASSUME NEW L, Shaped(L), NEW front
    PROVE  Same(SettleFrontbuffers(L, front), L)
<1>1. ASSUME NEW partial
      PROVE  Same([L EXCEPT !.spans = [id \in Live(L) |-> SwapSettles(L, id, front)],
                            !.frontbuffer = {},
                            !.epochPartial = partial], L)
  BY SwapSettlesKept, FieldNames DEF Same, Shaped
<1>2. ASSUME NEW M, Same(M, L), NEW id
      PROVE  Same(FailAt(M, id), L)
  BY <1>2, SameShaped, FailAtSame, SameTrans
<1>3. QED
  BY <1>1, <1>2 DEF SettleFrontbuffers

LEMMA AttachHeldSame ==
    ASSUME NEW L, Shaped(L), NEW segment
    PROVE  Same(AttachHeld(L, segment), L)
<1> DEFINE M == AppendRecords(L, L.held[segment])
<1>1. Same(M, L)
  BY AppendRecordsSame
<1> HIDE DEF M
<1>2. ASSUME NEW held, NEW heldList, NEW list
      PROVE  Same([M EXCEPT !.held[segment] = held,
                            !.heldList[segment] = heldList,
                            !.spans[Back(L)].startsList = list], L)
  BY <1>1, FieldNames, SpanFieldNames DEF Same, Kept, Live
<1>3. QED
  BY <1>2, Zenon DEF AttachHeld, M

LEMMA StartListSame ==
    ASSUME NEW L, Shaped(L), NEW id
    PROVE  Same(StartList(L, id), L)
BY FieldNames, SameRefl, OtherField DEF StartList, Shaped

LEMMA SubmittedSame ==
    ASSUME NEW L, Shaped(L), NEW t, NEW segment, NEW size, NEW worker
    PROVE  Same(Submitted(L, t, segment, size, worker), L)
<1>1. ASSUME NEW p
      PROVE  Same([L EXCEPT !.pendingSubmit[t] = p], L)
  BY FieldNames, OtherField DEF Shaped
<1>2. QED
  BY <1>1, FailAtSame, Zenon DEF Submitted

-----------------------------------------------------------------------------
(* The window with its open span at the back. *)

OpenAtBack(L) ==
    \A id \in Live(L) :
        LET span == L.spans[id]
        IN  IF id = Back(L)
            THEN ~Closed(span) /\ span.deferred = NoSegment
                 /\ span.applied = 0 /\ ~span.flushed
            ELSE Closed(span) \/ span.deferred # NoSegment

Window(L) == Shaped(L) /\ L.oldest < L.nextSpan /\ OpenAtBack(L)

\* M is L after an operation of a guest thread.
Grown(M, L) ==
    /\ Window(M)
    /\ M.oldest = L.oldest /\ M.closed = L.closed
    /\ M.nextSpan \in {L.nextSpan, L.nextSpan + 1}

LEMMA SameWindow ==
    ASSUME NEW L, Window(L), NEW M, Same(M, L)
    PROVE  Grown(M, L) /\ Window(M)
<1>1. Shaped(M)
  BY SameShaped DEF Window
<1>2. OpenAtBack(M)
  BY DEF Same, Kept, Window, OpenAtBack, Live, Back, Closed
<1>3. QED
  BY <1>1, <1>2 DEF Grown, Same, Window

LEMMA OpenSpanWindow ==
    ASSUME NEW L, Shaped(L), NEW M, M = OpenSpan(L),
           L.oldest <= L.nextSpan,
           \A id \in Live(L) : Closed(L.spans[id])
                               \/ L.spans[id].deferred # NoSegment
    PROVE  /\ Window(M)
           /\ M.oldest = L.oldest /\ M.closed = L.closed
           /\ M.nextSpan = L.nextSpan + 1
<1>1. /\ DOMAIN M = Fields /\ M.kicks = L.kicks
      /\ M.oldest = L.oldest /\ M.closed = L.closed
      /\ M.nextSpan = L.nextSpan + 1
      /\ M.spans = [id \in L.oldest .. L.nextSpan |->
                       IF id = L.nextSpan THEN EmptySpan ELSE L.spans[id]]
  BY FieldNames DEF OpenSpan, Shaped
<1>2. /\ DOMAIN EmptySpan = SpanFields
      /\ ~Closed(EmptySpan) /\ EmptySpan.deferred = NoSegment
      /\ EmptySpan.applied = 0 /\ ~EmptySpan.flushed
  BY DEF EmptySpan, SpanFields, Closed
<1>3. Live(M) = L.oldest .. L.nextSpan /\ Back(M) = L.nextSpan
  BY <1>1 DEF Live, Back, Shaped
<1>4. Shaped(M)
  BY <1>1, <1>2, <1>3 DEF Shaped, Live
<1>5. OpenAtBack(M)
  BY <1>1, <1>2, <1>3 DEF OpenAtBack, Live, Shaped
<1>6. M.oldest < M.nextSpan
  BY <1>1 DEF Shaped
<1>7. QED
  BY <1>1, <1>4, <1>5, <1>6 DEF Window

\* The open span closes or is deferred, and another one opens.
LEMMA CloseGrown ==
    ASSUME NEW L, Window(L), NEW N, Shaped(N),
           N.oldest = L.oldest, N.nextSpan = L.nextSpan, N.closed = L.closed,
           Closed(N.spans[Back(L)]) \/ N.spans[Back(L)].deferred # NoSegment,
           \A id \in Live(L) : id # Back(L) => Kept(N.spans[id], L.spans[id])
    PROVE  Grown(OpenSpan(N), L)
<1>1. \A id \in Live(N) : Closed(N.spans[id]) \/ N.spans[id].deferred # NoSegment
  BY DEF Window, OpenAtBack, Kept, Live, Closed
<1>2. N.oldest <= N.nextSpan
  BY DEF Window, Shaped
<1>3. QED
  BY <1>1, <1>2, OpenSpanWindow DEF Grown

\* A set of span ids has an oldest one.
LEMMA OldestExists ==
    ASSUME NEW ids, ids \subseteq Nat, ids # {}
    PROVE  \E id \in ids : \A other \in ids : id <= other
<1> DEFINE less == OpToRel(<, Nat)
<1>1. \E id \in ids : \A other \in ids : <<other, id>> \notin less
  BY NatLessThanWellFounded, WFMin
<1>2. \A m, n \in Nat : m < n => <<m, n>> \in less
  BY DEF OpToRel
<1> HIDE DEF less
<1>3. PICK id \in ids : \A other \in ids : <<other, id>> \notin less
  BY <1>1
<1>4. \A other \in ids : ~(other < id)
  BY <1>2, <1>3
<1>5. QED
  BY <1>4

LEMMA WorkerKickGrown ==
    ASSUME NEW L, Window(L), L.kicks # 0, NEW p
    PROVE  Grown(WorkerKick(L, p), L)
<1>1. Shaped(L)
  BY DEF Window
<1>2. ASSUME NEW id
      PROVE  Grown(FailAt(L, id), L)
  BY <1>1, FailAtSame, SameWindow
<1>3. Grown([L EXCEPT !.replayPointer = L.kicks], L)
  BY <1>1, FieldNames, OtherField, SameWindow DEF Shaped
<1>4. ASSUME NEW id \in Unsubmitted(L)
      PROVE  Grown(StartList([L EXCEPT !.spans[id].kicked = L.kicks], id), L)
  <2> DEFINE M == [L EXCEPT !.spans[id].kicked = L.kicks]
  <2>1. Shaped(M)
    BY <1>1, FieldNames, SpanFieldNames DEF Shaped, Live
  <2>2. /\ M.oldest = L.oldest /\ M.nextSpan = L.nextSpan
        /\ M.closed = L.closed
        /\ id \in Live(L) /\ Closed(M.spans[id])
        /\ \A other \in Live(L) : other # id => M.spans[other] = L.spans[other]
    BY <1>1, FieldNames, SpanFieldNames DEF Shaped, Unsubmitted, Closed
  <2>3. id # Back(L)
    BY DEF Window, OpenAtBack, Unsubmitted
  <2>4. OpenAtBack(M)
    BY <2>2, <2>3 DEF Window, OpenAtBack, Live, Back
  <2>5. Window(M)
    BY <2>1, <2>2, <2>4 DEF Window
  <2> HIDE DEF M
  <2>6. Same(StartList(M, id), M)
    BY <2>1, StartListSame
  <2>7. Grown(StartList(M, id), L)
    BY <2>2, <2>5, <2>6, SameWindow DEF Grown
  <2>8. QED
    BY <2>7 DEF M
<1>5. Unsubmitted(L) # {} => OldestOf(Unsubmitted(L)) \in Unsubmitted(L)
  <2>1. Unsubmitted(L) \subseteq Nat
    BY <1>1 DEF Unsubmitted, Live, Shaped
  <2>2. QED
    BY <2>1, OldestExists DEF OldestOf
<1>6. QED
  BY <1>2, <1>3, <1>4, <1>5 DEF WorkerKick

-----------------------------------------------------------------------------
(* Guest threads and the host, against Pump.                               *)

\* An operation under `mutex' that at most extends the window.
Calls ==
    /\ MutexFree
    /\ Grown(ledger', ledger)
    /\ UNCHANGED <<gate, pump, effect>>

-----------------------------------------------------------------------------
(* Every operation of a guest thread is such a call. *)

LEMMA RecordCalls ==
    ASSUME Window(ledger), NEW t, NEW r, Enter, Rest,
           ledger' = RecordOn(ledger, t, r)
    PROVE  Calls
BY RecordOnSame, SameWindow DEF Calls, Window, Enter, Rest

LEMMA SameCalls ==
    ASSUME Window(ledger), MutexFree, Rest, NEW M, ledger' = M, Same(M, ledger)
    PROVE  Calls
BY SameWindow DEF Calls, Rest

LEMMA FenceCalls ==
    ASSUME Window(ledger), NEW t, NEW block, Fence(t, block)
    PROVE  Calls
<1> DEFINE r == FenceRecord(t, block, clock')
<1>1. Shaped(ledger)
  BY DEF Window
<1>2. Same(RecordOn(ledger, t, r), ledger)
  BY <1>1, RecordOnSame
<1>3. Same(CheckIdentity(RecordOn(ledger, t, r), block), ledger)
  BY <1>1, <1>2, SameShaped, CheckIdentitySame, SameTrans
<1>4. QED
  BY <1>3, SameCalls DEF Fence, Enter

LEMMA ProgressCalls ==
    ASSUME Window(ledger), NEW t, ProgressOps(t)
    PROVE  Calls
<1>1. CASE InvalidateState(t) \/ Barrier(t)
  BY <1>1, RecordCalls DEF InvalidateState, Barrier, Inert
<1>2. CASE ScratchWrite(t)
  BY <1>2, RecordCalls DEF ScratchWrite
<1>3. CASE \E word \in {0, 1} : GpuWait(t, word)
  BY <1>3, RecordCalls DEF GpuWait
<1>4. CASE \E block \in Blocks : Fence(t, block)
  BY <1>4, FenceCalls
<1>5. CASE \E flags \in CallbackFlags : Callback(t, flags)
  BY <1>5, RecordCalls DEF Callback
<1>6. QED
  BY <1>1, <1>2, <1>3, <1>4, <1>5 DEF ProgressOps

\* A record that is unowned at once.
LEMMA UnownedRecordSame ==
    ASSUME Window(ledger), NEW t, NEW r, NEW i
    PROVE  LET L == RecordOn(ledger, t, r)
           IN  Same(Unown(L, Back(L), i), ledger)
<1> DEFINE L == RecordOn(ledger, t, r)
<1>1. Same(L, ledger) /\ Shaped(L)
  BY RecordOnSame, SameShaped DEF Window
<1> HIDE DEF L
<1>2. Same(Unown(L, Back(L), i), ledger)
  BY <1>1, UnownSame, SameTrans
<1>3. QED
  BY <1>2 DEF L

\* The admission of a thread without a record.
LEMMA AdmittedSame ==
    ASSUME Window(ledger), NEW t, NEW allowHeld
    PROVE  LET L == Admit(AbandonOpenResolve(ledger, t), t, allowHeld)
           IN  Same(L, ledger) /\ Shaped(L)
<1> DEFINE A == AbandonOpenResolve(ledger, t)
<1>1. Same(A, ledger) /\ Shaped(A)
  BY AbandonOpenResolveSame, SameShaped DEF Window
<1> HIDE DEF A
<1>2. Same(Admit(A, t, allowHeld), ledger)
  BY <1>1, AdmitSame, SameTrans
<1>3. Shaped(Admit(A, t, allowHeld))
  BY <1>1, AdmitSame, SameShaped
<1>4. QED
  BY <1>2, <1>3 DEF A

LEMMA UnmodeledCalls ==
    ASSUME Window(ledger), NEW t, UnmodeledOps(t)
    PROVE  Calls
<1>1. CASE Unmodeled(t)
  BY <1>1, UnownedRecordSame, SameCalls, Zenon DEF Unmodeled, Enter
<1>2. CASE BadTimestamp(t)
  <2> DEFINE L == Admit(AbandonOpenResolve(ledger, t), t, FALSE)
  <2>1. Same(L, ledger) /\ Shaped(L)
    BY AdmittedSame
  <2> HIDE DEF L
  <2>2. Same(FailAt(L, Back(L)), ledger)
    BY <2>1, FailAtSame, SameTrans
  <2>3. QED
    BY <1>2, <2>2, SameCalls DEF BadTimestamp, Enter, L
<1>3. CASE \E flags \in CallbackFlags : ForeignCallback(t, flags)
  BY <1>3, UnownedRecordSame, SameCalls, Zenon DEF ForeignCallback, Enter
<1>4. QED
  BY <1>1, <1>2, <1>3 DEF UnmodeledOps

LEMMA BeginDrawCalls ==
    ASSUME Window(ledger), NEW t, NEW site, BeginDraw(t, site)
    PROVE  Calls
<1> DEFINE A == AbandonOpenResolve(ledger, t)
<1> DEFINE B == [A EXCEPT !.openDraws[t] = NoHandle]
<1> DEFINE C == Abandon(B, A.openDraws[t])
<1> DEFINE D == Admit(C, t, FALSE)
<1> DEFINE M == AppendRecords(D, <<[NewRecord("Draw", t) EXCEPT
                                      !.value = site, !.pending = TRUE]>>)
<1> DEFINE b == Back(M)
<1>1. ledger' = [M EXCEPT !.spans[b].pending = @ + 1,
                          !.openDraws[t] = [span |-> b,
                                            index |-> Len(M.spans[b].records)]]
  BY DEF BeginDraw
<1>2. Same(A, ledger) /\ Shaped(A)
  BY AbandonOpenResolveSame, SameShaped DEF Window
<1> HIDE DEF A
<1>3. Same(B, ledger) /\ Shaped(B)
  BY <1>2, FieldNames, OtherField, SameShaped, SameTrans DEF Shaped
<1> HIDE DEF B
<1>4. Same(C, ledger) /\ Shaped(C)
  BY <1>3, AbandonSame, SameShaped, SameTrans
<1> HIDE DEF C
<1>5. Same(D, ledger) /\ Shaped(D)
  BY <1>4, AdmitSame, SameShaped, SameTrans
<1> HIDE DEF D
<1>6. Same(M, ledger) /\ Shaped(M)
  BY <1>5, AppendRecordsSame, SameShaped, SameTrans
<1> HIDE DEF M, b
<1>7. Same(ledger', M)
  BY <1>1, <1>6, FieldNames, SpanFieldNames DEF Same, Kept, Shaped
<1>8. QED
  BY <1>6, <1>7, SameTrans, SameCalls DEF BeginDraw, Enter

LEMMA FinishDrawCalls ==
    ASSUME Window(ledger), NEW t, NEW site, NEW verdict,
           FinishDraw(t, site, verdict)
    PROVE  Calls
<1> DEFINE A == AbandonOpenResolve(ledger, t)
<1> DEFINE h == A.openDraws[t]
<1> DEFINE L == [A EXCEPT !.openDraws[t] = NoHandle]
<1> DEFINE C == Abandon(L, h)
<1> DEFINE D == Admit(C, t, FALSE)
<1> DEFINE M == AppendRecords(D, <<[NewRecord("Draw", t) EXCEPT !.value = site]>>)
<1>1. \/ ledger' = SettleDraw(Settle(L, h), h.span, h.index, clock', verdict)
      \/ ledger' = SettleDraw(M, Back(M), Len(M.spans[Back(M)].records),
                              clock', verdict)
  BY DEF FinishDraw
<1>2. Same(A, ledger) /\ Shaped(A)
  BY AbandonOpenResolveSame, SameShaped DEF Window
<1> HIDE DEF A
<1>3. Same(L, ledger) /\ Shaped(L)
  BY <1>2, FieldNames, OtherField, SameShaped, SameTrans DEF Shaped
<1> HIDE DEF L, h
<1>4. Same(Settle(L, h), ledger) /\ Shaped(Settle(L, h))
  BY <1>3, SettleSame, SameShaped, SameTrans
<1>5. Same(C, ledger) /\ Shaped(C)
  BY <1>3, AbandonSame, SameShaped, SameTrans
<1> HIDE DEF C
<1>6. Same(D, ledger) /\ Shaped(D)
  BY <1>5, AdmitSame, SameShaped, SameTrans
<1> HIDE DEF D
<1>7. Same(M, ledger) /\ Shaped(M)
  BY <1>6, AppendRecordsSame, SameShaped, SameTrans
<1> HIDE DEF M
<1>8. Same(ledger', ledger)
  BY <1>1, <1>4, <1>7, SettleDrawSame, SameTrans
<1>9. QED
  BY <1>8, SameCalls DEF FinishDraw, Enter

LEMMA DrawCalls ==
    ASSUME Window(ledger), NEW t, DrawOps(t)
    PROVE  Calls
<1>1. CASE DetachDraw(t)
  <2>1. Same([ledger EXCEPT !.openDraws[t] = NoHandle], ledger)
    BY FieldNames, OtherField DEF Shaped, Window
  <2>2. QED
    BY <1>1, <2>1, SameCalls DEF DetachDraw
<1>2. QED
  BY <1>1, BeginDrawCalls, FinishDrawCalls DEF DrawOps

\* A verdict that comes from another thread, or on a torn-down session.
LEMMA DetachedCalls ==
    ASSUME Window(ledger), DetachedOps
    PROVE  Calls
<1>1. Shaped(ledger)
  BY DEF Window
<1>2. ASSUME NEW h, NEW settled, Same(settled, ledger)
      PROVE  Same(Detached(h, settled), ledger)
  BY <1>1, <1>2, SettleSame, SameRefl DEF Detached
<1>3. ASSUME NEW h, NEW site, NEW verdict, FinishDetached(h, site, verdict)
      PROVE  Calls
  <2>1. Same(Settle(ledger, h), ledger) /\ Shaped(Settle(ledger, h))
    BY <1>1, SettleSame, SameShaped
  <2>2. Same(SettleDraw(Settle(ledger, h), h.span, h.index, clock', verdict),
             ledger)
    BY <2>1, SettleDrawSame, SameTrans
  <2>3. Same(Abandon(ledger, h), ledger)
    BY <1>1, AbandonSame
  <2>4. QED
    BY <1>2, <1>3, <2>2, <2>3, SameCalls DEF FinishDetached
<1>4. ASSUME NEW h, AbandonDraw(h)
      PROVE  Calls
  BY <1>1, <1>2, <1>4, AbandonSame, SameCalls DEF AbandonDraw
<1>5. QED
  BY <1>3, <1>4 DEF DetachedOps

LEMMA ResolveCalls ==
    ASSUME Window(ledger), NEW t, ResolveOps(t)
    PROVE  Calls
<1>1. ASSUME NEW dest, Resolve(t, dest)
      PROVE  Calls
  <2> DEFINE M == RecordOn(ledger, t, [NewRecord("Resolve", t) EXCEPT
                                         !.value = dest, !.pending = TRUE])
  <2> DEFINE b == Back(M)
  <2>1. ledger' = [M EXCEPT !.spans[b].pending = @ + 1,
                            !.openResolves[t] =
                               [span |-> b,
                                index |-> Len(M.spans[b].records)]]
    BY <1>1 DEF Resolve
  <2>2. Same(M, ledger) /\ Shaped(M)
    BY RecordOnSame, SameShaped DEF Window
  <2> HIDE DEF M, b
  <2>3. Same(ledger', M)
    BY <2>1, <2>2, FieldNames, SpanFieldNames DEF Same, Kept, Shaped
  <2>4. QED
    BY <1>1, <2>2, <2>3, SameTrans, SameCalls DEF Resolve, Enter
<1>2. ASSUME NEW outcome, FinishResolve(t, outcome)
      PROVE  Calls
  <2> DEFINE h == ledger.openResolves[t]
  <2> DEFINE L == [ledger EXCEPT !.openResolves[t] = NoHandle]
  <2> DEFINE mark == IF outcome = "no mark" THEN 0 ELSE clock'
  <2> DEFINE M == [L EXCEPT !.spans[h.span].records[h.index].mark = mark]
  <2> DEFINE S == Settle(M, h)
  <2>1. \/ ledger' = L
        \/ ledger' = [M EXCEPT !.frontbuffer = @ \cup {h}]
        \/ ledger' = [S EXCEPT !.spans[h.span].lastAdmitted = MaxOf(@, mark)]
        \/ ledger' = Unown(S, h.span, h.index)
    BY <1>2 DEF FinishResolve
  <2>2. Same(L, ledger) /\ Shaped(L)
    BY FieldNames, OtherField, SameShaped DEF Shaped, Window
  <2> HIDE DEF L, h, mark
  <2>3. Same(M, L)
    BY <2>2, FieldNames, SpanFieldNames DEF Same, Kept, Shaped
  <2>4. Same(M, ledger) /\ Shaped(M)
    BY <2>2, <2>3, SameTrans, SameShaped
  <2> HIDE DEF M
  <2>5. Same([M EXCEPT !.frontbuffer = @ \cup {h}], M)
    BY <2>4, FieldNames, OtherField DEF Shaped
  <2>6. Same(S, ledger) /\ Shaped(S)
    BY <2>4, SettleSame, SameTrans, SameShaped
  <2> HIDE DEF S
  <2>7. ASSUME NEW m
        PROVE  Same([S EXCEPT !.spans[h.span].lastAdmitted = m], S)
    BY <2>6, FieldNames, SpanFieldNames DEF Same, Kept, Shaped
  <2>8. Same(ledger', ledger)
    BY <2>1, <2>2, <2>4, <2>5, <2>6, <2>7, UnownSame, SameTrans
  <2>9. QED
    BY <1>2, <2>8, SameCalls DEF FinishResolve, Enter
<1>3. QED
  BY <1>1, <1>2 DEF ResolveOps

LEMMA FrameCalls ==
    ASSUME Window(ledger), NEW t, FrameOps(t)
    PROVE  Calls
<1>1. ASSUME NEW admitted, Clear(t, admitted)
      PROVE  Calls
  <2> DEFINE L == RecordOn(ledger, t, [NewRecord("Clear", t) EXCEPT
                                         !.mark = clock'])
  <2> DEFINE b == Back(L)
  <2>1. \/ ledger' = [L EXCEPT !.spans[b].lastAdmitted = MaxOf(@, clock')]
        \/ ledger' = [L EXCEPT !.spans[b].partial = TRUE,
                               !.epochPartial = TRUE]
        \/ ledger' = Unown(L, b, Len(L.spans[b].records))
    BY <1>1 DEF Clear
  <2>2. Same(L, ledger) /\ Shaped(L)
    BY RecordOnSame, SameShaped DEF Window
  <2> HIDE DEF L, b
  <2>3. ASSUME NEW m
        PROVE  Same([L EXCEPT !.spans[b].lastAdmitted = m], L)
    BY <2>2, FieldNames, SpanFieldNames DEF Same, Kept, Shaped
  <2>4. Same([L EXCEPT !.spans[b].partial = TRUE, !.epochPartial = TRUE], L)
    BY <2>2, FieldNames, SpanFieldNames DEF Same, Kept, Shaped
  <2>5. Same(ledger', ledger)
    BY <2>1, <2>2, <2>3, <2>4, UnownSame, SameTrans
  <2>6. QED
    BY <1>1, <2>5, SameCalls DEF Clear, Enter
<1>2. ASSUME NEW front, Swap(t, front)
      PROVE  Calls
  <2> DEFINE A == AbandonOpenResolve(ledger, t)
  <2> DEFINE B == IF SideHeld(A) \/ A.heldFirst # <<>>
                  THEN FailAt(A, Back(A)) ELSE A
  <2> DEFINE C == AppendRecords(Admit(B, t, FALSE),
                     <<[NewRecord("Swap", t) EXCEPT !.value = front]>>)
  <2> DEFINE D == SettleFrontbuffers(C, front)
  <2>1. ledger' = [D EXCEPT !.epochWork = FALSE, !.epochPartial = FALSE,
                            !.ownerSwapSawSwap = @ \/ D.ownerSwapThread = t]
    BY <1>2 DEF Swap
  <2>2. Same(A, ledger) /\ Shaped(A)
    BY AbandonOpenResolveSame, SameShaped DEF Window
  <2> HIDE DEF A
  <2>3. Same(B, ledger) /\ Shaped(B)
    BY <2>2, FailAtSame, SameTrans, SameShaped
  <2> HIDE DEF B
  <2>4. Same(Admit(B, t, FALSE), ledger) /\ Shaped(Admit(B, t, FALSE))
    BY <2>3, AdmitSame, SameTrans, SameShaped
  <2>5. Same(C, ledger) /\ Shaped(C)
    BY <2>4, AppendRecordsSame, SameTrans, SameShaped
  <2> HIDE DEF C
  <2>6. Same(D, ledger) /\ Shaped(D)
    BY <2>5, SettleFrontbuffersSame, SameTrans, SameShaped
  <2> HIDE DEF D
  <2>7. ASSUME NEW saw
        PROVE  Same([D EXCEPT !.epochWork = FALSE, !.epochPartial = FALSE,
                              !.ownerSwapSawSwap = saw], D)
    BY <2>6, FieldNames, OtherField DEF Shaped
  <2>8. Same(ledger', ledger)
    BY <2>1, <2>6, <2>7, SameTrans, Zenon
  <2>9. QED
    BY <1>2, <2>8, SameCalls DEF Swap, Enter
<1>3. QED
  BY <1>1, <1>2 DEF FrameOps

\* A change of the ledger's other fields, or a failure.
LEMMA OtherCalls ==
    ASSUME Window(ledger), MutexFree, Rest,
           NEW M, DOMAIN M = Fields,
           M.oldest = ledger.oldest, M.nextSpan = ledger.nextSpan,
           M.kicks = ledger.kicks, M.closed = ledger.closed,
           M.spans = ledger.spans, NEW id,
           ledger' \in {M, FailAt(M, id)}
    PROVE  Calls
<1>1. Same(M, ledger) /\ Shaped(M)
  BY OtherField, SameShaped DEF Window
<1>2. Same(FailAt(M, id), ledger)
  BY <1>1, FailAtSame, SameTrans
<1>3. QED
  BY <1>1, <1>2, SameCalls

\* The thread is admitted and the records of its segment join the span.
LEMMA AttachedSame ==
    ASSUME NEW L, Shaped(L), NEW t, NEW segment
    PROVE  LET M == AttachHeld(Admit(AbandonOpenResolve(L, t), t, TRUE), segment)
           IN  Same(M, L) /\ Shaped(M)
<1> DEFINE A == AbandonOpenResolve(L, t)
<1> DEFINE B == Admit(A, t, TRUE)
<1>1. Same(A, L) /\ Shaped(A)
  BY AbandonOpenResolveSame, SameShaped
<1> HIDE DEF A
<1>2. Same(B, L) /\ Shaped(B)
  BY <1>1, AdmitSame, SameShaped, SameTrans
<1> HIDE DEF B
<1>3. Same(AttachHeld(B, segment), L) /\ Shaped(AttachHeld(B, segment))
  BY <1>2, AttachHeldSame, SameShaped, SameTrans
<1>4. QED
  BY <1>3 DEF A, B

LEMMA MainKickGrown ==
    ASSUME NEW L, Window(L), L.kicks # 0, NEW t, NEW submitted, NEW p
    PROVE  Grown(MainKick(L, t, submitted, p), L)
<1> DEFINE A == Admit(AbandonOpenResolve(L, t), t, TRUE)
<1> DEFINE b == Back(A)
<1> DEFINE M == IF submitted THEN AttachHeld(A, p.segment)
                ELSE IF SideHeld(A) THEN FailAt(A, b) ELSE A
<1> DEFINE K == [M EXCEPT !.spans[b].kicked = L.kicks]
<1> DEFINE N == StartList(K, b)
<1>1. MainKick(L, t, submitted, p) = OpenSpan(N)
  BY DEF MainKick
<1>2. Same(A, L) /\ Shaped(A)
  <2>1. Same(AbandonOpenResolve(L, t), L) /\ Shaped(AbandonOpenResolve(L, t))
    BY AbandonOpenResolveSame, SameShaped DEF Window
  <2>2. QED
    BY <2>1, AdmitSame, SameTrans, SameShaped
<1> HIDE DEF A
<1>3. b = Back(L) /\ b \in Live(L)
  BY <1>2 DEF Same, Back, Live, Window, Shaped
<1> HIDE DEF b
<1>4. Same(M, L) /\ Shaped(M)
  BY <1>2, AttachHeldSame, FailAtSame, SameTrans, SameShaped
<1> HIDE DEF M
<1>5. /\ Shaped(K)
      /\ K.oldest = L.oldest /\ K.nextSpan = L.nextSpan /\ K.closed = L.closed
      /\ K.spans[b].kicked = L.kicks
      /\ \A id \in Live(L) : id # b => Kept(K.spans[id], L.spans[id])
  BY <1>3, <1>4, FieldNames, SpanFieldNames DEF Same, Kept, Shaped, Live
<1> HIDE DEF K
<1>6. Same(N, K) /\ Shaped(N)
  BY <1>5, StartListSame, SameShaped
<1> HIDE DEF N
<1>7. /\ N.oldest = L.oldest /\ N.nextSpan = L.nextSpan /\ N.closed = L.closed
      /\ Live(K) = Live(L)
  BY <1>5, <1>6 DEF Same, Live
<1>8. Closed(N.spans[b])
  BY <1>3, <1>5, <1>6, <1>7 DEF Same, Kept, Closed
<1>9. \A id \in Live(L) : id # b => Kept(N.spans[id], L.spans[id])
  BY <1>5, <1>6, <1>7 DEF Same, Kept
<1>10. Grown(OpenSpan(N), L)
  BY <1>3, <1>6, <1>7, <1>8, <1>9, CloseGrown
<1>11. QED
  BY <1>1, <1>10

LEMMA KickCalls ==
    ASSUME Window(ledger), NEW t, Kick(t)
    PROVE  Calls
<1> DEFINE p == ledger.pendingSubmit[t]
<1> DEFINE submitted == HasPending(ledger, t)
<1> DEFINE L == [ledger EXCEPT !.kicks = @ + 1, !.pendingSubmit[t] = NoSubmit]
<1>1. \/ ledger' = WorkerKick(L, p)
      \/ ledger' = FailAt(L, Back(L))
      \/ ledger' = MainKick(L, t, submitted, p)
  BY DEF Kick
<1>2. /\ DOMAIN L = Fields /\ L.kicks = ledger.kicks + 1
      /\ L.oldest = ledger.oldest /\ L.nextSpan = ledger.nextSpan
      /\ L.closed = ledger.closed /\ L.spans = ledger.spans
  BY FieldNames DEF Window, Shaped
<1> HIDE DEF L, p, submitted
<1>3. Window(L) /\ L.kicks # 0
  <2>1. Shaped(L) /\ L.kicks # 0
    BY <1>2 DEF Window, Shaped, Live
  <2>2. QED
    BY <1>2, <2>1 DEF Window, OpenAtBack, Live, Back
<1>4. Grown(ledger', L)
  <2>1. Grown(FailAt(L, Back(L)), L)
    BY <1>3, FailAtSame, SameWindow DEF Window
  <2>2. QED
    BY <1>1, <1>3, <2>1, WorkerKickGrown, MainKickGrown
<1>5. Grown(ledger', ledger)
  BY <1>2, <1>4 DEF Grown
<1>6. QED
  BY <1>5 DEF Calls, Kick, Enter, LedgerOnly, Rest

LEMMA SubmittedCalls ==
    ASSUME Window(ledger), NEW t, NEW s, NEW n,
           DirectSubmit(t, s, n) \/ ReplaySubmit(t, s, n)
    PROVE  Calls
<1>1. Shaped(ledger)
  BY DEF Window
<1>2. CASE DirectSubmit(t, s, n)
  BY <1>1, <1>2, SubmittedSame, FailAtSame, SameCalls
     DEF DirectSubmit, Unreplayed, Enter, LedgerOnly
<1>3. CASE ReplaySubmit(t, s, n)
  <2> DEFINE L == [ledger EXCEPT !.replay = @ \cup {t}]
  <2>1. Same(L, ledger) /\ Shaped(L)
    BY <1>1, FieldNames, OtherField, SameShaped DEF Shaped
  <2> HIDE DEF L
  <2>2. Same(Submitted(L, t, s, n, TRUE), ledger)
    BY <2>1, SubmittedSame, SameTrans
  <2>3. QED
    BY <1>3, <2>2, SameCalls DEF ReplaySubmit, Enter, LedgerOnly, L
<1>4. QED
  BY <1>2, <1>3

LEMMA SilentCalls ==
    ASSUME Window(ledger), NEW t, SilentSubmit(t)
    PROVE  Calls
<1> DEFINE p == ledger.pendingSubmit[t]
<1> DEFINE L == [ledger EXCEPT !.pendingSubmit[t] = NoSubmit]
<1> DEFINE M == AttachHeld(Admit(AbandonOpenResolve(L, t), t, TRUE), p.segment)
<1> DEFINE b == Back(M)
<1> DEFINE K == [M EXCEPT !.spans[b].sealed = TRUE]
<1> DEFINE N == StartList(K, b)
<1>1. ledger' = M \/ ledger' = OpenSpan(N)
  BY DEF SilentSubmit
<1>2. Same(L, ledger) /\ Shaped(L)
  BY FieldNames, OtherField, SameShaped DEF Shaped, Window
<1> HIDE DEF L, p
<1>3. Same(M, ledger) /\ Shaped(M)
  BY <1>2, AttachedSame, SameTrans
<1> HIDE DEF M
<1>4. b = Back(ledger) /\ b \in Live(ledger)
  BY <1>3 DEF Same, Back, Live, Window, Shaped
<1> HIDE DEF b
<1>5. /\ Shaped(K)
      /\ K.oldest = ledger.oldest /\ K.nextSpan = ledger.nextSpan
      /\ K.closed = ledger.closed
      /\ K.spans[b].sealed
      /\ \A id \in Live(ledger) : id # b => Kept(K.spans[id], ledger.spans[id])
  BY <1>3, <1>4, FieldNames, SpanFieldNames DEF Same, Kept, Shaped, Live
<1> HIDE DEF K
<1>6. Same(N, K) /\ Shaped(N)
  BY <1>5, StartListSame, SameShaped
<1> HIDE DEF N
<1>7. /\ N.oldest = ledger.oldest /\ N.nextSpan = ledger.nextSpan
      /\ N.closed = ledger.closed /\ Live(K) = Live(ledger)
  BY <1>5, <1>6 DEF Same, Live
<1>8. Closed(N.spans[b])
  BY <1>4, <1>5, <1>6, <1>7 DEF Same, Kept, Closed
<1>9. \A id \in Live(ledger) : id # b => Kept(N.spans[id], ledger.spans[id])
  BY <1>5, <1>6, <1>7 DEF Same, Kept
<1>10. Grown(OpenSpan(N), ledger)
  BY <1>4, <1>6, <1>7, <1>8, <1>9, CloseGrown
<1>11. Grown(ledger', ledger)
  BY <1>1, <1>3, <1>10, SameWindow
<1>12. QED
  BY <1>11 DEF Calls, SilentSubmit, Enter, LedgerOnly, Rest

LEMMA DeferCalls ==
    ASSUME Window(ledger), NEW t, NEW segment \in Segments, NEW size,
           Defer(t, segment, size)
    PROVE  Calls
<1> DEFINE M == AttachHeld(Admit(AbandonOpenResolve(ledger, t), t, TRUE), segment)
<1> DEFINE b == Back(M)
<1> DEFINE N == [M EXCEPT !.spans[b].deferred = segment,
                          !.spans[b].dwords = size]
<1>1. ledger' = OpenSpan(N) \/ ledger' = FailAt(ledger, Back(ledger))
  BY DEF Defer, Unreplayed
<1>2. Same(M, ledger) /\ Shaped(M)
  BY AttachedSame DEF Window
<1> HIDE DEF M
<1>3. b = Back(ledger) /\ b \in Live(ledger)
  BY <1>2 DEF Same, Back, Live, Window, Shaped
<1> HIDE DEF b
<1>4. /\ Shaped(N)
      /\ N.oldest = ledger.oldest /\ N.nextSpan = ledger.nextSpan
      /\ N.closed = ledger.closed
      /\ N.spans[b].deferred = segment
      /\ \A id \in Live(ledger) : id # b => Kept(N.spans[id], ledger.spans[id])
  BY <1>2, <1>3, FieldNames, SpanFieldNames DEF Same, Kept, Shaped, Live
<1> HIDE DEF N
<1>5. segment # NoSegment
  BY LedgerAssumption DEF LedgerAssumption
<1>6. Grown(OpenSpan(N), ledger)
  BY <1>3, <1>4, <1>5, CloseGrown
<1>7. Grown(FailAt(ledger, Back(ledger)), ledger)
  BY FailAtSame, SameWindow DEF Window
<1>8. QED
  BY <1>1, <1>6, <1>7 DEF Calls, Defer, Enter, LedgerOnly, Rest

\* Side buffers and lists.
LEMMA SideCalls ==
    ASSUME Window(ledger), NEW t, NEW s, NEW block, NEW flags,
           \/ SideFence(t, block, s)
           \/ SideCallback(t, flags, s)
           \/ FirstPassCallback(t, flags)
    PROVE  Calls
<1>1. CASE SideFence(t, block, s)
  <2> DEFINE L == Admit(AbandonOpenResolve(ledger, t), t, TRUE)
  <2> DEFINE M == [L EXCEPT !.held[s] =
                      @ \o <<NewRecord("InvalidateState", t),
                             FenceRecord(t, block, clock')>>]
  <2>1. Same(L, ledger) /\ Shaped(L)
    BY AdmittedSame
  <2> HIDE DEF L
  <2>2. Same(M, ledger) /\ Shaped(M)
    BY <2>1, FieldNames, OtherField, SameShaped, SameTrans DEF Shaped
  <2> HIDE DEF M
  <2>3. Same(CheckIdentity(M, block), ledger)
    BY <2>2, CheckIdentitySame, SameTrans
  <2>4. QED
    BY <1>1, <2>3, SameCalls DEF SideFence, Enter, M, L
<1>2. CASE SideCallback(t, flags, s)
  <2> DEFINE L == Admit(AbandonOpenResolve(ledger, t), t, FALSE)
  <2>1. Same(L, ledger) /\ Shaped(L)
    BY AdmittedSame
  <2> HIDE DEF L
  <2>2. ASSUME NEW held, NEW list
        PROVE  Same([L EXCEPT !.held[s] = held, !.heldList[s] = list,
                              !.heldFirst = <<>>], ledger)
    BY <2>1, FieldNames, OtherField, SameTrans DEF Shaped
  <2>3. PICK held, list : ledger' = [L EXCEPT !.held[s] = held,
                                              !.heldList[s] = list,
                                              !.heldFirst = <<>>]
    BY <1>2, Zenon DEF SideCallback, L
  <2>4. QED
    BY <1>2, <2>2, <2>3, SameCalls DEF SideCallback, Enter
<1>3. CASE FirstPassCallback(t, flags)
  <2> DEFINE L == Admit(AbandonOpenResolve(ledger, t), t, FALSE)
  <2>1. Same(L, ledger) /\ Shaped(L)
    BY AdmittedSame
  <2> HIDE DEF L
  <2>2. ASSUME NEW first
        PROVE  Same([L EXCEPT !.heldFirst = first], ledger)
    BY <2>1, FieldNames, OtherField, SameTrans DEF Shaped
  <2>3. QED
    BY <1>3, <2>2, SameCalls DEF FirstPassCallback, Enter, L
<1>4. QED
  BY <1>1, <1>2, <1>3

\* A change of one span's thread or of fields the window does not know of.
LEMMA ThreadCalls ==
    ASSUME Window(ledger), MutexFree, Rest,
           NEW M, DOMAIN M = Fields,
           M.oldest = ledger.oldest, M.nextSpan = ledger.nextSpan,
           M.kicks = ledger.kicks, M.closed = ledger.closed,
           M.spans = ledger.spans, NEW id, NEW t,
           ledger' = [M EXCEPT !.spans[id].thread = t]
    PROVE  Calls
<1>1. Same(M, ledger) /\ Shaped(M)
  BY OtherField, SameShaped DEF Window
<1>2. Same([M EXCEPT !.spans[id].thread = t], M)
  BY <1>1, FieldNames, SpanFieldNames DEF Same, Kept, Shaped
<1>3. QED
  BY <1>1, <1>2, SameTrans, SameCalls

LEMMA TileCalls ==
    ASSUME Window(ledger), NEW t, TileOps(t) \/ TiledProgress
    PROVE  Calls
<1>1. Shaped(ledger)
  BY DEF Window
<1>2. CASE BeginTiledList
  <2>1. ASSUME NEW lists
        PROVE  Same([ledger EXCEPT !.lists = lists, !.nextList = @ + 1], ledger)
    BY <1>1, FieldNames, OtherField DEF Shaped
  <2>2. QED
    BY <1>2, <2>1, SameCalls DEF BeginTiledList, Enter, LedgerOnly
<1>3. ASSUME NEW s, NEW n, TiledSegment(t, s, n)
      PROVE  Calls
  <2>1. ASSUME NEW list
        PROVE  Same([ledger EXCEPT !.lists[list][s] = n], ledger)
    BY <1>1, FieldNames, OtherField DEF Shaped
  <2>2. QED
    BY <1>1, <1>3, <2>1, FailAtSame, SameCalls
       DEF TiledSegment, Unreplayed, Enter, LedgerOnly
<1>4. CASE TiledProgress
  BY <1>1, <1>4, FailAtSame, SameCalls DEF TiledProgress, Enter, LedgerOnly
<1>5. QED
  BY <1>2, <1>3, <1>4, DeferCalls, SideCalls DEF TileOps

LEMMA DeviceCalls ==
    ASSUME Window(ledger), NEW t, DeviceOps(t) \/ MarkReplayThread(t)
    PROVE  Calls
<1>1. Shaped(ledger)
  BY DEF Window
<1> DEFINE b == Back(ledger)
<1>2. Same(FailAt(ledger, b), ledger) /\ Shaped(FailAt(ledger, b))
  BY <1>1, FailAtSame, SameShaped
<1>3. ASSUME NEW L, Same(L, ledger), NEW value
      PROVE  /\ Same([L EXCEPT !.suspended = value], ledger)
             /\ Same([L EXCEPT !.deviceOwner = value], ledger)
             /\ Same([L EXCEPT !.replay = value], ledger)
  BY <1>1, <1>3, SameShaped, FieldNames, OtherField, SameTrans DEF Shaped
<1>4. Same(ledger, ledger)
  BY <1>1, SameRefl
<1>5. CASE MarkReplayThread(t)
  BY <1>3, <1>4, <1>5, SameCalls DEF MarkReplayThread, LedgerOnly
<1>6. CASE Suspend \/ Resume
  BY <1>2, <1>3, <1>4, <1>6, SameCalls DEF Suspend, Resume, Enter, LedgerOnly
<1>7. CASE AcquireDevice(t)
  <2> DEFINE M == [ledger EXCEPT !.deviceOwner = t]
  <2>1. \/ ledger' \in {M, FailAt(ledger, b)}
        \/ ledger' = [M EXCEPT !.spans[b].thread = t]
    BY <1>7 DEF AcquireDevice
  <2>2. /\ DOMAIN M = Fields
        /\ M.oldest = ledger.oldest /\ M.nextSpan = ledger.nextSpan
        /\ M.kicks = ledger.kicks /\ M.closed = ledger.closed
        /\ M.spans = ledger.spans
    BY <1>1, FieldNames DEF Shaped
  <2>3. Same(M, ledger)
    BY <1>3, <1>4
  <2>4. MutexFree /\ Rest
    BY <1>7 DEF AcquireDevice, Enter, LedgerOnly
  <2> HIDE DEF M
  <2>5. CASE ledger' \in {M, FailAt(ledger, b)}
    BY <1>2, <2>3, <2>4, <2>5, SameCalls
  <2>6. CASE ledger' = [M EXCEPT !.spans[b].thread = t]
    BY <2>2, <2>4, <2>6, ThreadCalls
  <2>7. QED
    BY <2>1, <2>5, <2>6
<1>8. CASE ReleaseDevice(t)
  <2> DEFINE A == AbandonOpenResolve(ledger, t)
  <2>1. Same(A, ledger)
    BY <1>1, AbandonOpenResolveSame
  <2> HIDE DEF A
  <2>2. \E owner : ledger' = [A EXCEPT !.deviceOwner = owner]
    BY <1>8, Zenon DEF ReleaseDevice, A
  <2>3. QED
    BY <1>3, <1>8, <2>1, <2>2, SameCalls DEF ReleaseDevice, Enter, LedgerOnly
<1>9. CASE BeginDeviceOwnerSwap(t)
  <2> DEFINE M == [ledger EXCEPT !.ownerSwapThread = t,
                                 !.ownerSwapSawSwap = FALSE]
  <2>1. \/ ledger' = [M EXCEPT !.spans[b].thread = t]
        \/ ledger' = FailAt(ledger, b)
    BY <1>9 DEF BeginDeviceOwnerSwap
  <2>2. /\ DOMAIN M = Fields
        /\ M.oldest = ledger.oldest /\ M.nextSpan = ledger.nextSpan
        /\ M.kicks = ledger.kicks /\ M.closed = ledger.closed
        /\ M.spans = ledger.spans
    BY <1>1, FieldNames DEF Shaped
  <2> HIDE DEF M
  <2>3. QED
    BY <1>2, <1>9, <2>1, <2>2, SameCalls, ThreadCalls
       DEF BeginDeviceOwnerSwap, Enter, LedgerOnly
<1>10. CASE EndDeviceOwnerSwap(t)
  <2> DEFINE M == [ledger EXCEPT !.ownerSwapThread = NoThread]
  <2>1. \/ ledger' = [M EXCEPT !.spans[b].thread = NoThread]
        \/ ledger' = FailAt(ledger, b)
    BY <1>10 DEF EndDeviceOwnerSwap
  <2>2. /\ DOMAIN M = Fields
        /\ M.oldest = ledger.oldest /\ M.nextSpan = ledger.nextSpan
        /\ M.kicks = ledger.kicks /\ M.closed = ledger.closed
        /\ M.spans = ledger.spans
    BY <1>1, FieldNames DEF Shaped
  <2> HIDE DEF M
  <2>3. QED
    BY <1>2, <1>10, <2>1, <2>2, SameCalls, ThreadCalls
       DEF EndDeviceOwnerSwap, Enter, LedgerOnly
<1>11. QED
  BY <1>5, <1>6, <1>7, <1>8, <1>9, <1>10 DEF DeviceOps

LEMMA GuestCalls ==
    ASSUME Window(ledger), NEW t \in Threads, GuestOps(t)
    PROVE  Calls
BY ProgressCalls, UnmodeledCalls, DrawCalls, ResolveCalls, FrameCalls,
   KickCalls, SubmittedCalls, SilentCalls, TileCalls, DeviceCalls
   DEF GuestOps, SubmitOps, SilentOps, WorkerOps

\* Failures and the writeback's registration.
LEMMA FailureCalls ==
    ASSUME Window(ledger), FailureOps \/ RegisterOps
    PROVE  Calls
<1>1. Shaped(ledger)
  BY DEF Window
<1>2. CASE Fail
  BY <1>1, <1>2, FailAtSame, SameCalls DEF Fail, Rest
<1>3. CASE TiledProgress
  BY <1>3, TileCalls
<1>4. ASSUME NEW block, RegisterWriteback(block)
      PROVE  Calls
  <2> DEFINE L == [ledger EXCEPT !.writeback = block]
  <2>1. ledger' = L \/ \E id : ledger' = FailAt(L, id)
    BY <1>4 DEF RegisterWriteback
  <2>2. /\ DOMAIN L = Fields
        /\ L.oldest = ledger.oldest /\ L.nextSpan = ledger.nextSpan
        /\ L.kicks = ledger.kicks /\ L.closed = ledger.closed
        /\ L.spans = ledger.spans
    BY <1>1, FieldNames DEF Shaped
  <2>3. MutexFree /\ Rest
    BY <1>4 DEF RegisterWriteback, Rest
  <2> HIDE DEF L
  <2>4. CASE ledger' = L
    BY <2>2, <2>3, <2>4, OtherCalls
  <2>5. ASSUME NEW id, ledger' = FailAt(L, id)
        PROVE  Calls
    BY <2>2, <2>3, <2>5, OtherCalls
  <2>6. QED
    BY <2>1, <2>4, <2>5
<1>5. QED
  BY <1>2, <1>3, <1>4 DEF FailureOps, RegisterOps


-----------------------------------------------------------------------------
(* The inductive invariant: where Pump stands in the window.               *)

LockedPCs == {"apply", "fence", "mask", "release"}
TakePCs == {"take", "took"}

\* Under the lock, and while it holds the gate, Pump is at the front of an
\* open session. Elsewhere its span is the front or was dropped; and it never
\* was the open one.
PumpInWindow ==
    /\ DOMAIN pump = {"pc", "span", "mark", "result"}
    /\ pump.pc \in PumpPCs /\ pump.span \in Nat
    /\ pump.pc \notin {"idle", "head"} =>
          pump.span <= ledger.oldest /\ pump.span < Back(ledger)
    /\ pump.pc \in LockedPCs \cup TakePCs =>
          pump.span = ledger.oldest /\ ~ledger.closed
    /\ pump.pc \in TakePCs => gate = "pump"

PumpOwns == Window(ledger) /\ PumpInWindow

LEMMA CallsKeep ==
    ASSUME PumpOwns, Calls
    PROVE  PumpOwns'
<1>1. Window(ledger) /\ Window(ledger')
  BY DEF PumpOwns, Calls, Grown
<1>2. ledger'.oldest = ledger.oldest /\ ledger'.closed = ledger.closed
      /\ Back(ledger') >= Back(ledger)
  BY <1>1 DEF Calls, Grown, Back, Window, Shaped
<1>3. PumpInWindow'
  BY <1>1, <1>2 DEF PumpOwns, PumpInWindow, Calls, Back, Window, Shaped
<1>4. QED
  BY <1>1, <1>3 DEF PumpOwns

\* M is L but for Pump's progress in span `id'.
Advanced(M, L, id) ==
    /\ DOMAIN M = Fields
    /\ M.oldest = L.oldest /\ M.nextSpan = L.nextSpan
    /\ M.kicks = L.kicks /\ M.closed = L.closed
    /\ DOMAIN M.spans = Live(L)
    /\ \A other \in Live(L) :
          /\ DOMAIN M.spans[other] = SpanFields
          /\ other # id => /\ M.spans[other].applied = L.spans[other].applied
                           /\ M.spans[other].flushed = L.spans[other].flushed
          /\ M.spans[other].kicked = L.spans[other].kicked
          /\ M.spans[other].sealed = L.spans[other].sealed
          /\ M.spans[other].deferred = L.spans[other].deferred

LEMMA AppliedAdvances ==
    ASSUME NEW L, Shaped(L), NEW id, NEW n
    PROVE  Advanced([L EXCEPT !.spans[id].applied = n,
                              !.spans[id].stage = 0], L, id)
BY FieldNames, SpanFieldNames DEF Shaped, Advanced

LEMMA StageAdvances ==
    ASSUME NEW L, Shaped(L), NEW id, NEW n
    PROVE  Advanced([L EXCEPT !.spans[id].stage = n], L, id)
BY FieldNames, SpanFieldNames DEF Shaped, Advanced

LEMMA FlushAdvances ==
    ASSUME NEW L, Shaped(L), NEW id, NEW n
    PROVE  Advanced([L EXCEPT !.spans[id].hostTarget = n,
                              !.spans[id].flushed = TRUE], L, id)
BY ZenonT(30), FieldNames, SpanFieldNames DEF Shaped, Advanced

\* What Pump does to the span it releases leaves the window alone.
LEMMA AdvancedWindow ==
    ASSUME NEW L, Window(L), NEW id, id # Back(L), NEW M, Advanced(M, L, id)
    PROVE  /\ Window(M)
           /\ M.oldest = L.oldest /\ M.closed = L.closed
           /\ M.nextSpan = L.nextSpan
<1>1. Shaped(M)
  BY DEF Advanced, Window, Shaped, Live
<1>2. OpenAtBack(M)
  BY DEF Advanced, Window, OpenAtBack, Live, Back, Closed
<1>3. QED
  BY <1>1, <1>2 DEF Advanced, Window

\* The lock is back and the span is still there.
LEMMA StillFront ==
    ASSUME PumpOwns, pump.pc \notin {"idle", "head"}, ~Gone
    PROVE  pump.span = ledger.oldest /\ ~ledger.closed
BY DEF PumpOwns, PumpInWindow, Gone, Releasable, Live, Window, Shaped

LEMMA FrontNotBack ==
    ASSUME PumpOwns, pump.pc \notin {"idle", "head"},
           pump.span = ledger.oldest
    PROVE  pump.span \in Live(ledger) /\ pump.span # Back(ledger)
BY DEF PumpOwns, PumpInWindow, Live, Back, Window, Shaped

\* A step of Pump within the window it was in.
LEMMA Moves ==
    ASSUME PumpOwns, Window(ledger'),
           ledger'.oldest = ledger.oldest, ledger'.closed = ledger.closed,
           ledger'.nextSpan = ledger.nextSpan,
           DOMAIN pump' = {"pc", "span", "mark", "result"},
           \/ pump'.pc \in {"idle", "head"} /\ pump'.span = 0
           \/ /\ pump.pc \notin {"idle", "head"} /\ pump'.span = pump.span
              /\ \/ pump'.pc \in {"flush", "skip", "gate", "raise"}
                 \/ /\ pump'.pc \in LockedPCs \cup TakePCs
                    /\ pump.span = ledger.oldest /\ ~ledger.closed
                    /\ pump'.pc \in TakePCs => gate' = "pump"
    PROVE  PumpOwns'
<1>1. Back(ledger') = Back(ledger)
  BY DEF Back
<1>2. PumpInWindow'
  BY <1>1 DEF PumpOwns, PumpInWindow, LockedPCs, TakePCs, PumpPCs, UnlockedPCs
<1>3. QED
  BY <1>2 DEF PumpOwns

\* A failed access, of the front.
LEMMA UnownWindow ==
    ASSUME Window(ledger), NEW id, NEW i
    PROVE  /\ Window(Unown(ledger, id, i))
           /\ Unown(ledger, id, i).oldest = ledger.oldest
           /\ Unown(ledger, id, i).closed = ledger.closed
           /\ Unown(ledger, id, i).nextSpan = ledger.nextSpan
BY UnownSame, SameWindow DEF Same, Window

LEMMA GiveUpOwns ==
    ASSUME PumpOwns, GiveUp
    PROVE  PumpOwns'
BY UnownWindow, Moves DEF GiveUp, Step, PumpOwns

\* The front span's records, one after another.
LEMMA FrontAdvances ==
    ASSUME PumpOwns, pump.pc \notin {"idle", "head"},
           pump.span = ledger.oldest, ~ledger.closed,
           \/ ledger' = ledger
           \/ ledger' = Applied
           \/ Advanced(ledger', ledger, pump.span),
           \/ UNCHANGED pump
           \/ \E pc \in LockedPCs \cup {"skip", "raise", "idle"} : Step(pc),
           gate' = gate
    PROVE  PumpOwns'
<1>1. Advanced(Applied, ledger, pump.span)
  BY AppliedAdvances, Zenon DEF PumpOwns, Window, Applied
<1>2. /\ Window(ledger')
      /\ ledger'.oldest = ledger.oldest /\ ledger'.closed = ledger.closed
      /\ ledger'.nextSpan = ledger.nextSpan
  BY <1>1, FrontNotBack, AdvancedWindow DEF PumpOwns
<1>3. CASE UNCHANGED pump
  BY <1>2, <1>3 DEF PumpOwns, PumpInWindow, Back
<1>4. ASSUME NEW pc \in LockedPCs \cup {"skip", "raise", "idle"}, Step(pc)
      PROVE  PumpOwns'
  BY <1>2, <1>4, Moves DEF Step, LockedPCs, TakePCs
<1>5. QED
  BY <1>3, <1>4

-----------------------------------------------------------------------------
(* The steps of Pump.                                                      *)

LEMMA PopWindow ==
    ASSUME NEW L, Window(L), L.oldest < Back(L)
    PROVE  Window(PopFront(L))
<1> DEFINE M == PopFront(L)
<1>1. /\ DOMAIN M = Fields
      /\ M.oldest = L.oldest + 1 /\ M.nextSpan = L.nextSpan
      /\ M.kicks = L.kicks
      /\ M.spans = [id \in (L.oldest + 1) .. Back(L) |-> L.spans[id]]
  BY FieldNames DEF Window, Shaped, PopFront
<1> HIDE DEF M
<1>2. Live(M) = (L.oldest + 1) .. Back(L) /\ Back(M) = Back(L)
      /\ Live(M) \subseteq Live(L)
  BY <1>1 DEF Live, Back, Window, Shaped
<1>3. Shaped(M)
  BY <1>1, <1>2 DEF Window, Shaped
<1>4. OpenAtBack(M)
  BY <1>1, <1>2 DEF Window, OpenAtBack
<1>5. M.oldest < M.nextSpan
  BY <1>1 DEF Window, Shaped, Back
<1>6. QED
  BY <1>3, <1>4, <1>5 DEF Window, M

\* Between two spans Pump holds none.
LEMMA AtHeadOwns ==
    ASSUME Window(ledger'), \E pc \in {"idle", "head"} : Step(pc)
    PROVE  PumpOwns'
BY DEF PumpOwns, PumpInWindow, Step, LockedPCs, TakePCs, PumpPCs, UnlockedPCs

\* A closed front is not the open span.
LEMMA ClosedFront ==
    ASSUME Window(ledger), Closed(Front)
    PROVE  ledger.oldest < Back(ledger)
<1>1. ledger.oldest \in Live(ledger) /\ ledger.oldest <= Back(ledger)
  BY DEF Window, Shaped, Live, Back
<1>2. ledger.oldest # Back(ledger)
  BY <1>1 DEF Window, OpenAtBack, Front
<1>3. QED
  BY <1>1, <1>2 DEF Window, Shaped, Back

LEMMA LoopOwns ==
    ASSUME PumpOwns, LoopSteps
    PROVE  PumpOwns'
<1>1. Window(ledger) /\ Shaped(ledger)
  BY DEF PumpOwns, Window
<1>2. ASSUME NEW L, Window(L)
      PROVE  Window([L EXCEPT !.replayPointer = 0])
  BY <1>2, FieldNames, OtherField, SameWindow DEF Window, Shaped
<1>3. CASE WriteReplayPointer
  BY <1>1, <1>2, <1>3, AtHeadOwns DEF WriteReplayPointer
<1>4. CASE LoseReplayPointer
  BY <1>1, <1>2, <1>4, UnownWindow, AtHeadOwns DEF LoseReplayPointer
<1>5. CASE Pause
  BY <1>1, <1>5, AtHeadOwns DEF Pause
<1>6. CASE BeginFlush \/ BeginApply
  <2>1. ledger' = ledger /\ Closed(Front) /\ ~ledger.closed
    BY <1>6 DEF BeginFlush, BeginApply, AtHead, Releasable, Ready
  <2>2. /\ DOMAIN pump' = {"pc", "span", "mark", "result"}
        /\ pump'.pc \in {"flush", "apply"} /\ pump'.span = ledger.oldest
    BY <1>6 DEF BeginFlush, BeginApply, PumpOwns, PumpInWindow
  <2>3. ledger.oldest < Back(ledger) /\ ledger.oldest \in Nat
    BY <1>1, <2>1, ClosedFront DEF Shaped
  <2>4. PumpInWindow'
    BY <2>1, <2>2, <2>3 DEF PumpInWindow, LockedPCs, TakePCs, PumpPCs,
                            UnlockedPCs
  <2>5. QED
    BY <1>1, <2>1, <2>4 DEF PumpOwns
<1>7. CASE Release \/ ReleaseFailed
  <2>1. pump.pc = "release"
    BY <1>7 DEF Release, ReleaseFailed
  <2>2. ledger.oldest < Back(ledger)
    BY <2>1 DEF PumpOwns, PumpInWindow, LockedPCs
  <2>3. CASE Release
    BY <1>1, <2>2, <2>3, PopWindow, AtHeadOwns DEF Release
  <2>4. CASE ReleaseFailed
    <3> DEFINE L == Unown(ledger, pump.span, Index)
    <3>1. Window(L) /\ L.oldest < Back(L)
      BY <1>1, <2>2, UnownWindow DEF Back
    <3>2. \/ ledger' = PopFront(L) /\ Step("head")
          \/ ledger' = L /\ Step("idle")
      BY <2>4 DEF ReleaseFailed
    <3> HIDE DEF L
    <3>3. QED
      BY <3>1, <3>2, PopWindow, AtHeadOwns
  <2>5. QED
    BY <1>7, <2>3, <2>4
<1>8. QED
  BY <1>3, <1>4, <1>5, <1>6, <1>7 DEF LoopSteps

LEMMA FlushOwns ==
    ASSUME PumpOwns, FlushOps
    PROVE  PumpOwns'
<1>1. Window(ledger) /\ Shaped(ledger) /\ pump.pc = "flush" /\ gate' = gate
  BY DEF PumpOwns, Window, FlushOps, FlushFenced, FlushRetry, FlushFailed
<1>2. CASE FlushRetry
  BY <1>1, <1>2, AtHeadOwns DEF FlushRetry
<1>3. CASE FlushFenced
  <2>1. CASE Gone
    BY <1>1, <1>3, <2>1, AtHeadOwns DEF FlushFenced
  <2>2. CASE ~Gone
    <3>1. pump.span = ledger.oldest /\ ~ledger.closed
      BY <1>1, <2>2, StillFront
    <3>2. PICK fence : /\ ledger' = [ledger EXCEPT
                                       !.spans[pump.span].hostTarget = fence,
                                       !.spans[pump.span].flushed = TRUE]
                       /\ \E pc \in {"apply", "idle"} : Step(pc)
      BY <1>3, <2>2 DEF FlushFenced
    <3>3. Advanced(ledger', ledger, pump.span)
      BY <1>1, <3>2, FlushAdvances
    <3>4. QED
      BY <1>1, <3>1, <3>2, <3>3, FrontAdvances DEF LockedPCs
  <2>3. QED
    BY <2>1, <2>2
<1>4. CASE FlushFailed
  <2> DEFINE L == Unown(ledger, pump.span, AdmittedRecord(Cur))
  <2>1. Step("idle") /\ \/ ledger' = ledger \/ ledger' = L
                        \/ ~Gone /\ \E n :
                           ledger' = [L EXCEPT !.spans[pump.span].hostTarget = n,
                                               !.spans[pump.span].flushed = TRUE]
    BY <1>4 DEF FlushFailed
  <2>2. Window(L) /\ Shaped(L) /\ Back(L) = Back(ledger)
    BY <1>1, UnownWindow DEF Window, Back
  <2> HIDE DEF L
  <2>3. ASSUME NEW n, ~Gone
        PROVE  Window([L EXCEPT !.spans[pump.span].hostTarget = n,
                                !.spans[pump.span].flushed = TRUE])
    BY <1>1, <2>2, <2>3, StillFront, FrontNotBack, FlushAdvances,
       AdvancedWindow
  <2>4. Window(ledger')
    BY <1>1, <2>1, <2>2, <2>3
  <2>5. QED
    BY <2>1, <2>4, AtHeadOwns
<1>5. QED
  BY <1>2, <1>3, <1>4 DEF FlushOps

LEMMA ApplyOwns ==
    ASSUME PumpOwns, ApplySteps
    PROVE  PumpOwns'
<1>1. pump.pc \in LockedPCs
  BY DEF ApplySteps, ApplySkipped, ApplyInert, WriteCursor, WriteFence,
         WriteScratch, WaitOver, WaitLonger, AccessFailed, ApplyDone,
         ApplyKind, AtRecord, RaiseDone, LockedPCs
<1>2. pump.span = ledger.oldest /\ ~ledger.closed
      /\ pump.pc \notin {"idle", "head"}
  BY <1>1 DEF PumpOwns, PumpInWindow, LockedPCs
<1>3. CASE ApplySkipped \/ ApplyInert \/ WriteScratch \/ WaitOver
  BY <1>2, <1>3, FrontAdvances
     DEF ApplySkipped, ApplyInert, WriteScratch, WaitOver
<1>4. CASE WriteCursor
  BY <1>2, <1>4, FrontAdvances DEF WriteCursor, LockedPCs
<1>5. CASE WriteFence
  BY <1>2, <1>5, FrontAdvances DEF WriteFence, LockedPCs
<1>6. CASE WaitLonger
  BY <1>2, <1>6, FrontAdvances DEF WaitLonger
<1>7. CASE AccessFailed
  BY <1>7, GiveUpOwns DEF AccessFailed
<1>8. CASE ApplyDone
  BY <1>2, <1>8, FrontAdvances DEF ApplyDone, LockedPCs
<1>9. QED
  BY <1>3, <1>4, <1>5, <1>6, <1>7, <1>8 DEF ApplySteps

LEMMA CallbackOwns ==
    ASSUME PumpOwns, CallbackSteps
    PROVE  PumpOwns'
<1>1. Shaped(ledger) /\ Window(ledger)
  BY DEF PumpOwns, Window
<1>2. ASSUME NEW n
      PROVE  Advanced([ledger EXCEPT !.spans[pump.span].stage = n], ledger,
                      pump.span)
  BY <1>1, StageAdvances
<1>3. ASSUME pump.pc \in LockedPCs
      PROVE  pump.span = ledger.oldest /\ ~ledger.closed
             /\ pump.pc \notin {"idle", "head"}
  BY <1>3 DEF PumpOwns, PumpInWindow, LockedPCs
<1>4. CASE WriteSlot \/ RaiseAgain \/ AwaitMask
  BY <1>3, <1>4, FrontAdvances DEF WriteSlot, RaiseAgain, AwaitMask, RaiseDone,
                                   ApplyKind, AtRecord, LockedPCs
<1>5. CASE WriteMask
  BY <1>2, <1>3, <1>5, FrontAdvances DEF WriteMask, LockedPCs
<1>6. CASE Raised
  <2>1. CASE Gone
    BY <1>1, <1>6, <2>1, AtHeadOwns DEF Raised
  <2>2. CASE ~Gone
    <3>1. pump.pc = "raise" /\ gate' = gate /\ Step("apply")
          /\ ledger' = [ledger EXCEPT !.spans[pump.span].stage = 2]
      BY <1>6, <2>2 DEF Raised
    <3>2. QED
      BY <1>2, <2>2, <3>1, StillFront, FrontAdvances DEF LockedPCs
  <2>3. QED
    BY <2>1, <2>2
<1>7. CASE NotRaised
  BY <1>1, <1>7, AtHeadOwns DEF NotRaised
<1>8. CASE RetireSlot \/ CallbackDone
  BY <1>3, <1>8, FrontAdvances DEF RetireSlot, CallbackDone, RaiseDone,
                                   ApplyKind, AtRecord, LockedPCs
<1>9. QED
  BY <1>4, <1>5, <1>6, <1>7, <1>8 DEF CallbackSteps

LEMMA ImageOwns ==
    ASSUME PumpOwns, ImageOps
    PROVE  PumpOwns'
<1>1. Window(ledger)
  BY DEF PumpOwns
<1>2. CASE SkipImage
  BY <1>2, FrontAdvances DEF SkipImage, AtRecord, PumpOwns, PumpInWindow,
                             LockedPCs
<1>3. CASE ImageSkipped
  <2>1. CASE Gone
    BY <1>1, <1>3, <2>1, AtHeadOwns DEF ImageSkipped
  <2>2. CASE ~Gone
    BY <1>3, <2>2, StillFront, FrontAdvances DEF ImageSkipped, LockedPCs
  <2>3. QED
    BY <2>1, <2>2
<1>4. CASE WantImage
  BY <1>1, <1>4, Moves DEF WantImage, ApplyKind, AtRecord, PumpOwns,
                           PumpInWindow
<1>5. CASE PassGate
  <2>1. CASE Gone
    BY <1>1, <1>5, <2>1, AtHeadOwns DEF PassGate
  <2>2. CASE ~Gone
    BY <1>1, <1>5, <2>2, StillFront, Moves DEF PassGate, Step, TakePCs
  <2>3. QED
    BY <2>1, <2>2
<1>6. CASE WriteImage \/ \E result \in {"held", "error", "closing"} : NoImage(result)
  <2>1. /\ pump.pc = "take" /\ gate' = gate /\ ledger' = ledger
        /\ \E r : pump' = [pump EXCEPT !.pc = "took", !.result = r]
    BY <1>6 DEF WriteImage, NoImage
  <2>2. DOMAIN pump' = {"pc", "span", "mark", "result"}
        /\ pump'.pc = "took" /\ pump'.span = pump.span
    BY <2>1 DEF PumpOwns, PumpInWindow
  <2>3. gate = "pump" /\ pump.span = ledger.oldest /\ ~ledger.closed
    BY <2>1 DEF PumpOwns, PumpInWindow, TakePCs
  <2>4. QED
    BY <1>1, <2>1, <2>2, <2>3, Moves DEF TakePCs
<1>7. CASE ImageTaken
  <2>1. pump.span = ledger.oldest /\ ~ledger.closed /\ pump.pc = "took"
    BY <1>7 DEF ImageTaken, PumpOwns, PumpInWindow, TakePCs
  <2>2. \/ Step("idle") /\ ledger' = ledger
        \/ Step("idle") /\ ledger' = Unown(ledger, pump.span, Index)
        \/ Step("apply") /\ ledger' = Applied
    BY <1>7 DEF ImageTaken
  <2>3. CASE Step("idle")
    BY <1>1, <2>2, <2>3, UnownWindow, AtHeadOwns DEF Step
  <2>4. CASE Step("apply") /\ ledger' = Applied
    <3>1. Advanced(ledger', ledger, pump.span)
      BY <2>4, AppliedAdvances, Zenon DEF PumpOwns, Window, Applied
    <3>2. /\ Window(ledger')
          /\ ledger'.oldest = ledger.oldest /\ ledger'.closed = ledger.closed
          /\ ledger'.nextSpan = ledger.nextSpan
      BY <1>1, <2>1, <3>1, FrontNotBack, AdvancedWindow
    <3>3. QED
      BY <2>1, <2>4, <3>2, Moves DEF Step, LockedPCs, TakePCs
  <2>5. QED
    BY <2>2, <2>3, <2>4
<1>8. QED
  BY <1>2, <1>3, <1>4, <1>5, <1>6, <1>7 DEF ImageOps

-----------------------------------------------------------------------------
(* Tear-down needs both locks, so it never meets Pump at a record.         *)

LEMMA DropWindow ==
    ASSUME NEW L, Window(L)
    PROVE  /\ Window(Drop(L))
           /\ Drop(L).oldest = L.nextSpan /\ Drop(L).closed = L.closed
           /\ Drop(L).nextSpan = L.nextSpan + 1
<1> DEFINE M == [L EXCEPT !.oldest = L.nextSpan,
                !.spans = <<>>,
                !.openDraws = [t \in Threads |-> NoHandle],
                !.openResolves = [t \in Threads |-> NoHandle],
                !.frontbuffer = {},
                !.submitEpoch = @ + 1,
                !.lists = <<>>,
                !.activeList = 0,
                !.held = [s \in Segments |-> <<>>],
                !.heldList = [s \in Segments |-> 0],
                !.heldFirst = <<>>,
                !.replayPointer = 0,
                !.epochPartial = FALSE,
                !.writeback = 0]
<1>1. Drop(L) = OpenSpan(M)
  BY DEF Drop
<1>2. /\ DOMAIN M = Fields
      /\ M.oldest = L.nextSpan /\ M.nextSpan = L.nextSpan
      /\ M.kicks = L.kicks /\ M.closed = L.closed
      /\ M.spans = <<>>
  BY FieldNames DEF Window, Shaped
<1> HIDE DEF M
<1>3. Live(M) = {}
  BY <1>2 DEF Live, Window, Shaped
<1>4. Shaped(M)
  BY <1>2, <1>3 DEF Shaped, Window
<1>5. M.oldest <= M.nextSpan
  BY <1>2 DEF Window, Shaped
<1>6. QED
  BY <1>1, <1>2, <1>3, <1>4, <1>5, OpenSpanWindow

LEMMA TeardownOwns ==
    ASSUME PumpOwns, TeardownOps
    PROVE  PumpOwns'
<1>1. Window(ledger)
  BY DEF PumpOwns
<1>2. CASE DropEpoch
  <2>1. /\ pump' = pump /\ gate' = gate
        /\ pump.pc \notin LockedPCs \cup TakePCs
    BY <1>2 DEF DropEpoch, MutexFree, UnlockedPCs, LockedPCs, TakePCs,
                PumpOwns, PumpInWindow
  <2>2. /\ Window(ledger')
        /\ ledger'.oldest = ledger.nextSpan
        /\ ledger'.nextSpan = ledger.nextSpan + 1
    BY <1>1, <1>2, DropWindow DEF DropEpoch
  <2>3. PumpInWindow'
    BY <1>1, <2>1, <2>2 DEF PumpOwns, PumpInWindow, Back, Window, Shaped
  <2>4. QED
    BY <2>2, <2>3 DEF PumpOwns
<1>3. CASE DiscardGuestImages
  BY <1>3 DEF DiscardGuestImages, PumpOwns, PumpInWindow
<1>4. CASE Close
  <2>1. /\ pump' = pump /\ gate' = gate
        /\ pump.pc \notin LockedPCs \cup TakePCs
    BY <1>4 DEF Close, MutexFree, UnlockedPCs, LockedPCs, TakePCs, PumpOwns,
                PumpInWindow
  <2>2. /\ Window(ledger')
        /\ ledger'.oldest = ledger.oldest /\ ledger'.nextSpan = ledger.nextSpan
    <3>1. /\ DOMAIN ledger' = Fields
          /\ ledger'.oldest = ledger.oldest
          /\ ledger'.nextSpan = ledger.nextSpan
          /\ ledger'.kicks = ledger.kicks /\ ledger'.spans = ledger.spans
      BY <1>1, <1>4, FieldNames DEF Close, Window, Shaped
    <3>2. QED
      BY <1>1, <3>1 DEF Window, Shaped, OpenAtBack, Live, Back
  <2>3. PumpInWindow'
    BY <2>1, <2>2 DEF PumpOwns, PumpInWindow, Back
  <2>4. QED
    BY <2>2, <2>3 DEF PumpOwns
<1>5. QED
  BY <1>2, <1>3, <1>4 DEF TeardownOps

\* The gate's other holder, the host's queue and the guest's CPUs.
LEMMA OthersOwn ==
    ASSUME PumpOwns, HolderOps \/ Environment
    PROVE  PumpOwns'
BY DEF HolderOps, BeginImageWrites, EndImageWrites, Environment, HostCompletes,
       HandlerClearsMask, GuestWritesWord, PumpOwns, PumpInWindow

-----------------------------------------------------------------------------
(* The theorems.                                                           *)

LEMMA InitOwns ==
    ASSUME Init
    PROVE  PumpOwns
<1>1. /\ DOMAIN NewLedger = Fields
      /\ NewLedger.oldest = 1 /\ NewLedger.nextSpan = 2 /\ NewLedger.kicks = 0
      /\ NewLedger.spans = [id \in {1} |-> EmptySpan]
  BY DEF NewLedger, Fields
<1>2. Live(NewLedger) = {1} /\ Back(NewLedger) = 1
  BY <1>1 DEF Live, Back
<1>3. Shaped(NewLedger)
  BY <1>1, <1>2 DEF Shaped, SpanFields
<1>4. OpenAtBack(NewLedger)
  BY <1>1, <1>2 DEF OpenAtBack, EmptySpan, Closed
<1>5. Window(ledger)
  BY <1>1, <1>3, <1>4 DEF Init, Window
<1>6. PumpInWindow
  BY DEF Init, NewPump, PumpInWindow, PumpPCs, UnlockedPCs, LockedPCs, TakePCs
<1>7. QED
  BY <1>5, <1>6 DEF PumpOwns

LEMMA StepOwns ==
    ASSUME PumpOwns, [Next]_vars
    PROVE  PumpOwns'
<1>1. Window(ledger)
  BY DEF PumpOwns
<1>2. CASE \E t \in Threads : GuestOps(t)
  BY <1>1, <1>2, GuestCalls, CallsKeep
<1>3. CASE DetachedOps
  BY <1>1, <1>3, DetachedCalls, CallsKeep
<1>4. CASE FailureOps \/ RegisterOps
  BY <1>1, <1>4, FailureCalls, CallsKeep
<1>5. CASE TeardownOps
  BY <1>5, TeardownOwns
<1>6. CASE HolderOps \/ Environment
  BY <1>6, OthersOwn
<1>7. CASE PumpNext
  BY <1>7, LoopOwns, FlushOwns, ApplyOwns, CallbackOwns, ImageOwns DEF PumpNext
<1>8. CASE UNCHANGED vars
  BY <1>8 DEF vars, PumpOwns, PumpInWindow
<1>9. QED
  BY <1>2, <1>3, <1>4, <1>5, <1>6, <1>7, <1>8 DEF Next

\* The inductive invariant.
LEMMA PumpOwnsAlways == Spec => []PumpOwns
<1>1. Init => PumpOwns
  BY InitOwns
<1>2. PumpOwns /\ [Next]_vars => PumpOwns'
  BY StepOwns
<1>3. QED
  BY <1>1, <1>2, PTL DEF Spec

\* Whatever kicks, submits, deferrals and tear-downs the guest threads make,
\* and after every flush, interrupt and image written without `mutex':
\* spans.back() is the one open span, unreleased, and Pump's span is still
\* spans.front(), so that pop_front drops no other span's work.
THEOREM WindowStays == Spec => []SpanWindow
<1>1. PumpOwns => OnlyBackIsOpen
  BY DEF PumpOwns, Window, OpenAtBack, OnlyBackIsOpen
<1>2. PumpOwns => PumpAtFront
  BY DEF PumpOwns, PumpInWindow, PumpAtFront, MutexFree, PumpPCs, UnlockedPCs,
         LockedPCs
<1>3. PumpOwns => SpanWindow
  BY <1>1, <1>2 DEF SpanWindow
<1>4. QED
  BY <1>3, PumpOwnsAlways, PTL

\* After Close, or once a tear-down dropped its span, no effect of a span
\* starts, although Pump lets the lock go between its record and its effect.
THEOREM NoEffectAfterTeardown == Spec => EffectsOfLiveSpans
<1> DEFINE Legal == Effect => ~ledger.closed /\ effect'.span \in Live(ledger)
<1>1. ASSUME PumpOwns, Next
      PROVE  Legal
  <2>1. Window(ledger)
    BY <1>1 DEF PumpOwns
  <2>2. ASSUME Calls
        PROVE  ~Effect
    BY <2>2 DEF Calls, Effect
  <2>3. CASE \E t \in Threads : GuestOps(t)
    BY <2>1, <2>2, <2>3, GuestCalls
  <2>4. CASE DetachedOps
    BY <2>1, <2>2, <2>4, DetachedCalls
  <2>5. CASE FailureOps \/ RegisterOps
    BY <2>1, <2>2, <2>5, FailureCalls
  <2>6. CASE TeardownOps
    BY <2>6 DEF TeardownOps, DropEpoch, DiscardGuestImages, Close, Effect
  <2>7. CASE HolderOps \/ Environment
    BY <2>7 DEF HolderOps, BeginImageWrites, EndImageWrites, Environment,
                HostCompletes, HandlerClearsMask, GuestWritesWord, Effect
  <2>8. CASE PumpNext
    <3>1. \/ ~Effect
          \/ /\ \E step : EffectAt(step)
             /\ \/ pump.pc \in {"apply", "fence", "mask", "release", "take"}
                \/ pump.pc = "raise" /\ ~Gone
      <4>1. CASE LoopSteps
        BY <4>1 DEF LoopSteps, WriteReplayPointer, LoseReplayPointer, Pause,
                    BeginFlush, BeginApply, Release, ReleaseFailed, Effect
      <4>2. CASE FlushOps
        BY <4>2 DEF FlushOps, FlushFenced, FlushRetry, FlushFailed, Effect
      <4>3. CASE ApplySteps
        BY <4>3 DEF ApplySteps, ApplySkipped, ApplyInert, WriteCursor,
                    WriteFence, WriteScratch, WaitOver, WaitLonger,
                    AccessFailed, GiveUp, ApplyDone, ApplyKind, AtRecord,
                    Effect
      <4>4. CASE CallbackSteps
        BY <4>4 DEF CallbackSteps, WriteSlot, WriteMask, RaiseAgain, Raised,
                    NotRaised, AwaitMask, RetireSlot, CallbackDone, RaiseDone,
                    ApplyKind, AtRecord, Effect
      <4>5. CASE ImageOps
        BY <4>5 DEF ImageOps, SkipImage, ImageSkipped, WantImage, PassGate,
                    WriteImage, NoImage, ImageTaken, Effect
      <4>6. QED
        BY <2>8, <4>1, <4>2, <4>3, <4>4, <4>5 DEF PumpNext
    <3>2. ASSUME \/ pump.pc \in {"apply", "fence", "mask", "release", "take"}
                 \/ pump.pc = "raise" /\ ~Gone
          PROVE  pump.span = ledger.oldest /\ ~ledger.closed
      BY <1>1, <3>2, StillFront DEF PumpOwns, PumpInWindow, LockedPCs, TakePCs
    <3>3. ledger.oldest \in Live(ledger)
      BY <2>1 DEF Live, Window, Shaped
    <3>4. QED
      BY <3>1, <3>2, <3>3 DEF EffectAt
  <2>9. QED
    BY <1>1, <2>3, <2>4, <2>5, <2>6, <2>7, <2>8 DEF Next
<1>2. UNCHANGED vars => ~Effect
  BY DEF vars, Effect
<1>3. PumpOwns /\ [Next]_vars => [Legal]_vars
  BY <1>1, <1>2
<1>4. QED
  BY <1>3, PumpOwnsAlways, PTL DEF Spec, EffectsOfLiveSpans

-----------------------------------------------------------------------------
(* Types: no op mark is newer than the clock. *)

RecordTo(c) ==
    [kind: Kinds, by: Threads, value: Nat, block: Blocks \cup {0},
     flags: SUBSET {"raise", "wait"}, mark: 0 .. c, pending: BOOLEAN,
     skipped: BOOLEAN, hostOnly: BOOLEAN]

SpanTo(c) ==
    [records: Seq(RecordTo(c)), kicked: Nat, sealed: BOOLEAN,
     deferred: Segments \cup {NoSegment}, dwords: Nat, startsList: Nat,
     thread: Threads \cup {NoThread}, pending: Int,
     unowned: BOOLEAN, partial: BOOLEAN, lastAdmitted: 0 .. c,
     hostTarget: Nat, flushed: BOOLEAN, applied: Nat, stage: 0 .. 2]

Submits ==
    [segment: Segments \cup {NoSegment}, dwords: Nat, epoch: Nat,
     worker: BOOLEAN]

\* The ledger's fields but the span window. Every pending submit names a
\* segment.
Others(L, c) ==
    /\ L.openDraws \in [Threads -> Handles]
    /\ L.openResolves \in [Threads -> Handles]
    /\ L.frontbuffer \subseteq Handles /\ IsFiniteSet(L.frontbuffer)
    /\ L.writeback \in Blocks \cup {0}
    /\ L.closed \in BOOLEAN /\ L.epochPartial \in BOOLEAN
    /\ L.epochWork \in BOOLEAN /\ L.failedSpan \in Nat
    /\ L.submitEpoch \in Nat \ {0}
    /\ L.pendingSubmit \in [Threads -> Submits]
    /\ \A t \in Threads : L.pendingSubmit[t].epoch # 0
                          => L.pendingSubmit[t].segment \in Segments
    /\ L.replay \subseteq Threads
    /\ DOMAIN L.lists \subseteq 1 .. (L.nextList - 1)
    /\ \A k \in DOMAIN L.lists : L.lists[k] \in [Segments -> Nat]
    /\ L.activeList \in Nat /\ L.nextList \in Nat \ {0}
    /\ L.held \in [Segments -> Seq(RecordTo(c))]
    /\ L.heldList \in [Segments -> Nat]
    /\ L.heldFirst \in Seq(RecordTo(c))
    /\ L.replayPointer \in Nat /\ L.kicks \in Nat
    /\ L.suspended \in BOOLEAN /\ L.ownerSwapSawSwap \in BOOLEAN
    /\ L.ownerSwapThread \in Threads \cup {NoThread}
    /\ L.deviceOwner \in Threads \cup {NoThread}

\* The ledger has its types, and no op mark in it is above c.
Typed(L, c) ==
    /\ Shaped(L)
    /\ L.oldest # 0 /\ L.oldest < L.nextSpan
    /\ L.spans \in [Live(L) -> SpanTo(c)]
    /\ Others(L, c)

LEMMA TypedLedger ==
    ASSUME NEW c \in Nat, NEW L, Typed(L, c)
    PROVE  LedgerType(L)
<1>1. RecordTo(c) \subseteq Record
  BY DEF RecordTo, Record
<1>2. Seq(RecordTo(c)) \subseteq Seq(Record)
  BY <1>1, SeqMonotonic
<1>3. SpanTo(c) \subseteq Span
  BY <1>2 DEF SpanTo, Span
<1>4. QED
  BY <1>2, <1>3 DEF Typed, Others, Shaped, LedgerType, Submits

\* The clock moves on.
LEMMA TypedLater ==
    ASSUME NEW c \in Nat, NEW d \in Nat, c <= d, NEW L, Typed(L, c)
    PROVE  Typed(L, d)
<1>1. RecordTo(c) \subseteq RecordTo(d)
  BY DEF RecordTo
<1>2. Seq(RecordTo(c)) \subseteq Seq(RecordTo(d))
  BY <1>1, SeqMonotonic
<1>3. SpanTo(c) \subseteq SpanTo(d)
  BY <1>2 DEF SpanTo
<1>4. QED
  BY <1>2, <1>3 DEF Typed, Others

-----------------------------------------------------------------------------
(* One span or one record of the window is replaced.                       *)

LEMMA PutSpan ==
    ASSUME NEW c, NEW L, Typed(L, c), NEW id, NEW s,
           id \in Live(L) => s \in SpanTo(c)
    PROVE  Typed([L EXCEPT !.spans[id] = s], c)
<1> DEFINE M == [L EXCEPT !.spans[id] = s]
<1>1. /\ DOMAIN M = Fields
      /\ M.spans = [L.spans EXCEPT ![id] = s]
      /\ M.oldest = L.oldest /\ M.nextSpan = L.nextSpan /\ M.kicks = L.kicks
  BY FieldNames DEF Typed, Shaped
<1>2. M.spans \in [Live(M) -> SpanTo(c)]
  BY <1>1 DEF Typed, Live
<1>3. DOMAIN EmptySpan = SpanFields
  BY DEF SpanFields
<1>4. Shaped(M)
  BY <1>1, <1>2, SpanFieldNames DEF Typed, Shaped, SpanTo, Live
<1>5. Others(M, c)
  BY FieldNames DEF Typed, Shaped, Others
<1>6. QED
  BY <1>1, <1>2, <1>4, <1>5 DEF Typed

LEMMA PutRecord ==
    ASSUME NEW S, NEW recs \in Seq(S), NEW i, NEW r,
           i \in DOMAIN recs => r \in S
    PROVE  [recs EXCEPT ![i] = r] \in Seq(S)
<1>1. CASE i \in 1 .. Len(recs)
  BY <1>1, ExceptSeq
<1>2. CASE i \notin 1 .. Len(recs)
  <2>1. recs \in [1 .. Len(recs) -> S]
    BY LenProperties
  <2>2. [recs EXCEPT ![i] = r] = recs
    BY <1>2, <2>1
  <2>3. QED
    BY <2>2
<1>3. QED
  BY <1>1, <1>2

\* A change of a live record leaves its span a span.
LEMMA PutRecordOfSpan ==
    ASSUME NEW c, NEW s \in SpanTo(c), NEW i, NEW r,
           i \in DOMAIN s.records => r \in RecordTo(c)
    PROVE  [s EXCEPT !.records = [@ EXCEPT ![i] = r]] \in SpanTo(c)
<1>1. s.records \in Seq(RecordTo(c))
  BY DEF SpanTo
<1>2. [s.records EXCEPT ![i] = r] \in Seq(RecordTo(c))
  BY <1>1, PutRecord
<1>3. QED
  BY <1>2 DEF SpanTo

LEMMA RecordOfSpan ==
    ASSUME NEW c, NEW s \in SpanTo(c), NEW i \in DOMAIN s.records
    PROVE  s.records[i] \in RecordTo(c)
<1>1. s.records \in Seq(RecordTo(c))
  BY DEF SpanTo
<1>2. QED
  BY <1>1, LenProperties, ElementOfSeq

LEMMA SpanOfLedger ==
    ASSUME NEW c, NEW L, Typed(L, c), NEW id \in Live(L)
    PROVE  L.spans[id] \in SpanTo(c)
BY DEF Typed

\* One field of a span.
LEMMA PutRecords ==
    ASSUME NEW c, NEW L, Typed(L, c), NEW id, NEW x,
           id \in Live(L) => x \in Seq(RecordTo(c))
    PROVE  Typed([L EXCEPT !.spans[id].records = x], c)
<1>1. id \in Live(L) => L.spans[id] \in SpanTo(c)
  BY SpanOfLedger
<1>2. ASSUME id \in Live(L)
      PROVE  [L.spans[id] EXCEPT !.records = x] \in SpanTo(c)
  BY <1>1, <1>2 DEF SpanTo
<1>3. QED
  BY <1>2, PutSpan

LEMMA PutPending ==
    ASSUME NEW c, NEW L, Typed(L, c), NEW id, NEW x,
           id \in Live(L) => x \in Int
    PROVE  Typed([L EXCEPT !.spans[id].pending = x], c)
<1>1. id \in Live(L) => L.spans[id] \in SpanTo(c)
  BY SpanOfLedger
<1>2. ASSUME id \in Live(L)
      PROVE  [L.spans[id] EXCEPT !.pending = x] \in SpanTo(c)
  BY <1>1, <1>2 DEF SpanTo
<1>3. QED
  BY <1>2, PutSpan

LEMMA PutFlags ==
    ASSUME NEW c, NEW L, Typed(L, c), NEW id
    PROVE  /\ Typed([L EXCEPT !.spans[id].partial = TRUE], c)
           /\ Typed([L EXCEPT !.spans[id].unowned = TRUE], c)
           /\ Typed([L EXCEPT !.spans[id].sealed = TRUE], c)
           /\ Typed([L EXCEPT !.spans[id].flushed = TRUE], c)
<1>1. id \in Live(L) => L.spans[id] \in SpanTo(c)
  BY SpanOfLedger
<1>2. ASSUME id \in Live(L)
      PROVE  /\ [L.spans[id] EXCEPT !.partial = TRUE] \in SpanTo(c)
             /\ [L.spans[id] EXCEPT !.unowned = TRUE] \in SpanTo(c)
             /\ [L.spans[id] EXCEPT !.sealed = TRUE] \in SpanTo(c)
             /\ [L.spans[id] EXCEPT !.flushed = TRUE] \in SpanTo(c)
  BY <1>1, <1>2 DEF SpanTo
<1>3. QED
  BY <1>2, PutSpan

LEMMA PutAdmitted ==
    ASSUME NEW c, NEW L, Typed(L, c), NEW id, NEW x,
           id \in Live(L) => x \in 0 .. c
    PROVE  Typed([L EXCEPT !.spans[id].lastAdmitted = x], c)
<1>1. id \in Live(L) => L.spans[id] \in SpanTo(c)
  BY SpanOfLedger
<1>2. ASSUME id \in Live(L)
      PROVE  [L.spans[id] EXCEPT !.lastAdmitted = x] \in SpanTo(c)
  BY <1>1, <1>2 DEF SpanTo
<1>3. QED
  BY <1>2, PutSpan

LEMMA PutNumbers ==
    ASSUME NEW c, NEW L, Typed(L, c), NEW id, NEW x,
           id \in Live(L) => x \in Nat
    PROVE  /\ Typed([L EXCEPT !.spans[id].kicked = x], c)
           /\ Typed([L EXCEPT !.spans[id].dwords = x], c)
           /\ Typed([L EXCEPT !.spans[id].startsList = x], c)
           /\ Typed([L EXCEPT !.spans[id].hostTarget = x], c)
           /\ Typed([L EXCEPT !.spans[id].applied = x], c)
<1>1. id \in Live(L) => L.spans[id] \in SpanTo(c)
  BY SpanOfLedger
<1>2. ASSUME id \in Live(L)
      PROVE  /\ [L.spans[id] EXCEPT !.kicked = x] \in SpanTo(c)
             /\ [L.spans[id] EXCEPT !.dwords = x] \in SpanTo(c)
             /\ [L.spans[id] EXCEPT !.startsList = x] \in SpanTo(c)
             /\ [L.spans[id] EXCEPT !.hostTarget = x] \in SpanTo(c)
             /\ [L.spans[id] EXCEPT !.applied = x] \in SpanTo(c)
  BY <1>1, <1>2 DEF SpanTo
<1>3. QED
  BY <1>2, PutSpan

LEMMA PutStage ==
    ASSUME NEW c, NEW L, Typed(L, c), NEW id, NEW x,
           id \in Live(L) => x \in 0 .. 2
    PROVE  Typed([L EXCEPT !.spans[id].stage = x], c)
<1>1. id \in Live(L) => L.spans[id] \in SpanTo(c)
  BY SpanOfLedger
<1>2. ASSUME id \in Live(L)
      PROVE  [L.spans[id] EXCEPT !.stage = x] \in SpanTo(c)
  BY <1>1, <1>2 DEF SpanTo
<1>3. QED
  BY <1>2, PutSpan

LEMMA PutThread ==
    ASSUME NEW c, NEW L, Typed(L, c), NEW id, NEW x,
           id \in Live(L) => x \in Threads \cup {NoThread}
    PROVE  Typed([L EXCEPT !.spans[id].thread = x], c)
<1>1. id \in Live(L) => L.spans[id] \in SpanTo(c)
  BY SpanOfLedger
<1>2. ASSUME id \in Live(L)
      PROVE  [L.spans[id] EXCEPT !.thread = x] \in SpanTo(c)
  BY <1>1, <1>2 DEF SpanTo
<1>3. QED
  BY <1>2, PutSpan

LEMMA PutDeferred ==
    ASSUME NEW c, NEW L, Typed(L, c), NEW id, NEW x,
           id \in Live(L) => x \in Segments \cup {NoSegment}
    PROVE  Typed([L EXCEPT !.spans[id].deferred = x], c)
<1>1. id \in Live(L) => L.spans[id] \in SpanTo(c)
  BY SpanOfLedger
<1>2. ASSUME id \in Live(L)
      PROVE  [L.spans[id] EXCEPT !.deferred = x] \in SpanTo(c)
  BY <1>1, <1>2 DEF SpanTo
<1>3. QED
  BY <1>2, PutSpan

\* A field of the ledger beside the span window.
LEMMA PutOther ==
    ASSUME NEW c, NEW L, Typed(L, c), NEW M, DOMAIN M = Fields,
           M.oldest = L.oldest, M.nextSpan = L.nextSpan, M.spans = L.spans,
           Others(M, c)
    PROVE  Typed(M, c)
BY DEF Typed, Shaped, Live, Others

-----------------------------------------------------------------------------
(* The helpers of State.                                                   *)

LEMMA FailAtTyped ==
    ASSUME NEW c, NEW L, Typed(L, c), NEW id \in Nat
    PROVE  Typed(FailAt(L, id), c)
<1> DEFINE M == [L EXCEPT !.failedSpan = id]
<1>1. Typed(M, c)
  <2>1. /\ DOMAIN M = Fields
        /\ M.oldest = L.oldest /\ M.nextSpan = L.nextSpan /\ M.spans = L.spans
    BY FieldNames DEF Typed, Shaped
  <2>2. Others(M, c)
    BY FieldNames DEF Typed, Shaped, Others
  <2>3. QED
    BY <2>1, <2>2, PutOther
<1>2. QED
  BY <1>1 DEF FailAt

LEMMA FlagTyped ==
    ASSUME NEW c, NEW L, Typed(L, c)
    PROVE  Typed([L EXCEPT !.epochPartial = TRUE], c)
<1> DEFINE M == [L EXCEPT !.epochPartial = TRUE]
<1>1. /\ DOMAIN M = Fields
      /\ M.oldest = L.oldest /\ M.nextSpan = L.nextSpan /\ M.spans = L.spans
  BY FieldNames DEF Typed, Shaped
<1>2. Others(M, c)
  BY FieldNames DEF Typed, Shaped, Others
<1>3. QED
  BY <1>1, <1>2, PutOther

\* Some fields of a live record.
LEMMA ChangeRecord ==
    ASSUME NEW c, NEW L, Typed(L, c), NEW id, NEW i
    PROVE  /\ Typed([L EXCEPT !.spans[id].records[i].pending = FALSE], c)
           /\ Typed([L EXCEPT !.spans[id].records[i].skipped = TRUE], c)
           /\ \A m \in 0 .. c :
                 Typed([L EXCEPT !.spans[id].records[i].mark = m], c)
<1> DEFINE recs == L.spans[id].records
<1>1. ASSUME NEW r, i \in DOMAIN recs /\ recs[i] \in RecordTo(c)
                    => r \in RecordTo(c)
      PROVE  Typed([L EXCEPT !.spans[id].records = [recs EXCEPT ![i] = r]], c)
  <2>1. ASSUME id \in Live(L)
        PROVE  [recs EXCEPT ![i] = r] \in Seq(RecordTo(c))
    <3>1. L.spans[id] \in SpanTo(c)
      BY <2>1, SpanOfLedger
    <3>2. recs \in Seq(RecordTo(c))
      BY <3>1 DEF SpanTo
    <3>3. i \in DOMAIN recs => r \in RecordTo(c)
      BY <1>1, <3>1, RecordOfSpan
    <3>4. QED
      BY <3>2, <3>3, PutRecord
  <2>2. QED
    BY <2>1, PutRecords
<1>2. \A r \in RecordTo(c) :
         /\ [r EXCEPT !.pending = FALSE] \in RecordTo(c)
         /\ [r EXCEPT !.skipped = TRUE] \in RecordTo(c)
         /\ \A m \in 0 .. c : [r EXCEPT !.mark = m] \in RecordTo(c)
  BY DEF RecordTo
<1>3. /\ Typed([L EXCEPT !.spans[id].records =
                  [recs EXCEPT ![i] = [recs[i] EXCEPT !.pending = FALSE]]], c)
      /\ Typed([L EXCEPT !.spans[id].records =
                  [recs EXCEPT ![i] = [recs[i] EXCEPT !.skipped = TRUE]]], c)
      /\ \A m \in 0 .. c :
            Typed([L EXCEPT !.spans[id].records =
                  [recs EXCEPT ![i] = [recs[i] EXCEPT !.mark = m]]], c)
  BY <1>1, <1>2
<1>4. QED
  BY <1>3

LEMMA UnownTyped ==
    ASSUME NEW c, NEW L, Typed(L, c), NEW id \in Nat, NEW i
    PROVE  Typed(Unown(L, id, i), c)
<1> DEFINE recs == L.spans[id].records
<1> DEFINE without == IF i \in DOMAIN recs
                      THEN [recs EXCEPT ![i].skipped = TRUE] ELSE recs
<1> DEFINE failing == IF Mode = "Strict" THEN FailAt(L, id) ELSE L
<1>1. CASE Mode = "Census"
  <2> DEFINE M == [L EXCEPT !.spans[id].records = without]
  <2>1. Typed(M, c)
    <3>1. CASE i \in DOMAIN recs
      <4>1. M = [L EXCEPT !.spans[id].records[i].skipped = TRUE]
        BY <3>1
      <4>2. Typed([L EXCEPT !.spans[id].records[i].skipped = TRUE], c)
        BY ChangeRecord
      <4>3. QED
        BY <4>1, <4>2
    <3>2. CASE i \notin DOMAIN recs
      <4>1. id \in Live(L) => recs \in Seq(RecordTo(c))
        BY SpanOfLedger DEF SpanTo
      <4>2. QED
        BY <3>2, <4>1, PutRecords
    <3>3. QED
      BY <3>1, <3>2
  <2>2. Unown(L, id, i) = [[M EXCEPT !.spans[id].partial = TRUE]
                              EXCEPT !.epochPartial = TRUE]
    BY <1>1 DEF Unown
  <2> HIDE DEF M
  <2>3. Typed([M EXCEPT !.spans[id].partial = TRUE], c)
    BY <2>1, PutFlags
  <2>4. QED
    BY <2>2, <2>3, FlagTyped
<1>2. CASE Mode # "Census"
  <2>1. Typed(failing, c)
    BY FailAtTyped
  <2>2. Unown(L, id, i) = [failing EXCEPT !.spans[id].unowned = TRUE]
    BY <1>2 DEF Unown
  <2> HIDE DEF failing
  <2>3. Typed([failing EXCEPT !.spans[id].unowned = TRUE], c)
    BY <2>1, PutFlags
  <2>4. QED
    BY <2>2, <2>3
<1>3. QED
  BY <1>1, <1>2

LEMMA SettleTyped ==
    ASSUME NEW c, NEW L, Typed(L, c), NEW h
    PROVE  Typed(Settle(L, h), c)
<1> DEFINE M == [L EXCEPT !.spans[h.span].records[h.index].pending = FALSE]
<1>1. Typed(M, c)
  BY ChangeRecord
<1>2. Settle(L, h) = [M EXCEPT !.spans[h.span].pending =
                         M.spans[h.span].pending - 1]
  BY DEF Settle
<1> HIDE DEF M
<1>3. h.span \in Live(M) => M.spans[h.span] \in SpanTo(c)
  BY <1>1, SpanOfLedger
<1>4. h.span \in Live(M) => M.spans[h.span].pending - 1 \in Int
  BY <1>3 DEF SpanTo
<1>5. Typed([M EXCEPT !.spans[h.span].pending =
               M.spans[h.span].pending - 1], c)
  BY <1>1, <1>4, PutPending
<1>6. QED
  BY <1>2, <1>5

LEMMA AbandonTyped ==
    ASSUME NEW c, NEW L, Typed(L, c), NEW h \in Handles
    PROVE  Typed(Abandon(L, h), c)
<1>1. Typed(Settle(L, h), c)
  BY SettleTyped
<1>2. h.span \in Nat
  BY DEF Handles
<1>3. Typed(Unown(Settle(L, h), h.span, h.index), c)
  BY <1>1, <1>2, UnownTyped
<1>4. QED
  BY <1>3 DEF Abandon

LEMMA ClearHandles ==
    ASSUME NEW c, NEW L, Typed(L, c), NEW t, NEW h \in Handles
    PROVE  /\ Typed([L EXCEPT !.openResolves[t] = h], c)
           /\ Typed([L EXCEPT !.openDraws[t] = h], c)
<1>1. Typed([L EXCEPT !.openResolves[t] = h], c)
  <2> DEFINE M == [L EXCEPT !.openResolves[t] = h]
  <2>1. /\ DOMAIN M = Fields
        /\ M.oldest = L.oldest /\ M.nextSpan = L.nextSpan /\ M.spans = L.spans
    BY FieldNames DEF Typed, Shaped
  <2>2. Others(M, c)
    BY FieldNames DEF Typed, Shaped, Others
  <2>3. QED
    BY <2>1, <2>2, PutOther
<1>2. Typed([L EXCEPT !.openDraws[t] = h], c)
  <2> DEFINE M == [L EXCEPT !.openDraws[t] = h]
  <2>1. /\ DOMAIN M = Fields
        /\ M.oldest = L.oldest /\ M.nextSpan = L.nextSpan /\ M.spans = L.spans
    BY FieldNames DEF Typed, Shaped
  <2>2. Others(M, c)
    BY FieldNames DEF Typed, Shaped, Others
  <2>3. QED
    BY <2>1, <2>2, PutOther
<1>3. QED
  BY <1>1, <1>2

LEMMA HandleTypes ==
    ASSUME NEW c, NEW L, Typed(L, c), NEW t \in Threads
    PROVE  /\ L.openDraws[t] \in Handles /\ L.openResolves[t] \in Handles
           /\ NoHandle \in Handles
BY DEF Typed, Others, NoHandle, Handles

LEMMA AbandonOpenResolveTyped ==
    ASSUME NEW c, NEW L, Typed(L, c), NEW t \in Threads
    PROVE  Typed(AbandonOpenResolve(L, t), c)
<1>1. L.openResolves[t] \in Handles /\ NoHandle \in Handles
  BY HandleTypes
<1>2. Typed([L EXCEPT !.openResolves[t] = NoHandle], c)
  BY <1>1, ClearHandles
<1>3. QED
  BY <1>1, <1>2, AbandonTyped DEF AbandonOpenResolve

LEMMA BackTypes ==
    ASSUME NEW c, NEW L, Typed(L, c)
    PROVE  Back(L) \in Nat /\ Back(L) \in Live(L)
BY DEF Typed, Shaped, Back, Live

LEMMA AdmitTyped ==
    ASSUME NEW c, NEW L, Typed(L, c), NEW t \in Threads, NEW allowHeld
    PROVE  Typed(Admit(L, t, allowHeld), c)
<1> DEFINE b == Back(L)
<1> DEFINE M == IF Refused(L, t, allowHeld) THEN FailAt(L, b) ELSE L
<1>1. Typed(M, c)
  BY BackTypes, FailAtTyped
<1>2. \/ Admit(L, t, allowHeld) = M
      \/ Admit(L, t, allowHeld) = [M EXCEPT !.spans[b].thread = t]
  BY DEF Admit
<1> HIDE DEF M, b
<1>3. Typed([M EXCEPT !.spans[b].thread = t], c)
  BY <1>1, PutThread
<1>4. QED
  BY <1>1, <1>2, <1>3

LEMMA AppendRecordsTyped ==
    ASSUME NEW c, NEW L, Typed(L, c), NEW recs \in Seq(RecordTo(c))
    PROVE  Typed(AppendRecords(L, recs), c)
<1> DEFINE b == Back(L)
<1> DEFINE old == L.spans[b].records
<1> DEFINE work == L.epochWork \/ \E i \in DOMAIN recs : recs[i].kind \in Work
<1> DEFINE M == [L EXCEPT !.spans[b].records = old \o recs]
<1> DEFINE N == [M EXCEPT !.epochWork = work]
<1>1. L.spans[b] \in SpanTo(c)
  BY BackTypes, SpanOfLedger
<1>2. old \in Seq(RecordTo(c))
  BY <1>1 DEF SpanTo
<1>3. old \o recs \in Seq(RecordTo(c))
  BY <1>2, ConcatProperties
<1>4. Typed(M, c)
  BY <1>3, PutRecords
<1>5. AppendRecords(L, recs) = N
  <2>1. M.epochWork = L.epochWork
    BY FieldNames DEF Typed, Shaped
  <2>2. QED
    BY <2>1 DEF AppendRecords
<1>6. work \in BOOLEAN
  OBVIOUS
<1> HIDE DEF M, work
<1>7. /\ DOMAIN N = Fields
      /\ N.oldest = M.oldest /\ N.nextSpan = M.nextSpan /\ N.spans = M.spans
  BY <1>4, FieldNames DEF Typed, Shaped
<1>8. Others(N, c)
  BY <1>4, <1>6, FieldNames DEF Typed, Shaped, Others
<1>9. Typed(N, c)
  BY <1>4, <1>7, <1>8, PutOther
<1>10. QED
  BY <1>5, <1>9

LEMMA AppendOneTyped ==
    ASSUME NEW c, NEW L, Typed(L, c), NEW r \in RecordTo(c)
    PROVE  Typed(AppendRecords(L, <<r>>), c)
<1>1. <<r>> \in Seq(RecordTo(c))
  OBVIOUS
<1>2. QED
  BY <1>1, AppendRecordsTyped

LEMMA RecordOnTyped ==
    ASSUME NEW c, NEW L, Typed(L, c), NEW t \in Threads, NEW r \in RecordTo(c)
    PROVE  Typed(RecordOn(L, t, r), c)
BY AbandonOpenResolveTyped, AdmitTyped, AppendOneTyped DEF RecordOn

LEMMA CheckIdentityTyped ==
    ASSUME NEW c, NEW L, Typed(L, c), NEW block
    PROVE  Typed(CheckIdentity(L, block), c)
BY BackTypes, FailAtTyped DEF CheckIdentity

LEMMA SettleDrawTyped ==
    ASSUME NEW c \in Nat, NEW L, Typed(L, c), NEW id \in Nat, NEW i,
           NEW sequence \in 0 .. c, NEW verdict
    PROVE  Typed(SettleDraw(L, id, i, sequence, verdict), c)
<1> DEFINE M == [L EXCEPT !.spans[id].records[i].mark = sequence]
<1> DEFINE newest == MaxOf(M.spans[id].lastAdmitted, sequence)
<1>1. Typed(M, c)
  BY ChangeRecord
<1>2. \/ SettleDraw(L, id, i, sequence, verdict)
            = [M EXCEPT !.spans[id].lastAdmitted = newest]
      \/ SettleDraw(L, id, i, sequence, verdict)
            = [[M EXCEPT !.spans[id].partial = TRUE] EXCEPT !.epochPartial = TRUE]
      \/ SettleDraw(L, id, i, sequence, verdict) = Unown(M, id, i)
  BY DEF SettleDraw
<1> HIDE DEF M
<1>3. id \in Live(M) => M.spans[id] \in SpanTo(c)
  BY <1>1, SpanOfLedger
<1>4. id \in Live(M) => newest \in 0 .. c
  BY <1>3 DEF SpanTo, MaxOf
<1> HIDE DEF newest
<1>5. Typed([M EXCEPT !.spans[id].lastAdmitted = newest], c)
  BY <1>1, <1>4, PutAdmitted
<1>6. Typed([M EXCEPT !.spans[id].partial = TRUE], c)
  BY <1>1, PutFlags
<1>7. Typed([[M EXCEPT !.spans[id].partial = TRUE] EXCEPT !.epochPartial = TRUE], c)
  BY <1>6, FlagTyped
<1>8. Typed(Unown(M, id, i), c)
  BY <1>1, UnownTyped
<1>9. QED
  BY <1>2, <1>5, <1>7, <1>8

-----------------------------------------------------------------------------
(* The swap settles the presented resolves of every span.                  *)

\* A set of op marks has a newest one.
LEMMA NewestExists ==
    ASSUME NEW c \in Nat, NEW marks, marks \subseteq 0 .. c, marks # {}
    PROVE  \E m \in marks : \A n \in marks : n <= m
<1> DEFINE ages == {c - m : m \in marks}
<1>1. ages \subseteq Nat /\ ages # {}
  <2>1. \A m \in marks : c - m \in Nat
    OBVIOUS
  <2>2. QED
    BY <2>1
<1>2. PICK age \in ages : \A other \in ages : age <= other
  BY <1>1, OldestExists
<1>3. PICK m \in marks : age = c - m
  BY <1>2
<1>4. \A n \in marks : c - n \in ages
  OBVIOUS
<1>5. \A n \in marks : c - m <= c - n
  BY <1>2, <1>3, <1>4
<1>6. \A n \in marks : n <= m
  BY <1>5
<1>7. QED
  BY <1>6

LEMMA PresentedTypes ==
    ASSUME NEW c \in Nat, NEW L, Typed(L, c), NEW h \in Presented(L)
    PROVE  h.span \in Nat /\ ResolveOf(L, h).mark \in 0 .. c
<1>1. /\ h \in Handles /\ h.span \in Live(L)
      /\ h.index \in DOMAIN L.spans[h.span].records
  BY DEF Presented, Pending, Typed, Others
<1>2. L.spans[h.span] \in SpanTo(c)
  BY <1>1, SpanOfLedger
<1>3. ResolveOf(L, h) \in RecordTo(c)
  BY <1>1, <1>2, RecordOfSpan DEF ResolveOf
<1>4. QED
  BY <1>1, <1>3 DEF Handles, RecordTo

LEMMA SwapSettlesTyped ==
    ASSUME NEW c \in Nat, NEW L, Typed(L, c), NEW id \in Live(L), NEW front
    PROVE  SwapSettles(L, id, front) \in SpanTo(c)
<1> DEFINE old == L.spans[id]
<1> DEFINE mine == {h \in Presented(L) : h.span = id}
<1> DEFINE bad == mine \cap Mismatched(L, front)
<1> DEFINE marks == {ResolveOf(L, h).mark : h \in mine \ bad}
<1> DEFINE due(i) == \E h \in mine : h.index = i
<1> DEFINE wrong(i) == \E h \in bad : h.index = i
<1> DEFINE settled(r, i) == [r EXCEPT
                               !.pending = @ /\ ~due(i),
                               !.hostOnly = @ \/ (due(i) /\ ~wrong(i)),
                               !.skipped = @ \/ (wrong(i) /\ Mode = "Census")]
<1> DEFINE recs == [i \in DOMAIN old.records |-> settled(old.records[i], i)]
<1> DEFINE pending == old.pending - Cardinality(mine)
<1> DEFINE last == CHOOSE m \in marks \cup {old.lastAdmitted} :
                      \A n \in marks \cup {old.lastAdmitted} : n <= m
<1> DEFINE unowned == old.unowned \/ (bad # {} /\ Mode # "Census")
<1> DEFINE partial == old.partial \/ (bad # {} /\ Mode = "Census")
<1>1. old \in SpanTo(c)
  BY SpanOfLedger
<1>2. SwapSettles(L, id, front) =
         [old EXCEPT !.records = recs, !.pending = pending,
                     !.lastAdmitted = last, !.unowned = unowned,
                     !.partial = partial]
  <2>1. DOMAIN old = SpanFields
    BY DEF Typed, Shaped
  <2>2. QED
    BY <2>1, SpanFieldNames DEF SwapSettles
<1>3. recs \in Seq(RecordTo(c))
  <2>1. old.records \in Seq(RecordTo(c))
    BY <1>1 DEF SpanTo
  <2>2. Len(old.records) \in Nat /\ DOMAIN old.records = 1 .. Len(old.records)
    BY <2>1, LenProperties
  <2>3. ASSUME NEW i \in DOMAIN old.records
        PROVE  recs[i] \in RecordTo(c)
    <3> DEFINE a == old.records[i].pending /\ ~due(i)
    <3> DEFINE b == old.records[i].hostOnly \/ (due(i) /\ ~wrong(i))
    <3> DEFINE d == old.records[i].skipped \/ (wrong(i) /\ Mode = "Census")
    <3>1. old.records[i] \in RecordTo(c)
      BY <1>1, RecordOfSpan
    <3>2. a \in BOOLEAN /\ b \in BOOLEAN /\ d \in BOOLEAN
      OBVIOUS
    <3>3. recs[i] = [old.records[i] EXCEPT !.pending = a, !.hostOnly = b,
                                           !.skipped = d]
      BY <3>1 DEF RecordTo
    <3> HIDE DEF a, b, d
    <3>4. [old.records[i] EXCEPT !.pending = a, !.hostOnly = b,
                                 !.skipped = d] \in RecordTo(c)
      BY <3>1, <3>2 DEF RecordTo
    <3>5. QED
      BY <3>3, <3>4
  <2>4. recs \in [1 .. Len(old.records) -> RecordTo(c)]
    <3>1. DOMAIN recs = 1 .. Len(old.records)
      BY <2>2
    <3>2. recs = [i \in 1 .. Len(old.records) |-> recs[i]]
      BY <2>2
    <3> HIDE DEF recs
    <3>3. QED
      BY <2>2, <2>3, <3>1, <3>2
  <2> HIDE DEF recs
  <2>5. QED
    BY <2>2, <2>4, SeqDef
<1>4. pending \in Int
  <2>1. mine \subseteq L.frontbuffer
    BY DEF Presented
  <2>2. IsFiniteSet(L.frontbuffer)
    BY DEF Typed, Others
  <2>3. Cardinality(mine) \in Nat
    BY <2>1, <2>2, FS_Subset, FS_CardinalityType
  <2>4. old.pending \in Int
    BY <1>1 DEF SpanTo
  <2>5. QED
    BY <2>3, <2>4
<1>5. last \in 0 .. c
  <2>1. marks \subseteq 0 .. c
    BY PresentedTypes
  <2>2. old.lastAdmitted \in 0 .. c
    BY <1>1 DEF SpanTo
  <2>3. marks \cup {old.lastAdmitted} \subseteq 0 .. c
    BY <2>1, <2>2
  <2>4. \E m \in marks \cup {old.lastAdmitted} :
           \A n \in marks \cup {old.lastAdmitted} : n <= m
    BY <2>3, NewestExists
  <2>5. QED
    BY <2>3, <2>4
<1>6. unowned \in BOOLEAN /\ partial \in BOOLEAN
  OBVIOUS
<1> HIDE DEF recs, pending, last, unowned, partial
<1>7. [old EXCEPT !.records = recs, !.pending = pending,
                  !.lastAdmitted = last, !.unowned = unowned,
                  !.partial = partial] \in SpanTo(c)
  BY <1>1, <1>3, <1>4, <1>5, <1>6 DEF SpanTo
<1>8. QED
  BY <1>2, <1>7

LEMMA SettleFrontbuffersTyped ==
    ASSUME NEW c \in Nat, NEW L, Typed(L, c), NEW front
    PROVE  Typed(SettleFrontbuffers(L, front), c)
<1> DEFINE wrong == Mismatched(L, front)
<1> DEFINE first == CHOOSE h \in wrong : \A g \in wrong :
                      ResolveOf(L, h).mark <= ResolveOf(L, g).mark
<1> DEFINE partial == L.epochPartial \/ (wrong # {} /\ Mode = "Census")
<1> DEFINE M == [L EXCEPT !.spans = [id \in Live(L) |-> SwapSettles(L, id, front)],
                          !.frontbuffer = {},
                          !.epochPartial = partial]
<1>1. \/ SettleFrontbuffers(L, front) = M
      \/ wrong # {} /\ SettleFrontbuffers(L, front) = FailAt(M, first.span)
  BY DEF SettleFrontbuffers
<1>2. partial \in BOOLEAN
  OBVIOUS
<1>3. wrong # {} => first.span \in Nat
  <2> DEFINE marks == {ResolveOf(L, h).mark : h \in wrong}
  <2>1. ASSUME wrong # {}
        PROVE  first \in wrong
    <3>1. marks \subseteq Nat /\ marks # {}
      BY <2>1, PresentedTypes DEF Mismatched
    <3>2. PICK m \in marks : \A n \in marks : m <= n
      BY <3>1, OldestExists
    <3>3. PICK h \in wrong : m = ResolveOf(L, h).mark
      BY <3>2
    <3>4. \A g \in wrong : ResolveOf(L, g).mark \in marks
      OBVIOUS
    <3>5. \A g \in wrong : ResolveOf(L, h).mark <= ResolveOf(L, g).mark
      BY <3>2, <3>3, <3>4
    <3>6. QED
      BY <3>5
  <2>2. QED
    BY <2>1, PresentedTypes DEF Mismatched
<1> HIDE DEF wrong, first, partial
<1>4. /\ DOMAIN M = Fields
      /\ M.oldest = L.oldest /\ M.nextSpan = L.nextSpan /\ M.kicks = L.kicks
      /\ M.spans = [id \in Live(L) |-> SwapSettles(L, id, front)]
  BY FieldNames DEF Typed, Shaped
<1>5. Live(M) = Live(L)
  BY <1>4 DEF Live
<1>6. M.spans \in [Live(M) -> SpanTo(c)]
  <2>1. \A id \in Live(L) : SwapSettles(L, id, front) \in SpanTo(c)
    BY SwapSettlesTyped
  <2>2. [id \in Live(L) |-> SwapSettles(L, id, front)]
           \in [Live(L) -> SpanTo(c)]
    BY <2>1
  <2> HIDE DEF M
  <2>3. QED
    BY <1>4, <1>5, <2>2
<1>7. Others(M, c)
  BY <1>2, FieldNames, FS_EmptySet DEF Typed, Shaped, Others
<1>8. Shaped(M)
  <2>1. Shaped(L)
    BY DEF Typed
  <2>2. \A id \in Live(L) : DOMAIN SwapSettles(L, id, front) = SpanFields
    BY <2>1, SwapSettlesKept DEF Kept
  <2>3. QED
    BY ZenonT(30), <1>4, <1>5, <2>1, <2>2 DEF Shaped
<1>9. Typed(M, c)
  BY <1>4, <1>6, <1>7, <1>8 DEF Typed
<1> HIDE DEF M
<1>10. QED
  BY <1>1, <1>3, <1>9, FailAtTyped

-----------------------------------------------------------------------------
(* Submits, kicks and the span window.                                     *)

\* A new open span after the window.
LEMMA OpenSpanTyped ==
    ASSUME NEW c \in Nat, NEW L, Shaped(L), L.oldest # 0,
           L.oldest <= L.nextSpan,
           L.spans \in [Live(L) -> SpanTo(c)], Others(L, c)
    PROVE  Typed(OpenSpan(L), c)
<1> DEFINE M == OpenSpan(L)
<1>1. /\ DOMAIN M = Fields /\ M.kicks = L.kicks
      /\ M.oldest = L.oldest /\ M.nextSpan = L.nextSpan + 1
      /\ M.spans = [id \in L.oldest .. L.nextSpan |->
                       IF id = L.nextSpan THEN EmptySpan ELSE L.spans[id]]
  BY FieldNames DEF OpenSpan, Shaped
<1>2. Others(M, c)
  BY FieldNames DEF OpenSpan, Shaped, Others
<1> HIDE DEF M
<1>3. Live(M) = L.oldest .. L.nextSpan
  BY <1>1 DEF Live, Shaped
<1>4. EmptySpan \in SpanTo(c) /\ DOMAIN EmptySpan = SpanFields
  BY DEF EmptySpan, SpanTo, SpanFields
<1>5. \A id \in L.oldest .. L.nextSpan :
         id # L.nextSpan => id \in Live(L)
  BY DEF Live, Shaped
<1>6. \A id \in Live(M) : M.spans[id] \in SpanTo(c)
                          /\ DOMAIN M.spans[id] = SpanFields
  BY <1>1, <1>3, <1>4, <1>5 DEF Shaped
<1>7. M.spans \in [Live(M) -> SpanTo(c)]
  BY <1>1, <1>3, <1>6
<1>8. Shaped(M)
  <2>1. M.oldest \in Nat /\ M.nextSpan \in Nat /\ M.kicks \in Nat
    BY <1>1 DEF Shaped
  <2>2. DOMAIN M.spans = Live(M)
    BY <1>1, <1>3
  <2>3. QED
    BY <1>1, <1>6, <2>1, <2>2 DEF Shaped
<1>9. M.oldest # 0 /\ M.oldest < M.nextSpan
  BY <1>1 DEF Shaped
<1>10. QED
  BY <1>2, <1>7, <1>8, <1>9 DEF Typed, M

LEMMA OpenNextTyped ==
    ASSUME NEW c \in Nat, NEW L, Typed(L, c)
    PROVE  Typed(OpenSpan(L), c)
<1>1. L.oldest <= L.nextSpan
  BY DEF Typed, Shaped
<1>2. QED
  BY <1>1, OpenSpanTyped DEF Typed

LEMMA AttachHeldTyped ==
    ASSUME NEW c, NEW L, Typed(L, c), NEW segment \in Segments
    PROVE  Typed(AttachHeld(L, segment), c)
<1> DEFINE M == AppendRecords(L, L.held[segment])
<1> DEFINE b == Back(L)
<1> DEFINE list == IF L.heldList[segment] # 0 THEN L.heldList[segment]
                   ELSE M.spans[b].startsList
<1> DEFINE N == [M EXCEPT !.held[segment] = <<>>, !.heldList[segment] = 0]
<1>1. L.held[segment] \in Seq(RecordTo(c)) /\ L.heldList[segment] \in Nat
  BY DEF Typed, Others
<1>2. Typed(M, c) /\ Live(M) = Live(L)
  <2>1. Same(M, L)
    BY AppendRecordsSame DEF Typed
  <2>2. Live(M) = Live(L)
    BY <2>1 DEF Same, Live
  <2>3. QED
    BY <1>1, <2>2, AppendRecordsTyped
<1>3. AttachHeld(L, segment) = [N EXCEPT !.spans[b].startsList = list]
  <2>1. N.spans = M.spans
    BY <1>2, FieldNames DEF Typed, Shaped
  <2>2. QED
    BY <2>1 DEF AttachHeld
<1> HIDE DEF M
<1>4. Typed(N, c)
  <2>1. /\ DOMAIN N = Fields
        /\ N.oldest = M.oldest /\ N.nextSpan = M.nextSpan /\ N.spans = M.spans
    BY <1>2, FieldNames DEF Typed, Shaped
  <2>2. <<>> \in Seq(RecordTo(c))
    OBVIOUS
  <2>3. Others(N, c)
    BY <1>2, <2>2, FieldNames DEF Typed, Shaped, Others
  <2>4. QED
    BY <1>2, <2>1, <2>3, PutOther
<1>5. M.spans[b] \in SpanTo(c)
  BY <1>2, BackTypes, SpanOfLedger
<1>6. list \in Nat
  BY <1>1, <1>5 DEF SpanTo
<1> HIDE DEF N, list
<1>7. Typed([N EXCEPT !.spans[b].startsList = list], c)
  BY <1>4, <1>6, PutNumbers
<1>8. QED
  BY <1>3, <1>7

LEMMA StartListTyped ==
    ASSUME NEW c, NEW L, Typed(L, c), NEW id \in Live(L)
    PROVE  Typed(StartList(L, id), c)
<1> DEFINE list == L.spans[id].startsList
<1> DEFINE M == [L EXCEPT !.activeList = list,
                   !.lists = [k \in {j \in DOMAIN @ : j >= list} |-> @[k]]]
<1>1. StartList(L, id) = L \/ StartList(L, id) = M
  BY DEF StartList
<1>2. L.spans[id] \in SpanTo(c)
  BY SpanOfLedger
<1>3. list \in Nat
  BY <1>2 DEF SpanTo
<1> HIDE DEF list
<1>4. /\ DOMAIN M = Fields
      /\ M.oldest = L.oldest /\ M.nextSpan = L.nextSpan /\ M.spans = L.spans
  BY FieldNames DEF Typed, Shaped
<1>5. Others(M, c)
  BY <1>3, FieldNames DEF Typed, Shaped, Others
<1>6. Typed(M, c)
  BY <1>4, <1>5, PutOther
<1>7. QED
  BY <1>1, <1>6

LEMMA PutSubmitTyped ==
    ASSUME NEW c, NEW L, Typed(L, c), NEW t \in Threads, NEW p \in Submits,
           p.epoch # 0 => p.segment \in Segments
    PROVE  Typed([L EXCEPT !.pendingSubmit[t] = p], c)
<1> DEFINE M == [L EXCEPT !.pendingSubmit[t] = p]
<1>1. /\ DOMAIN M = Fields
      /\ M.oldest = L.oldest /\ M.nextSpan = L.nextSpan /\ M.spans = L.spans
  BY FieldNames DEF Typed, Shaped
<1>2. Others(M, c)
  BY FieldNames DEF Typed, Shaped, Others
<1>3. QED
  BY <1>1, <1>2, PutOther

LEMMA NoSubmitTyped ==
    ASSUME NEW c, NEW L, Typed(L, c), NEW t \in Threads
    PROVE  Typed([L EXCEPT !.pendingSubmit[t] = NoSubmit], c)
<1>1. NoSubmit \in Submits /\ NoSubmit.epoch = 0
  BY DEF NoSubmit, Submits
<1>2. QED
  BY <1>1, PutSubmitTyped

LEMMA SubmittedTyped ==
    ASSUME NEW c, NEW L, Typed(L, c), NEW t \in Threads,
           NEW segment \in Segments, NEW size \in Nat, NEW worker \in BOOLEAN
    PROVE  Typed(Submitted(L, t, segment, size, worker), c)
<1> DEFINE p == [segment |-> segment, dwords |-> size, epoch |-> L.submitEpoch,
                 worker |-> worker]
<1>1. p \in Submits /\ p.segment \in Segments
  <2>1. L.submitEpoch \in Nat
    BY DEF Typed, Others
  <2>2. QED
    BY <2>1 DEF Submits
<1>2. Typed([L EXCEPT !.pendingSubmit[t] = p], c)
  BY <1>1, PutSubmitTyped
<1>3. Typed(FailAt(L, Back(L)), c)
  BY BackTypes, FailAtTyped
<1>4. QED
  BY <1>2, <1>3 DEF Submitted

LEMMA PopFrontTyped ==
    ASSUME NEW c, NEW L, Typed(L, c), L.oldest < Back(L)
    PROVE  Typed(PopFront(L), c)
<1> DEFINE M == PopFront(L)
<1>1. /\ DOMAIN M = Fields /\ M.kicks = L.kicks
      /\ M.oldest = L.oldest + 1 /\ M.nextSpan = L.nextSpan
      /\ M.spans = [id \in (L.oldest + 1) .. Back(L) |-> L.spans[id]]
  BY FieldNames DEF Typed, Shaped, PopFront
<1>2. Others(M, c)
  BY FieldNames DEF Typed, Shaped, PopFront, Others
<1> HIDE DEF M
<1>3. Live(M) = (L.oldest + 1) .. Back(L) /\ Live(M) \subseteq Live(L)
  BY <1>1 DEF Live, Back, Typed, Shaped
<1>4. M.spans \in [Live(M) -> SpanTo(c)]
  BY <1>1, <1>3 DEF Typed
<1>5. Shaped(M)
  BY <1>1, <1>3 DEF Typed, Shaped
<1>6. M.oldest # 0 /\ M.oldest < M.nextSpan
  BY <1>1 DEF Typed, Shaped, Back
<1>7. QED
  BY <1>2, <1>4, <1>5, <1>6 DEF Typed, M

LEMMA KickedTyped ==
    ASSUME NEW c \in Nat, NEW L, Typed(L, c), NEW id \in Live(L)
    PROVE  Typed(StartList([L EXCEPT !.spans[id].kicked = L.kicks], id), c)
<1> DEFINE M == [L EXCEPT !.spans[id].kicked = L.kicks]
<1>1. L.kicks \in Nat
  BY DEF Typed, Others
<1>2. Typed(M, c)
  BY <1>1, PutNumbers
<1>3. Live(M) = Live(L)
  BY FieldNames DEF Typed, Shaped, Live
<1> HIDE DEF M
<1>4. Typed(StartList(M, id), c)
  BY <1>2, <1>3, StartListTyped
<1>5. QED
  BY <1>4 DEF M

LEMMA WorkerKickTyped ==
    ASSUME NEW c \in Nat, NEW L, Typed(L, c), NEW p
    PROVE  Typed(WorkerKick(L, p), c)
<1> DEFINE waiting == Unsubmitted(L)
<1> DEFINE oldest == OldestOf(waiting)
<1>1. waiting # {} => oldest \in Live(L) /\ oldest \in Nat
  <2>1. waiting \subseteq Nat /\ waiting \subseteq Live(L)
    BY DEF Unsubmitted, Live, Typed, Shaped
  <2> HIDE DEF waiting
  <2>2. waiting # {} => oldest \in waiting
    BY <2>1, OldestExists DEF OldestOf
  <2>3. QED
    BY <2>1, <2>2
<1>2. waiting # {} =>
         Typed(StartList([L EXCEPT !.spans[oldest].kicked = L.kicks], oldest), c)
  BY <1>1, KickedTyped
<1>3. Typed([L EXCEPT !.replayPointer = L.kicks], c)
  <2> DEFINE M == [L EXCEPT !.replayPointer = L.kicks]
  <2>1. /\ DOMAIN M = Fields
        /\ M.oldest = L.oldest /\ M.nextSpan = L.nextSpan /\ M.spans = L.spans
    BY FieldNames DEF Typed, Shaped
  <2>2. Others(M, c)
    BY FieldNames DEF Typed, Shaped, Others
  <2>3. QED
    BY <2>1, <2>2, PutOther
<1>4. Typed(FailAt(L, IF waiting # {} THEN oldest ELSE Back(L)), c)
  BY <1>1, BackTypes, FailAtTyped
<1>5. QED
  BY <1>2, <1>3, <1>4 DEF WorkerKick

LEMMA MainKickTyped ==
    ASSUME NEW c \in Nat, NEW L, Typed(L, c), NEW t \in Threads,
           NEW submitted, NEW p, submitted => p.segment \in Segments
    PROVE  Typed(MainKick(L, t, submitted, p), c)
<1> DEFINE A == Admit(AbandonOpenResolve(L, t), t, TRUE)
<1> DEFINE b == Back(A)
<1> DEFINE M == IF submitted THEN AttachHeld(A, p.segment)
                ELSE IF SideHeld(A) THEN FailAt(A, b) ELSE A
<1>1. /\ MainKick(L, t, submitted, p) =
            OpenSpan(StartList([M EXCEPT !.spans[b].kicked = L.kicks], b))
  BY DEF MainKick
<1>2. Same(A, L) /\ Shaped(A)
  <2>1. Same(AbandonOpenResolve(L, t), L) /\ Shaped(AbandonOpenResolve(L, t))
    BY AbandonOpenResolveSame, SameShaped DEF Typed
  <2>2. QED
    BY <2>1, AdmitSame, SameTrans, SameShaped
<1>3. Typed(A, c)
  BY AbandonOpenResolveTyped, AdmitTyped
<1> HIDE DEF A
<1>4. b \in Live(A) /\ b \in Nat
  BY <1>3, BackTypes
<1>5. Typed(M, c)
  BY <1>3, <1>4, AttachHeldTyped, FailAtTyped
<1>6. Same(M, A)
  BY <1>2, AttachHeldSame, FailAtSame, SameRefl
<1> HIDE DEF M, b
<1>7. b \in Live(M) /\ M.kicks = L.kicks
  BY <1>2, <1>4, <1>6 DEF Same, Live
<1>8. Typed(StartList([M EXCEPT !.spans[b].kicked = M.kicks], b), c)
  BY <1>5, <1>7, KickedTyped
<1>9. QED
  BY <1>1, <1>7, <1>8, OpenNextTyped

-----------------------------------------------------------------------------
(* The records a call makes.                                               *)

Clocked == clock \in Nat /\ Typed(ledger, clock)

LEMMA TickTyped ==
    ASSUME Clocked, clock' \in {clock, clock + 1}
    PROVE  /\ clock' \in Nat /\ clock' \in 0 .. clock'
           /\ Typed(ledger, clock')
<1>1. clock \in Nat /\ clock' \in Nat /\ clock <= clock'
  BY DEF Clocked
<1>2. Typed(ledger, clock')
  BY <1>1, TypedLater DEF Clocked
<1>3. QED
  BY <1>1, <1>2

LEMMA RecordTypes ==
    ASSUME NEW c \in Nat, NEW t \in Threads, NEW kind \in Kinds
    PROVE  /\ NewRecord(kind, t) \in RecordTo(c)
           /\ \A n \in Nat : [NewRecord(kind, t) EXCEPT !.value = n]
                                \in RecordTo(c)
           /\ \A n \in Nat : [NewRecord(kind, t) EXCEPT
                                 !.value = n, !.pending = TRUE] \in RecordTo(c)
           /\ \A m \in 0 .. c : [NewRecord(kind, t) EXCEPT !.mark = m]
                                   \in RecordTo(c)
<1>1. NewRecord(kind, t) \in RecordTo(c)
  BY DEF NewRecord, RecordTo
<1>2. ASSUME NEW r \in RecordTo(c)
      PROVE  /\ \A n \in Nat : [r EXCEPT !.value = n] \in RecordTo(c)
             /\ \A n \in Nat : [r EXCEPT !.value = n, !.pending = TRUE]
                                  \in RecordTo(c)
             /\ \A m \in 0 .. c : [r EXCEPT !.mark = m] \in RecordTo(c)
  BY DEF RecordTo
<1>3. QED
  BY <1>1, <1>2

LEMMA FenceTypes ==
    ASSUME NEW c \in Nat, NEW t \in Threads, NEW block \in Blocks, NEW n \in Nat
    PROVE  FenceRecord(t, block, n) \in RecordTo(c)
<1>1. "Fence" \in Kinds
  BY DEF Kinds
<1>2. NewRecord("Fence", t) \in RecordTo(c)
  BY <1>1, RecordTypes
<1>3. ASSUME NEW r \in RecordTo(c)
      PROVE  [r EXCEPT !.value = n, !.block = block] \in RecordTo(c)
  BY DEF RecordTo
<1>4. QED
  BY <1>2, <1>3 DEF FenceRecord

LEMMA CallbackTypes ==
    ASSUME NEW c \in Nat, NEW t \in Threads, NEW flags \in CallbackFlags,
           NEW n \in Nat
    PROVE  CallbackRecord(t, flags, n) \in RecordTo(c)
<1>1. "Callback" \in Kinds
  BY DEF Kinds
<1>2. flags \in SUBSET {"raise", "wait"}
  BY DEF CallbackFlags
<1>3. NewRecord("Callback", t) \in RecordTo(c)
  BY <1>1, RecordTypes
<1>4. ASSUME NEW r \in RecordTo(c)
      PROVE  [r EXCEPT !.value = n, !.flags = flags] \in RecordTo(c)
  BY <1>2 DEF RecordTo
<1>5. QED
  BY <1>3, <1>4 DEF CallbackRecord

\* A record that is unowned at once.
LEMMA UnownedRecordTyped ==
    ASSUME NEW c \in Nat, NEW L, Typed(L, c), NEW t \in Threads,
           NEW r \in RecordTo(c), NEW i
    PROVE  Typed(Unown(RecordOn(L, t, r), Back(RecordOn(L, t, r)), i), c)
<1>1. Typed(RecordOn(L, t, r), c)
  BY RecordOnTyped
<1>2. Back(RecordOn(L, t, r)) \in Nat
  BY <1>1, BackTypes
<1>3. QED
  BY <1>1, <1>2, UnownTyped

\* A pending record, and the handle that names it.
LEMMA PendingRecordTyped ==
    ASSUME NEW c \in Nat, NEW M, Typed(M, c), NEW b, b = Back(M),
           NEW t \in Threads
    PROVE  LET h == [span |-> b, index |-> Len(M.spans[b].records)]
           IN  /\ Typed([M EXCEPT !.spans[b].pending = @ + 1,
                                  !.openDraws[t] = h], c)
               /\ Typed([M EXCEPT !.spans[b].pending = @ + 1,
                                  !.openResolves[t] = h], c)
<1> DEFINE h == [span |-> b, index |-> Len(M.spans[b].records)]
<1> DEFINE n == M.spans[b].pending + 1
<1> DEFINE N == [M EXCEPT !.spans[b].pending = n]
<1>1. M.spans[b] \in SpanTo(c) /\ b \in Nat
  BY BackTypes, SpanOfLedger
<1>2. n \in Int /\ M.spans[b].records \in Seq(RecordTo(c))
  <2> DEFINE s == M.spans[b]
  <2>1. s \in SpanTo(c)
    BY <1>1
  <2> HIDE DEF s
  <2>2. s.pending \in Int /\ s.records \in Seq(RecordTo(c))
    BY <2>1 DEF SpanTo
  <2>3. QED
    BY <2>2 DEF s
<1>3. h \in Handles
  BY <1>1, <1>2, LenProperties DEF Handles
<1> HIDE DEF n, h
<1>4. Typed(N, c)
  BY <1>2, PutPending
<1>5. /\ Typed([N EXCEPT !.openDraws[t] = h], c)
      /\ Typed([N EXCEPT !.openResolves[t] = h], c)
  BY <1>3, <1>4, ClearHandles
<1>6. /\ [M EXCEPT !.spans[b].pending = @ + 1, !.openDraws[t] = h]
            = [N EXCEPT !.openDraws[t] = h]
      /\ [M EXCEPT !.spans[b].pending = @ + 1, !.openResolves[t] = h]
            = [N EXCEPT !.openResolves[t] = h]
  BY DEF n
<1>7. QED
  BY <1>5, <1>6 DEF h


-----------------------------------------------------------------------------
(* Records.                                                                *)

LEMMA RecordClocked ==
    ASSUME Clocked, clock' \in {clock, clock + 1},
           NEW t \in Threads, NEW r \in RecordTo(clock'),
           ledger' = RecordOn(ledger, t, r)
    PROVE  Clocked'
BY TickTyped, RecordOnTyped DEF Clocked

LEMMA ProgressClocked ==
    ASSUME Clocked, NEW t \in Threads, ProgressOps(t)
    PROVE  Clocked'
<1>1. ASSUME clock' \in {clock, clock + 1}, NEW kind \in Kinds, NEW n \in Nat
      PROVE  /\ NewRecord(kind, t) \in RecordTo(clock')
             /\ [NewRecord(kind, t) EXCEPT !.value = n] \in RecordTo(clock')
  BY <1>1, TickTyped, RecordTypes
<1>2. {"InvalidateState", "Barrier", "ScratchWrite", "GpuWait"} \subseteq Kinds
  BY DEF Kinds
<1>3. CASE InvalidateState(t) \/ Barrier(t)
  <2>1. PICK kind \in Kinds : ledger' = RecordOn(ledger, t, NewRecord(kind, t))
    BY <1>2, <1>3 DEF InvalidateState, Barrier, Inert
  <2>2. clock' \in {clock, clock + 1}
    BY <1>3 DEF InvalidateState, Barrier, Inert
  <2>3. QED
    BY <1>1, <2>1, <2>2, RecordClocked
<1>4. CASE ScratchWrite(t)
  <2>1. clock' \in {clock, clock + 1}
        /\ ledger' = RecordOn(ledger, t, [NewRecord("ScratchWrite", t) EXCEPT
                                             !.value = clock'])
    BY <1>4 DEF ScratchWrite, Tick
  <2>2. [NewRecord("ScratchWrite", t) EXCEPT !.value = clock']
           \in RecordTo(clock')
    BY <1>1, <1>2, <2>1, TickTyped
  <2>3. QED
    BY <2>1, <2>2, RecordClocked
<1>5. ASSUME NEW word \in {0, 1}, GpuWait(t, word)
      PROVE  Clocked'
  <2>1. clock' \in {clock, clock + 1}
        /\ ledger' = RecordOn(ledger, t, [NewRecord("GpuWait", t) EXCEPT
                                             !.value = word])
    BY <1>5 DEF GpuWait
  <2>2. [NewRecord("GpuWait", t) EXCEPT !.value = word] \in RecordTo(clock')
    BY <1>1, <1>2, <2>1
  <2>3. QED
    BY <2>1, <2>2, RecordClocked
<1>6. ASSUME NEW block \in Blocks, Fence(t, block)
      PROVE  Clocked'
  <2> DEFINE L == RecordOn(ledger, t, FenceRecord(t, block, clock'))
  <2>1. clock' \in {clock, clock + 1} /\ ledger' = CheckIdentity(L, block)
    BY <1>6 DEF Fence, Tick
  <2>2. Typed(L, clock')
    BY <2>1, TickTyped, FenceTypes, RecordOnTyped
  <2> HIDE DEF L
  <2>3. QED
    BY <2>1, <2>2, TickTyped, CheckIdentityTyped DEF Clocked
<1>7. ASSUME NEW flags \in CallbackFlags, Callback(t, flags)
      PROVE  Clocked'
  <2>1. clock' \in {clock, clock + 1}
        /\ ledger' = RecordOn(ledger, t, CallbackRecord(t, flags, clock'))
    BY <1>7 DEF Callback, Tick
  <2>2. CallbackRecord(t, flags, clock') \in RecordTo(clock')
    BY <2>1, TickTyped, CallbackTypes
  <2>3. QED
    BY <2>1, <2>2, RecordClocked
<1>8. QED
  BY <1>3, <1>4, <1>5, <1>6, <1>7 DEF ProgressOps

\* The admission of a thread.
LEMMA AdmittedTyped ==
    ASSUME NEW c, NEW L, Typed(L, c), NEW t \in Threads, NEW allowHeld
    PROVE  Typed(Admit(AbandonOpenResolve(L, t), t, allowHeld), c)
BY AbandonOpenResolveTyped, AdmitTyped

LEMMA UnmodeledClocked ==
    ASSUME Clocked, NEW t \in Threads, UnmodeledOps(t)
    PROVE  Clocked'
<1>1. CASE Unmodeled(t)
  <2> DEFINE L == RecordOn(ledger, t, NewRecord("Unmodeled", t))
  <2>1. clock' = clock
        /\ ledger' = Unown(L, Back(L), Len(L.spans[Back(L)].records))
    BY <1>1 DEF Unmodeled
  <2>2. "Unmodeled" \in Kinds
    BY DEF Kinds
  <2>3. NewRecord("Unmodeled", t) \in RecordTo(clock)
    BY <2>2, RecordTypes DEF Clocked
  <2>4. QED
    BY <2>1, <2>3, UnownedRecordTyped DEF Clocked
<1>2. CASE BadTimestamp(t)
  <2> DEFINE L == Admit(AbandonOpenResolve(ledger, t), t, FALSE)
  <2>1. clock' = clock /\ ledger' = FailAt(L, Back(L))
    BY <1>2 DEF BadTimestamp
  <2>2. Typed(L, clock)
    BY AdmittedTyped DEF Clocked
  <2> HIDE DEF L
  <2>3. QED
    BY <2>1, <2>2, BackTypes, FailAtTyped DEF Clocked
<1>3. ASSUME NEW flags \in CallbackFlags, ForeignCallback(t, flags)
      PROVE  Clocked'
  <2> DEFINE L == RecordOn(ledger, t, CallbackRecord(t, flags, clock'))
  <2>1. clock' \in {clock, clock + 1}
        /\ ledger' = Unown(L, Back(L), Len(L.spans[Back(L)].records))
    BY <1>3 DEF ForeignCallback, Tick
  <2>2. CallbackRecord(t, flags, clock') \in RecordTo(clock')
    BY <2>1, TickTyped, CallbackTypes
  <2>3. QED
    BY <2>1, <2>2, TickTyped, UnownedRecordTyped DEF Clocked
<1>4. QED
  BY <1>1, <1>2, <1>3 DEF UnmodeledOps

-----------------------------------------------------------------------------
(* Draws.                                                                  *)

AssumedSites == Sites \subseteq Nat /\ Dests \subseteq Nat

LEMMA DataTypes == AssumedSites /\ Sizes \subseteq Nat /\ Blocks \subseteq Nat
BY LedgerAssumption DEF LedgerAssumption, AssumedSites

LEMMA BeginDrawClocked ==
    ASSUME Clocked, NEW t \in Threads, NEW site \in Nat, BeginDraw(t, site)
    PROVE  Clocked'
<1> DEFINE A == AbandonOpenResolve(ledger, t)
<1> DEFINE B == [A EXCEPT !.openDraws[t] = NoHandle]
<1> DEFINE C == Abandon(B, A.openDraws[t])
<1> DEFINE D == Admit(C, t, FALSE)
<1> DEFINE r == [NewRecord("Draw", t) EXCEPT !.value = site, !.pending = TRUE]
<1> DEFINE M == AppendRecords(D, <<r>>)
<1> DEFINE b == Back(M)
<1>1. clock' = clock
      /\ ledger' = [M EXCEPT !.spans[b].pending = @ + 1,
                             !.openDraws[t] = [span |-> b,
                                               index |-> Len(M.spans[b].records)]]
  BY DEF BeginDraw
<1>2. clock \in Nat /\ Typed(A, clock)
  BY AbandonOpenResolveTyped DEF Clocked
<1> HIDE DEF A
<1>3. A.openDraws[t] \in Handles /\ Typed(B, clock)
  BY <1>2, HandleTypes, ClearHandles
<1> HIDE DEF B
<1>4. Typed(C, clock)
  BY <1>3, AbandonTyped
<1> HIDE DEF C
<1>5. Typed(D, clock)
  BY <1>4, AdmitTyped
<1> HIDE DEF D
<1>6. r \in RecordTo(clock)
  <2>1. "Draw" \in Kinds
    BY DEF Kinds
  <2>2. QED
    BY <1>2, <2>1, RecordTypes
<1> HIDE DEF r
<1>7. Typed(M, clock)
  BY <1>5, <1>6, AppendOneTyped
<1> HIDE DEF M
<1>8. Typed([M EXCEPT !.spans[b].pending = @ + 1,
                      !.openDraws[t] = [span |-> b,
                                        index |-> Len(M.spans[b].records)]],
            clock)
  BY <1>2, <1>7, PendingRecordTyped
<1>9. QED
  BY <1>1, <1>2, <1>8 DEF Clocked

LEMMA FinishDrawClocked ==
    ASSUME Clocked, NEW t \in Threads, NEW site \in Nat, NEW verdict,
           FinishDraw(t, site, verdict)
    PROVE  Clocked'
<1> DEFINE A == AbandonOpenResolve(ledger, t)
<1> DEFINE h == A.openDraws[t]
<1> DEFINE L == [A EXCEPT !.openDraws[t] = NoHandle]
<1> DEFINE D == Admit(Abandon(L, h), t, FALSE)
<1> DEFINE r == [NewRecord("Draw", t) EXCEPT !.value = site]
<1> DEFINE M == AppendRecords(D, <<r>>)
<1>1. /\ clock' \in {clock, clock + 1}
      /\ \/ ledger' = SettleDraw(Settle(L, h), h.span, h.index, clock', verdict)
         \/ ledger' = SettleDraw(M, Back(M), Len(M.spans[Back(M)].records),
                                 clock', verdict)
  BY DEF FinishDraw, Tick
<1>2. /\ clock' \in Nat /\ clock' \in 0 .. clock' /\ Typed(ledger, clock')
  BY <1>1, TickTyped
<1>3. Typed(A, clock')
  BY <1>2, AbandonOpenResolveTyped
<1> HIDE DEF A
<1>4. h \in Handles /\ Typed(L, clock')
  BY <1>3, HandleTypes, ClearHandles
<1> HIDE DEF L, h
<1>5. Typed(Settle(L, h), clock') /\ h.span \in Nat
  BY <1>4, SettleTyped DEF Handles
<1>6. Typed(D, clock')
  BY <1>4, AbandonTyped, AdmitTyped
<1> HIDE DEF D
<1>7. r \in RecordTo(clock')
  <2>1. "Draw" \in Kinds
    BY DEF Kinds
  <2>2. QED
    BY <1>2, <2>1, RecordTypes
<1> HIDE DEF r
<1>8. Typed(M, clock') /\ Back(M) \in Nat
  BY <1>6, <1>7, AppendOneTyped, BackTypes
<1> HIDE DEF M
<1>9. Typed(ledger', clock')
  BY <1>1, <1>2, <1>5, <1>8, SettleDrawTyped
<1>10. QED
  BY <1>2, <1>9 DEF Clocked

LEMMA DrawClocked ==
    ASSUME Clocked, NEW t \in Threads, DrawOps(t)
    PROVE  Clocked'
<1>1. CASE DetachDraw(t)
  <2>1. Typed([ledger EXCEPT !.openDraws[t] = NoHandle], clock)
    BY HandleTypes, ClearHandles DEF Clocked
  <2>2. QED
    BY <1>1, <2>1 DEF DetachDraw, Clocked
<1>2. \A site \in Sites : site \in Nat
  BY DataTypes DEF AssumedSites
<1>3. QED
  BY <1>1, <1>2, BeginDrawClocked, FinishDrawClocked DEF DrawOps

\* A verdict from another thread.
LEMMA DetachedClocked ==
    ASSUME Clocked, host.detached \subseteq Handles, DetachedOps
    PROVE  Clocked'
<1>1. PICK h \in host.detached :
         \/ \E site \in Sites, verdict \in Verdicts :
               FinishDetached(h, site, verdict)
         \/ AbandonDraw(h)
  BY DEF DetachedOps
<1>2. h \in Handles /\ h.span \in Nat
  BY DEF Handles
<1>3. clock' \in {clock, clock + 1}
  BY <1>1 DEF FinishDetached, AbandonDraw, Tick
<1>4. clock' \in Nat /\ clock' \in 0 .. clock' /\ Typed(ledger, clock')
  BY <1>3, TickTyped
<1>5. Typed(Settle(ledger, h), clock') /\ Typed(Abandon(ledger, h), clock')
  BY <1>2, <1>4, SettleTyped, AbandonTyped
<1>6. ASSUME NEW settled, Typed(settled, clock')
      PROVE  Typed(Detached(h, settled), clock')
  BY <1>4, <1>5, <1>6 DEF Detached
<1>7. \A verdict : Typed(SettleDraw(Settle(ledger, h), h.span, h.index, clock',
                                    verdict), clock')
  BY <1>2, <1>4, <1>5, SettleDrawTyped
<1>8. \E settled : Typed(settled, clock') /\ ledger' = Detached(h, settled)
  <2>1. CASE AbandonDraw(h)
    BY <1>5, <2>1 DEF AbandonDraw
  <2>2. ASSUME NEW site, NEW verdict, FinishDetached(h, site, verdict)
        PROVE  \/ ledger' = Detached(h, SettleDraw(Settle(ledger, h), h.span,
                                                   h.index, clock', verdict))
               \/ ledger' = Detached(h, Abandon(ledger, h))
    BY <2>2 DEF FinishDetached
  <2>3. QED
    BY <1>1, <1>5, <1>7, <2>1, <2>2
<1>9. QED
  BY <1>4, <1>6, <1>8 DEF Clocked

-----------------------------------------------------------------------------
(* Resolves, clears and swaps.                                             *)

LEMMA ResolveClocked ==
    ASSUME Clocked, NEW t \in Threads, NEW dest \in Nat, Resolve(t, dest)
    PROVE  Clocked'
<1> DEFINE r == [NewRecord("Resolve", t) EXCEPT !.value = dest, !.pending = TRUE]
<1> DEFINE M == RecordOn(ledger, t, r)
<1> DEFINE b == Back(M)
<1>1. clock' = clock
      /\ ledger' = [M EXCEPT !.spans[b].pending = @ + 1,
                             !.openResolves[t] =
                                [span |-> b,
                                 index |-> Len(M.spans[b].records)]]
  BY DEF Resolve
<1>2. clock \in Nat /\ r \in RecordTo(clock)
  <2>1. "Resolve" \in Kinds
    BY DEF Kinds
  <2>2. QED
    BY <2>1, RecordTypes DEF Clocked
<1> HIDE DEF r
<1>3. Typed(M, clock)
  BY <1>2, RecordOnTyped DEF Clocked
<1> HIDE DEF M
<1>4. Typed([M EXCEPT !.spans[b].pending = @ + 1,
                      !.openResolves[t] =
                         [span |-> b, index |-> Len(M.spans[b].records)]], clock)
  BY <1>2, <1>3, PendingRecordTyped
<1>5. QED
  BY <1>1, <1>2, <1>4 DEF Clocked

\* One more presented resolve.
LEMMA PresentTyped ==
    ASSUME NEW c, NEW M, Typed(M, c), NEW h \in Handles
    PROVE  Typed([M EXCEPT !.frontbuffer = @ \cup {h}], c)
<1> DEFINE N == [M EXCEPT !.frontbuffer = @ \cup {h}]
<1>1. /\ DOMAIN N = Fields
      /\ N.oldest = M.oldest /\ N.nextSpan = M.nextSpan /\ N.spans = M.spans
  BY FieldNames DEF Typed, Shaped
<1>2. IsFiniteSet(M.frontbuffer \cup {h})
  BY FS_AddElement DEF Typed, Others
<1>3. M.frontbuffer \cup {h} \subseteq Handles
  BY DEF Typed, Others
<1>4. Others(N, c)
  BY <1>2, <1>3, FieldNames DEF Typed, Shaped, Others
<1>5. QED
  BY <1>1, <1>4, PutOther

\* The host admitted the work of mark `m' into a span.
LEMMA AdmitMarkTyped ==
    ASSUME NEW c \in Nat, NEW S, Typed(S, c), NEW id, NEW m \in 0 .. c
    PROVE  Typed([S EXCEPT !.spans[id].lastAdmitted = MaxOf(@, m)], c)
<1>1. id \in Live(S) => S.spans[id] \in SpanTo(c)
  BY SpanOfLedger
<1>2. id \in Live(S) => MaxOf(S.spans[id].lastAdmitted, m) \in 0 .. c
  BY <1>1 DEF SpanTo, MaxOf
<1>3. Typed([S EXCEPT !.spans[id].lastAdmitted =
                MaxOf(S.spans[id].lastAdmitted, m)], c)
  BY <1>2, PutAdmitted
<1>4. QED
  BY <1>3

LEMMA FinishResolveClocked ==
    ASSUME Clocked, NEW t \in Threads, NEW outcome, FinishResolve(t, outcome)
    PROVE  Clocked'
<1> DEFINE h == ledger.openResolves[t]
<1> DEFINE L == [ledger EXCEPT !.openResolves[t] = NoHandle]
<1> DEFINE mark == IF outcome = "no mark" THEN 0 ELSE clock'
<1> DEFINE M == [L EXCEPT !.spans[h.span].records[h.index].mark = mark]
<1> DEFINE S == Settle(M, h)
<1>1. \/ ledger' = L
      \/ ledger' = [M EXCEPT !.frontbuffer = @ \cup {h}]
      \/ ledger' = [S EXCEPT !.spans[h.span].lastAdmitted = MaxOf(@, mark)]
      \/ ledger' = Unown(S, h.span, h.index)
  BY DEF FinishResolve
<1>2. clock' \in {clock, clock + 1}
  BY DEF FinishResolve
<1>3. clock' \in Nat /\ clock' \in 0 .. clock' /\ Typed(ledger, clock')
  BY <1>2, TickTyped
<1>4. mark \in 0 .. clock'
  <2>1. 0 \in 0 .. clock'
    BY <1>3
  <2>2. QED
    BY <1>3, <2>1, Zenon
<1>5. h \in Handles /\ h.span \in Nat /\ Typed(L, clock')
  <2>1. h \in Handles /\ NoHandle \in Handles
    BY <1>3, HandleTypes
  <2>2. h.span \in Nat
    BY <2>1 DEF Handles
  <2>3. QED
    BY <1>3, <2>1, <2>2, ClearHandles
<1> HIDE DEF h, L, mark
<1>6. Typed(M, clock')
  BY <1>4, <1>5, ChangeRecord
<1> HIDE DEF M
<1>7. Typed(S, clock')
  BY <1>6, SettleTyped
<1> HIDE DEF S
<1>8. Typed([M EXCEPT !.frontbuffer = @ \cup {h}], clock')
  BY <1>5, <1>6, PresentTyped
<1>9. Typed([S EXCEPT !.spans[h.span].lastAdmitted = MaxOf(@, mark)], clock')
  BY <1>3, <1>4, <1>7, AdmitMarkTyped
<1>10. Typed(Unown(S, h.span, h.index), clock')
  BY <1>5, <1>7, UnownTyped
<1>11. QED
  BY <1>1, <1>3, <1>5, <1>8, <1>9, <1>10 DEF Clocked

LEMMA ClearClocked ==
    ASSUME Clocked, NEW t \in Threads, NEW admitted, Clear(t, admitted)
    PROVE  Clocked'
<1> DEFINE r == [NewRecord("Clear", t) EXCEPT !.mark = clock']
<1> DEFINE L == RecordOn(ledger, t, r)
<1> DEFINE b == Back(L)
<1>1. /\ clock' \in {clock, clock + 1}
      /\ \/ ledger' = [L EXCEPT !.spans[b].lastAdmitted = MaxOf(@, clock')]
         \/ ledger' = [[L EXCEPT !.spans[b].partial = TRUE]
                          EXCEPT !.epochPartial = TRUE]
         \/ ledger' = Unown(L, b, Len(L.spans[b].records))
  BY DEF Clear, Tick
<1>2. clock' \in Nat /\ clock' \in 0 .. clock' /\ Typed(ledger, clock')
  BY <1>1, TickTyped
<1>3. r \in RecordTo(clock')
  <2>1. "Clear" \in Kinds
    BY DEF Kinds
  <2>2. QED
    BY <1>2, <2>1, RecordTypes
<1> HIDE DEF r
<1>4. Typed(L, clock') /\ b \in Nat
  BY <1>2, <1>3, RecordOnTyped, BackTypes
<1> HIDE DEF L, b
<1>5. Typed([L EXCEPT !.spans[b].lastAdmitted = MaxOf(@, clock')], clock')
  BY <1>2, <1>4, AdmitMarkTyped
<1>6. Typed([L EXCEPT !.spans[b].partial = TRUE], clock')
  BY <1>4, PutFlags
<1>7. Typed([[L EXCEPT !.spans[b].partial = TRUE]
                EXCEPT !.epochPartial = TRUE], clock')
  BY <1>6, FlagTyped
<1>8. Typed(Unown(L, b, Len(L.spans[b].records)), clock')
  BY <1>4, UnownTyped
<1>9. QED
  BY <1>1, <1>2, <1>5, <1>7, <1>8 DEF Clocked

LEMMA SwapClocked ==
    ASSUME Clocked, NEW t \in Threads, NEW front \in Nat, Swap(t, front)
    PROVE  Clocked'
<1> DEFINE A == AbandonOpenResolve(ledger, t)
<1> DEFINE B == IF SideHeld(A) \/ A.heldFirst # <<>>
                THEN FailAt(A, Back(A)) ELSE A
<1> DEFINE r == [NewRecord("Swap", t) EXCEPT !.value = front]
<1> DEFINE C == AppendRecords(Admit(B, t, FALSE), <<r>>)
<1> DEFINE D == SettleFrontbuffers(C, front)
<1> DEFINE saw == D.ownerSwapSawSwap \/ D.ownerSwapThread = t
<1> DEFINE E == [D EXCEPT !.epochWork = FALSE, !.epochPartial = FALSE,
                          !.ownerSwapSawSwap = saw]
<1>1. clock' = clock /\ clock \in Nat
  BY DEF Swap, Clocked
<1>2. Typed(A, clock)
  BY AbandonOpenResolveTyped DEF Clocked
<1>3. r \in RecordTo(clock)
  <2>1. "Swap" \in Kinds
    BY DEF Kinds
  <2>2. QED
    BY <1>1, <2>1, RecordTypes
<1>4. ledger' = [D EXCEPT !.epochWork = FALSE, !.epochPartial = FALSE,
                          !.ownerSwapSawSwap = @ \/ D.ownerSwapThread = t]
  BY DEF Swap
<1> HIDE DEF A, r
<1>5. Typed(B, clock)
  BY <1>2, BackTypes, FailAtTyped
<1> HIDE DEF B
<1>6. Typed(C, clock)
  BY <1>3, <1>5, AdmitTyped, AppendOneTyped
<1> HIDE DEF C
<1>7. Typed(D, clock)
  BY <1>1, <1>6, SettleFrontbuffersTyped
<1> HIDE DEF D
<1>8. saw \in BOOLEAN
  OBVIOUS
<1>9. ledger' = E
  BY <1>4
<1> HIDE DEF saw
<1>10. /\ DOMAIN E = Fields
       /\ E.oldest = D.oldest /\ E.nextSpan = D.nextSpan /\ E.spans = D.spans
  BY <1>7, FieldNames DEF Typed, Shaped
<1>11. Others(E, clock)
  BY <1>7, <1>8, FieldNames DEF Typed, Shaped, Others
<1>12. Typed(E, clock)
  BY <1>7, <1>10, <1>11, PutOther
<1>13. QED
  BY <1>1, <1>9, <1>12 DEF Clocked

LEMMA FrameClocked ==
    ASSUME Clocked, NEW t \in Threads, ResolveOps(t) \/ FrameOps(t)
    PROVE  Clocked'
<1>1. \A dest \in Dests : dest \in Nat
  BY DataTypes DEF AssumedSites
<1>2. QED
  BY <1>1, ResolveClocked, FinishResolveClocked, ClearClocked, SwapClocked
     DEF ResolveOps, FrameOps

-----------------------------------------------------------------------------
(* Submits, kicks and tiled lists.                                         *)

\* A field beside the span window changes; the clock stands.
LEMMA OtherClocked ==
    ASSUME Clocked, clock' = clock, DOMAIN ledger' = Fields,
           ledger'.oldest = ledger.oldest, ledger'.nextSpan = ledger.nextSpan,
           ledger'.spans = ledger.spans, Others(ledger', clock)
    PROVE  Clocked'
BY PutOther DEF Clocked

LEMMA FailClocked ==
    ASSUME Clocked, clock' = clock, ledger' = FailAt(ledger, Back(ledger))
    PROVE  Clocked'
BY BackTypes, FailAtTyped DEF Clocked

LEMMA KickClocked ==
    ASSUME Clocked, NEW t \in Threads, Kick(t)
    PROVE  Clocked'
<1> DEFINE p == ledger.pendingSubmit[t]
<1> DEFINE submitted == HasPending(ledger, t)
<1> DEFINE K == [ledger EXCEPT !.kicks = @ + 1]
<1> DEFINE L == [K EXCEPT !.pendingSubmit[t] = NoSubmit]
<1>1. \/ ledger' = WorkerKick(L, p)
      \/ ledger' = FailAt(L, Back(L))
      \/ ledger' = MainKick(L, t, submitted, p)
  <2>1. [ledger EXCEPT !.kicks = @ + 1, !.pendingSubmit[t] = NoSubmit] = L
    OBVIOUS
  <2>2. QED
    BY <2>1, Zenon DEF Kick
<1>2. clock' = clock /\ clock \in Nat /\ Typed(ledger, clock)
  BY DEF Kick, LedgerOnly, Clocked
<1>3. Typed(K, clock)
  <2>1. /\ DOMAIN K = Fields
        /\ K.oldest = ledger.oldest /\ K.nextSpan = ledger.nextSpan
        /\ K.spans = ledger.spans
    BY <1>2, FieldNames DEF Typed, Shaped
  <2>2. Shaped(K)
    BY <1>2, FieldNames DEF Typed, Shaped, Live
  <2>3. Others(K, clock)
    <3>1. DOMAIN ledger = Fields /\ Others(ledger, clock)
      BY <1>2 DEF Typed, Shaped
    <3>2. /\ K.kicks = ledger.kicks + 1
          /\ \A f \in Fields \ {"kicks"} : K[f] = ledger[f]
      BY <3>1, FieldNames
    <3>3. QED
      BY <3>1, <3>2, FieldNames DEF Others
  <2>4. QED
    BY <1>2, <2>1, <2>2, <2>3 DEF Typed, Live
<1> HIDE DEF K
<1>4. Typed(L, clock)
  BY <1>3, NoSubmitTyped
<1> HIDE DEF L
<1>5. submitted => p.segment \in Segments
  BY <1>2 DEF HasPending, Typed, Others
<1> HIDE DEF submitted, p
<1>6. Typed(WorkerKick(L, p), clock)
  BY <1>2, <1>4, WorkerKickTyped
<1>7. Typed(MainKick(L, t, submitted, p), clock)
  BY <1>2, <1>4, <1>5, MainKickTyped
<1>8. Typed(FailAt(L, Back(L)), clock)
  BY <1>4, BackTypes, FailAtTyped
<1>9. QED
  BY <1>1, <1>2, <1>6, <1>7, <1>8 DEF Clocked

LEMMA SubmitsClocked ==
    ASSUME Clocked, NEW t \in Threads, NEW s \in Segments, NEW n \in Nat,
           DirectSubmit(t, s, n) \/ ReplaySubmit(t, s, n)
    PROVE  Clocked'
<1>1. clock' = clock /\ clock \in Nat /\ Typed(ledger, clock)
  BY DEF DirectSubmit, ReplaySubmit, LedgerOnly, Clocked
<1>2. CASE DirectSubmit(t, s, n)
  <2>1. \/ ledger' = Submitted(ledger, t, s, n, FALSE)
        \/ ledger' = FailAt(ledger, Back(ledger))
    BY <1>2 DEF DirectSubmit, Unreplayed
  <2>2. Typed(Submitted(ledger, t, s, n, FALSE), clock)
    BY <1>1, SubmittedTyped
  <2>3. QED
    BY <1>1, <2>1, <2>2, FailClocked DEF Clocked
<1>3. CASE ReplaySubmit(t, s, n)
  <2> DEFINE L == [ledger EXCEPT !.replay = @ \cup {t}]
  <2>1. Typed(L, clock)
    <3>1. /\ DOMAIN L = Fields
          /\ L.oldest = ledger.oldest /\ L.nextSpan = ledger.nextSpan
          /\ L.spans = ledger.spans
      BY <1>1, FieldNames DEF Typed, Shaped
    <3>2. Others(L, clock)
      BY <1>1, FieldNames DEF Typed, Shaped, Others
    <3>3. QED
      BY <1>1, <3>1, <3>2, PutOther
  <2>2. ledger' = Submitted(L, t, s, n, TRUE)
    BY <1>3 DEF ReplaySubmit
  <2> HIDE DEF L
  <2>3. Typed(Submitted(L, t, s, n, TRUE), clock)
    BY <2>1, SubmittedTyped
  <2>4. QED
    BY <1>1, <2>2, <2>3 DEF Clocked
<1>4. QED
  BY <1>2, <1>3

\* The thread is admitted and the records of its segment join the span.
LEMMA AttachedTyped ==
    ASSUME NEW c, NEW L, Typed(L, c), NEW t \in Threads, NEW segment \in Segments
    PROVE  Typed(AttachHeld(Admit(AbandonOpenResolve(L, t), t, TRUE), segment), c)
BY AdmittedTyped, AttachHeldTyped

LEMMA SilentClocked ==
    ASSUME Clocked, NEW t \in Threads, SilentSubmit(t)
    PROVE  Clocked'
<1> DEFINE p == ledger.pendingSubmit[t]
<1> DEFINE L == [ledger EXCEPT !.pendingSubmit[t] = NoSubmit]
<1> DEFINE M == AttachHeld(Admit(AbandonOpenResolve(L, t), t, TRUE), p.segment)
<1> DEFINE b == Back(M)
<1> DEFINE N == [M EXCEPT !.spans[b].sealed = TRUE]
<1>1. ledger' = M \/ ledger' = OpenSpan(StartList(N, b))
  BY DEF SilentSubmit
<1>2. clock' = clock /\ clock \in Nat /\ Typed(ledger, clock)
  BY DEF SilentSubmit, LedgerOnly, Clocked
<1>3. p.segment \in Segments
  BY <1>2 DEF SilentSubmit, HasPending, Typed, Others
<1>4. Typed(L, clock)
  BY <1>2, NoSubmitTyped
<1> HIDE DEF p, L
<1>5. Typed(M, clock)
  BY <1>3, <1>4, AttachedTyped
<1> HIDE DEF M
<1>6. Typed(N, clock)
  BY <1>5, PutFlags
<1>7. b \in Live(N)
  <2>1. Live(N) = Live(M)
    BY <1>5, FieldNames DEF Typed, Shaped, Live
  <2>2. QED
    BY <1>5, <2>1, BackTypes
<1> HIDE DEF N, b
<1>8. Typed(OpenSpan(StartList(N, b)), clock)
  BY <1>2, <1>6, <1>7, StartListTyped, OpenNextTyped
<1>9. QED
  BY <1>1, <1>2, <1>5, <1>8 DEF Clocked

LEMMA DeferClocked ==
    ASSUME Clocked, NEW t \in Threads, NEW s \in Segments, NEW n \in Nat,
           Defer(t, s, n)
    PROVE  Clocked'
<1> DEFINE M == AttachHeld(Admit(AbandonOpenResolve(ledger, t), t, TRUE), s)
<1> DEFINE b == Back(M)
<1> DEFINE N == [M EXCEPT !.spans[b].deferred = s]
<1> DEFINE K == [N EXCEPT !.spans[b].dwords = n]
<1>1. ledger' = OpenSpan(K) \/ ledger' = FailAt(ledger, Back(ledger))
  <2>1. [M EXCEPT !.spans[b].deferred = s, !.spans[b].dwords = n] = K
    OBVIOUS
  <2>2. QED
    BY <2>1, Zenon DEF Defer, Unreplayed
<1>2. clock' = clock /\ clock \in Nat /\ Typed(ledger, clock)
  BY DEF Defer, LedgerOnly, Clocked
<1>3. Typed(M, clock)
  BY <1>2, AttachedTyped
<1> HIDE DEF M
<1>4. Typed(N, clock)
  BY <1>3, PutDeferred
<1> HIDE DEF N
<1>5. Typed(K, clock)
  BY <1>4, PutNumbers
<1> HIDE DEF K
<1>6. Typed(OpenSpan(K), clock)
  BY <1>2, <1>5, OpenNextTyped
<1>7. QED
  BY <1>1, <1>2, <1>6, FailClocked DEF Clocked

\* Records of a side buffer, and the first-pass callback.
LEMMA FirstTyped ==
    ASSUME NEW c, NEW L, Typed(L, c), NEW first \in Seq(RecordTo(c))
    PROVE  Typed([L EXCEPT !.heldFirst = first], c)
<1> DEFINE M == [L EXCEPT !.heldFirst = first]
<1>1. /\ DOMAIN M = Fields
      /\ M.oldest = L.oldest /\ M.nextSpan = L.nextSpan /\ M.spans = L.spans
  BY FieldNames DEF Typed, Shaped
<1>2. Others(M, c)
  BY FieldNames DEF Typed, Shaped, Others
<1>3. QED
  BY <1>1, <1>2, PutOther

LEMMA HoldTyped ==
    ASSUME NEW c, NEW L, Typed(L, c), NEW s \in Segments,
           NEW recs \in Seq(RecordTo(c))
    PROVE  /\ Typed([L EXCEPT !.held[s] = recs], c)
           /\ \A list \in Nat, first \in Seq(RecordTo(c)) :
                 Typed([L EXCEPT !.held[s] = recs, !.heldList[s] = list,
                                 !.heldFirst = first], c)
<1>1. Typed([L EXCEPT !.held[s] = recs], c)
  <2> DEFINE M == [L EXCEPT !.held[s] = recs]
  <2>1. /\ DOMAIN M = Fields
        /\ M.oldest = L.oldest /\ M.nextSpan = L.nextSpan /\ M.spans = L.spans
    BY FieldNames DEF Typed, Shaped
  <2>2. Others(M, c)
    BY FieldNames DEF Typed, Shaped, Others
  <2>3. QED
    BY <2>1, <2>2, PutOther
<1>2. ASSUME NEW list \in Nat, NEW first \in Seq(RecordTo(c))
      PROVE  Typed([L EXCEPT !.held[s] = recs, !.heldList[s] = list,
                             !.heldFirst = first], c)
  <2> DEFINE M == [L EXCEPT !.held[s] = recs, !.heldList[s] = list,
                            !.heldFirst = first]
  <2>1. /\ DOMAIN M = Fields
        /\ M.oldest = L.oldest /\ M.nextSpan = L.nextSpan /\ M.spans = L.spans
    BY FieldNames DEF Typed, Shaped
  <2>2. Others(M, c)
    BY FieldNames DEF Typed, Shaped, Others
  <2>3. QED
    BY <2>1, <2>2, PutOther
<1>3. QED
  BY <1>1, <1>2

\* A side buffer and the first-pass callback hold records.
LEMMA HeldTypes ==
    ASSUME NEW c, NEW M, Typed(M, c), NEW s \in Segments
    PROVE  /\ M.held[s] \in Seq(RecordTo(c))
           /\ M.heldFirst \in Seq(RecordTo(c))
           /\ M.heldList[s] \in Nat /\ M.nextList \in Nat \ {0}
BY DEF Typed, Others

LEMMA SideFenceClocked ==
    ASSUME Clocked, NEW t \in Threads, NEW s \in Segments, NEW block \in Blocks,
           SideFence(t, block, s)
    PROVE  Clocked'
<1> DEFINE M == Admit(AbandonOpenResolve(ledger, t), t, TRUE)
<1> DEFINE new == <<NewRecord("InvalidateState", t), FenceRecord(t, block, clock')>>
<1> DEFINE recs == M.held[s] \o new
<1>1. /\ clock' \in {clock, clock + 1}
      /\ ledger' = CheckIdentity([M EXCEPT !.held[s] = recs], block)
  BY DEF SideFence, Tick
<1>2. clock' \in Nat /\ Typed(M, clock')
  BY <1>1, TickTyped, AdmittedTyped
<1>3. new \in Seq(RecordTo(clock'))
  <2>1. "InvalidateState" \in Kinds
    BY DEF Kinds
  <2>2. NewRecord("InvalidateState", t) \in RecordTo(clock')
        /\ FenceRecord(t, block, clock') \in RecordTo(clock')
    BY <1>2, <2>1, RecordTypes, FenceTypes
  <2>3. QED
    BY <2>2
<1> HIDE DEF M, new
<1>4. M.held[s] \in Seq(RecordTo(clock')) /\ 0 \in Nat
      /\ M.heldFirst \in Seq(RecordTo(clock'))
  BY <1>2, HeldTypes
<1>5. recs \in Seq(RecordTo(clock'))
  BY <1>3, <1>4, ConcatProperties
<1> HIDE DEF recs
<1>6. Typed([M EXCEPT !.held[s] = recs], clock')
  BY <1>2, <1>4, <1>5, HoldTyped
<1>7. QED
  BY <1>1, <1>2, <1>6, CheckIdentityTyped DEF Clocked

LEMMA SideCallbackClocked ==
    ASSUME Clocked, NEW t \in Threads, NEW s \in Segments,
           NEW flags \in CallbackFlags, SideCallback(t, flags, s)
    PROVE  Clocked'
<1> DEFINE M == Admit(AbandonOpenResolve(ledger, t), t, FALSE)
<1> DEFINE newest == IF DOMAIN M.lists = {} THEN 0 ELSE M.nextList - 1
<1> DEFINE r == CallbackRecord(t, flags, clock')
<1> DEFINE recs == M.held[s] \o Append(M.heldFirst, r)
<1> DEFINE list == IF newest # 0 THEN newest ELSE M.heldList[s]
<1>1. /\ clock' \in {clock, clock + 1}
      /\ ledger' = [M EXCEPT !.held[s] = recs, !.heldList[s] = list,
                             !.heldFirst = <<>>]
  BY DEF SideCallback, Tick
<1>2. clock' \in Nat /\ Typed(M, clock')
  BY <1>1, TickTyped, AdmittedTyped
<1>3. r \in RecordTo(clock')
  BY <1>2, CallbackTypes
<1> HIDE DEF M, r
<1>4. /\ M.held[s] \in Seq(RecordTo(clock'))
      /\ M.heldFirst \in Seq(RecordTo(clock'))
      /\ M.heldList[s] \in Nat /\ M.nextList \in Nat \ {0}
  BY <1>2, HeldTypes
<1>5. recs \in Seq(RecordTo(clock'))
  <2>1. Append(M.heldFirst, r) \in Seq(RecordTo(clock'))
    BY <1>3, <1>4, AppendProperties
  <2>2. QED
    BY <1>4, <2>1, ConcatProperties
<1>6. list \in Nat /\ <<>> \in Seq(RecordTo(clock'))
  BY <1>4
<1> HIDE DEF recs, list
<1>7. Typed([M EXCEPT !.held[s] = recs, !.heldList[s] = list,
                      !.heldFirst = <<>>], clock')
  BY <1>2, <1>5, <1>6, HoldTyped
<1>8. QED
  BY <1>1, <1>2, <1>7 DEF Clocked

LEMMA FirstPassClocked ==
    ASSUME Clocked, NEW t \in Threads, NEW flags \in CallbackFlags,
           FirstPassCallback(t, flags)
    PROVE  Clocked'
<1> DEFINE M == Admit(AbandonOpenResolve(ledger, t), t, FALSE)
<1> DEFINE r == CallbackRecord(t, flags, clock')
<1> DEFINE first == Append(M.heldFirst, r)
<1>1. /\ clock' \in {clock, clock + 1}
      /\ ledger' = [M EXCEPT !.heldFirst = first]
  BY DEF FirstPassCallback, Tick
<1>2. clock' \in Nat /\ Typed(M, clock')
  BY <1>1, TickTyped, AdmittedTyped
<1>3. r \in RecordTo(clock')
  BY <1>2, CallbackTypes
<1> HIDE DEF M, r
<1>4. M.heldFirst \in Seq(RecordTo(clock'))
  BY <1>2 DEF Typed, Others
<1>5. first \in Seq(RecordTo(clock'))
  BY <1>3, <1>4, AppendProperties
<1> HIDE DEF first
<1>6. Typed([M EXCEPT !.heldFirst = first], clock')
  BY <1>2, <1>5, FirstTyped
<1>7. QED
  BY <1>1, <1>2, <1>6 DEF Clocked

LEMMA TileClocked ==
    ASSUME Clocked, NEW t \in Threads, TileOps(t) \/ TiledProgress
    PROVE  Clocked'
<1>1. clock \in Nat /\ Typed(ledger, clock)
  BY DEF Clocked
<1>2. CASE BeginTiledList
  <2> DEFINE new == [k \in DOMAIN ledger.lists \cup {ledger.nextList} |->
                       IF k = ledger.nextList THEN [s \in Segments |-> 0]
                                              ELSE ledger.lists[k]]
  <2>1. clock' = clock
        /\ ledger' = [ledger EXCEPT !.lists = new, !.nextList = @ + 1]
    BY <1>2 DEF BeginTiledList, LedgerOnly
  <2>2. ledger.nextList \in Nat \ {0}
        /\ DOMAIN ledger.lists \subseteq 1 .. (ledger.nextList - 1)
        /\ \A k \in DOMAIN ledger.lists : ledger.lists[k] \in [Segments -> Nat]
    BY <1>1 DEF Typed, Others
  <2>3. /\ DOMAIN new \subseteq 1 .. ledger.nextList
        /\ \A k \in DOMAIN new : new[k] \in [Segments -> Nat]
    <3>1. [s \in Segments |-> 0] \in [Segments -> Nat]
      OBVIOUS
    <3>2. DOMAIN new = DOMAIN ledger.lists \cup {ledger.nextList}
      OBVIOUS
    <3>3. QED
      BY <2>2, <3>1, <3>2
  <2> HIDE DEF new
  <2>4. /\ DOMAIN ledger' = Fields
        /\ ledger'.oldest = ledger.oldest /\ ledger'.nextSpan = ledger.nextSpan
        /\ ledger'.spans = ledger.spans
    BY <1>1, <2>1, FieldNames DEF Typed, Shaped
  <2>5. Others(ledger', clock)
    BY <1>1, <2>1, <2>2, <2>3, FieldNames DEF Typed, Shaped, Others
  <2>6. QED
    BY <2>1, <2>4, <2>5, OtherClocked
<1>3. ASSUME NEW s \in Segments, NEW n \in Nat, TiledSegment(t, s, n)
      PROVE  Clocked'
  <2> DEFINE M == [ledger EXCEPT !.lists[ledger.nextList - 1][s] = n]
  <2>1. clock' = clock
        /\ (ledger' = M \/ ledger' = FailAt(ledger, Back(ledger)))
    BY <1>3 DEF TiledSegment, Unreplayed, LedgerOnly
  <2>2. CASE ledger' = M
    <3> DEFINE lists == [ledger.lists EXCEPT ![ledger.nextList - 1] =
                            [@ EXCEPT ![s] = n]]
    <3>1. /\ DOMAIN lists = DOMAIN ledger.lists
          /\ \A k \in DOMAIN lists : lists[k] \in [Segments -> Nat]
      BY <1>1 DEF Typed, Others
    <3>2. ledger' = [ledger EXCEPT !.lists = lists]
      BY <2>2
    <3> HIDE DEF lists
    <3>3. /\ DOMAIN ledger' = Fields
          /\ ledger'.oldest = ledger.oldest
          /\ ledger'.nextSpan = ledger.nextSpan
          /\ ledger'.spans = ledger.spans
      BY <1>1, <3>2, FieldNames DEF Typed, Shaped
    <3>4. Others(ledger', clock)
      BY <1>1, <3>1, <3>2, FieldNames DEF Typed, Shaped, Others
    <3>5. QED
      BY <2>1, <3>3, <3>4, OtherClocked
  <2>3. QED
    BY <2>1, <2>2, FailClocked
<1>4. CASE TiledProgress
  BY <1>4, FailClocked DEF TiledProgress, LedgerOnly
<1>5. \A n \in Sizes : n \in Nat
  BY DataTypes
<1>6. QED
  BY <1>2, <1>3, <1>4, <1>5, DeferClocked, SideFenceClocked,
     SideCallbackClocked, FirstPassClocked DEF TileOps

\* The fields of the device bracket.
LEMMA DeviceFields ==
    ASSUME NEW c, NEW L, Typed(L, c), NEW t \in Threads \cup {NoThread}
    PROVE  /\ Typed([L EXCEPT !.suspended = TRUE], c)
           /\ Typed([L EXCEPT !.suspended = FALSE], c)
           /\ Typed([L EXCEPT !.deviceOwner = t], c)
           /\ Typed([L EXCEPT !.ownerSwapThread = t], c)
           /\ Typed([L EXCEPT !.ownerSwapThread = t,
                              !.ownerSwapSawSwap = FALSE], c)
<1>1. Typed([L EXCEPT !.suspended = TRUE], c)
  <2> DEFINE M == [L EXCEPT !.suspended = TRUE]
  <2>1. /\ DOMAIN M = Fields
        /\ M.oldest = L.oldest /\ M.nextSpan = L.nextSpan /\ M.spans = L.spans
    BY FieldNames DEF Typed, Shaped
  <2>2. Others(M, c)
    BY FieldNames DEF Typed, Shaped, Others
  <2>3. QED
    BY <2>1, <2>2, PutOther
<1>2. Typed([L EXCEPT !.suspended = FALSE], c)
  <2> DEFINE M == [L EXCEPT !.suspended = FALSE]
  <2>1. /\ DOMAIN M = Fields
        /\ M.oldest = L.oldest /\ M.nextSpan = L.nextSpan /\ M.spans = L.spans
    BY FieldNames DEF Typed, Shaped
  <2>2. Others(M, c)
    BY FieldNames DEF Typed, Shaped, Others
  <2>3. QED
    BY <2>1, <2>2, PutOther
<1>3. Typed([L EXCEPT !.deviceOwner = t], c)
  <2> DEFINE M == [L EXCEPT !.deviceOwner = t]
  <2>1. /\ DOMAIN M = Fields
        /\ M.oldest = L.oldest /\ M.nextSpan = L.nextSpan /\ M.spans = L.spans
    BY FieldNames DEF Typed, Shaped
  <2>2. Others(M, c)
    BY FieldNames DEF Typed, Shaped, Others
  <2>3. QED
    BY <2>1, <2>2, PutOther
<1>4. Typed([L EXCEPT !.ownerSwapThread = t], c)
  <2> DEFINE M == [L EXCEPT !.ownerSwapThread = t]
  <2>1. /\ DOMAIN M = Fields
        /\ M.oldest = L.oldest /\ M.nextSpan = L.nextSpan /\ M.spans = L.spans
    BY FieldNames DEF Typed, Shaped
  <2>2. Others(M, c)
    BY FieldNames DEF Typed, Shaped, Others
  <2>3. QED
    BY <2>1, <2>2, PutOther
<1>5. Typed([L EXCEPT !.ownerSwapThread = t,
                     !.ownerSwapSawSwap = FALSE], c)
  <2> DEFINE M == [L EXCEPT !.ownerSwapThread = t,
                     !.ownerSwapSawSwap = FALSE]
  <2>1. /\ DOMAIN M = Fields
        /\ M.oldest = L.oldest /\ M.nextSpan = L.nextSpan /\ M.spans = L.spans
    BY FieldNames DEF Typed, Shaped
  <2>2. Others(M, c)
    BY FieldNames DEF Typed, Shaped, Others
  <2>3. QED
    BY <2>1, <2>2, PutOther
<1>6. QED
  BY <1>1, <1>2, <1>3, <1>4, <1>5

LEMMA DeviceClocked ==
    ASSUME Clocked, NEW t \in Threads, DeviceOps(t) \/ MarkReplayThread(t)
    PROVE  Clocked'
<1> DEFINE b == Back(ledger)
<1> DEFINE F == FailAt(ledger, b)
<1>1. /\ clock' = clock /\ clock \in Nat /\ Typed(ledger, clock)
      /\ Typed(F, clock)
      /\ t \in Threads \cup {NoThread} /\ NoThread \in Threads \cup {NoThread}
  BY BackTypes, FailAtTyped
     DEF Clocked, DeviceOps, MarkReplayThread, Suspend, Resume, AcquireDevice,
         ReleaseDevice, BeginDeviceOwnerSwap, EndDeviceOwnerSwap, LedgerOnly
<1>2. CASE MarkReplayThread(t)
  <2>1. /\ DOMAIN ledger' = Fields
        /\ ledger'.oldest = ledger.oldest /\ ledger'.nextSpan = ledger.nextSpan
        /\ ledger'.spans = ledger.spans
    BY <1>1, <1>2, FieldNames DEF MarkReplayThread, Typed, Shaped
  <2>2. Others(ledger', clock)
    BY <1>1, <1>2, FieldNames DEF MarkReplayThread, Typed, Shaped, Others
  <2>3. QED
    BY <1>1, <2>1, <2>2, OtherClocked
<1>3. CASE Suspend \/ Resume
  <2>1. \E L \in {ledger, F} : \/ ledger' = [L EXCEPT !.suspended = TRUE]
                               \/ ledger' = [L EXCEPT !.suspended = FALSE]
    BY <1>3 DEF Suspend, Resume
  <2>2. ASSUME NEW L, Typed(L, clock)
        PROVE  /\ Typed([L EXCEPT !.suspended = TRUE], clock)
               /\ Typed([L EXCEPT !.suspended = FALSE], clock)
    BY <1>1, <2>2, DeviceFields
  <2> HIDE DEF F
  <2>3. QED
    BY <1>1, <2>1, <2>2 DEF Clocked
<1>4. CASE AcquireDevice(t)
  <2> DEFINE M == [ledger EXCEPT !.deviceOwner = t]
  <2>1. \/ ledger' \in {M, F}
        \/ ledger' = [M EXCEPT !.spans[b].thread = t]
    BY <1>4 DEF AcquireDevice
  <2>2. Typed(M, clock)
    BY <1>1, DeviceFields
  <2> HIDE DEF M, F
  <2>3. Typed([M EXCEPT !.spans[b].thread = t], clock)
    BY <2>2, PutThread
  <2>4. QED
    BY <1>1, <2>1, <2>2, <2>3 DEF Clocked
<1>5. CASE ReleaseDevice(t)
  <2> DEFINE A == AbandonOpenResolve(ledger, t)
  <2> DEFINE owner == IF A.deviceOwner = t THEN NoThread ELSE A.deviceOwner
  <2>1. ledger' = [A EXCEPT !.deviceOwner = owner]
    BY <1>5, Zenon DEF ReleaseDevice
  <2>2. Typed(A, clock)
    BY <1>1, AbandonOpenResolveTyped
  <2> HIDE DEF A
  <2>3. owner \in Threads \cup {NoThread}
    BY <2>2 DEF Typed, Others
  <2> HIDE DEF owner
  <2>4. QED
    BY <1>1, <2>1, <2>2, <2>3, DeviceFields DEF Clocked
<1>6. CASE BeginDeviceOwnerSwap(t)
  <2> DEFINE M == [ledger EXCEPT !.ownerSwapThread = t,
                                 !.ownerSwapSawSwap = FALSE]
  <2>1. ledger' = [M EXCEPT !.spans[b].thread = t] \/ ledger' = F
    BY <1>6 DEF BeginDeviceOwnerSwap
  <2>2. Typed(M, clock)
    BY <1>1, DeviceFields
  <2> HIDE DEF M, F
  <2>3. Typed([M EXCEPT !.spans[b].thread = t], clock)
    BY <2>2, PutThread
  <2>4. QED
    BY <1>1, <2>1, <2>3 DEF Clocked
<1>7. CASE EndDeviceOwnerSwap(t)
  <2> DEFINE M == [ledger EXCEPT !.ownerSwapThread = NoThread]
  <2>1. ledger' = [M EXCEPT !.spans[b].thread = NoThread] \/ ledger' = F
    BY <1>7 DEF EndDeviceOwnerSwap
  <2>2. Typed(M, clock)
    BY <1>1, DeviceFields
  <2> HIDE DEF M, F
  <2>3. Typed([M EXCEPT !.spans[b].thread = NoThread], clock)
    BY <2>2, PutThread
  <2>4. QED
    BY <1>1, <2>1, <2>3 DEF Clocked
<1>8. QED
  BY <1>2, <1>3, <1>4, <1>5, <1>6, <1>7 DEF DeviceOps

LEMMA GuestClocked ==
    ASSUME Clocked, NEW t \in Threads, GuestOps(t)
    PROVE  Clocked'
<1>1. \A n \in Sizes : n \in Nat
  BY DataTypes
<1>2. QED
  BY <1>1, ProgressClocked, UnmodeledClocked, DrawClocked, FrameClocked,
     KickClocked, SubmitsClocked, SilentClocked, TileClocked, DeviceClocked
     DEF GuestOps, SubmitOps, SilentOps, WorkerOps

\* The oldest span with a fence for another block fails.
LEMMA RegisterClocked ==
    ASSUME Clocked, NEW block \in Blocks, RegisterWriteback(block)
    PROVE  Clocked'
<1> DEFINE L == [ledger EXCEPT !.writeback = block]
<1> DEFINE bad == {id \in Live(L) : \E i \in DOMAIN L.spans[id].records :
                      /\ L.spans[id].records[i].kind = "Fence"
                      /\ L.spans[id].records[i].block # block}
<1>1. ledger' = IF bad = {} THEN L ELSE FailAt(L, OldestOf(bad))
  BY Zenon DEF RegisterWriteback
<1>2. clock' = clock /\ clock \in Nat /\ Typed(ledger, clock)
  BY DEF RegisterWriteback, Clocked
<1>3. Typed(L, clock)
  <2>1. /\ DOMAIN L = Fields
        /\ L.oldest = ledger.oldest /\ L.nextSpan = ledger.nextSpan
        /\ L.spans = ledger.spans
    BY <1>2, FieldNames DEF Typed, Shaped
  <2>2. Others(L, clock)
    BY <1>2, FieldNames DEF Typed, Shaped, Others
  <2>3. QED
    BY <1>2, <2>1, <2>2, PutOther
<1> HIDE DEF L
<1>4. bad \subseteq Nat
  BY <1>3 DEF Live, Typed, Shaped
<1> HIDE DEF bad
<1>5. bad # {} => OldestOf(bad) \in Nat
  BY <1>4, OldestExists DEF OldestOf
<1>6. QED
  BY <1>1, <1>2, <1>3, <1>5, FailAtTyped DEF Clocked

LEMMA FailureClocked ==
    ASSUME Clocked, FailureOps \/ RegisterOps
    PROVE  Clocked'
<1>1. CASE Fail
  BY <1>1, FailClocked DEF Fail
<1>2. CASE TiledProgress
  BY <1>2, FailClocked DEF TiledProgress, LedgerOnly
<1>3. QED
  BY <1>1, <1>2, RegisterClocked DEF FailureOps, RegisterOps


-----------------------------------------------------------------------------
\* The types of what is not the ledger.
PeerTypes ==
    /\ gate \in {"free", "pump", "holder"}
    /\ pump \in [pc: PumpPCs, span: Nat, mark: Nat,
                 result: {"none", "written", "held", "error", "closing"}]
    /\ guest \in [cursor: Nat, fence: Nat, scratch: Nat, slot: Nat,
                  mask: BOOLEAN, raised: BOOLEAN, word: {0, 1}, image: Nat,
                  rptr: Nat]
    /\ host \in [submitted: Nat, completed: Nat, discarding: Nat,
                 discarded: Nat, detached: SUBSET Handles]
    /\ effect \in [span: Nat, index: Nat, step: Nat, turn: BOOLEAN]

\* Between the cursor and the fence, Pump is still at the fence's record.
FenceAtRecord == pump.pc = "fence" => Cur.applied < Len(Cur.records)

TypeInv == PumpOwns /\ Clocked /\ PeerTypes /\ FenceAtRecord

-----------------------------------------------------------------------------
(* Guest threads, failures and registration: calls under `mutex'.          *)

LEMMA CallsFence ==
    ASSUME Calls
    PROVE  FenceAtRecord'
BY DEF Calls, MutexFree, UnlockedPCs, FenceAtRecord

LEMMA GuestPeers ==
    ASSUME Clocked, PeerTypes, NEW t \in Threads, GuestOps(t)
    PROVE  PeerTypes'
<1>1. ledger.openDraws[t] \in Handles
  BY HandleTypes DEF Clocked
<1>2. CASE DetachDraw(t)
  BY <1>1, <1>2 DEF DetachDraw, Rest, PeerTypes
<1>3. CASE UNCHANGED <<gate, pump, guest, host, effect>>
  BY <1>3 DEF PeerTypes
<1>4. CASE ProgressOps(t) \/ UnmodeledOps(t)
  BY <1>3, <1>4 DEF ProgressOps, UnmodeledOps, InvalidateState, Barrier, Inert,
       ScratchWrite, GpuWait, Fence, Callback, Unmodeled, BadTimestamp,
       ForeignCallback, Rest
<1>5. CASE DrawOps(t) \/ ResolveOps(t) \/ FrameOps(t)
  BY <1>2, <1>3, <1>5 DEF DrawOps, ResolveOps, FrameOps, BeginDraw, FinishDraw,
       Resolve, FinishResolve, Clear, Swap, Rest
<1>6. CASE SubmitOps(t) \/ SilentOps(t) \/ WorkerOps(t)
  BY <1>3, <1>6 DEF SubmitOps, SilentOps, WorkerOps, Kick, DirectSubmit,
       SilentSubmit, MarkReplayThread, ReplaySubmit, LedgerOnly, Rest
<1>7. CASE TileOps(t)
  BY <1>3, <1>7 DEF TileOps, BeginTiledList, TiledSegment, Defer, SideFence,
       SideCallback, FirstPassCallback, LedgerOnly, Rest
<1>8. CASE DeviceOps(t)
  BY <1>3, <1>8 DEF DeviceOps, Suspend, Resume, AcquireDevice, ReleaseDevice,
       BeginDeviceOwnerSwap, EndDeviceOwnerSwap, LedgerOnly, Rest
<1>9. QED
  BY <1>4, <1>5, <1>6, <1>7, <1>8 DEF GuestOps

LEMMA OtherPeers ==
    ASSUME PeerTypes, DetachedOps \/ FailureOps \/ RegisterOps
    PROVE  PeerTypes'
<1>1. CASE DetachedOps
  <2>1. /\ UNCHANGED <<gate, pump, guest, effect>>
        /\ \E h \in host.detached :
              host' = [host EXCEPT !.detached = host.detached \ {h}]
    BY <1>1 DEF DetachedOps, FinishDetached, AbandonDraw, Rest
  <2>2. QED
    BY <2>1 DEF PeerTypes
<1>2. CASE FailureOps \/ RegisterOps
  BY <1>2 DEF FailureOps, RegisterOps, Fail, TiledProgress, RegisterWriteback,
              LedgerOnly, Rest, PeerTypes
<1>3. QED
  BY <1>1, <1>2

-----------------------------------------------------------------------------
(* Pump at the front of the window.                                        *)

LEMMA FrontTyped ==
    ASSUME TypeInv, pump.pc \notin {"idle", "head"}, pump.span = ledger.oldest
    PROVE  /\ pump.span \in Live(ledger) /\ pump.span \in Nat
           /\ Cur \in SpanTo(clock) /\ Index \in Nat /\ Cur.kicked \in Nat
<1>1. pump.span \in Live(ledger)
  BY FrontNotBack DEF TypeInv
<1>2. Cur \in SpanTo(clock)
  BY <1>1, SpanOfLedger DEF TypeInv, Clocked, Cur
<1>3. Cur.applied \in Nat /\ Cur.kicked \in Nat
  BY <1>2 DEF SpanTo
<1>4. QED
  BY <1>1, <1>2, <1>3 DEF Index, TypeInv, PeerTypes

LEMMA LockedFront ==
    ASSUME TypeInv, pump.pc \in LockedPCs \cup TakePCs
    PROVE  /\ pump.pc \notin {"idle", "head"} /\ pump.span = ledger.oldest
BY DEF TypeInv, PumpOwns, PumpInWindow, LockedPCs, TakePCs

LEMMA RecTyped ==
    ASSUME TypeInv, pump.pc \in LockedPCs, Cur.applied < Len(Cur.records)
    PROVE  Rec \in RecordTo(clock) /\ Rec.value \in Nat /\ Rec.mark \in Nat
<1>1. Cur \in SpanTo(clock)
  BY LockedFront, FrontTyped
<1>2. Cur.records \in Seq(RecordTo(clock)) /\ Cur.applied \in Nat
  BY <1>1 DEF SpanTo
<1>3. Index \in DOMAIN Cur.records
  BY <1>2 DEF Index
<1>4. Rec \in RecordTo(clock)
  BY <1>1, <1>3, RecordOfSpan DEF Rec
<1>5. clock \in Nat
  BY DEF TypeInv, Clocked
<1>6. QED
  BY <1>4, <1>5 DEF RecordTo

LEMMA AppliedTyped ==
    ASSUME NEW c, Typed(ledger, c)
    PROVE  Typed(Applied, c)
<1> DEFINE n == ledger.spans[pump.span].applied + 1
<1> DEFINE M == [ledger EXCEPT !.spans[pump.span].applied = n]
<1>1. Applied = [M EXCEPT !.spans[pump.span].stage = 0]
  BY DEF Applied
<1>2. pump.span \in Live(ledger) => ledger.spans[pump.span] \in SpanTo(c)
  BY SpanOfLedger
<1>3. pump.span \in Live(ledger) => n \in Nat
  BY <1>2 DEF SpanTo
<1> HIDE DEF n
<1>4. Typed(M, c)
  BY <1>3, PutNumbers
<1> HIDE DEF M
<1>5. 0 \in 0 .. 2
  OBVIOUS
<1>6. Typed([M EXCEPT !.spans[pump.span].stage = 0], c)
  BY <1>4, <1>5, PutStage
<1>7. QED
  BY <1>1, <1>6

LEMMA EffectTyped ==
    ASSUME TypeInv, pump.pc \notin {"idle", "head"}, pump.span = ledger.oldest,
           NEW step \in Nat, EffectAt(step)
    PROVE  effect' \in [span: Nat, index: Nat, step: Nat, turn: BOOLEAN]
<1>1. Index \in Nat /\ pump.span \in Nat
  BY FrontTyped
<1>2. QED
  BY <1>1 DEF EffectAt

LEMMA StepTyped ==
    ASSUME PeerTypes, NEW pc \in PumpPCs, Step(pc)
    PROVE  pump' \in [pc: PumpPCs, span: Nat, mark: Nat,
                     result: {"none", "written", "held", "error", "closing"}]
BY DEF PeerTypes, Step

LEMMA ReplayTyped ==
    ASSUME NEW c, NEW L, Typed(L, c)
    PROVE  Typed([L EXCEPT !.replayPointer = 0], c)
<1> DEFINE M == [L EXCEPT !.replayPointer = 0]
<1>1. /\ DOMAIN M = Fields
      /\ M.oldest = L.oldest /\ M.nextSpan = L.nextSpan /\ M.spans = L.spans
  BY FieldNames DEF Typed, Shaped
<1>2. Others(M, c)
  BY FieldNames DEF Typed, Shaped, Others
<1>3. QED
  BY <1>1, <1>2, PutOther

\* A pass that leaves the record without an owner.
LEMMA PumpUnownTyped ==
    ASSUME TypeInv, NEW i
    PROVE  Typed(Unown(ledger, pump.span, i), clock)
BY UnownTyped DEF TypeInv, Clocked, PeerTypes

-----------------------------------------------------------------------------
(* The steps of Pump. *)

LEMMA LoopTyped ==
    ASSUME TypeInv, LoopSteps
    PROVE  Clocked' /\ PeerTypes' /\ FenceAtRecord'
<1>1. /\ Window(ledger) /\ clock' = clock /\ clock \in Nat
      /\ Typed(ledger, clock) /\ ledger.oldest \in Nat
      /\ gate' = gate /\ host' = host
  BY DEF TypeInv, PumpOwns, Window, Shaped, Clocked, LoopSteps,
         WriteReplayPointer, LoseReplayPointer, Pause, BeginFlush, BeginApply,
         Release, ReleaseFailed
<1>2. Typed(ledger', clock)
  <2>1. CASE ledger' = ledger
    BY <1>1, <2>1
  <2>2. CASE WriteReplayPointer
    BY <1>1, <2>2, ReplayTyped DEF WriteReplayPointer
  <2>3. CASE LoseReplayPointer
    <3> DEFINE L == Unown(ledger, ledger.oldest, Len(Front.records) + 1)
    <3>1. Typed(L, clock)
      BY <1>1, UnownTyped
    <3>2. ledger' = L \/ ledger' = [L EXCEPT !.replayPointer = 0]
      BY <2>3 DEF LoseReplayPointer
    <3> HIDE DEF L
    <3>3. QED
      BY <3>1, <3>2, ReplayTyped
  <2>4. CASE Release \/ ReleaseFailed
    <3> DEFINE L == Unown(ledger, pump.span, Index)
    <3>1. ledger.oldest < Back(ledger)
      BY <2>4 DEF Release, ReleaseFailed, TypeInv, PumpOwns, PumpInWindow,
                  LockedPCs
    <3>2. Typed(L, clock)
      BY PumpUnownTyped
    <3>3. L.oldest < Back(L)
      BY <1>1, <3>1, UnownSame DEF Window, Same, Back
    <3>4. ledger' \in {L, PopFront(L), PopFront(ledger)}
      BY <2>4 DEF Release, ReleaseFailed
    <3> HIDE DEF L
    <3>5. QED
      BY <1>1, <3>1, <3>2, <3>3, <3>4, PopFrontTyped
  <2>5. QED
    BY <2>1, <2>2, <2>3, <2>4 DEF LoopSteps, Pause, BeginFlush, BeginApply
<1>3. pump' \in [pc: PumpPCs, span: Nat, mark: Nat,
                 result: {"none", "written", "held", "error", "closing"}]
      /\ pump'.pc # "fence"
  <2>1. Front \in SpanTo(clock)
    BY <1>1, SpanOfLedger DEF Front, Window, Shaped, Live
  <2>2. Front.lastAdmitted \in Nat
    BY <1>1, <2>1 DEF SpanTo
  <2>3. CASE BeginFlush \/ BeginApply
    <3>1. \/ pump' = [pump EXCEPT !.pc = "flush", !.span = ledger.oldest,
                                  !.mark = Front.lastAdmitted]
          \/ pump' = [pump EXCEPT !.pc = "apply", !.span = ledger.oldest]
      BY <2>3 DEF BeginFlush, BeginApply
    <3>2. QED
      BY <1>1, <2>2, <3>1 DEF TypeInv, PeerTypes, PumpPCs, UnlockedPCs
  <2>4. CASE \E pc \in {"head", "idle"} : Step(pc)
    BY <2>4, StepTyped DEF TypeInv, PumpPCs, UnlockedPCs, Step
  <2>5. QED
    BY <2>3, <2>4 DEF LoopSteps, WriteReplayPointer, LoseReplayPointer, Pause,
                      Release, ReleaseFailed
<1>4. /\ effect' \in [span: Nat, index: Nat, step: Nat, turn: BOOLEAN]
      /\ \E n \in Nat : guest' \in {guest, [guest EXCEPT !.rptr = n]}
  <2>1. CASE UNCHANGED <<guest, effect>>
    BY <2>1 DEF TypeInv, PeerTypes
  <2>2. CASE WriteReplayPointer
    BY <1>1, <2>2 DEF WriteReplayPointer, TypeInv, PeerTypes, Typed, Others
  <2>3. CASE Release
    <3>1. pump.pc \notin {"idle", "head"} /\ pump.span = ledger.oldest
      BY <2>3, LockedFront DEF Release, LockedPCs
    <3>2. Cur.kicked \in Nat
      BY <3>1, FrontTyped
    <3>3. CASE EffectAt(1) /\ guest' = [guest EXCEPT !.rptr = Cur.kicked]
      BY <3>1, <3>2, <3>3, EffectTyped
    <3>4. QED
      BY <2>1, <2>3, <3>3 DEF Release
  <2>4. QED
    BY <2>1, <2>2, <2>3 DEF LoopSteps, LoseReplayPointer, Pause, BeginFlush,
                            BeginApply, ReleaseFailed
<1>5. PeerTypes'
  BY <1>1, <1>3, <1>4 DEF TypeInv, PeerTypes
<1>6. QED
  BY <1>1, <1>2, <1>3, <1>5 DEF Clocked, FenceAtRecord

LEMMA FlushTyped ==
    ASSUME TypeInv, FlushOps
    PROVE  Clocked' /\ PeerTypes' /\ FenceAtRecord'
<1>1. /\ clock' = clock /\ clock \in Nat /\ Typed(ledger, clock)
      /\ UNCHANGED <<gate, guest, effect>>
      /\ host.submitted \in Nat /\ pump.mark \in Nat
  BY DEF TypeInv, Clocked, PeerTypes, FlushOps, FlushFenced, FlushRetry,
         FlushFailed
<1>2. \E n \in Nat : host' \in {host, [host EXCEPT !.submitted = n]}
  <2>1. MaxOf(host.submitted, pump.mark) \in Nat
    BY <1>1 DEF MaxOf
  <2>2. QED
    BY <2>1 DEF FlushOps, FlushFenced, FlushRetry, FlushFailed
<1>3. \E pc \in {"idle", "apply"} : Step(pc)
  BY DEF FlushOps, FlushFenced, FlushRetry, FlushFailed
<1>4. ASSUME NEW L, Typed(L, clock), NEW n \in Nat
      PROVE  Typed([L EXCEPT !.spans[pump.span].hostTarget = n,
                             !.spans[pump.span].flushed = TRUE], clock)
  <2> DEFINE M == [L EXCEPT !.spans[pump.span].hostTarget = n]
  <2>1. Typed(M, clock)
    BY <1>4, PutNumbers
  <2>2. [L EXCEPT !.spans[pump.span].hostTarget = n,
                  !.spans[pump.span].flushed = TRUE]
          = [M EXCEPT !.spans[pump.span].flushed = TRUE]
    OBVIOUS
  <2> HIDE DEF M
  <2>3. Typed([M EXCEPT !.spans[pump.span].flushed = TRUE], clock)
    BY <2>1, PutFlags
  <2>4. QED
    BY <2>2, <2>3
<1>5. Typed(ledger', clock)
  <2> DEFINE L == Unown(ledger, pump.span, AdmittedRecord(Cur))
  <2>1. Typed(L, clock)
    BY PumpUnownTyped
  <2>2. \E n \in Nat :
           \/ ledger' \in {ledger, L}
           \/ ledger' = [ledger EXCEPT !.spans[pump.span].hostTarget = n,
                                       !.spans[pump.span].flushed = TRUE]
           \/ ledger' = [L EXCEPT !.spans[pump.span].hostTarget = n,
                                  !.spans[pump.span].flushed = TRUE]
    <3>1. CASE FlushFenced
      <4>1. MaxOf(host.submitted, pump.mark) \in Nat
        BY <1>1 DEF MaxOf
      <4>2. QED
        BY <3>1, <4>1 DEF FlushFenced
    <3>2. CASE FlushFailed
      BY <1>1, <3>2 DEF FlushFailed
    <3>3. CASE FlushRetry
      BY <3>3 DEF FlushRetry
    <3>4. QED
      BY <3>1, <3>2, <3>3 DEF FlushOps
  <2> HIDE DEF L
  <2>3. PICK n \in Nat :
           \/ ledger' \in {ledger, L}
           \/ ledger' = [ledger EXCEPT !.spans[pump.span].hostTarget = n,
                                       !.spans[pump.span].flushed = TRUE]
           \/ ledger' = [L EXCEPT !.spans[pump.span].hostTarget = n,
                                  !.spans[pump.span].flushed = TRUE]
    BY <2>2
  <2>4. Typed([ledger EXCEPT !.spans[pump.span].hostTarget = n,
                             !.spans[pump.span].flushed = TRUE], clock)
    BY <1>1, <1>4
  <2>5. Typed([L EXCEPT !.spans[pump.span].hostTarget = n,
                        !.spans[pump.span].flushed = TRUE], clock)
    BY <2>1, <1>4
  <2>6. QED
    BY <1>1, <2>1, <2>3, <2>4, <2>5
<1>6. pump' \in [pc: PumpPCs, span: Nat, mark: Nat,
                 result: {"none", "written", "held", "error", "closing"}]
      /\ pump'.pc # "fence"
  BY <1>3, StepTyped DEF TypeInv, PumpPCs, UnlockedPCs, Step
<1>7. PeerTypes'
  BY <1>1, <1>2, <1>6 DEF TypeInv, PeerTypes
<1>8. QED
  BY <1>1, <1>5, <1>6, <1>7 DEF Clocked, FenceAtRecord

LEMMA ApplyTyped ==
    ASSUME TypeInv, ApplySteps
    PROVE  Clocked' /\ PeerTypes' /\ FenceAtRecord'
<1>1. /\ clock' = clock /\ clock \in Nat /\ Typed(ledger, clock)
      /\ UNCHANGED <<gate, host>> /\ pump.pc \in LockedPCs
  BY DEF TypeInv, Clocked, ApplySteps, ApplySkipped, ApplyInert, WriteCursor,
         WriteFence, WriteScratch, WaitOver, WaitLonger, AccessFailed, GiveUp,
         ApplyDone, ApplyKind, AtRecord, RaiseDone, LockedPCs
<1>2. pump.pc \notin {"idle", "head"} /\ pump.span = ledger.oldest
  BY <1>1, LockedFront
<1>3. Typed(ledger', clock)
  <2>1. ledger' \in {ledger, Applied, Unown(ledger, pump.span, Index)}
    BY DEF ApplySteps, ApplySkipped, ApplyInert, WriteCursor, WriteFence,
           WriteScratch, WaitOver, WaitLonger, AccessFailed, GiveUp, ApplyDone
  <2>2. QED
    BY <1>1, <2>1, AppliedTyped, PumpUnownTyped
<1>4. /\ effect' \in [span: Nat, index: Nat, step: Nat, turn: BOOLEAN]
      /\ \E n \in Nat : guest' \in {guest, [guest EXCEPT !.cursor = n],
                                    [guest EXCEPT !.fence = n],
                                    [guest EXCEPT !.scratch = n]}
  <2>1. CASE UNCHANGED <<guest, effect>>
    BY <2>1 DEF TypeInv, PeerTypes
  <2>2. CASE WriteCursor \/ WriteScratch \/ WriteFence
    <3>1. Cur.applied < Len(Cur.records)
      BY <2>2 DEF WriteCursor, WriteScratch, WriteFence, ApplyKind, AtRecord,
                  TypeInv, FenceAtRecord
    <3>2. Rec.value \in Nat
      BY <1>1, <3>1, RecTyped
    <3>3. EffectAt(1) \/ EffectAt(2)
      BY <2>2 DEF WriteCursor, WriteScratch, WriteFence
    <3>4. effect' \in [span: Nat, index: Nat, step: Nat, turn: BOOLEAN]
      BY <1>2, <3>3, EffectTyped
    <3>5. QED
      BY <2>2, <3>2, <3>4 DEF WriteCursor, WriteScratch, WriteFence
  <2>3. QED
    BY <2>1, <2>2 DEF ApplySteps, ApplySkipped, ApplyInert, WaitOver,
                      WaitLonger, AccessFailed, GiveUp, ApplyDone
<1>5. /\ pump' \in [pc: PumpPCs, span: Nat, mark: Nat,
                    result: {"none", "written", "held", "error", "closing"}]
      /\ FenceAtRecord'
  <2>1. CASE pump' = pump /\ pump.pc = "apply"
    BY <2>1 DEF TypeInv, PeerTypes, FenceAtRecord
  <2>2. CASE \E pc \in {"idle", "apply", "release"} : Step(pc)
    <3>1. pump' \in [pc: PumpPCs, span: Nat, mark: Nat,
                     result: {"none", "written", "held", "error", "closing"}]
      BY <2>2, StepTyped DEF TypeInv, PumpPCs, UnlockedPCs
    <3>2. pump'.pc # "fence"
      BY <2>2 DEF Step
    <3>3. QED
      BY <3>1, <3>2 DEF FenceAtRecord
  <2>3. CASE WriteCursor
    <3>1. Step("fence") /\ ledger' = ledger /\ Cur.applied < Len(Cur.records)
      BY <2>3 DEF WriteCursor, ApplyKind, AtRecord
    <3>2. pump' \in [pc: PumpPCs, span: Nat, mark: Nat,
                     result: {"none", "written", "held", "error", "closing"}]
      BY <3>1, StepTyped DEF TypeInv, PumpPCs
    <3>3. pump'.span = pump.span
      BY <3>1 DEF Step
    <3>4. QED
      BY <3>1, <3>2, <3>3 DEF FenceAtRecord, Cur
  <2>4. QED
    BY <2>1, <2>2, <2>3 DEF ApplySteps, ApplySkipped, ApplyInert, WriteFence,
         WriteScratch, WaitOver, WaitLonger, AccessFailed, GiveUp, ApplyDone,
         ApplyKind, AtRecord
<1>6. PeerTypes'
  BY <1>1, <1>4, <1>5 DEF TypeInv, PeerTypes
<1>7. QED
  BY <1>1, <1>3, <1>5, <1>6 DEF Clocked

LEMMA CallbackTyped ==
    ASSUME TypeInv, CallbackSteps
    PROVE  Clocked' /\ PeerTypes' /\ FenceAtRecord'
<1>1. /\ clock' = clock /\ clock \in Nat /\ Typed(ledger, clock)
      /\ UNCHANGED <<gate, host>>
  BY DEF TypeInv, Clocked, CallbackSteps, WriteSlot, WriteMask, RaiseAgain,
         Raised, NotRaised, AwaitMask, RetireSlot, CallbackDone
<1>2. Typed(ledger', clock)
  <2>1. ledger' \in {ledger, Applied,
                     [ledger EXCEPT !.spans[pump.span].stage = 1],
                     [ledger EXCEPT !.spans[pump.span].stage = 2]}
    BY DEF CallbackSteps, WriteSlot, WriteMask, RaiseAgain, Raised, NotRaised,
           AwaitMask, RetireSlot, CallbackDone
  <2>2. 1 \in 0 .. 2 /\ 2 \in 0 .. 2
    OBVIOUS
  <2>3. /\ Typed([ledger EXCEPT !.spans[pump.span].stage = 1], clock)
        /\ Typed([ledger EXCEPT !.spans[pump.span].stage = 2], clock)
    BY <1>1, <2>2, PutStage
  <2>4. Typed(Applied, clock)
    BY <1>1, AppliedTyped
  <2>5. QED
    BY <1>1, <2>1, <2>3, <2>4
<1>3. ASSUME pump.pc \notin {"idle", "head"}, pump.span = ledger.oldest,
             \E step \in Nat : EffectAt(step),
             NEW n \in Nat,
             \/ guest' = [guest EXCEPT !.slot = n]
             \/ guest' = [guest EXCEPT !.raised = TRUE]
             \/ guest' = [guest EXCEPT !.mask = TRUE, !.raised = FALSE]
      PROVE  /\ effect' \in [span: Nat, index: Nat, step: Nat, turn: BOOLEAN]
             /\ guest' \in [cursor: Nat, fence: Nat, scratch: Nat, slot: Nat,
                            mask: BOOLEAN, raised: BOOLEAN, word: {0, 1},
                            image: Nat, rptr: Nat]
  <2>1. effect' \in [span: Nat, index: Nat, step: Nat, turn: BOOLEAN]
    BY <1>3, EffectTyped
  <2>2. guest \in [cursor: Nat, fence: Nat, scratch: Nat, slot: Nat,
                   mask: BOOLEAN, raised: BOOLEAN, word: {0, 1},
                   image: Nat, rptr: Nat]
    BY DEF TypeInv, PeerTypes
  <2>3. QED
    BY <1>3, <2>1, <2>2
<1>4. /\ effect' \in [span: Nat, index: Nat, step: Nat, turn: BOOLEAN]
      /\ guest' \in [cursor: Nat, fence: Nat, scratch: Nat, slot: Nat,
                     mask: BOOLEAN, raised: BOOLEAN, word: {0, 1},
                     image: Nat, rptr: Nat]
  <2>1. CASE WriteSlot
    <3>1. pump.pc \in LockedPCs /\ Rec.value \in Nat
      BY <2>1, RecTyped DEF WriteSlot, ApplyKind, AtRecord, LockedPCs
    <3>2. EffectAt(1) /\ guest' = [guest EXCEPT !.slot = Rec.value]
      BY <2>1 DEF WriteSlot
    <3>3. QED
      BY <1>3, <3>1, <3>2, LockedFront
  <2>2. CASE WriteMask
    <3>1. pump.pc \in LockedPCs
      BY <2>2 DEF WriteMask, LockedPCs
    <3>2. EffectAt(2) /\ guest' = [guest EXCEPT !.mask = TRUE, !.raised = FALSE]
      BY <2>2 DEF WriteMask
    <3>3. QED
      BY <1>3, <3>1, <3>2, LockedFront
  <2>3. CASE Raised
    <3>1. pump.pc = "raise" /\ guest' = [guest EXCEPT !.raised = TRUE]
          /\ \/ effect' = effect
             \/ ~Gone /\ EffectAt(3)
      BY <2>3 DEF Raised
    <3>2. CASE effect' = effect
      BY <3>1, <3>2 DEF TypeInv, PeerTypes
    <3>3. CASE ~Gone /\ EffectAt(3)
      BY <1>3, <3>1, <3>3, StillFront DEF TypeInv
    <3>4. QED
      BY <3>1, <3>2, <3>3
  <2>4. CASE RetireSlot
    <3>1. pump.pc \in LockedPCs
      BY <2>4 DEF RetireSlot, RaiseDone, ApplyKind, AtRecord, LockedPCs
    <3>2. EffectAt(4) /\ guest' = [guest EXCEPT !.slot = 0]
      BY <2>4 DEF RetireSlot, Retired
    <3>3. QED
      BY <1>3, <3>1, <3>2, LockedFront
  <2>5. CASE UNCHANGED <<guest, effect>>
    BY <2>5 DEF TypeInv, PeerTypes
  <2>6. QED
    BY <2>1, <2>2, <2>3, <2>4, <2>5
       DEF CallbackSteps, RaiseAgain, NotRaised, AwaitMask, CallbackDone
<1>5. \/ \E pc \in {"idle", "apply", "mask", "raise"} : Step(pc)
      \/ pump' = pump /\ pump.pc = "apply"
  BY DEF CallbackSteps, WriteSlot, WriteMask, RaiseAgain, Raised, NotRaised,
         AwaitMask, RetireSlot, CallbackDone, RaiseDone, ApplyKind, AtRecord
<1>6. pump' \in [pc: PumpPCs, span: Nat, mark: Nat,
                 result: {"none", "written", "held", "error", "closing"}]
      /\ pump'.pc # "fence"
  BY <1>5, StepTyped DEF TypeInv, PeerTypes, PumpPCs, UnlockedPCs, Step
<1>7. PeerTypes'
  BY <1>1, <1>4, <1>6 DEF TypeInv, PeerTypes
<1>8. QED
  BY <1>1, <1>2, <1>6, <1>7 DEF Clocked, FenceAtRecord

LEMMA ImageTyped ==
    ASSUME TypeInv, ImageOps
    PROVE  Clocked' /\ PeerTypes' /\ FenceAtRecord'
<1>1. /\ clock' = clock /\ clock \in Nat /\ Typed(ledger, clock)
      /\ host' = host /\ gate' \in {"free", "pump", "holder"}
  BY DEF TypeInv, PeerTypes, Clocked, ImageOps, SkipImage, ImageSkipped,
         WantImage, PassGate, WriteImage, NoImage, ImageTaken
<1>2. Typed(ledger', clock)
  <2>1. ledger' \in {ledger, Applied, Unown(ledger, pump.span, Index)}
    BY DEF ImageOps, SkipImage, ImageSkipped, WantImage, PassGate, WriteImage,
           NoImage, ImageTaken
  <2>2. QED
    BY <1>1, <2>1, AppliedTyped, PumpUnownTyped
<1>3. CASE WantImage
  <2>1. pump.pc \in LockedPCs /\ Rec.mark \in Nat
    BY <1>3, RecTyped DEF WantImage, ApplyKind, AtRecord, LockedPCs
  <2>2. pump' = [pump EXCEPT !.pc = "gate", !.mark = Rec.mark]
        /\ UNCHANGED <<guest, effect>>
    BY <1>3 DEF WantImage
  <2>3. PeerTypes'
    BY <1>1, <2>1, <2>2 DEF TypeInv, PeerTypes, PumpPCs, UnlockedPCs
  <2>4. pump'.pc # "fence"
    BY <2>2 DEF TypeInv, PeerTypes
  <2>5. QED
    BY <1>1, <1>2, <2>3, <2>4 DEF Clocked, FenceAtRecord
<1>4. CASE WriteImage
  <2>1. effect' \in [span: Nat, index: Nat, step: Nat, turn: BOOLEAN]
    BY <1>4, LockedFront, EffectTyped DEF WriteImage, TakePCs
  <2>2. guest' = [guest EXCEPT !.image = pump.mark]
        /\ pump' = [pump EXCEPT !.pc = "took", !.result = "written"]
    BY <1>4 DEF WriteImage
  <2>3. PeerTypes'
    BY <1>1, <2>1, <2>2 DEF TypeInv, PeerTypes, PumpPCs, UnlockedPCs
  <2>4. pump'.pc # "fence"
    BY <2>2 DEF TypeInv, PeerTypes
  <2>5. QED
    BY <1>1, <1>2, <2>3, <2>4 DEF Clocked, FenceAtRecord
<1>5. CASE \E result \in {"held", "error", "closing"} : NoImage(result)
  <2>1. PICK result \in {"held", "error", "closing"} :
           /\ pump' = [pump EXCEPT !.pc = "took", !.result = result]
           /\ UNCHANGED <<guest, effect>>
    BY <1>5 DEF NoImage
  <2>2. PeerTypes'
    BY <1>1, <2>1 DEF TypeInv, PeerTypes, PumpPCs, UnlockedPCs
  <2>3. pump'.pc # "fence"
    BY <2>1 DEF TypeInv, PeerTypes
  <2>4. QED
    BY <1>1, <1>2, <2>2, <2>3 DEF Clocked, FenceAtRecord
<1>6. CASE SkipImage \/ ImageSkipped \/ PassGate \/ ImageTaken
  <2>1. /\ \E pc \in {"idle", "skip", "apply", "take"} : Step(pc)
        /\ UNCHANGED <<guest, effect>>
    BY <1>6 DEF SkipImage, ImageSkipped, PassGate, ImageTaken
  <2>2. pump' \in [pc: PumpPCs, span: Nat, mark: Nat,
                   result: {"none", "written", "held", "error", "closing"}]
        /\ pump'.pc # "fence"
    BY <2>1, StepTyped DEF TypeInv, PumpPCs, UnlockedPCs, Step
  <2>3. PeerTypes'
    BY <1>1, <2>1, <2>2 DEF TypeInv, PeerTypes
  <2>4. QED
    BY <1>1, <1>2, <2>2, <2>3 DEF Clocked, FenceAtRecord
<1>7. QED
  BY <1>3, <1>4, <1>5, <1>6 DEF ImageOps

-----------------------------------------------------------------------------
(* Tear-down.                                                              *)

\* The op marks a drop loses are not newer than the clock, so there is a
\* newest one.
LEMMA DroppedTypes ==
    ASSUME NEW c \in Nat, NEW L, Typed(L, c)
    PROVE  MaxMark(DroppedMarks(L)) \in Nat
<1> DEFINE marks == DroppedMarks(L)
<1>1. \A id \in Live(L) : \A i \in DOMAIN L.spans[id].records :
         L.spans[id].records[i].mark \in 0 .. c
  <2> TAKE id \in Live(L)
  <2> TAKE i \in DOMAIN L.spans[id].records
  <2>1. L.spans[id].records[i] \in RecordTo(c)
    BY SpanOfLedger, RecordOfSpan
  <2>2. QED
    BY <2>1 DEF RecordTo
<1>2. marks \subseteq 0 .. c
  BY <1>1 DEF DroppedMarks
<1> HIDE DEF marks
<1>3. marks \cup {0} \subseteq 0 .. c /\ marks \cup {0} # {}
  BY <1>2
<1>4. \E m \in marks \cup {0} : \A n \in marks \cup {0} : n <= m
  BY <1>3, NewestExists
<1>5. \E m \in marks \cup {0} : \A n \in marks : n <= m
  BY <1>4
<1>6. MaxMark(marks) \in marks \cup {0}
  BY <1>5 DEF MaxMark
<1>7. QED
  BY <1>3, <1>6 DEF marks

LEMMA DropTyped ==
    ASSUME NEW c \in Nat, NEW L, Typed(L, c)
    PROVE  Typed(Drop(L), c)
<1> DEFINE M == [L EXCEPT !.oldest = L.nextSpan,
                !.spans = <<>>,
                !.openDraws = [t \in Threads |-> NoHandle],
                !.openResolves = [t \in Threads |-> NoHandle],
                !.frontbuffer = {},
                !.submitEpoch = @ + 1,
                !.lists = <<>>,
                !.activeList = 0,
                !.held = [s \in Segments |-> <<>>],
                !.heldList = [s \in Segments |-> 0],
                !.heldFirst = <<>>,
                !.replayPointer = 0,
                !.epochPartial = FALSE,
                !.writeback = 0]
<1>1. Drop(L) = OpenSpan(M)
  BY DEF Drop
<1>2. /\ DOMAIN M = Fields
      /\ M.oldest = L.nextSpan /\ M.nextSpan = L.nextSpan
      /\ M.kicks = L.kicks /\ M.spans = <<>>
  BY FieldNames DEF Typed, Shaped
<1>3. Others(M, c)
  <2>1. NoHandle \in Handles
    BY DEF NoHandle, Handles
  <2>2. <<>> \in Seq(RecordTo(c)) /\ DOMAIN <<>> = {}
    OBVIOUS
  <2>3. IsFiniteSet({})
    BY FS_EmptySet
  <2>4. L.submitEpoch + 1 \in Nat \ {0}
    BY DEF Typed, Others
  <2>5. QED
    BY <2>1, <2>2, <2>3, <2>4, FieldNames DEF Typed, Shaped, Others
<1> HIDE DEF M
<1>4. Live(M) = {}
  BY <1>2 DEF Live, Typed, Shaped
<1>5. Shaped(M) /\ M.oldest # 0 /\ M.oldest <= M.nextSpan
  BY <1>2, <1>4 DEF Shaped, Typed
<1>6. M.spans \in [Live(M) -> SpanTo(c)]
  BY <1>2, <1>4
<1>7. QED
  BY <1>1, <1>3, <1>5, <1>6, OpenSpanTyped

LEMMA TeardownTyped ==
    ASSUME TypeInv, TeardownOps
    PROVE  Clocked' /\ PeerTypes' /\ FenceAtRecord'
<1>1. clock \in Nat /\ Typed(ledger, clock)
  BY DEF TypeInv, Clocked
<1>2. CASE DropEpoch
  <2>1. Typed(ledger', clock)
    BY <1>1, <1>2, DropTyped DEF DropEpoch
  <2>2. MaxOf(host.discarding, MaxMark(DroppedMarks(ledger))) \in Nat
    BY <1>1, DroppedTypes DEF MaxOf, TypeInv, PeerTypes
  <2>3. PeerTypes'
    BY <1>2, <2>2 DEF DropEpoch, TypeInv, PeerTypes
  <2>4. FenceAtRecord'
    BY <1>2 DEF DropEpoch, FenceAtRecord, MutexFree, UnlockedPCs
  <2>5. QED
    BY <1>1, <1>2, <2>1, <2>3, <2>4 DEF DropEpoch, Clocked
<1>3. CASE DiscardGuestImages
  BY <1>3 DEF DiscardGuestImages, TypeInv, Clocked, PeerTypes, FenceAtRecord,
              Cur
<1>4. CASE Close
  <2>1. /\ DOMAIN ledger' = Fields
        /\ ledger'.oldest = ledger.oldest /\ ledger'.nextSpan = ledger.nextSpan
        /\ ledger'.spans = ledger.spans
    BY <1>1, <1>4, FieldNames DEF Close, Typed, Shaped
  <2>2. Others(ledger', clock)
    BY <1>1, <1>4, FieldNames DEF Close, Typed, Shaped, Others
  <2>3. Clocked'
    BY <1>4, <2>1, <2>2, OtherClocked DEF Close, TypeInv
  <2>4. PeerTypes' /\ FenceAtRecord'
    BY <1>4 DEF Close, TypeInv, PeerTypes, FenceAtRecord, MutexFree,
                UnlockedPCs
  <2>5. QED
    BY <2>3, <2>4
<1>5. QED
  BY <1>2, <1>3, <1>4 DEF TeardownOps

LEMMA PartnersTyped ==
    ASSUME TypeInv, HolderOps \/ Environment
    PROVE  Clocked' /\ PeerTypes' /\ FenceAtRecord'
<1>1. /\ UNCHANGED <<ledger, pump, clock, effect>>
      /\ \/ gate' \in {"free", "holder"} /\ UNCHANGED <<guest, host>>
         \/ UNCHANGED <<gate, host>> /\ guest' = [guest EXCEPT !.mask = FALSE]
         \/ /\ UNCHANGED <<gate, guest>>
            /\ host' = [host EXCEPT !.completed = host.submitted]
         \/ /\ UNCHANGED <<gate, host>>
            /\ \E word \in {0, 1} : guest' = [guest EXCEPT !.word = word]
  BY DEF HolderOps, BeginImageWrites, EndImageWrites, Environment,
         HostCompletes, HandlerClearsMask, GuestWritesWord
<1>2. Clocked' /\ FenceAtRecord'
  BY <1>1 DEF TypeInv, Clocked, FenceAtRecord, Cur
<1>3. PeerTypes'
  BY ZenonT(30), <1>1 DEF TypeInv, PeerTypes
<1>4. QED
  BY <1>2, <1>3

-----------------------------------------------------------------------------
(* The theorem.                                                            *)

LEMMA InitTyped ==
    ASSUME Init
    PROVE  TypeInv
<1>1. PumpOwns
  BY InitOwns
<1>2. Clocked
  <2>1. EmptySpan \in SpanTo(0)
    BY DEF EmptySpan, SpanTo
  <2>2. NewLedger.spans \in [Live(NewLedger) -> SpanTo(0)]
    BY <2>1 DEF NewLedger, Live
  <2>3. Others(NewLedger, 0)
    <3>1. NoHandle \in Handles /\ NoSubmit \in Submits
      BY DEF NoHandle, Handles, NoSubmit, Submits
    <3>2. IsFiniteSet({}) /\ NoSubmit.epoch = 0
      BY FS_EmptySet DEF NoSubmit
    <3>3. QED
      BY <3>1, <3>2 DEF Others, NewLedger
  <2>4. ledger = NewLedger /\ clock = 0
    BY DEF Init
  <2>5. NewLedger.oldest = 1 /\ NewLedger.nextSpan = 2
    BY DEF NewLedger
  <2>6. QED
    BY <1>1, <2>2, <2>3, <2>4, <2>5 DEF Clocked, Typed, PumpOwns, Window
<1>3. PeerTypes /\ FenceAtRecord
  BY DEF Init, PeerTypes, FenceAtRecord, NewPump, NewGuest, NewHost, PumpPCs,
         UnlockedPCs
<1>4. QED
  BY <1>1, <1>2, <1>3 DEF TypeInv

LEMMA StepKeepsTypes ==
    ASSUME TypeInv, [Next]_vars
    PROVE  TypeInv'
<1>1. PumpOwns /\ PumpOwns' /\ Window(ledger) /\ Clocked /\ PeerTypes
      /\ host.detached \subseteq Handles
  BY StepOwns DEF TypeInv, PumpOwns, PeerTypes
<1>2. CASE \E t \in Threads : GuestOps(t)
  BY <1>1, <1>2, GuestClocked, GuestPeers, GuestCalls, CallsFence DEF TypeInv
<1>3. CASE DetachedOps
  BY <1>1, <1>3, DetachedClocked, OtherPeers, DetachedCalls, CallsFence
     DEF TypeInv
<1>4. CASE FailureOps \/ RegisterOps
  BY <1>1, <1>4, FailureClocked, OtherPeers, FailureCalls, CallsFence
     DEF TypeInv
<1>5. CASE TeardownOps
  BY <1>1, <1>5, TeardownTyped DEF TypeInv
<1>6. CASE HolderOps \/ Environment
  BY <1>1, <1>6, PartnersTyped DEF TypeInv
<1>7. CASE PumpNext
  BY <1>1, <1>7, LoopTyped, FlushTyped, ApplyTyped, CallbackTyped, ImageTyped
     DEF PumpNext, TypeInv
<1>8. CASE UNCHANGED vars
  BY <1>1, <1>8 DEF vars, TypeInv, Clocked, PeerTypes, FenceAtRecord, Cur
<1>9. QED
  BY <1>2, <1>3, <1>4, <1>5, <1>6, <1>7, <1>8 DEF Next

\* Whatever guest threads, Pump, tear-down and the host do, in any draw mode,
\* the state keeps its types and there is always an open span: spans.back(),
\* which every operation uses unchecked, exists.
THEOREM TypeCorrect == Spec => []TypeOK
<1>1. Init => TypeInv
  BY InitTyped
<1>2. TypeInv /\ [Next]_vars => TypeInv'
  BY StepKeepsTypes
<1>3. TypeInv => TypeOK
  BY TypedLedger DEF TypeInv, Clocked, PeerTypes, TypeOK
<1>4. QED
  BY <1>1, <1>2, <1>3, PTL DEF Spec

=============================================================================
