---------------------------- MODULE LedgerRecords ----------------------------
(***************************************************************************)
(* What guest threads record: fences, callbacks, scratch writes, waits,    *)
(* draws, clears, resolves and swaps (completion_ledger.cpp, from          *)
(* InvalidateState to Swap). A call is one step under `mutex'; a call the  *)
(* ledger no longer accepts changes nothing.                               *)
(***************************************************************************)
EXTENDS LedgerState

Enter == MutexFree /\ Accepting(ledger)

\* The call takes the next fence, callback, scratch value or op mark.
Tick == clock' = clock + 1

Rest == UNCHANGED <<gate, pump, guest, effect>>

MaxOf(a, b) == IF a >= b THEN a ELSE b

-----------------------------------------------------------------------------
(* Records without a verdict. *)

\* InvalidateState and Barrier order later records and write nothing.
Inert(t, kind) ==
    /\ Enter
    /\ ledger' = RecordOn(ledger, t, NewRecord(kind, t))
    /\ Rest /\ UNCHANGED <<host, clock>>

InvalidateState(t) == Inert(t, "InvalidateState")
Barrier(t) == Inert(t, "Barrier")

ScratchWrite(t) ==
    /\ Enter /\ Tick
    /\ ledger' = RecordOn(ledger, t, [NewRecord("ScratchWrite", t) EXCEPT
                                        !.value = clock'])
    /\ Rest /\ UNCHANGED host

\* Later records wait until the guest word reads `reference'.
GpuWait(t, reference) ==
    /\ Enter
    /\ ledger' = RecordOn(ledger, t, [NewRecord("GpuWait", t) EXCEPT
                                        !.value = reference])
    /\ Rest /\ UNCHANGED <<host, clock>>

\* A timestamp outside the block's timestamp words admits its thread, fails
\* the session and records nothing.
BadTimestamp(t) ==
    /\ Enter
    /\ LET L == Admit(AbandonOpenResolve(ledger, t), t, FALSE)
       IN  ledger' = FailAt(L, Back(L))
    /\ Rest /\ UNCHANGED <<host, clock>>

Unmodeled(t) ==
    /\ Enter
    /\ LET L == RecordOn(ledger, t, NewRecord("Unmodeled", t))
       IN  ledger' = Unown(L, Back(L), Len(L.spans[Back(L)].records))
    /\ Rest /\ UNCHANGED <<host, clock>>

FenceRecord(t, block, fence) ==
    [NewRecord("Fence", t) EXCEPT !.value = fence, !.block = block]

\* A block whose B+0x3C is not the registered writeback ends the session.
CheckIdentity(L, block) ==
    IF L.writeback \notin {0, block} THEN FailAt(L, Back(L)) ELSE L

Fence(t, block) ==
    /\ Enter /\ Tick
    /\ ledger' = CheckIdentity(
                    RecordOn(ledger, t, FenceRecord(t, block, clock')), block)
    /\ Rest /\ UNCHANGED host

\* EndTiling's fence waits in the side buffer it is emitted into.
SideFence(t, block, side) ==
    /\ Enter /\ Tick
    /\ LET L == Admit(AbandonOpenResolve(ledger, t), t, TRUE)
       IN  ledger' = CheckIdentity(
              [L EXCEPT !.held[side] =
                  @ \o <<NewRecord("InvalidateState", t),
                         FenceRecord(t, block, clock')>>], block)
    /\ Rest /\ UNCHANGED host

CallbackRecord(t, flags, function) ==
    [NewRecord("Callback", t) EXCEPT !.value = function, !.flags = flags]

\* A callback outside a tiled pass joins the open span.
Callback(t, flags) ==
    /\ Enter /\ Tick
    /\ ledger' = RecordOn(ledger, t, CallbackRecord(t, flags, clock'))
    /\ Rest /\ UNCHANGED host

\* A callback for another CPU or predicate has no model.
ForeignCallback(t, flags) ==
    /\ Enter /\ Tick
    /\ LET L == RecordOn(ledger, t, CallbackRecord(t, flags, clock'))
       IN  ledger' = Unown(L, Back(L), Len(L.spans[Back(L)].records))
    /\ Rest /\ UNCHANGED host

\* The first-pass callback has no buffer until the worker-kick callback.
FirstPassCallback(t, flags) ==
    /\ Enter /\ Tick
    /\ LET L == Admit(AbandonOpenResolve(ledger, t), t, FALSE)
       IN  ledger' = [L EXCEPT !.heldFirst =
                          Append(@, CallbackRecord(t, flags, clock'))]
    /\ Rest /\ UNCHANGED host

\* The worker-kick callback names the side buffer of both callbacks, for the
\* list started last.
SideCallback(t, flags, side) ==
    /\ Enter /\ Tick
    /\ LET L == Admit(AbandonOpenResolve(ledger, t), t, FALSE)
           newest == IF DOMAIN L.lists = {} THEN 0 ELSE L.nextList - 1
       IN  ledger' = [L EXCEPT
              !.held[side] = @ \o Append(L.heldFirst,
                                         CallbackRecord(t, flags, clock')),
              !.heldList[side] = IF newest # 0 THEN newest ELSE @,
              !.heldFirst = <<>>]
    /\ Rest /\ UNCHANGED host

-----------------------------------------------------------------------------
(* Draws. A draw record waits for the verdict of its root: "admitted" into *)
(* the host's work, without a native route, or refused for another reason. *)

Verdicts == {"admitted", "no route", "refused"}

\* The verdict of record i of span id, with the dispatcher's sequence.
SettleDraw(L, id, i, sequence, verdict) ==
    LET M == [L EXCEPT !.spans[id].records[i].mark = sequence]
    IN  IF verdict = "admitted"
        THEN [M EXCEPT !.spans[id].lastAdmitted = MaxOf(@, sequence)]
        ELSE IF Mode = "Skip" /\ verdict = "no route"
        THEN [M EXCEPT !.spans[id].partial = TRUE, !.epochPartial = TRUE]
        ELSE Unown(M, id, i)

\* A root left open by this thread never reports a verdict.
BeginDraw(t, site) ==
    /\ Enter
    /\ LET A == AbandonOpenResolve(ledger, t)
           L == Admit(Abandon([A EXCEPT !.openDraws[t] = NoHandle],
                              A.openDraws[t]), t, FALSE)
           M == AppendRecords(L, <<[NewRecord("Draw", t) EXCEPT
                                      !.value = site, !.pending = TRUE]>>)
           b == Back(M)
       IN  ledger' = [M EXCEPT
              !.spans[b].pending = @ + 1,
              !.openDraws[t] = [span |-> b,
                                index |-> Len(M.spans[b].records)]]
    /\ Rest /\ UNCHANGED <<host, clock>>

\* Without its begin the draw is recorded where its verdict arrived.
FinishDraw(t, site, verdict) ==
    /\ Enter /\ Tick
    /\ LET A == AbandonOpenResolve(ledger, t)
           h == A.openDraws[t]
           L == [A EXCEPT !.openDraws[t] = NoHandle]
           own == Pending(L, h) /\ L.spans[h.span].records[h.index].value = site
           M == AppendRecords(Admit(Abandon(L, h), t, FALSE),
                              <<[NewRecord("Draw", t) EXCEPT !.value = site]>>)
       IN  ledger' = IF own
                     THEN SettleDraw(Settle(L, h), h.span, h.index, clock',
                                     verdict)
                     ELSE SettleDraw(M, Back(M), Len(M.spans[Back(M)].records),
                                     clock', verdict)
    /\ Rest /\ UNCHANGED host

\* The open draw is handed to whoever will report its verdict.
DetachDraw(t) ==
    /\ MutexFree
    /\ ledger.openDraws[t] # NoHandle
    /\ ledger' = [ledger EXCEPT !.openDraws[t] = NoHandle]
    /\ host' = [host EXCEPT !.detached = @ \cup {ledger.openDraws[t]}]
    /\ Rest /\ UNCHANGED clock

\* detached(): a verdict still counts for a span that may release; a later
\* one is cleared and stays held; a dropped or closed one is not touched.
Detached(h, settled) ==
    IF ledger.closed \/ ~Pending(ledger, h)
       \/ ledger.spans[h.span].records[h.index].kind # "Draw" THEN ledger
    ELSE IF Accepting(ledger) \/ Releasable(ledger, h.span) THEN settled
    ELSE Settle(ledger, h)

FinishDetached(h, site, verdict) ==
    /\ MutexFree /\ Tick
    /\ h \in host.detached
    /\ host' = [host EXCEPT !.detached = @ \ {h}]
    /\ ledger' = Detached(h,
          IF ledger.spans[h.span].records[h.index].value = site
          THEN SettleDraw(Settle(ledger, h), h.span, h.index, clock', verdict)
          ELSE Abandon(ledger, h))
    /\ Rest

AbandonDraw(h) ==
    /\ MutexFree
    /\ h \in host.detached
    /\ host' = [host EXCEPT !.detached = @ \ {h}]
    /\ ledger' = Detached(h, Abandon(ledger, h))
    /\ Rest /\ UNCHANGED clock

-----------------------------------------------------------------------------
(* Clears, resolves and swaps. *)

\* `admitted' is FALSE for a clear without an op mark or with an error.
Clear(t, admitted) ==
    /\ Enter /\ Tick
    /\ LET L == RecordOn(ledger, t, [NewRecord("Clear", t) EXCEPT
                                       !.mark = clock'])
           b == Back(L)
       IN  ledger' =
             IF admitted
             THEN [L EXCEPT !.spans[b].lastAdmitted = MaxOf(@, clock')]
             ELSE IF Mode = "Skip"
             THEN [L EXCEPT !.spans[b].partial = TRUE, !.epochPartial = TRUE]
             ELSE Unown(L, b, Len(L.spans[b].records))
    /\ Rest /\ UNCHANGED host

Resolve(t, dest) ==
    /\ Enter
    /\ LET M == RecordOn(ledger, t, [NewRecord("Resolve", t) EXCEPT
                                       !.value = dest, !.pending = TRUE])
           b == Back(M)
       IN  ledger' = [M EXCEPT
              !.spans[b].pending = @ + 1,
              !.openResolves[t] = [span |-> b,
                                   index |-> Len(M.spans[b].records)]]
    /\ Rest /\ UNCHANGED <<host, clock>>

\* The copy words arrived: the resolve waits for its swap, has its admitted
\* image, or is refused (partial source, error, or no op mark).
FinishResolve(t, outcome) ==
    /\ Enter
    /\ ledger.openResolves[t] # NoHandle
    /\ clock' = IF outcome = "no mark" THEN clock ELSE clock + 1
    /\ LET h == ledger.openResolves[t]
           L == [ledger EXCEPT !.openResolves[t] = NoHandle]
           mark == IF outcome = "no mark" THEN 0 ELSE clock'
           M == [L EXCEPT !.spans[h.span].records[h.index].mark = mark]
           S == Settle(M, h)
       IN  ledger' =
             IF h.span \notin Live(L) THEN L
             ELSE IF outcome = "frontbuffer"
             THEN [M EXCEPT !.frontbuffer = @ \cup {h}]
             ELSE IF outcome = "admitted"
             THEN [S EXCEPT !.spans[h.span].lastAdmitted = MaxOf(@, mark)]
             ELSE Unown(S, h.span, h.index)
    /\ Rest /\ UNCHANGED host

ResolveOutcomes == {"frontbuffer", "admitted", "refused", "no mark"}

\* Presented resolves wait for the swap of their frontbuffer.
Presented(L) == {h \in L.frontbuffer : Pending(L, h)}

ResolveOf(L, h) == L.spans[h.span].records[h.index]

\* Those of another destination.
Mismatched(L, front) == {h \in Presented(L) : ResolveOf(L, h).value # front}

\* Span `id' once its presented resolves are settled: the swap's own become
\* host work of the span, the others have no owner.
SwapSettles(L, id, front) ==
    LET mine == {h \in Presented(L) : h.span = id}
        bad == mine \cap Mismatched(L, front)
        marks == {ResolveOf(L, h).mark : h \in mine \ bad}
        due(i) == \E h \in mine : h.index = i
        wrong(i) == \E h \in bad : h.index = i
        settled(r, i) == [r EXCEPT
                            !.pending = @ /\ ~due(i),
                            !.hostOnly = @ \/ (due(i) /\ ~wrong(i)),
                            !.skipped = @ \/ (wrong(i) /\ Mode = "Census")]
    IN  [L.spans[id] EXCEPT
           !.records = [i \in DOMAIN @ |-> settled(@[i], i)],
           !.pending = @ - Cardinality(mine),
           !.lastAdmitted = CHOOSE m \in marks \cup {@} :
                               \A n \in marks \cup {@} : n <= m,
           !.unowned = @ \/ (bad # {} /\ Mode # "Census"),
           !.partial = @ \/ (bad # {} /\ Mode = "Census")]

\* The mismatch of the oldest op mark fails a strict session.
SettleFrontbuffers(L, front) ==
    LET wrong == Mismatched(L, front)
        first == CHOOSE h \in wrong : \A g \in wrong :
                    ResolveOf(L, h).mark <= ResolveOf(L, g).mark
        M == [L EXCEPT !.spans = [id \in Live(L) |-> SwapSettles(L, id, front)],
                       !.frontbuffer = {},
                       !.epochPartial = @ \/ (wrong # {} /\ Mode = "Census")]
    IN  IF wrong # {} /\ Mode = "Strict" THEN FailAt(M, first.span) ELSE M

\* The VdSwap closes the epoch. Held side buffers must be submitted first.
Swap(t, front) ==
    /\ Enter
    /\ LET A == AbandonOpenResolve(ledger, t)
           B == IF SideHeld(A) \/ A.heldFirst # <<>>
                THEN FailAt(A, Back(A)) ELSE A
           C == AppendRecords(Admit(B, t, FALSE),
                              <<[NewRecord("Swap", t) EXCEPT !.value = front]>>)
           D == SettleFrontbuffers(C, front)
       IN  ledger' = [D EXCEPT !.epochWork = FALSE,
                               !.epochPartial = FALSE,
                               !.ownerSwapSawSwap =
                                   @ \/ D.ownerSwapThread = t]
    /\ Rest /\ UNCHANGED <<host, clock>>

=============================================================================
