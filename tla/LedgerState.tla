----------------------------- MODULE LedgerState -----------------------------
(***************************************************************************)
(* State of the completion ledger (src/src/gpu/completion): the spans of   *)
(* recorded guest progress, the settling of draws and resolves, the tiled  *)
(* lists and submissions, the device bracket and the one session failure.  *)
(*                                                                         *)
(* `ledger' is CompletionLedger::State without its locks. A member         *)
(* function of the ledger runs several helpers of State one after another  *)
(* under `mutex', so a helper is an operator from one ledger value to the  *)
(* next and an operation composes them in the order the code calls them.   *)
(* `pump' is the control state of the completion thread inside Pump, the   *)
(* only operation that lets go of `mutex' half way.                        *)
(*                                                                         *)
(* Physical addresses are abstracted to what the ledger compares: a        *)
(* progress block, a segment, an image destination. Fence numbers,         *)
(* scratch values, callbacks and host op marks come from one increasing    *)
(* counter, `clock': only their order is ever compared. A write pointer is *)
(* the order of the kick that carries it, since the guest's ring pointer   *)
(* advances with every kick. Reports (failure texts, census forms,         *)
(* statistics) are left out.                                               *)
(***************************************************************************)
EXTENDS Integers, Sequences, FiniteSets

CONSTANTS
    Threads,   \* guest threads that may call the ledger
    NoThread,  \* no thread: an unset std::optional<std::thread::id>
    Mode,      \* NativeDrawMode: "Strict", "Skip" or "Census"
    Blocks,    \* progress blocks B a fence or a writeback may name
    Segments,  \* physical segments and side buffers
    NoSegment, \* no segment
    Sizes,     \* dword counts of a segment
    Dests,     \* resolve destinations and frontbuffers
    Sites,     \* (hook, caller) pairs of draw roots
    SinkFaults \* whether a guest access may fail: IGuestProgressSink false

ASSUME LedgerAssumption ==
    /\ NoThread \notin Threads
    /\ NoSegment \notin Segments
    /\ Mode \in {"Strict", "Skip", "Census"}
    /\ Blocks \subseteq Nat \ {0}
    /\ Sizes \subseteq Nat \ {0}
    /\ Dests \subseteq Nat \ {0}
    /\ Sites \subseteq Nat \ {0}
    /\ SinkFaults \in BOOLEAN

VARIABLES
    ledger, \* the members of State that `mutex' guards
    gate,   \* who holds `imageWrites': "free", "pump" or "holder"
    pump,   \* the completion thread inside Pump
    guest,  \* guest memory the ledger writes and polls
    host,   \* the draw completion the ledger asks (IDrawCompletion)
    clock,  \* newest fence, callback, scratch value or op mark
    effect  \* history: the guest-visible effect released last, and `turn',
            \* which every effect flips

vars == <<ledger, gate, pump, guest, host, clock, effect>>

-----------------------------------------------------------------------------
(* Records and spans. *)

Kinds == {"InvalidateState", "Fence", "Callback", "ScratchWrite", "GpuWait",
          "Draw", "Clear", "Resolve", "Unmodeled", "Swap", "Barrier"}

NewRecord(kind, thread) ==
    [kind |-> kind,
     by |-> thread,       \* history: the thread that emitted it
     value |-> 0,         \* fence, callback or scratch value, resolve
                          \*   destination, draw site, awaited word
     block |-> 0,         \* the block B a fence names
     flags |-> {},        \* callback flags 2 "raise" and 4 "wait"
     mark |-> 0,          \* the host's op mark
     pending |-> FALSE,   \* awaits its verdict, copy words or swap
     skipped |-> FALSE,   \* census: unowned, its effect is left out
     hostOnly |-> FALSE]  \* a presented resolve: no guest image

Work == {"Draw", "Clear", "Resolve"}

Record ==
    [kind: Kinds, by: Threads, value: Nat, block: Blocks \cup {0},
     flags: SUBSET {"raise", "wait"}, mark: Nat, pending: BOOLEAN,
     skipped: BOOLEAN, hostOnly: BOOLEAN]

Span ==
    [records: Seq(Record),
     kicked: Nat,          \* kick that closed it, which is its write pointer
     sealed: BOOLEAN,      \* closed by a Silent submit
     deferred: Segments \cup {NoSegment}, dwords: Nat,
     startsList: Nat,      \* list its callback buffer activates, or 0
     thread: Threads \cup {NoThread},
     pending: Int,         \* how many of its records are pending: that the
                           \*   unsigned count never wraps is PendingCounted
     unowned: BOOLEAN, partial: BOOLEAN,
     lastAdmitted: Nat,    \* newest host op mark admitted into it
     hostTarget: Nat, flushed: BOOLEAN,
     applied: Nat,         \* records whose effect was released
     stage: 0..2]          \* callback progress within the next record

EmptySpan ==
    [records |-> <<>>, kicked |-> 0, sealed |-> FALSE,
     deferred |-> NoSegment, dwords |-> 0, startsList |-> 0,
     thread |-> NoThread, pending |-> 0, unowned |-> FALSE,
     partial |-> FALSE, lastAdmitted |-> 0, hostTarget |-> 0,
     flushed |-> FALSE, applied |-> 0, stage |-> 0]

Closed(span) == span.kicked # 0 \/ span.sealed

-----------------------------------------------------------------------------
(* Span ids are never used twice, so `spans' is a window of consecutive    *)
(* ids: the oldest unreleased span up to the open one.                     *)

Live(L) == L.oldest .. (L.nextSpan - 1)
Back(L) == L.nextSpan - 1

OpenSpan(L) ==
    [L EXCEPT !.nextSpan = @ + 1,
              !.spans = [id \in L.oldest .. L.nextSpan |->
                            IF id = L.nextSpan THEN EmptySpan ELSE @[id]]]

\* A handle names a record by its span and index; (0, 0) names none.
NoHandle == [span |-> 0, index |-> 0]

Pending(L, h) ==
    /\ h.span \in Live(L)
    /\ h.index \in DOMAIN L.spans[h.span].records
    /\ L.spans[h.span].records[h.index].pending

Accepting(L) == ~L.closed /\ L.failedSpan = 0

Releasable(L, id) == ~L.closed /\ (L.failedSpan = 0 \/ id < L.failedSpan)

\* The first failure ends the session; it and every later span never release.
FailAt(L, id) == IF L.failedSpan # 0 THEN L ELSE [L EXCEPT !.failedSpan = id]

\* Mutant of Unown: a census does not mark the span partial.
UnownUnreported(L, id, i) ==
    LET recs == L.spans[id].records
    IN  IF Mode # "Census"
        THEN [FailAt(L, id) EXCEPT !.spans[id].unowned = TRUE]
        ELSE IF i \in DOMAIN recs
        THEN [L EXCEPT !.spans[id].records[i].skipped = TRUE] ELSE L

\* Record `i' of span `id' has no owner. Census goes on without its effect,
\* skip mode blocks the span and strict mode also fails the session.
Unown(L, id, i) ==
    LET recs == L.spans[id].records
        without == IF i \in DOMAIN recs
                   THEN [recs EXCEPT ![i].skipped = TRUE] ELSE recs
        failing == IF Mode = "Strict" THEN FailAt(L, id) ELSE L
    IN  IF Mode = "Census"
        THEN [L EXCEPT !.spans[id].records = without,
                       !.spans[id].partial = TRUE,
                       !.epochPartial = TRUE]
        ELSE [failing EXCEPT !.spans[id].unowned = TRUE]

\* Mutant of Settle: the span's count keeps the settled record.
SettleUncounted(L, h) ==
    [L EXCEPT !.spans[h.span].records[h.index].pending = FALSE]

\* A pending record is settled.
Settle(L, h) ==
    [L EXCEPT !.spans[h.span].records[h.index].pending = FALSE,
              !.spans[h.span].pending = @ - 1]

\* A pending record whose verdict will not come.
Abandon(L, h) ==
    IF Pending(L, h) THEN Unown(Settle(L, h), h.span, h.index) ELSE L

\* Mutant of AbandonOpenResolve: the handle is lost, its record still pending.
LoseOpenResolve(L, t) == [L EXCEPT !.openResolves[t] = NoHandle]

\* The thread's next record proves its open resolve copied nothing.
AbandonOpenResolve(L, t) ==
    Abandon([L EXCEPT !.openResolves[t] = NoHandle], L.openResolves[t])

ReplayThread(L, t) == L.ownerSwapThread # t /\ t \in L.replay

\* Some EndTiling side buffer still holds its records.
SideHeld(L) == \E s \in Segments : L.held[s] # <<>>

Suspended(L, t) == L.suspended /\ L.ownerSwapThread # t

Foreign(span, t) == span.thread \notin {NoThread, t} /\ span.records # <<>>

\* Mutant of Refused: a held side buffer refuses nothing.
RefusedPastHeld(L, t, allowHeld) ==
    ReplayThread(L, t) \/ Suspended(L, t) \/ Foreign(L.spans[Back(L)], t)

\* Records of thread t that may not join the open span fail the session.
Refused(L, t, allowHeld) ==
    \/ ReplayThread(L, t)
    \/ Suspended(L, t)
    \/ SideHeld(L) /\ ~allowHeld
    \/ Foreign(L.spans[Back(L)], t)

\* The open span, taken for a record of thread t.
Admit(L, t, allowHeld) ==
    LET b == Back(L)
        M == IF Refused(L, t, allowHeld) THEN FailAt(L, b) ELSE L
    IN  IF L.spans[b].thread = NoThread
        THEN [M EXCEPT !.spans[b].thread = t] ELSE M

\* Appended to the open span.
AppendRecords(L, recs) ==
    [L EXCEPT !.spans[Back(L)].records = @ \o recs,
              !.epochWork = @ \/ \E i \in DOMAIN recs : recs[i].kind \in Work]

\* Every record operation starts by admitting its thread.
RecordOn(L, t, r) ==
    AppendRecords(Admit(AbandonOpenResolve(L, t), t, FALSE), <<r>>)

-----------------------------------------------------------------------------
(* Submissions and tiled lists. *)

NoSubmit == [segment |-> NoSegment, dwords |-> 0, epoch |-> 0,
             worker |-> FALSE]

\* A submit that still awaits its kick; one from an earlier epoch is void.
HasPending(L, t) == L.pendingSubmit[t].epoch = L.submitEpoch

\* The records held for `segment' join the span that submits it.
AttachHeld(L, segment) ==
    LET M == AppendRecords(L, L.held[segment])
    IN  [M EXCEPT !.held[segment] = <<>>,
                  !.heldList[segment] = 0,
                  !.spans[Back(L)].startsList =
                      IF L.heldList[segment] # 0 THEN L.heldList[segment]
                                                 ELSE @]

\* Submitting a callback buffer activates its list and retires older ones.
StartList(L, id) ==
    LET list == L.spans[id].startsList
    IN  IF list = 0 THEN L
        ELSE [L EXCEPT !.activeList = list,
                       !.lists = [k \in {j \in DOMAIN @ : j >= list} |-> @[k]]]

\* Tear-down: every span, list and held record of the epoch is dropped, and
\* both callers of drop() forget the writeback address.
Drop(L) ==
    OpenSpan(
      [L EXCEPT !.oldest = L.nextSpan,
                !.spans = <<>>,
                !.openDraws = [t \in Threads |-> NoHandle],
                !.openResolves = [t \in Threads |-> NoHandle],
                !.frontbuffer = {},
                !.submitEpoch = @ + 1,
                !.lists = <<>>,
                !.activeList = 0,
                !.held = [s \in Segments |-> <<>>],
                !.heldList = [s \in Segments |-> 0],
                !.heldFirst = <<>>,
                !.replayPointer = 0,
                !.epochPartial = FALSE,
                !.writeback = 0])

\* Op marks of the Resolve records a drop loses.
DroppedMarks(L) ==
    UNION {{recs[i].mark : i \in {j \in DOMAIN recs : recs[j].kind = "Resolve"}}
             : recs \in {L.spans[id].records : id \in Live(L)}}

NewLedger ==
    [spans |-> [id \in {1} |-> EmptySpan], oldest |-> 1, nextSpan |-> 2,
     openDraws |-> [t \in Threads |-> NoHandle],
     openResolves |-> [t \in Threads |-> NoHandle],
     frontbuffer |-> {},
     writeback |-> 0, closed |-> FALSE, epochPartial |-> FALSE,
     epochWork |-> FALSE, failedSpan |-> 0,
     submitEpoch |-> 1, pendingSubmit |-> [t \in Threads |-> NoSubmit],
     replay |-> {},
     lists |-> <<>>, activeList |-> 0, nextList |-> 1,
     held |-> [s \in Segments |-> <<>>],
     heldList |-> [s \in Segments |-> 0],
     heldFirst |-> <<>>,
     replayPointer |-> 0, kicks |-> 0,
     suspended |-> FALSE, ownerSwapThread |-> NoThread,
     ownerSwapSawSwap |-> FALSE, deviceOwner |-> NoThread]

-----------------------------------------------------------------------------
(* Locks. The completion thread holds `mutex' between the steps of Pump    *)
(* except inside the host and the interrupt it calls.                      *)

UnlockedPCs == {"idle", "flush", "skip", "gate", "take", "took", "raise"}
MutexFree == pump.pc \in UnlockedPCs

=============================================================================
