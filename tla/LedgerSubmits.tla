---------------------------- MODULE LedgerSubmits ----------------------------
(***************************************************************************)
(* How spans close: the CP_RB_WPTR kick, the direct, deferred and silent   *)
(* submits of 0x8269BD98, the tile-replay worker's submissions, and the    *)
(* brackets that hand the device from thread to thread                     *)
(* (completion_ledger.cpp, from Kick to SilentSubmit).                     *)
(***************************************************************************)
EXTENDS LedgerRecords

\* An operation of the ledger alone.
LedgerOnly == Rest /\ UNCHANGED <<host, clock>>

\* onReplayThread(): an operation the worker may not call fails the session.
Unreplayed(t, L) ==
    IF ReplayThread(ledger, t) THEN FailAt(ledger, Back(ledger)) ELSE L

-----------------------------------------------------------------------------
(* Submits and kicks. *)

MarkReplayThread(t) ==
    /\ MutexFree
    /\ t \notin ledger.replay
    /\ ledger' = [ledger EXCEPT !.replay = @ \cup {t}]
    /\ LedgerOnly

\* A submit whose predecessor on the thread was never kicked is refused.
Submitted(L, t, segment, size, worker) ==
    IF HasPending(L, t) THEN FailAt(L, Back(L))
    ELSE [L EXCEPT !.pendingSubmit[t] =
             [segment |-> segment, dwords |-> size, epoch |-> L.submitEpoch,
              worker |-> worker]]

ReplaySubmit(t, segment, size) ==
    /\ Enter
    /\ ledger' = Submitted([ledger EXCEPT !.replay = @ \cup {t}],
                           t, segment, size, TRUE)
    /\ LedgerOnly

DirectSubmit(t, segment, size) ==
    /\ Enter
    /\ ledger' = Unreplayed(t, Submitted(ledger, t, segment, size, FALSE))
    /\ LedgerOnly

\* Deferred spans the worker has not submitted yet.
Unsubmitted(L) ==
    {id \in Live(L) : L.spans[id].deferred # NoSegment /\ L.spans[id].kicked = 0}

\* Mutant of OldestOf: the newest.
NewestOf(ids) == CHOOSE id \in ids : \A other \in ids : other <= id

OldestOf(ids) == CHOOSE id \in ids : \A other \in ids : id <= other

InList(list, p) == list[p.segment] = p.dwords

\* The worker's kick submits the oldest deferred span, or replays a segment
\* of the active list, which moves only the read pointer.
WorkerKick(L, p) ==
    LET waiting == Unsubmitted(L)
        oldest == OldestOf(waiting)
        named == \E id \in waiting : L.spans[id].deferred = p.segment
    IN  IF waiting # {} /\ L.spans[oldest].deferred = p.segment
           /\ L.spans[oldest].dwords = p.dwords
        THEN StartList([L EXCEPT !.spans[oldest].kicked = L.kicks], oldest)
        ELSE IF ~named /\ L.activeList \in DOMAIN L.lists
                /\ InList(L.lists[L.activeList], p)
        THEN [L EXCEPT !.replayPointer = L.kicks]
        ELSE FailAt(L, IF waiting # {} THEN oldest ELSE Back(L))

\* Mutant of MainKick: no span opens after the one it closes.
MainKickLeavesNone(L, t, submitted, p) ==
    LET M == Admit(AbandonOpenResolve(L, t), t, TRUE)
    IN  [M EXCEPT !.spans[Back(M)].kicked = L.kicks]

\* The main thread's kick closes its open span.
MainKick(L, t, submitted, p) ==
    LET A == Admit(AbandonOpenResolve(L, t), t, TRUE)
        b == Back(A)
        M == IF submitted THEN AttachHeld(A, p.segment)
             ELSE IF SideHeld(A) THEN FailAt(A, b) ELSE A
    IN  OpenSpan(StartList([M EXCEPT !.spans[b].kicked = L.kicks], b))

Kick(t) ==
    /\ Enter
    /\ LET p == ledger.pendingSubmit[t]
           submitted == HasPending(ledger, t)
           L == [ledger EXCEPT !.kicks = @ + 1,
                               !.pendingSubmit[t] = NoSubmit]
       IN  ledger' = IF submitted /\ p.worker THEN WorkerKick(L, p)
                     ELSE IF ReplayThread(L, t) THEN FailAt(L, Back(L))
                     ELSE MainKick(L, t, submitted, p)
    /\ LedgerOnly

\* A Silent submit seals the open span: it retires without a read pointer.
SilentSubmit(t) ==
    /\ Enter
    /\ HasPending(ledger, t)
    /\ LET p == ledger.pendingSubmit[t]
           L == [ledger EXCEPT !.pendingSubmit[t] = NoSubmit]
           M == AttachHeld(Admit(AbandonOpenResolve(L, t), t, TRUE), p.segment)
           b == Back(M)
       IN  ledger' = IF M.spans[b].records = <<>> THEN M
                     ELSE OpenSpan(StartList(
                            [M EXCEPT !.spans[b].sealed = TRUE], b))
    /\ LedgerOnly

\* The open span waits for the worker to submit `segment'.
Defer(t, segment, size) ==
    /\ Enter
    /\ LET M == AttachHeld(Admit(AbandonOpenResolve(ledger, t), t, TRUE),
                           segment)
       IN  ledger' = Unreplayed(t, OpenSpan(
              [M EXCEPT !.spans[Back(M)].deferred = segment,
                        !.spans[Back(M)].dwords = size]))
    /\ LedgerOnly

-----------------------------------------------------------------------------
(* Tiled lists. *)

BeginTiledList ==
    /\ Enter
    /\ ledger' = [ledger EXCEPT
          !.lists = [k \in DOMAIN @ \cup {ledger.nextList} |->
                        IF k = ledger.nextList THEN [s \in Segments |-> 0]
                                               ELSE @[k]],
          !.nextList = @ + 1]
    /\ LedgerOnly

TiledSegment(t, segment, size) ==
    /\ Enter
    /\ ledger' = Unreplayed(t,
          IF DOMAIN ledger.lists = {} THEN FailAt(ledger, Back(ledger))
          ELSE [ledger EXCEPT !.lists[ledger.nextList - 1][segment] = size])
    /\ LedgerOnly

\* Progress that would run once per tile has no model.
TiledProgress ==
    /\ Enter
    /\ ledger' = FailAt(ledger, Back(ledger))
    /\ LedgerOnly

-----------------------------------------------------------------------------
(* Device brackets. *)

Suspend ==
    /\ Enter
    /\ ledger' = [(IF ledger.suspended THEN FailAt(ledger, Back(ledger))
                   ELSE ledger) EXCEPT !.suspended = TRUE]
    /\ LedgerOnly

Resume ==
    /\ Enter
    /\ ledger' = [(IF ~ledger.suspended \/ ledger.ownerSwapThread # NoThread
                   THEN FailAt(ledger, Back(ledger)) ELSE ledger)
                  EXCEPT !.suspended = FALSE]
    /\ LedgerOnly

\* The new owner takes over the open span.
AcquireDevice(t) ==
    /\ Enter
    /\ LET b == Back(ledger)
           taken == [ledger EXCEPT !.deviceOwner = t]
           held == ledger.spans[b].thread
       IN  ledger' = IF ledger.deviceOwner \notin {NoThread, t}
                     THEN FailAt(ledger, b)
                     ELSE IF held \notin {NoThread, t}
                             /\ ledger.ownerSwapThread = NoThread
                     THEN [taken EXCEPT !.spans[b].thread = t]
                     ELSE taken
    /\ LedgerOnly

\* Only the owner's release frees the device.
ReleaseDevice(t) ==
    /\ Enter
    /\ ledger' = [AbandonOpenResolve(ledger, t) EXCEPT
                    !.deviceOwner = IF @ = t THEN NoThread ELSE @]
    /\ LedgerOnly

\* The worker's deferred swap starts on a drained device.
BeginDeviceOwnerSwap(t) ==
    /\ Enter
    /\ LET b == Back(ledger)
           drained == /\ ledger.ownerSwapThread = NoThread
                      /\ ledger.suspended
                      /\ ledger.spans[b].records = <<>>
                      /\ ~SideHeld(ledger) /\ ledger.heldFirst = <<>>
                      /\ ~ledger.epochWork
       IN  ledger' = IF drained
                     THEN [ledger EXCEPT !.ownerSwapThread = t,
                                         !.ownerSwapSawSwap = FALSE,
                                         !.spans[b].thread = t]
                     ELSE FailAt(ledger, b)
    /\ LedgerOnly

\* It ends swapped and kicked.
EndDeviceOwnerSwap(t) ==
    /\ Enter
    /\ LET b == Back(ledger)
           done == /\ ledger.ownerSwapThread = t
                   /\ ledger.spans[b].records = <<>>
                   /\ ledger.ownerSwapSawSwap
       IN  ledger' = IF done
                     THEN [ledger EXCEPT !.ownerSwapThread = NoThread,
                                         !.spans[b].thread = NoThread]
                     ELSE FailAt(ledger, b)
    /\ LedgerOnly

=============================================================================
