--------------------------- MODULE LedgerRefinement --------------------------
(***************************************************************************)
(* The completion ledger implements GuestProgress: what its threads,       *)
(* passes and retries do together, the guest sees as its program performed *)
(* once and in order.                                                      *)
(***************************************************************************)
EXTENDS CompletionLedger

OpKind(r) ==
    IF r.skipped THEN "nothing"
    ELSE CASE r.kind = "Fence" -> "fence"
           [] r.kind = "ScratchWrite" -> "scratch"
           [] r.kind = "Resolve" /\ ~r.hostOnly -> "image"
           [] OTHER -> "nothing"

\* A resolve's image is named by its op mark, known with its copy words.
Op(r) ==
    [kind |-> OpKind(r),
     value |-> IF r.kind = "Resolve" THEN r.mark ELSE r.value,
     owed |-> r.pending]

Promised(span) ==
    [ops |-> [i \in DOMAIN span.records |-> Op(span.records[i])],
     state |-> IF Closed(span) THEN "closed"
               ELSE IF span.deferred # NoSegment THEN "deferred" ELSE "open",
     pointer |-> span.kicked]

\* The last effect the guest saw is the image of the front's next record:
\* written, and not counted yet.
ImageLanded ==
    /\ effect.span = ledger.oldest /\ effect.index = Front.applied + 1
    /\ effect.index \in DOMAIN Front.records
    /\ Front.records[effect.index].kind = "Resolve"

\* An image is performed when it is written, before its record is counted.
Performed == Front.applied + (IF ImageLanded THEN 1 ELSE 0)

\* While an image is on its way the span it belongs to may fail: the failure
\* takes effect once the image is written or given up.
Frozen ==
    IF pump.pc \in {"take", "took"} /\ ledger.failedSpan = ledger.oldest
    THEN 0 ELSE ledger.failedSpan

Program == [id \in Live(ledger) |-> Promised(ledger.spans[id])]

\* The guest words GuestProgress speaks of.
Memory == [fence |-> guest.fence, scratch |-> guest.scratch,
           image |-> guest.image, rptr |-> guest.rptr]

Progress == INSTANCE GuestProgress WITH
    program <- Program,
    first <- ledger.oldest,
    done <- Performed,
    memory <- Memory,
    frozen <- Frozen,
    ended <- ledger.closed

\* Every behaviour of the ledger is one of GuestProgress: the guest never
\* sees an operation skipped, repeated, reordered, performed before its
\* verdict, after a failure or from a discarded epoch.
ImplementsGuestProgress == Progress!Spec

=============================================================================
