---------------------------- MODULE GuestProgress ----------------------------
(***************************************************************************)
(* What the completion ledger promises the guest. The guest's program is a *)
(* row of spans of operations; the guest sees it performed as if a GPU ran *)
(* it: closed spans only, oldest first, one operation after another, each  *)
(* once and only after the verdict it is owed; then the read pointer       *)
(* passes the span. A failure freezes every span from the failing one on,  *)
(* a tear-down discards all spans, and nothing is performed after the end. *)
(*                                                                         *)
(* Locks, passes, retries, host fences and partial writes are not visible  *)
(* here: CompletionLedger implements them (LedgerRefinement).              *)
(***************************************************************************)
EXTENDS Integers, Sequences

VARIABLES
    program, \* span id -> [ops, state, pointer]
    first,   \* the oldest span
    done,    \* operations of the oldest span performed so far
    memory,  \* guest words: fence, scratch, image, read pointer
    frozen,  \* first span that is never performed, 0 for none
    ended    \* the session was closed

vars == <<program, first, done, memory, frozen, ended>>

\* An operation is [kind, value, owed]: the word it writes (fence, scratch,
\* image, or nothing), the value, and whether its verdict is still owed.
NewSpan == [ops |-> <<>>, state |-> "open", pointer |-> 0]

Init ==
    /\ first = 1
    /\ program = [id \in {1} |-> NewSpan]
    /\ done = 0
    /\ memory = [fence |-> 0, scratch |-> 0, image |-> 0, rptr |-> 0]
    /\ frozen = 0
    /\ ended = FALSE

-----------------------------------------------------------------------------
(* Guest threads extend and close spans; verdicts settle operations.       *)

\* An operation owed its verdict may still get its value, or turn out to
\* write nothing; a settled one only ever turns into nothing.
OpEvolves(old, new) ==
    \/ new = old
    \/ new.kind = "nothing" /\ (new.owed => old.owed)
    \/ old.owed /\ new.kind = old.kind

\* Open, then perhaps deferred, then closed. Only an open span is extended,
\* and a closed one keeps its read pointer.
SpanEvolves(old, new, performed) ==
    /\ <<old.state, new.state>> \in
          {<<"open", "open">>, <<"open", "deferred">>, <<"open", "closed">>,
           <<"deferred", "deferred">>, <<"deferred", "closed">>,
           <<"closed", "closed">>}
    /\ Len(new.ops) >= Len(old.ops)
    /\ old.state # "open" => Len(new.ops) = Len(old.ops)
    /\ old.state = "closed" => new.pointer = old.pointer
    /\ \A i \in 1 .. Len(old.ops) :
          IF i <= performed THEN new.ops[i] = old.ops[i]
                            ELSE OpEvolves(old.ops[i], new.ops[i])

Last == CHOOSE id \in DOMAIN program : \A other \in DOMAIN program : other <= id

\* A guest call, a verdict or a failure: any legal change of the program. A
\* fresh span opens when the open one is closed or deferred.
Extend ==
    /\ ~ended
    /\ UNCHANGED <<first, done, memory, ended>>
    /\ DOMAIN program' = IF program'[Last].state = "open" THEN DOMAIN program
                         ELSE DOMAIN program \cup {Last + 1}
    /\ \A id \in DOMAIN program :
          SpanEvolves(program[id], program'[id], IF id = first THEN done ELSE 0)
    /\ \A id \in DOMAIN program' \ DOMAIN program : program'[id] = NewSpan
    /\ frozen' = frozen \/ (frozen = 0 /\ frozen' \in DOMAIN program)

-----------------------------------------------------------------------------
(* The program runs. *)

Running == ~ended /\ (frozen = 0 \/ first < frozen)

Oldest == program[first]

\* An image may be kept by the host for later instead of being written.
Perform ==
    /\ Running /\ Oldest.state = "closed" /\ done < Len(Oldest.ops)
    /\ LET op == Oldest.ops[done + 1]
       IN  /\ ~op.owed
           /\ \/ op.kind = "nothing" /\ memory' = memory
              \/ op.kind # "nothing" /\ memory' = [memory EXCEPT ![op.kind] = op.value]
              \/ op.kind = "image" /\ memory' = memory
    /\ done' = done + 1
    /\ UNCHANGED <<program, first, frozen, ended>>

\* The read pointer passes a span once all of it is performed. (A sealed span
\* has none, and a census may go on without it.)
Retire ==
    /\ Running /\ Oldest.state = "closed" /\ done = Len(Oldest.ops)
    /\ first' = first + 1
    /\ program' = [id \in DOMAIN program \ {first} |-> program[id]]
    /\ done' = 0
    /\ \/ Oldest.pointer # 0 /\ memory' = [memory EXCEPT !.rptr = Oldest.pointer]
       \/ memory' = memory
    /\ UNCHANGED <<frozen, ended>>

\* Tiles the worker replays have no operations; the read pointer passes them.
PassReplay ==
    /\ Running /\ Oldest.pointer = 0
    /\ memory' = [memory EXCEPT !.rptr = memory'.rptr]
    /\ UNCHANGED <<program, first, done, frozen, ended>>

-----------------------------------------------------------------------------
(* Tear-down. *)

Discard ==
    /\ first' = Last + 1
    /\ program' = [id \in {Last + 1} |-> NewSpan]
    /\ done' = 0
    /\ UNCHANGED <<memory, frozen, ended>>

End ==
    /\ ended' = TRUE
    /\ UNCHANGED <<program, first, done, memory, frozen>>

Next == Extend \/ Perform \/ Retire \/ PassReplay \/ Discard \/ End

Spec == Init /\ [][Next]_vars

=============================================================================
