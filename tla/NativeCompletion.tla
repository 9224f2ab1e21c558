--------------------------- MODULE NativeCompletion ---------------------------
(***************************************************************************)
(* D3D12CompletionSource (native_completion_source.cpp): the host's side of *)
(* the ledger's IDrawCompletion, over the renderer's request stream. Submit *)
(* gives each span of host work a value; Completed, called from any thread, *)
(* advances over the values whose work is done and keeps the images their   *)
(* resolves read back, by op mark, until the ledger takes or discards them. *)
(* Close ends it: the value is frozen, the images are dropped.              *)
(* `pendingMutex' makes Take, Discard, Close and the two halves of a peek   *)
(* atomic; a poll holds it while the stream and the GPU go on.              *)
(***************************************************************************)
EXTENDS DrawStream

CONSTANTS
    Census,  \* the mode: an unchained refusal is skipped
    Pollers, \* threads that call Completed (the worker, WaitFor)
    Marks    \* op marks, in order

ASSUME SourceConstants ==
    Census \in BOOLEAN /\ Marks \subseteq Nat \ {0} /\ 0 \notin Pollers

VARIABLES
    source,  \* the members of D3D12CompletionSource
    submit,  \* the one Submit under way (submitMutex)
    polls,   \* per poller, where its call to Completed is
    holder,  \* the poller that holds pendingMutex, or 0
    peek,    \* a PeekGuestImage under way
    named    \* history: op marks of the spans pushed so far

sourceVars == <<source, submit, polls, holder, peek, named>>
vars == <<streamVars, sourceVars>>

Kinds == {"inherit", "prefix", "terminal"}
Entries == [kind : Kinds, mark : Marks \cup {0}, joins : Nat, work : Nat]
NoSpan == [kind |-> "inherit", mark |-> 0, joins |-> 0, work |-> 0]
NoPeek == [pc |-> "idle", mark |-> 0, work |-> 0, graph |-> FALSE]

SourceStates == [pending : Seq(Entries), completed : Nat, open : Nat,
                 images : SUBSET (Marks \X Nat), peeked : SUBSET (Marks \X Nat),
                 discarded : Nat, closed : BOOLEAN, failed : BOOLEAN]
SubmitStates == [pc : {"idle", "queue", "push"}, span : Entries]
PollStates == [pc : {"idle", "lock", "fence", "entry", "fail"}, fence : Nat, lost : BOOLEAN]
PeekStates == [pc : {"idle", "wait", "fence", "store"}, mark : Marks \cup {0}, work : Nat,
               graph : BOOLEAN]
SourceType ==
    /\ source \in SourceStates /\ submit \in SubmitStates /\ peek \in PeekStates
    /\ polls \in [Pollers -> PollStates] /\ holder \in Pollers \cup {0}
    /\ named \subseteq Marks

TypeOK == StreamType /\ SourceType

Init ==
    /\ StreamInit
    /\ source = [pending |-> <<>>,   \* entries, oldest first
                 completed |-> 0,    \* values completed; the next is pending[1]'s
                 open |-> 0,         \* epochPassCount: passes without their terminal
                 images |-> {},      \* op mark and work of untaken images
                 peeked |-> {},      \* the same of kept encodings
                 discarded |-> 0,    \* discardedThrough
                 closed |-> FALSE, failed |-> FALSE]
    /\ submit = [pc |-> "idle", span |-> NoSpan]
    /\ polls = [p \in Pollers |-> [pc |-> "idle", fence |-> 0, lost |-> FALSE]]
    /\ holder = 0
    /\ peek = NoPeek
    /\ named = {}

PendingMutexFree == holder = 0
PendingWith(mark) == {i \in DOMAIN source.pending : source.pending[i].mark = mark}
MarksOf(images) == {image[1] : image \in images}
Above(images, mark) == {image \in images : image[1] > mark}
LastValue == source.completed + Len(source.pending)

-----------------------------------------------------------------------------
(* Submit, under submitMutex. A refusal that changes nothing is no step.    *)

SubmitIdle == submit = [pc |-> "idle", span |-> NoSpan]
EndSubmit == submit' = [pc |-> "idle", span |-> NoSpan]

\* A mark that is held, cached or pending is refused, and so is a frameless
\* span while segments wait for their terminal. The assembler names each resolve
\* by its own op mark.
StartSubmit(kind, mark) ==
    /\ SubmitIdle /\ ~source.closed /\ ~source.failed
    /\ kind = "inherit" => mark = 0 /\ source.open = 0
    /\ mark # 0 =>
          /\ mark \notin named /\ PendingMutexFree
          /\ mark \notin MarksOf(source.images \cup source.peeked)
          /\ PendingWith(mark) = {}
    /\ submit' = [pc |-> IF kind = "inherit" THEN "push" ELSE "queue",
                  span |-> [kind |-> kind, mark |-> mark, work |-> 0,
                            joins |-> IF kind = "terminal" THEN source.open ELSE 0]]
    /\ source' = IF kind = "terminal" THEN [source EXCEPT !.open = 0] ELSE source
    /\ UNCHANGED <<streamVars, polls, holder, peek, named>>

\* The producer queues the work, or refuses it: the stream stopped, or the
\* frame is invalid or too large.
QueueWork ==
    /\ submit.pc = "queue"
    /\ QueueRequest(submit.span.kind, submit.span.joins)
    /\ submit' = [submit EXCEPT !.pc = "push", !.span.work = Len(requests) + 1]
    /\ source' = [source EXCEPT !.open = IF submit.span.kind = "prefix" THEN @ + 1 ELSE @]
    /\ UNCHANGED <<polls, holder, peek, named>>
WorkRefused ==
    /\ submit.pc = "queue"
    /\ RefuseRequest(submit.span.kind, submit.span.joins) \/ UNCHANGED streamVars
    /\ EndSubmit
    /\ UNCHANGED <<source, polls, holder, peek, named>>

Push ==
    /\ submit.pc = "push" /\ PendingMutexFree
    /\ source' = [source EXCEPT !.pending = Append(@, submit.span)]
    /\ named' = named \cup ({submit.span.mark} \ {0})
    /\ EndSubmit
    /\ UNCHANGED <<streamVars, polls, holder, peek>>

-----------------------------------------------------------------------------
(* Completed and its advance, on any thread.                                *)

Poll(p, pc) == polls[p].pc = pc
SetPoll(p, pc) == polls' = [polls EXCEPT ![p].pc = pc]
EndPoll(p) ==
    polls' = [polls EXCEPT ![p] = [pc |-> "idle", fence |-> 0, lost |-> FALSE]]

StartPoll(p) ==
    /\ Poll(p, "idle") /\ ~source.closed /\ ~source.failed
    /\ SetPoll(p, "lock")
    /\ UNCHANGED <<streamVars, source, submit, holder, peek, named>>

\* Another thread's lock, or a close since the poll began, ends it.
Polls == ~source.closed
TryLock(p) ==
    /\ Poll(p, "lock")
    /\ IF PendingMutexFree /\ Polls
       THEN /\ holder' = p /\ SetPoll(p, "fence")
       ELSE /\ holder' = holder /\ EndPoll(p)
    /\ UNCHANGED <<streamVars, source, submit, peek, named>>

\* The fence is read once, when the first entry with work is met.
Front == source.pending[1]
ReadFence(p) ==
    /\ Poll(p, "fence") /\ source.pending # <<>> /\ Front.kind # "inherit"
    /\ polls' = [polls EXCEPT ![p] = [pc |-> "entry", fence |-> gpu.fence,
                                      lost |-> gpu.lost]]
    /\ UNCHANGED <<streamVars, source, submit, holder, peek, named>>

Result == requests[Front.work].result
\* Mutant of FenceReached: passes complete with their recording.
PassesRecorded(p) == TRUE
\* Passes are recorded long before the GPU ran them.
FenceReached(p) ==
    Front.kind = "prefix" => polls[p].fence >= requests[Front.work].fence
\* A census completes a terminal without its image if it submitted nothing and
\* ends no chain.
Skippable ==
    /\ Census /\ Front.kind = "terminal" /\ Front.joins = 0 /\ Result.submitted = 0
\* Mutant of KeptImages: an image discarded in flight is kept.
AllImages == IF Front.mark # 0 THEN {<<Front.mark, Front.work>>} ELSE {}
\* Mutant of KeptImages: an image for every frame.
AnImage == {<<Front.mark, Front.work>>}
\* An image discarded while it was in flight is not kept.
KeptImages == IF Front.mark > source.discarded THEN {<<Front.mark, Front.work>>} ELSE {}

Pop(images) ==
    source' = [source EXCEPT !.pending = Tail(@), !.completed = @ + 1,
                             !.images = @ \cup images]

Advance(p) ==
    /\ polls[p].pc \in {"fence", "entry"} /\ source.pending # <<>>
    /\ \/ Front.kind = "inherit" /\ Pop({})
       \/ /\ Poll(p, "entry") /\ Front.kind # "inherit"
          /\ ~polls[p].lost /\ Result.settled
          /\ \/ Result.ok /\ FenceReached(p) /\ Pop(KeptImages)
             \/ ~Result.ok /\ Skippable /\ Pop({})
    /\ UNCHANGED <<streamVars, submit, polls, holder, peek, named>>

\* The loop ends at the first entry that is not done, and lets go of the lock.
EndAdvance(p) ==
    /\ polls[p].pc \in {"fence", "entry"}
    /\ source.pending # <<>> =>
          /\ Poll(p, "entry") /\ Front.kind # "inherit" /\ ~polls[p].lost
          /\ Result.settled => Result.ok /\ ~FenceReached(p)
    /\ holder' = 0 /\ EndPoll(p)
    /\ UNCHANGED <<streamVars, source, submit, peek, named>>

FailAdvance(p) ==
    /\ Poll(p, "entry") /\ source.pending # <<>> /\ Front.kind # "inherit"
    /\ polls[p].lost \/ (Result.settled /\ ~Result.ok /\ ~Skippable)
    /\ holder' = 0 /\ SetPoll(p, "fail")
    /\ UNCHANGED <<streamVars, source, submit, peek, named>>

\* fail: without the lock.
Fail(p) ==
    /\ Poll(p, "fail") /\ EndPoll(p)
    /\ source' = [source EXCEPT !.failed = TRUE]
    /\ UNCHANGED <<streamVars, submit, holder, peek, named>>

-----------------------------------------------------------------------------
(* Images. A take or discard also drops every older image.                  *)

TakeImage(mark) ==
    [source EXCEPT !.images = Above(@, mark), !.peeked = Above(@, mark),
                   !.discarded = IF mark - 1 > @ THEN mark - 1 ELSE @]
TakeGuestImage(mark) ==
    /\ PendingMutexFree /\ ~source.closed /\ mark \in MarksOf(source.images)
    /\ source' = TakeImage(mark)
    /\ UNCHANGED <<streamVars, submit, polls, holder, peek, named>>

DiscardGuestImagesThrough(mark) ==
    /\ PendingMutexFree
    /\ source' = [source EXCEPT !.images = Above(@, mark), !.peeked = Above(@, mark),
                                !.discarded = IF mark > @ THEN mark ELSE @]
    /\ UNCHANGED <<streamVars, submit, polls, holder, peek, named>>

\* A peek finds the work of a kept image or of a pending resolve. (Closed, a
\* cached encoding and a missing image answer at once.)
StartPeek(mark) ==
    /\ peek.pc = "idle" /\ PendingMutexFree /\ ~source.closed
    /\ mark \notin MarksOf(source.peeked)
    /\ \/ \E image \in source.images :
             /\ image[1] = mark
             /\ peek' = [pc |-> "wait", mark |-> mark, work |-> image[2], graph |-> FALSE]
       \/ /\ mark \notin MarksOf(source.images) /\ mark > source.discarded
          /\ \E i \in PendingWith(mark) :
                peek' = [pc |-> "wait", mark |-> mark, work |-> source.pending[i].work,
                         graph |-> source.pending[i].kind = "prefix"]
    /\ UNCHANGED <<streamVars, source, submit, polls, holder, named>>

\* It waits for the work, then for the fence of passes still pending. Either
\* wait may time out; failed work gives no image.
AwaitWork ==
    /\ peek.pc = "wait"
    /\ LET result == requests[peek.work].result
       IN  \/ /\ result.settled /\ result.ok
              /\ peek' = [peek EXCEPT !.pc = IF peek.graph THEN "fence" ELSE "store"]
           \/ peek' = NoPeek
    /\ UNCHANGED <<streamVars, source, submit, polls, holder, named>>

\* Mutant of PassesDone: the readback is used once it was recorded.
PassesQueued == TRUE
PassesDone == ~gpu.lost /\ gpu.fence >= requests[peek.work].fence
AwaitPasses ==
    /\ peek.pc = "fence"
    /\ \/ /\ PassesDone /\ peek' = [peek EXCEPT !.pc = "store"]
       \/ peek' = NoPeek
    /\ UNCHANGED <<streamVars, source, submit, polls, holder, named>>

\* Mutant of StillWanted: the encoding is kept whatever happened meanwhile.
KeepEncoding == TRUE
\* Neither taken, nor discarded, nor closed while it was encoded.
StillWanted ==
    /\ peek.mark \in MarksOf(source.images) \/ PendingWith(peek.mark) # {}
    /\ peek.mark > source.discarded /\ ~source.closed
StorePeek ==
    /\ peek.pc = "store" /\ PendingMutexFree
    /\ source' = [source EXCEPT !.peeked =
          IF StillWanted THEN @ \cup {<<peek.mark, peek.work>>} ELSE @]
    /\ peek' = NoPeek
    /\ UNCHANGED <<streamVars, submit, polls, holder, named>>

Close ==
    /\ PendingMutexFree /\ ~source.closed
    /\ source' = [source EXCEPT !.closed = TRUE, !.images = {}, !.peeked = {}]
    /\ UNCHANGED <<streamVars, submit, polls, holder, peek, named>>

\* The app closes the source before it stops the renderer's stream.
StopProducer == source.closed /\ StopStream /\ UNCHANGED sourceVars

-----------------------------------------------------------------------------
PollNext(p) ==
    \/ StartPoll(p) \/ TryLock(p) \/ ReadFence(p) \/ Advance(p) \/ EndAdvance(p)
    \/ FailAdvance(p) \/ Fail(p)
PeekNext == AwaitWork \/ AwaitPasses \/ StorePeek
SubmitNext == QueueWork \/ WorkRefused \/ Push
RendererNext == StreamNext /\ UNCHANGED sourceVars
DeviceNext == (GpuCompletes \/ DeviceLost) /\ UNCHANGED sourceVars

Next ==
    \/ \E kind \in Kinds, mark \in Marks \cup {0} : StartSubmit(kind, mark)
    \/ SubmitNext
    \/ \E p \in Pollers : PollNext(p)
    \/ \E mark \in Marks :
          \/ TakeGuestImage(mark) \/ DiscardGuestImagesThrough(mark) \/ StartPeek(mark)
    \/ PeekNext
    \/ RendererNext \/ DeviceNext
    \/ Close \/ StopProducer
Spec == Init /\ [][Next]_vars

\* The completion worker polls again and again, and every thread that is inside
\* a call ends it. The renderer thread runs, and the GPU finishes what it was
\* given. Nobody has to submit, take, discard or close.
Fairness ==
    /\ \A p \in Pollers : WF_vars(PollNext(p))
    /\ WF_vars(SubmitNext) /\ WF_vars(PeekNext) /\ WF_vars(RendererNext)
    /\ WF_vars(GpuCompletes /\ UNCHANGED sourceVars)

-----------------------------------------------------------------------------
(* The work behind a value is done: the GPU finished it, or, in a census,   *)
(* it failed and nothing was submitted for it.                              *)
WorkDone(entry) ==
    \/ entry.kind = "inherit"
    \/ Finished(entry.work)
    \/ /\ Census /\ entry.kind = "terminal" /\ entry.work # stream.active
       /\ requests[entry.work].result.settled /\ requests[entry.work].fence = 0

\* The promise of HostWork: a value never completes while the GPU still writes
\* what the guest is about to be told about, nor after Close, whatever poll was
\* under way.
Host == INSTANCE HostWork WITH
    submitted <- LastValue,
    completed <- source.completed,
    ended <- source.closed,
    done <- (1 .. source.completed) \cup
            {source.completed + i : i \in {j \in DOMAIN source.pending :
                                             WorkDone(source.pending[j])}}
ImplementsHostWork == Host!Spec

\* Every image that is held or cached was read back by work the GPU finished:
\* a take or peek never shows the guest a target half drawn.
ImagesAreDone ==
    \A image \in source.images \cup source.peeked : Finished(image[2])

\* A cached encoding belongs to a resolve that can still be taken, so takes,
\* discards and the close leave none behind.
PeekedIsLive ==
    \A mark \in MarksOf(source.peeked) :
        /\ mark \in MarksOf(source.images) \/ PendingWith(mark) # {}
        /\ mark > source.discarded

\* An image at or below the discard point is gone for good, also when its
\* readback was in flight at the discard.
NothingBelowDiscard == \A mark \in MarksOf(source.images) : mark > source.discarded

\* After Close no image comes back, whatever poll, peek or Submit was under way.
ClosedIsEmpty == source.closed => source.images = {} /\ source.peeked = {}

\* A read never shows what a discard or the close took away (DiscardThrough,
\* Close, and the polls and peeks that were under way).
NoStaleImages == NothingBelowDiscard /\ ClosedIsEmpty

\* The source is done with value n.
Settles(n) == source.completed >= n \/ source.failed \/ source.closed
=============================================================================
