------------------------------ MODULE DrawStream ------------------------------
(***************************************************************************)
(* The renderer's request stream (native_renderer_d3d12.cpp): the guest's   *)
(* spans queue prefix passes and terminal frames, the renderer thread takes *)
(* them in call order, admits, records and submits them to the GPU, and     *)
(* settles the promise of each. A refused request fails alone unless it     *)
(* breaks a chain (passes recorded for a terminal still to come); any other *)
(* failure ends the stream, and what is still queued is cancelled.          *)
(* Every queued request is asked for through the queue (its depth is more   *)
(* than one, or the stream is direct); what it draws is not modelled.       *)
(***************************************************************************)
EXTENDS Naturals, Sequences, FiniteSets

CONSTANT Depth  \* requests the stream holds at once (drawStreamQueueDepth)

ASSUME StreamConstants == Depth \in Nat \ {0, 1}

VARIABLES
    requests, \* what was asked of the stream, in call order, with its result
    stream,   \* the renderer thread and its queue
    gpu       \* the stream's fence: its completed value, or the device is lost

streamVars == <<requests, stream, gpu>>

Unsettled == [settled |-> FALSE, ok |-> FALSE, submitted |-> 0]
Settled(ok, fence) == [settled |-> TRUE, ok |-> ok, submitted |-> fence]
Cancelled == Settled(FALSE, 0)
Results == [settled : BOOLEAN, ok : BOOLEAN, submitted : Nat]

\* A terminal names the passes of its chain (continuedPrefixPasses).
Request(kind, joins) ==
    [kind |-> kind, joins |-> joins, fence |-> 0, result |-> Unsettled]

StreamPhases == {"top", "record", "settle", "leave", "ended"}
RequestStates == [kind : {"prefix", "terminal"}, joins : Nat, fence : Nat, result : Results]
StreamStates == [pc : StreamPhases, queue : Seq(Nat), active : Nat, outcome : BOOLEAN,
                 prefix : Nat, open : BOOLEAN, frames : Seq(Nat), direct : BOOLEAN,
                 last : Nat, stop : BOOLEAN]
StreamType ==
    /\ requests \in Seq(RequestStates) /\ stream \in StreamStates
    /\ gpu \in [fence : Nat, lost : BOOLEAN]

StreamInit ==
    /\ requests = <<>>
    /\ \E direct \in BOOLEAN :
          stream = [pc |-> "top", queue |-> <<>>, active |-> 0, outcome |-> FALSE,
                    direct |-> direct, \* native_direct_stream: bounded by
                                       \* bytes and terminals, not by Depth
                    prefix |-> 0,      \* passes recorded, their terminal to come
                    open |-> FALSE,    \* some are, once the queue was recorded
                    frames |-> <<>>,   \* terminals submitted, not yet settled
                    last |-> 0,        \* the newest fence value submitted
                    stop |-> FALSE]
    /\ gpu = [fence |-> 0, lost |-> FALSE]

IsPrefix(r) == requests[r].kind = "prefix"

\* A request's promise is kept once; a later result is ignored.
Settle(rs, r, result) ==
    IF rs[r].result.settled THEN rs ELSE [rs EXCEPT ![r].result = result]
SettleAll(rs, all, result) ==
    [r \in DOMAIN rs |-> IF r \in all THEN Settle(rs, r, result)[r] ELSE rs[r]]
Queued(s) == {s.queue[i] : i \in DOMAIN s.queue}

\* Mutant of FailStream: what is queued is left to itself.
StopOnly(rs, s) ==
    /\ requests' = rs
    /\ stream' = [s EXCEPT !.stop = TRUE, !.queue = <<>>, !.active = 0, !.pc = "leave"]
\* The stream fails: what is still queued is cancelled, naming the last fence.
FailStream(rs, s) ==
    /\ requests' = SettleAll(rs, Queued(s), Settled(FALSE, s.last))
    /\ stream' = [s EXCEPT !.stop = TRUE, !.queue = <<>>, !.active = 0, !.pc = "leave"]

-----------------------------------------------------------------------------
\* The caller's side. It waits for room until the stream is no more available.
HeldTerminals ==
    Cardinality({r \in Queued(stream) \cup ({stream.active} \ {0}) : ~IsPrefix(r)})
Room(kind) ==
    IF stream.direct
    THEN kind = "prefix" \/ HeldTerminals < 2
    ELSE Len(stream.queue) + (IF stream.active = 0 THEN 0 ELSE 1) < Depth

QueueRequest(kind, joins) ==
    /\ ~stream.stop /\ Room(kind)
    /\ requests' = Append(requests, Request(kind, joins))
    /\ stream' = [stream EXCEPT !.queue = Append(@, Len(requests) + 1),
                                !.open = kind = "prefix"]
    /\ UNCHANGED gpu

\* Too large for the direct stream's bytes: refused, and where passes are open
\* or the request is their terminal, the stream stops.
RefuseRequest(kind, joins) ==
    /\ stream.direct /\ ~stream.stop /\ Room(kind)
    /\ IF stream.open \/ joins # 0
       THEN /\ requests' = SettleAll(requests, Queued(stream), Settled(FALSE, stream.last))
            /\ stream' = [stream EXCEPT !.stop = TRUE, !.queue = <<>>]
       ELSE UNCHANGED <<requests, stream>>
    /\ UNCHANGED gpu

-----------------------------------------------------------------------------
\* The renderer thread.
At(pc) == stream.pc = pc

\* The oldest submitted terminal's fence was reached: its frame is published
\* and its promise kept. A rejected publication ends the stream.
RetireFrame ==
    /\ stream.pc \in {"top", "leave"} /\ stream.frames # <<>>
    /\ ~gpu.lost /\ gpu.fence >= requests[Head(stream.frames)].fence
    /\ \E ok \in BOOLEAN :
          /\ At("leave") => ok
          /\ requests' = Settle(requests, Head(stream.frames),
                                Settled(ok, requests[Head(stream.frames)].fence))
          /\ stream' = [stream EXCEPT !.frames = Tail(@), !.stop = @ \/ ~ok]
    /\ UNCHANGED gpu

\* A lost device is seen while frames are retired.
SeeLoss ==
    /\ At("top") /\ stream.frames # <<>> /\ gpu.lost /\ ~stream.stop
    /\ stream' = [stream EXCEPT !.stop = TRUE]
    /\ UNCHANGED <<requests, gpu>>

\* The request that is taken next, and the stream without it.
First == Head(stream.queue)
Without == [stream EXCEPT !.queue = Tail(@)]

\* A request taken after a stop submits nothing more; its result names the
\* newest fence.
CancelRequest ==
    /\ At("top") /\ stream.stop /\ stream.queue # <<>>
    /\ requests' = Settle(requests, First, Settled(FALSE, stream.last))
    /\ stream' = Without
    /\ UNCHANGED gpu

\* A terminal must name the passes recorded for it, a frame without any none.
Admissible == ~IsPrefix(First) => requests[First].joins = stream.prefix
AdmitRequest ==
    /\ At("top") /\ ~stream.stop /\ stream.queue # <<>> /\ Admissible
    /\ stream' = [Without EXCEPT !.pc = "record", !.active = First]
    /\ UNCHANGED <<requests, gpu>>

\* Passes refused, or a refusal that leaves passes without a terminal.
BreaksChain(r) == IsPrefix(r) \/ requests[r].joins # 0 \/ stream.prefix # 0
RefuseAtIntake ==
    /\ At("top") /\ ~stream.stop /\ stream.queue # <<>>
    /\ LET refused == Settle(requests, First, Cancelled)
       IN  IF BreaksChain(First)
           THEN FailStream(refused, Without)
           ELSE /\ requests' = refused
                /\ stream' = [Without EXCEPT
                      !.open = /\ Tail(stream.queue) # <<>>
                               /\ IsPrefix(stream.queue[Len(stream.queue)])]
    /\ UNCHANGED gpu

\* Recording, without the lock. It may fail before or after it submitted.
RecordRequest ==
    /\ At("record")
    /\ \E submits, ok \in BOOLEAN :
          /\ ok => submits
          /\ requests' = IF submits
                         THEN [requests EXCEPT ![stream.active].fence = stream.last + 1]
                         ELSE requests
          /\ stream' = [stream EXCEPT !.last = IF submits THEN @ + 1 ELSE @,
                                      !.outcome = ok, !.pc = "settle"]
    /\ UNCHANGED gpu

\* Back under the lock: passes are settled by their recording, a terminal
\* joins the frames to retire and is settled then, a failure at once.
SettleRequest ==
    /\ At("settle")
    /\ LET result == Settled(stream.outcome, stream.last)
           retires == stream.outcome /\ ~IsPrefix(stream.active)
           settled == IF retires THEN requests ELSE Settle(requests, stream.active, result)
       IN  IF stream.outcome
           THEN /\ requests' = settled
                /\ stream' = [stream EXCEPT
                      !.pc = "top", !.active = 0, !.prefix = IF IsPrefix(stream.active) THEN @ + 1 ELSE 0,
                      !.frames = IF retires THEN Append(@, stream.active) ELSE @]
           ELSE FailStream(settled, stream)
    /\ UNCHANGED gpu

LeaveLoop ==
    /\ At("top") /\ stream.stop /\ stream.queue = <<>>
    /\ stream' = [stream EXCEPT !.pc = "leave"]
    /\ UNCHANGED <<requests, gpu>>

\* Outside the loop the thread waits for the frames left; those whose fence
\* does not come are settled as failures that name it.
EndStream ==
    /\ At("leave")
    /\ stream.frames # <<>> => gpu.lost \/ gpu.fence < requests[Head(stream.frames)].fence
    /\ requests' = [r \in DOMAIN requests |->
          IF \E i \in DOMAIN stream.frames : stream.frames[i] = r
          THEN Settle(requests, r, Settled(FALSE, requests[r].fence))[r]
          ELSE requests[r]]
    /\ stream' = [stream EXCEPT !.pc = "ended", !.frames = <<>>]
    /\ UNCHANGED gpu

\* RequestDrawStreamStop: terminals that are not marked submitted are cancelled
\* by the caller, also the one that is being recorded.
Stoppable ==
    {r \in Queued(stream) \cup (IF stream.pc \in {"record", "settle"}
                                THEN {stream.active} ELSE {}) : ~IsPrefix(r)}
StopStream ==
    /\ ~stream.stop
    /\ requests' = SettleAll(requests, Stoppable, Cancelled)
    /\ stream' = [stream EXCEPT !.stop = TRUE]
    /\ UNCHANGED gpu

StreamNext ==
    \/ RetireFrame \/ SeeLoss \/ CancelRequest \/ AdmitRequest \/ RefuseAtIntake
    \/ RecordRequest \/ SettleRequest \/ LeaveLoop \/ EndStream

\* The GPU runs what was submitted in order, or the device is removed.
GpuCompletes ==
    /\ gpu.fence < stream.last /\ ~gpu.lost
    /\ gpu' = [gpu EXCEPT !.fence = @ + 1]
    /\ UNCHANGED <<requests, stream>>
DeviceLost ==
    /\ ~gpu.lost /\ gpu' = [gpu EXCEPT !.lost = TRUE]
    /\ UNCHANGED <<requests, stream>>

\* Its GPU work is done.
Finished(r) == requests[r].fence # 0 /\ gpu.fence >= requests[r].fence
=============================================================================
