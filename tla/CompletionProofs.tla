--------------------------- MODULE CompletionProofs ---------------------------
(***************************************************************************)
(* What NativeCompletion promises the ledger, for every set of pollers and  *)
(* marks, every depth and both modes, proved from an inductive invariant    *)
(* that joins the request stream's with the source's: a value that completes *)
(* has its GPU work behind it (the refinement of HostWork), and so has every *)
(* image that is shown.                                                     *)
(***************************************************************************)
EXTENDS NativeCompletion, SequenceTheorems, TLAPS

-----------------------------------------------------------------------------
(* The renderer's request stream (DrawStream): where a request is, and what a *)
(* settled result says of the GPU's work, for any number of requests.         *)

ElementsOf(q) == {q[i] : i \in DOMAIN q}
Frames == ElementsOf(stream.frames)
Fence(r) == requests[r].fence
SettledOk(r) == requests[r].result.settled /\ requests[r].result.ok
Distinct(q) == \A i, j \in DOMAIN q : q[i] = q[j] => i = j

\* A request is queued, being recorded, or among the frames to retire, in one
\* of them at a time, and its work is submitted only once it was recorded.
Placed ==
    /\ Queued(stream) \cup Frames \cup ({stream.active} \ {0}) \subseteq DOMAIN requests
    /\ stream.active # 0 <=> stream.pc \in {"record", "settle"}
    /\ Distinct(stream.queue)
    /\ Queued(stream) \cap Frames = {} /\ stream.active \notin Queued(stream) \cup Frames
    /\ \A r \in Queued(stream) : Fence(r) = 0
    /\ stream.pc = "record" => Fence(stream.active) = 0
    /\ stream.pc = "settle" /\ stream.outcome => Fence(stream.active) # 0
    /\ \A r \in Frames : Fence(r) # 0
    /\ \A r \in DOMAIN requests : Fence(r) <= stream.last

\* A kept promise is of submitted work, a terminal's of finished work; and only
\* a stop settles what is still queued.
Settlement ==
    /\ \A r \in DOMAIN requests : SettledOk(r) =>
          /\ Fence(r) # 0
          /\ ~IsPrefix(r) => gpu.fence >= Fence(r)
          /\ r \notin Queued(stream) \cup {stream.active}
    /\ \A r \in Queued(stream) : requests[r].result.settled => stream.stop

StreamInv == StreamType /\ Placed /\ Settlement

\* A failure that names no fence is of work that was never submitted; a stop
\* from outside is the exception.
FailedUnsubmitted ==
    \A r \in DOMAIN requests :
        requests[r].result.settled /\ ~requests[r].result.ok /\ requests[r].result.submitted = 0
            => Fence(r) = 0 /\ r # stream.active

\* What no step of the stream or the GPU takes back.
Keeps ==
    /\ DOMAIN requests \subseteq DOMAIN requests'
    /\ \A r \in DOMAIN requests :
          /\ requests'[r].kind = requests[r].kind
          /\ requests[r].result.settled => requests'[r].result = requests[r].result
          /\ Fence(r) # 0 => requests'[r].fence = Fence(r)
          /\ requests[r].result.settled /\ Fence(r) = 0 /\ r # stream.active =>
                requests'[r].fence = 0 /\ r # stream'.active
    /\ gpu'.fence >= gpu.fence

-----------------------------------------------------------------------------
(* Sequences of request numbers. *)

LEMMA EmptyElements == ElementsOf(<<>>) = {} /\ Distinct(<<>>)
BY DEF ElementsOf, Distinct

LEMMA TailElements ==
    ASSUME NEW q \in Seq(Nat), q # <<>>
    PROVE  /\ Head(q) \in ElementsOf(q) /\ ElementsOf(Tail(q)) \subseteq ElementsOf(q)
           /\ Distinct(q) => Distinct(Tail(q)) /\ Head(q) \notin ElementsOf(Tail(q))
<1>1. /\ Len(q) \in Nat /\ DOMAIN q = 1 .. Len(q) /\ Len(q) # 0 /\ Head(q) = q[1]
      /\ DOMAIN Tail(q) = 1 .. Len(q) - 1
      /\ \A i \in 1 .. Len(q) - 1 : Tail(q)[i] = q[i + 1]
    BY HeadTailProperties, LenProperties
<1>2. 1 \in DOMAIN q /\ \A i \in DOMAIN Tail(q) : i + 1 \in DOMAIN q /\ i + 1 # 1
    BY <1>1
<1>3. Head(q) \in ElementsOf(q)
    BY <1>1, <1>2 DEF ElementsOf
<1>4. \A i \in DOMAIN Tail(q) : Tail(q)[i] \in ElementsOf(q)
    BY <1>1, <1>2 DEF ElementsOf
<1>5. ASSUME Distinct(q) PROVE Distinct(Tail(q)) /\ Head(q) \notin ElementsOf(Tail(q))
  <2>1. ASSUME NEW i \in DOMAIN Tail(q), NEW j \in DOMAIN Tail(q), Tail(q)[i] = Tail(q)[j]
        PROVE  i = j
    <3>1. i + 1 = j + 1
      BY <1>1, <1>2, <1>5, <2>1 DEF Distinct
    <3> QED BY <1>1, <3>1
  <2>2. ASSUME NEW i \in DOMAIN Tail(q) PROVE Tail(q)[i] # Head(q)
    BY <1>1, <1>2, <1>5, <2>2 DEF Distinct
  <2> QED BY <2>1, <2>2 DEF Distinct, ElementsOf
<1> QED BY <1>3, <1>4, <1>5 DEF ElementsOf

LEMMA AppendElements ==
    ASSUME NEW q \in Seq(Nat), NEW n \in Nat
    PROVE  /\ ElementsOf(Append(q, n)) = ElementsOf(q) \cup {n}
           /\ Distinct(q) /\ n \notin ElementsOf(q) => Distinct(Append(q, n))
<1>1. /\ Len(q) \in Nat /\ DOMAIN q = 1 .. Len(q)
      /\ DOMAIN Append(q, n) = 1 .. Len(q) + 1
      /\ \A i \in 1 .. Len(q) : Append(q, n)[i] = q[i]
      /\ Append(q, n)[Len(q) + 1] = n
    BY AppendProperties, LenProperties
<1> QED BY <1>1 DEF ElementsOf, Distinct

-----------------------------------------------------------------------------
(* Settling. *)

LEMMA RequestTypes ==
    ASSUME StreamInv
    PROVE  /\ DOMAIN requests = 1 .. Len(requests) /\ Len(requests) \in Nat
           /\ \A r \in DOMAIN requests : requests[r] \in RequestStates /\ Fence(r) \in Nat
<1>1. /\ DOMAIN requests = 1 .. Len(requests) /\ Len(requests) \in Nat
      /\ \A r \in DOMAIN requests : requests[r] \in RequestStates
    BY LenProperties, ElementOfSeq DEF StreamInv, StreamType
<1> QED BY <1>1 DEF RequestStates, Fence

\* The requests of R that were not settled get their result, nothing else.
OnlySettles(R, res) ==
    /\ requests' \in Seq(RequestStates) /\ DOMAIN requests' = DOMAIN requests
    /\ \A q \in DOMAIN requests :
          /\ requests'[q].kind = requests[q].kind /\ requests'[q].joins = requests[q].joins
          /\ requests'[q].fence = requests[q].fence
          /\ requests'[q].result =
                IF q \in R /\ ~requests[q].result.settled THEN res[q] ELSE requests[q].result

LEMMA SettleTypes ==
    ASSUME NEW rs \in Seq(RequestStates), NEW r \in DOMAIN rs, NEW result \in Results
    PROVE  /\ Settle(rs, r, result) \in Seq(RequestStates)
           /\ DOMAIN Settle(rs, r, result) = DOMAIN rs
           /\ \A q \in DOMAIN rs : Settle(rs, r, result)[q] =
                 IF q = r /\ ~rs[q].result.settled THEN [rs[q] EXCEPT !.result = result] ELSE rs[q]
<1>1. DOMAIN rs = 1 .. Len(rs) /\ rs[r] \in RequestStates
    BY LenProperties, ElementOfSeq
<1>2. CASE rs[r].result.settled
    BY <1>2 DEF Settle
<1>3. CASE ~rs[r].result.settled
  <2>1. [rs[r] EXCEPT !.result = result] \in RequestStates
    BY <1>1 DEF RequestStates
  <2>2. Settle(rs, r, result) = [rs EXCEPT ![r] = [rs[r] EXCEPT !.result = result]]
    BY <1>3 DEF Settle
  <2> QED BY SMTT(30), <1>1, <1>3, <2>1, <2>2, ExceptSeq, LenProperties
<1> QED BY <1>2, <1>3

LEMMA SettleAllTypes ==
    ASSUME NEW rs \in Seq(RequestStates), NEW all, NEW result \in Results
    PROVE  /\ SettleAll(rs, all, result) \in Seq(RequestStates)
           /\ DOMAIN SettleAll(rs, all, result) = DOMAIN rs
           /\ \A q \in DOMAIN rs : SettleAll(rs, all, result)[q] =
                 IF q \in all /\ ~rs[q].result.settled
                 THEN [rs[q] EXCEPT !.result = result] ELSE rs[q]
<1>1. /\ Len(rs) \in Nat /\ DOMAIN rs = 1 .. Len(rs)
      /\ \A q \in DOMAIN rs : rs[q] \in RequestStates
    BY LenProperties, ElementOfSeq
<1>2. DOMAIN SettleAll(rs, all, result) = 1 .. Len(rs)
    BY <1>1 DEF SettleAll
<1>3. ASSUME NEW q \in DOMAIN rs
      PROVE  SettleAll(rs, all, result)[q] =
                IF q \in all /\ ~rs[q].result.settled
                THEN [rs[q] EXCEPT !.result = result] ELSE rs[q]
  <2>1. SettleAll(rs, all, result)[q] = IF q \in all THEN Settle(rs, q, result)[q] ELSE rs[q]
    BY DEF SettleAll
  <2> QED BY <2>1, SettleTypes
<1>4. \A q \in DOMAIN rs : SettleAll(rs, all, result)[q] \in RequestStates
    BY <1>1, <1>3 DEF RequestStates
<1>5. SettleAll(rs, all, result) \in [1 .. Len(rs) -> RequestStates]
    BY <1>1, <1>2, <1>4 DEF SettleAll
<1> QED BY <1>1, <1>2, <1>3, <1>5, SeqDef

\* How the stream may change while requests are settled: the queue and the
\* frames lose or exchange entries, the recording goes on or ends.
Rearranged(R, res) ==
    /\ stream' \in StreamStates /\ stream'.last = stream.last
    /\ Queued(stream') \subseteq Queued(stream) /\ Distinct(stream'.queue)
    /\ \/ stream'.active = stream.active /\ stream'.pc = stream.pc
          /\ stream'.outcome = stream.outcome
       \/ stream'.active = 0 /\ stream'.pc \notin {"record", "settle"}
    /\ \A r \in Frames' :
          r \in DOMAIN requests /\ Fence(r) # 0 /\ r \notin Queued(stream') \cup {stream'.active}
    /\ stream.stop => stream'.stop
    /\ \A r \in R : r \in Queued(stream') => stream'.stop
    /\ \A r \in R : r \in DOMAIN requests /\ res[r].ok =>
          /\ Fence(r) # 0 /\ (~IsPrefix(r) => gpu.fence >= Fence(r))
          /\ r \notin Queued(stream') \cup {stream'.active}

LEMMA ResettledInv ==
    ASSUME StreamInv, gpu' = gpu, NEW R, NEW res, OnlySettles(R, res), Rearranged(R, res)
    PROVE  StreamInv' /\ Keeps
<1> USE DEF StreamInv
<1>1. StreamType'
    BY DEF StreamType, OnlySettles, Rearranged
<1>2. \A r \in DOMAIN requests :
        Fence(r)' = Fence(r) /\ IsPrefix(r)' = IsPrefix(r)
    BY DEF OnlySettles, Fence, IsPrefix
<1>3. DOMAIN requests' = DOMAIN requests
    BY DEF OnlySettles
<1>4. Placed'
  <2>1. stream'.active # 0 => stream'.active = stream.active /\ stream'.pc = stream.pc
                              /\ stream'.outcome = stream.outcome
    BY DEF Rearranged
  <2>2. /\ Queued(stream') \subseteq DOMAIN requests /\ Frames' \subseteq DOMAIN requests
        /\ (stream'.active # 0 => stream'.active \in DOMAIN requests)
    BY <2>1 DEF Placed, Rearranged
  <2>3. stream'.active \notin Queued(stream') /\ stream'.active \notin Frames'
        /\ Queued(stream') \cap Frames' = {}
    <3>1. Queued(stream) \subseteq DOMAIN requests /\ 0 \notin DOMAIN requests
      BY LenProperties DEF Placed, StreamType
    <3> QED BY <2>1, <3>1 DEF Placed, Rearranged
  <2>4. stream'.active # 0 <=> stream'.pc \in {"record", "settle"}
    BY DEF Placed, Rearranged
  <2>5. /\ \A r \in Queued(stream') : Fence(r)' = 0
        /\ \A r \in Frames' : Fence(r)' # 0
    BY <1>2, <2>2 DEF Placed, Rearranged
  <2>6. /\ stream'.pc = "record" => Fence(stream.active)' = 0 /\ stream'.active = stream.active
        /\ stream'.pc = "settle" /\ stream'.outcome =>
              Fence(stream.active)' # 0 /\ stream'.active = stream.active
    BY <1>2, <2>1, <2>2, <2>4 DEF Placed
  <2>7. \A r \in DOMAIN requests' : Fence(r)' <= stream'.last
    BY <1>2, <1>3 DEF Placed, Rearranged
  <2> QED BY <1>3, <2>2, <2>3, <2>4, <2>5, <2>6, <2>7 DEF Placed, Fence, Rearranged
<1>5. Settlement'
  <2>1. ASSUME NEW r \in DOMAIN requests, SettledOk(r)'
        PROVE  /\ Fence(r) # 0 /\ (~IsPrefix(r) => gpu.fence >= Fence(r))
               /\ r \notin Queued(stream') \cup {stream'.active}
    <3>1. CASE r \in R /\ ~requests[r].result.settled
      BY <2>1, <3>1 DEF OnlySettles, SettledOk, Rearranged
    <3>2. CASE ~(r \in R /\ ~requests[r].result.settled)
      <4>1. SettledOk(r)
        BY <2>1, <3>2 DEF OnlySettles, SettledOk
      <4>2. r # 0
        BY LenProperties DEF StreamType
      <4> QED BY <4>1, <4>2 DEF Settlement, Rearranged
    <3> QED BY <3>1, <3>2
  <2>2. ASSUME NEW r \in Queued(stream'), requests'[r].result.settled
        PROVE  stream'.stop
    <3>1. r \in Queued(stream) /\ r \in DOMAIN requests
      BY DEF Rearranged, Placed
    <3>2. CASE r \in R
      BY <2>2, <3>2 DEF Rearranged
    <3>3. CASE r \notin R
      <4>1. requests[r].result.settled
        BY <2>2, <3>1, <3>3 DEF OnlySettles
      <4> QED BY <3>1, <4>1 DEF Settlement, Rearranged
    <3> QED BY <3>2, <3>3
  <2> QED BY <1>2, <1>3, <2>1, <2>2 DEF Settlement
<1>6. Keeps
  <2>1. \A r \in DOMAIN requests : r # stream.active => r # stream'.active
    BY LenProperties DEF Rearranged, StreamType
  <2> QED BY <1>2, <1>3, <2>1 DEF OnlySettles, Keeps, Fence, StreamType
<1> QED BY <1>1, <1>4, <1>5, <1>6

\* The same for the failures that name no fence.
LEMMA ResettledFailures ==
    ASSUME StreamInv, FailedUnsubmitted, gpu' = gpu, NEW R, NEW res,
           OnlySettles(R, res), Rearranged(R, res),
           \A r \in R : r \in DOMAIN requests /\ ~res[r].ok /\ res[r].submitted = 0 =>
                           Fence(r) = 0 /\ r # stream'.active
    PROVE  FailedUnsubmitted'
<1>1. DOMAIN requests' = DOMAIN requests /\ 0 \notin DOMAIN requests
    BY LenProperties DEF OnlySettles, StreamInv, StreamType
<1>2. ASSUME NEW r \in DOMAIN requests, requests'[r].result.settled, ~requests'[r].result.ok,
             requests'[r].result.submitted = 0
      PROVE  Fence(r)' = 0 /\ r # stream'.active
  <2>1. Fence(r)' = Fence(r)
    BY DEF OnlySettles, Fence
  <2>2. CASE r \in R /\ ~requests[r].result.settled
    BY <1>2, <2>1, <2>2 DEF OnlySettles
  <2>3. CASE ~(r \in R /\ ~requests[r].result.settled)
    <3>1. Fence(r) = 0 /\ r # stream.active
      BY <1>2, <2>3 DEF OnlySettles, FailedUnsubmitted
    <3> QED BY <1>1, <2>1, <3>1 DEF Rearranged
  <2> QED BY <2>2, <2>3
<1> QED BY <1>1, <1>2 DEF FailedUnsubmitted

-----------------------------------------------------------------------------
(* The actions. *)

StreamKept == StreamInv' /\ Keeps /\ (FailedUnsubmitted => FailedUnsubmitted')

\* One request is settled by Settle, a set by SettleAll.
LEMMA SettlesOne ==
    ASSUME StreamInv, NEW r \in DOMAIN requests, NEW result \in Results,
           requests' = Settle(requests, r, result)
    PROVE  OnlySettles({r}, [q \in DOMAIN requests |-> result])
<1>1. \A q \in DOMAIN requests : requests[q] \in RequestStates
    BY LenProperties, ElementOfSeq DEF StreamInv, StreamType
<1>2. \A q \in DOMAIN requests :
        LET s == [requests[q] EXCEPT !.result = result]
        IN  /\ s.kind = requests[q].kind /\ s.joins = requests[q].joins
            /\ s.fence = requests[q].fence /\ s.result = result
    BY <1>1 DEF RequestStates
<1>3. /\ requests' \in Seq(RequestStates) /\ DOMAIN requests' = DOMAIN requests
      /\ \A q \in DOMAIN requests : requests'[q] =
            IF q = r /\ ~requests[q].result.settled
            THEN [requests[q] EXCEPT !.result = result] ELSE requests[q]
    BY SettleTypes DEF StreamInv, StreamType
<1> QED BY ZenonT(30), <1>2, <1>3 DEF OnlySettles

LEMMA SettlesAll ==
    ASSUME StreamInv, NEW all, NEW result \in Results,
           requests' = SettleAll(requests, all, result)
    PROVE  OnlySettles(all, [q \in DOMAIN requests |-> result])
<1>1. \A q \in DOMAIN requests : requests[q] \in RequestStates
    BY LenProperties, ElementOfSeq DEF StreamInv, StreamType
<1>2. \A q \in DOMAIN requests :
        LET s == [requests[q] EXCEPT !.result = result]
        IN  /\ s.kind = requests[q].kind /\ s.joins = requests[q].joins
            /\ s.fence = requests[q].fence /\ s.result = result
    BY <1>1 DEF RequestStates
<1>3. /\ requests' \in Seq(RequestStates) /\ DOMAIN requests' = DOMAIN requests
      /\ \A q \in DOMAIN requests : requests'[q] =
            IF q \in all /\ ~requests[q].result.settled
            THEN [requests[q] EXCEPT !.result = result] ELSE requests[q]
    BY SettleAllTypes DEF StreamInv, StreamType
<1> QED BY <1>2, <1>3 DEF OnlySettles

LEMMA SettlesNone ==
    ASSUME StreamInv, requests' = requests PROVE OnlySettles({}, <<>>)
BY DEF OnlySettles, StreamInv, StreamType

\* A settling step that fails what it settles, or cancels what is queued.
LEMMA KeptBySettling ==
    ASSUME StreamInv, gpu' = gpu, NEW R, NEW res, OnlySettles(R, res), Rearranged(R, res),
           \A r \in R : r \in DOMAIN requests /\ ~res[r].ok /\ res[r].submitted = 0 =>
                           Fence(r) = 0 /\ r # stream'.active
    PROVE  StreamKept
BY ResettledInv, ResettledFailures DEF StreamKept

\* What is queued when the stream fails was never submitted, nor is it active.
LEMMA QueuedUnsubmitted ==
    ASSUME StreamInv
    PROVE  \A r \in Queued(stream) :
              r \in DOMAIN requests /\ Fence(r) = 0 /\ r # 0 /\ r # stream.active
BY LenProperties DEF StreamInv, StreamType, Placed

LEMMA SettledResults ==
    ASSUME NEW ok \in BOOLEAN, NEW n \in Nat
    PROVE  Settled(ok, n) \in Results /\ Settled(ok, n).ok = ok /\ Settled(ok, n).submitted = n
BY DEF Settled, Results

LEMMA LoopKept ==
    ASSUME StreamInv, SeeLoss \/ LeaveLoop PROVE StreamKept
<1>1. stream'.queue = stream.queue /\ stream'.frames = stream.frames /\ stream' \in StreamStates
      /\ stream'.last = stream.last /\ stream'.active = stream.active
      /\ (stream.stop => stream'.stop) /\ stream'.outcome = stream.outcome
    BY ZenonT(30) DEF SeeLoss, LeaveLoop, StreamInv, StreamType, StreamStates, StreamPhases
<1>2. stream'.pc \in {"top", "leave"} /\ stream.pc = "top" /\ stream.active = 0
    BY DEF SeeLoss, LeaveLoop, StreamInv, StreamType, StreamStates, Placed, At
<1>3. Rearranged({}, <<>>)
    BY <1>1, <1>2 DEF Rearranged, StreamInv, Placed, Queued, Frames, ElementsOf
<1> QED BY <1>3, SettlesNone, KeptBySettling DEF SeeLoss, LeaveLoop

LEMMA CancelKept ==
    ASSUME StreamInv, CancelRequest PROVE StreamKept
<1> DEFINE result == Settled(FALSE, stream.last)
           res == [q \in DOMAIN requests |-> result]
<1>1. stream \in StreamStates /\ stream.queue \in Seq(Nat) /\ stream.last \in Nat
    BY DEF StreamInv, StreamType, StreamStates
<1>2. First \in Queued(stream) /\ First \in DOMAIN requests /\ Fence(First) = 0
      /\ Queued(Without) \subseteq Queued(stream) /\ Distinct(Without.queue)
      /\ First \notin Queued(Without)
    BY <1>1, TailElements, QueuedUnsubmitted
    DEF CancelRequest, First, Without, Queued, ElementsOf, StreamInv, Placed, StreamStates
<1>3. Without \in StreamStates /\ Without.last = stream.last /\ Without.frames = stream.frames
      /\ Without.active = stream.active /\ Without.pc = stream.pc /\ Without.stop = stream.stop
      /\ Without.outcome = stream.outcome
    BY <1>1, HeadTailProperties DEF CancelRequest, Without, StreamStates
<1>4. result \in Results /\ result.ok = FALSE /\ result.submitted = stream.last
    BY <1>1, SettledResults
<1>5. OnlySettles({First}, res)
    BY <1>2, <1>4, SettlesOne DEF CancelRequest
<1>6. Rearranged({First}, res)
  <2>1. stream' = Without /\ stream.stop
    BY DEF CancelRequest
  <2>2. res[First].ok = FALSE
    BY <1>2, <1>4
  <2>3. Frames' = Frames /\ \A r \in Frames :
          r \in DOMAIN requests /\ Fence(r) # 0 /\ r \notin Queued(stream) \cup {stream.active}
    BY <1>3, <2>1 DEF Frames, StreamInv, Placed
  <2> HIDE DEF res
  <2> QED BY <1>2, <1>3, <2>1, <2>2, <2>3 DEF Rearranged
<1>7. First # stream'.active
    BY <1>2, <1>3 DEF CancelRequest, StreamInv, Placed
<1> QED BY <1>2, <1>5, <1>6, <1>7, KeptBySettling DEF CancelRequest

LEMMA RetireKept ==
    ASSUME StreamInv, RetireFrame PROVE StreamKept
<1>1. stream \in StreamStates /\ stream.frames \in Seq(Nat) /\ stream.frames # <<>>
      /\ gpu \in [fence : Nat, lost : BOOLEAN]
    BY DEF StreamInv, StreamType, StreamStates, RetireFrame
<1> DEFINE r == Head(stream.frames)
<1>2. r \in Frames /\ ElementsOf(Tail(stream.frames)) \subseteq Frames
    BY <1>1, TailElements DEF Frames
<1>3. r \in DOMAIN requests /\ Fence(r) # 0 /\ r \notin Queued(stream) /\ r # stream.active
    BY <1>2 DEF StreamInv, Placed
<1>4. Fence(r) \in Nat
  <2>1. requests[r] \in RequestStates
    BY <1>3, LenProperties, ElementOfSeq DEF StreamInv, StreamType
  <2> QED BY <2>1 DEF RequestStates, Fence
<1>5. stream.active = 0 /\ stream.pc \notin {"record", "settle"}
    BY DEF RetireFrame, StreamInv, Placed
<1>6. PICK ok \in BOOLEAN :
          /\ requests' = Settle(requests, r, Settled(ok, Fence(r)))
          /\ stream' = [stream EXCEPT !.frames = Tail(@), !.stop = @ \/ ~ok]
    BY DEF RetireFrame, Fence
<1> DEFINE res == [q \in DOMAIN requests |-> Settled(ok, Fence(r))]
<1>7. OnlySettles({r}, res)
    BY <1>3, <1>4, <1>6, SettledResults, SettlesOne
<1>8. /\ stream'.queue = stream.queue /\ stream'.frames = Tail(stream.frames)
      /\ stream'.last = stream.last /\ stream'.active = 0 /\ stream'.pc = stream.pc
      /\ (stream.stop => stream'.stop)
    BY <1>1, <1>5, <1>6 DEF StreamStates
<1>9. stream' \in StreamStates
  <2>1. Tail(stream.frames) \in Seq(Nat)
    BY <1>1, HeadTailProperties
  <2>2. \A st \in BOOLEAN : [stream EXCEPT !.frames = Tail(stream.frames), !.stop = st] \in StreamStates
    BY <1>1, <2>1 DEF StreamStates
  <2>3. (stream.stop \/ ~ok) \in BOOLEAN
    OBVIOUS
  <2> QED BY <1>6, <2>2, <2>3
<1>10. \A q \in Frames' : q \in Frames
    BY <1>2, <1>8 DEF Frames
<1>11. Rearranged({r}, res)
    BY <1>3, <1>4, <1>5, <1>8, <1>9, <1>10
    DEF RetireFrame, Rearranged, StreamInv, Placed, Queued, Fence, Settled
<1>12. gpu' = gpu /\ res[r].submitted = Fence(r)
    BY <1>3, <1>4 DEF RetireFrame, Settled
<1> QED BY <1>3, <1>7, <1>11, <1>12, KeptBySettling

\* Outside the loop, the frames left are failed, each naming its fence.
LEMMA EndKept ==
    ASSUME StreamInv, EndStream PROVE StreamKept
<1> DEFINE res == [q \in DOMAIN requests |-> Settled(FALSE, Fence(q))]
<1>1. /\ stream \in StreamStates /\ requests \in Seq(RequestStates) /\ stream.active = 0
      /\ gpu' = gpu
      /\ stream' = [stream EXCEPT !.pc = "ended", !.frames = <<>>]
    BY DEF StreamInv, StreamType, StreamStates, Placed, EndStream, At
<1>2. /\ Len(requests) \in Nat /\ DOMAIN requests = 1 .. Len(requests)
      /\ \A q \in DOMAIN requests : requests[q] \in RequestStates
    BY <1>1, LenProperties, ElementOfSeq
<1>3. \A q \in DOMAIN requests : res[q] \in Results /\ ~res[q].ok /\ res[q].submitted = Fence(q)
    BY <1>2 DEF RequestStates, Results, Settled, Fence
<1>4. \A q \in DOMAIN requests : requests'[q] =
        IF q \in Frames /\ ~requests[q].result.settled
        THEN [requests[q] EXCEPT !.result = res[q]] ELSE requests[q]
  <2>1. ASSUME NEW q \in DOMAIN requests
        PROVE  requests'[q] = IF q \in Frames
                              THEN Settle(requests, q, Settled(FALSE, requests[q].fence))[q]
                              ELSE requests[q]
    BY DEF EndStream, Frames, ElementsOf
  <2>2. ASSUME NEW q \in DOMAIN requests
        PROVE  Settle(requests, q, Settled(FALSE, requests[q].fence))[q] =
                  IF ~requests[q].result.settled
                  THEN [requests[q] EXCEPT !.result = res[q]] ELSE requests[q]
    <3>1. res[q] = Settled(FALSE, requests[q].fence) /\ res[q] \in Results
      BY <1>3 DEF Fence
    <3>2. \A x \in Results : Settle(requests, q, x)[q] =
             IF ~requests[q].result.settled
             THEN [requests[q] EXCEPT !.result = x] ELSE requests[q]
      BY <1>1, SettleTypes
    <3> HIDE DEF res
    <3> QED BY <3>1, <3>2
  <2> QED BY <2>1, <2>2
<1>5. \A q \in DOMAIN requests :
        LET s == [requests[q] EXCEPT !.result = res[q]]
        IN  /\ s.kind = requests[q].kind /\ s.joins = requests[q].joins
            /\ s.fence = requests[q].fence /\ s.result = res[q] /\ s \in RequestStates
  <2> HIDE DEF res
  <2> QED BY <1>2, <1>3 DEF RequestStates
<1> HIDE DEF res
<1>6. DOMAIN requests' = DOMAIN requests
    BY DEF EndStream
<1>7. requests' \in Seq(RequestStates)
  <2>1. \A q \in DOMAIN requests : requests'[q] \in RequestStates
    BY <1>2, <1>4, <1>5
  <2>2. requests' \in [1 .. Len(requests) -> RequestStates]
    BY <1>2, <2>1 DEF EndStream
  <2> QED BY <1>2, <2>2, SeqDef
<1>8. OnlySettles(Frames, res)
    BY <1>4, <1>5, <1>6, <1>7 DEF OnlySettles
<1>9. /\ stream' \in StreamStates /\ stream'.last = stream.last /\ stream'.active = 0
      /\ stream'.queue = stream.queue /\ stream'.frames = <<>> /\ stream'.pc = "ended"
      /\ stream'.stop = stream.stop
  <2>1. <<>> \in Seq(Nat) /\ "ended" \in StreamPhases
    BY DEF StreamPhases
  <2> QED BY <1>1, <2>1 DEF StreamStates
<1>10. Frames' = {}
    BY <1>9, EmptyElements DEF Frames
<1>11. Rearranged(Frames, res)
    BY <1>3, <1>9, <1>10 DEF Rearranged, StreamInv, Placed, Queued
<1>12. \A q \in Frames : Fence(q) # 0 /\ q \in DOMAIN requests
    BY DEF StreamInv, Placed
<1> QED BY <1>1, <1>3, <1>8, <1>11, <1>12, KeptBySettling

\* One request fails, and with it the stream: what is still queued fails too.
LEMMA FailKept ==
    ASSUME StreamInv, gpu' = gpu, NEW s \in StreamStates, s.last = stream.last,
           s.frames = stream.frames, Queued(s) \subseteq Queued(stream),
           NEW r \in DOMAIN requests, r \notin Queued(s),
           NEW result \in Results, ~result.ok, result.submitted = 0 => Fence(r) = 0,
           FailStream(Settle(requests, r, result), s)
    PROVE  StreamKept
<1> DEFINE failed == Settled(FALSE, s.last)
           res == [q \in DOMAIN requests |-> IF q = r THEN result ELSE failed]
           rs == Settle(requests, r, result)
           R == Queued(s) \cup {r}
<1>1. /\ requests \in Seq(RequestStates)
      /\ \A q \in DOMAIN requests : requests[q] \in RequestStates
      /\ 0 \notin DOMAIN requests
    BY LenProperties, ElementOfSeq DEF StreamInv, StreamType
<1>2. failed \in Results /\ ~failed.ok
    BY SettledResults DEF StreamStates
<1>3. /\ rs \in Seq(RequestStates) /\ DOMAIN rs = DOMAIN requests
      /\ \A q \in DOMAIN requests : rs[q] =
            IF q = r /\ ~requests[q].result.settled
            THEN [requests[q] EXCEPT !.result = result] ELSE requests[q]
    BY <1>1, SettleTypes
<1>4. /\ requests' \in Seq(RequestStates) /\ DOMAIN requests' = DOMAIN requests
      /\ \A q \in DOMAIN requests : requests'[q] =
            IF q \in Queued(s) /\ ~rs[q].result.settled
            THEN [rs[q] EXCEPT !.result = failed] ELSE rs[q]
  <2> HIDE DEF rs, failed
  <2>1. requests' = SettleAll(rs, Queued(s), failed)
    BY DEF FailStream, rs, failed
  <2> QED BY <1>2, <1>3, <2>1, SettleAllTypes
<1>5. \A q \in DOMAIN requests : \A x \in {result, failed} :
        LET e == [requests[q] EXCEPT !.result = x]
        IN  /\ e.kind = requests[q].kind /\ e.joins = requests[q].joins
            /\ e.fence = requests[q].fence /\ e.result = x
    BY <1>1 DEF RequestStates
<1>6. \A q \in DOMAIN requests : requests'[q] =
        IF q \in R /\ ~requests[q].result.settled
        THEN [requests[q] EXCEPT !.result = res[q]] ELSE requests[q]
  <2> SUFFICES ASSUME NEW q \in DOMAIN requests
               PROVE  requests'[q] = IF q \in R /\ ~requests[q].result.settled
                                     THEN [requests[q] EXCEPT !.result = res[q]] ELSE requests[q]
    OBVIOUS
  <2> HIDE DEF rs, failed
  <2>1. CASE q = r
    BY <1>3, <1>4, <2>1
  <2>2. CASE q # r
    BY <1>3, <1>4, <2>2
  <2> QED BY <2>1, <2>2
<1>7. \A q \in DOMAIN requests : res[q] \in {result, failed} /\ ~res[q].ok
    BY <1>2
<1>8. res[r] = result
    OBVIOUS
<1> HIDE DEF res, rs, failed
<1>9. OnlySettles(R, res)
  <2>1. ASSUME NEW q \in DOMAIN requests
        PROVE  /\ requests'[q].kind = requests[q].kind /\ requests'[q].joins = requests[q].joins
               /\ requests'[q].fence = requests[q].fence
               /\ requests'[q].result = IF q \in R /\ ~requests[q].result.settled
                                        THEN res[q] ELSE requests[q].result
    <3>1. CASE q \in R /\ ~requests[q].result.settled
      <4>1. requests'[q] = [requests[q] EXCEPT !.result = res[q]]
        BY <1>6, <3>1
      <4> QED BY <1>5, <1>7, <3>1, <4>1
    <3>2. CASE ~(q \in R /\ ~requests[q].result.settled)
      <4>1. requests'[q] = requests[q]
        BY <1>6, <3>2
      <4> QED BY <3>2, <4>1
    <3> QED BY <3>1, <3>2
  <2> QED BY <1>4, <2>1 DEF OnlySettles
<1>10. /\ stream' \in StreamStates /\ stream'.last = stream.last /\ stream'.active = 0
       /\ stream'.queue = <<>> /\ stream'.frames = stream.frames /\ stream'.pc = "leave"
       /\ stream'.stop
  <2>1. <<>> \in Seq(Nat) /\ "leave" \in StreamPhases
    BY DEF StreamPhases
  <2> QED BY <2>1 DEF FailStream, StreamStates
<1>11. Queued(stream') = {} /\ Distinct(stream'.queue) /\ Frames' = Frames
    BY <1>10, EmptyElements DEF Queued, Frames, ElementsOf
<1>12. R \subseteq DOMAIN requests /\ \A q \in R : Fence(q) = 0 \/ q = r
    BY DEF StreamInv, Placed
<1>13. \A q \in Frames : q \in DOMAIN requests /\ Fence(q) # 0
    BY DEF StreamInv, Placed
<1>14. Rearranged(R, res)
    BY <1>1, <1>7, <1>10, <1>11, <1>12, <1>13 DEF Rearranged
<1>15. \A q \in R : q \in DOMAIN requests /\ ~res[q].ok /\ res[q].submitted = 0 =>
                           Fence(q) = 0 /\ q # stream'.active
    BY <1>1, <1>8, <1>10, <1>12
<1> QED BY <1>9, <1>14, <1>15, KeptBySettling

LEMMA RefuseAtIntakeKept ==
    ASSUME StreamInv, RefuseAtIntake PROVE StreamKept
<1>1. stream \in StreamStates /\ stream.queue \in Seq(Nat) /\ stream.last \in Nat
    BY DEF StreamInv, StreamType, StreamStates
<1>2. First \in Queued(stream) /\ First \in DOMAIN requests /\ Fence(First) = 0
      /\ Queued(Without) \subseteq Queued(stream) /\ Distinct(Without.queue)
      /\ First \notin Queued(Without)
    BY <1>1, TailElements, QueuedUnsubmitted
    DEF RefuseAtIntake, First, Without, Queued, ElementsOf, StreamInv, Placed, StreamStates
<1>3. Without \in StreamStates /\ Without.last = stream.last /\ Without.frames = stream.frames
      /\ Without.active = stream.active /\ Without.pc = stream.pc /\ Without.stop = stream.stop
      /\ Without.outcome = stream.outcome
    BY <1>1, HeadTailProperties DEF RefuseAtIntake, Without, StreamStates
<1>4. Cancelled \in Results /\ Cancelled.ok = FALSE /\ Cancelled.submitted = 0
    BY SettledResults DEF Cancelled
<1>5. stream.active = 0 /\ gpu' = gpu
    BY DEF RefuseAtIntake, At, StreamInv, Placed
<1>6. CASE BreaksChain(First)
  <2>1. FailStream(Settle(requests, First, Cancelled), Without)
    BY <1>6 DEF RefuseAtIntake
  <2> QED BY <1>2, <1>3, <1>4, <1>5, <2>1, FailKept
<1>7. CASE ~BreaksChain(First)
  <2> DEFINE res == [q \in DOMAIN requests |-> Cancelled]
             opens == Tail(stream.queue) # <<>> /\ IsPrefix(stream.queue[Len(stream.queue)])
  <2>1. requests' = Settle(requests, First, Cancelled)
        /\ stream' = [Without EXCEPT !.open = opens]
    BY <1>7 DEF RefuseAtIntake
  <2>2. OnlySettles({First}, res)
    BY <1>2, <1>4, <2>1, SettlesOne
  <2>3. res[First] = Cancelled
    BY <1>2
  <2> HIDE DEF res
  <2>4. opens \in BOOLEAN
    OBVIOUS
  <2> HIDE DEF opens
  <2>5. /\ stream' \in StreamStates /\ stream'.last = stream.last /\ stream'.active = 0
        /\ stream'.pc = stream.pc /\ stream'.outcome = stream.outcome
        /\ stream'.queue = Without.queue /\ stream'.frames = stream.frames
        /\ stream'.stop = stream.stop
    BY <1>3, <1>5, <2>1, <2>4 DEF StreamStates
  <2>6. Queued(stream') = Queued(Without) /\ Frames' = Frames
    BY <2>5 DEF Queued, Frames
  <2>7. \A r \in Frames :
          r \in DOMAIN requests /\ Fence(r) # 0 /\ r \notin Queued(stream) \cup {0}
    BY <1>5 DEF StreamInv, Placed
  <2>8. Rearranged({First}, res)
    BY <1>2, <1>4, <1>5, <2>3, <2>5, <2>6, <2>7 DEF Rearranged
  <2> QED BY <1>2, <1>5, <2>2, <2>5, <2>8, QueuedUnsubmitted, KeptBySettling
<1> QED BY <1>6, <1>7

LEMMA SettleRequestKept ==
    ASSUME StreamInv, SettleRequest PROVE StreamKept
<1> DEFINE r == stream.active
           result == Settled(stream.outcome, stream.last)
<1>1. /\ stream \in StreamStates /\ stream.last \in Nat /\ stream.outcome \in BOOLEAN
      /\ r \in Nat /\ stream.prefix \in Nat /\ stream.frames \in Seq(Nat)
      /\ gpu' = gpu /\ stream.pc = "settle"
    BY DEF StreamInv, StreamType, StreamStates, SettleRequest, At
<1>2. /\ r \in DOMAIN requests /\ r # 0 /\ r \notin Queued(stream) /\ r \notin Frames
      /\ (stream.outcome => Fence(r) # 0) /\ Fence(r) <= stream.last
    BY <1>1 DEF StreamInv, Placed
<1>3. requests[r] \in RequestStates
    BY <1>2, ElementOfSeq, LenProperties DEF StreamInv, StreamType
<1>4. result \in Results /\ result.ok = stream.outcome /\ result.submitted = stream.last
    BY <1>1, SettledResults
<1>5. CASE ~stream.outcome
  <2>1. FailStream(Settle(requests, r, result), stream)
    BY <1>5 DEF SettleRequest
  <2>2. result.submitted = 0 => Fence(r) = 0
    BY <1>2, <1>3, <1>4 DEF Fence, RequestStates
  <2> QED BY <1>1, <1>2, <1>4, <1>5, <2>1, <2>2, FailKept
<1>6. CASE stream.outcome
  <2> DEFINE passes == IF IsPrefix(r) THEN stream.prefix + 1 ELSE 0
             frames == IF ~IsPrefix(r) THEN Append(stream.frames, r) ELSE stream.frames
             R == IF IsPrefix(r) THEN {r} ELSE {}
             res == [q \in DOMAIN requests |-> result]
  <2>1. /\ requests' = IF IsPrefix(r) THEN Settle(requests, r, result) ELSE requests
        /\ stream' = [stream EXCEPT !.pc = "top", !.active = 0, !.prefix = passes,
                                    !.frames = frames]
    BY <1>6 DEF SettleRequest
  <2>2. OnlySettles(R, res)
    <3>1. CASE IsPrefix(r)
      BY <1>2, <1>4, <2>1, <3>1, SettlesOne
    <3>2. CASE ~IsPrefix(r)
      BY <2>1, <3>2 DEF OnlySettles, StreamInv, StreamType
    <3> QED BY <3>1, <3>2
  <2>3. frames \in Seq(Nat) /\ ElementsOf(frames) \subseteq Frames \cup {r}
    BY <1>1, AppendElements, AppendProperties DEF Frames
  <2>4. passes \in Nat /\ "top" \in StreamPhases
    BY <1>1 DEF StreamPhases
  <2>5. res[r] = result /\ (r \in R => IsPrefix(r)) /\ R \subseteq {r}
    BY <1>2
  <2> HIDE DEF passes, frames, R, res
  <2>6. /\ stream' \in StreamStates /\ stream'.last = stream.last /\ stream'.active = 0
        /\ stream'.queue = stream.queue /\ stream'.frames = frames /\ stream'.pc = "top"
        /\ stream'.stop = stream.stop
    BY <1>1, <2>1, <2>3, <2>4 DEF StreamStates
  <2>7. Queued(stream') = Queued(stream) /\ Frames' \subseteq Frames \cup {r}
    BY <2>3, <2>6 DEF Queued, Frames
  <2>8. \A q \in Frames' :
          q \in DOMAIN requests /\ Fence(q) # 0 /\ q \notin Queued(stream) \cup {0}
    BY <1>2, <1>6, <2>7, LenProperties DEF StreamInv, StreamType, Placed
  <2>9. Distinct(stream'.queue) /\ "top" \notin {"record", "settle"}
    BY <2>6 DEF StreamInv, Placed
  <2>10. Rearranged(R, res)
    BY <1>2, <1>4, <1>6, <2>5, <2>6, <2>7, <2>8, <2>9 DEF Rearranged
  <2>11. \A q \in R : q \in DOMAIN requests /\ res[q].ok
    BY <1>2, <1>4, <1>6, <2>5
  <2> QED BY <1>1, <2>2, <2>10, <2>11, KeptBySettling
<1> QED BY <1>1, <1>5, <1>6

\* The caller's refusal of a request that does not fit.
LEMMA RefuseRequestKept ==
    ASSUME StreamInv, NEW kind, NEW joins, RefuseRequest(kind, joins) PROVE StreamKept
<1> DEFINE failed == Settled(FALSE, stream.last)
           res == [q \in DOMAIN requests |-> failed]
<1>1. /\ stream \in StreamStates /\ stream.last \in Nat /\ gpu' = gpu
      /\ failed \in Results /\ ~failed.ok
    BY SettledResults DEF StreamInv, StreamType, StreamStates, RefuseRequest
<1>2. CASE stream.open \/ joins # 0
  <2>1. /\ requests' = SettleAll(requests, Queued(stream), failed)
        /\ stream' = [stream EXCEPT !.stop = TRUE, !.queue = <<>>]
    BY <1>2 DEF RefuseRequest
  <2>2. OnlySettles(Queued(stream), res)
    BY <1>1, <2>1, SettlesAll
  <2>3. \A q \in Queued(stream) : q \in DOMAIN requests /\ ~res[q].ok
    BY <1>1, QueuedUnsubmitted
  <2> HIDE DEF res, failed
  <2>4. /\ stream' \in StreamStates /\ stream'.last = stream.last
        /\ stream'.active = stream.active /\ stream'.pc = stream.pc
        /\ stream'.outcome = stream.outcome /\ stream'.queue = <<>>
        /\ stream'.frames = stream.frames /\ stream'.stop
    <3>1. <<>> \in Seq(Nat)
      OBVIOUS
    <3> QED BY <1>1, <2>1, <3>1 DEF StreamStates
  <2>5. Queued(stream') = {} /\ Distinct(stream'.queue) /\ Frames' = Frames
    BY <2>4, EmptyElements DEF Queued, Frames, ElementsOf
  <2>6. \A q \in Frames : q \in DOMAIN requests /\ Fence(q) # 0 /\ q # stream.active
    BY DEF StreamInv, Placed
  <2>7. Rearranged(Queued(stream), res)
    BY <2>3, <2>4, <2>5, <2>6 DEF Rearranged
  <2> QED BY <1>1, <2>2, <2>4, <2>7, QueuedUnsubmitted, KeptBySettling
<1>3. CASE ~(stream.open \/ joins # 0)
  <2>1. stream' = stream /\ requests' = requests
    BY <1>3 DEF RefuseRequest
  <2>2. Rearranged({}, <<>>)
    BY <1>1, <2>1 DEF Rearranged, StreamInv, Placed, Frames
  <2> QED BY <1>1, <2>1, <2>2, SettlesNone, KeptBySettling
<1> QED BY <1>2, <1>3

\* A stop from outside also cancels the terminal that is being recorded, whose
\* result names no fence although its work may be submitted.
LEMMA StopKept ==
    ASSUME StreamInv, StopStream PROVE StreamInv' /\ Keeps
<1> DEFINE res == [q \in DOMAIN requests |-> Cancelled]
<1>1. /\ stream \in StreamStates /\ gpu' = gpu
      /\ requests' = SettleAll(requests, Stoppable, Cancelled)
      /\ stream' = [stream EXCEPT !.stop = TRUE]
    BY DEF StreamInv, StreamType, StopStream
<1>2. Cancelled \in Results /\ ~Cancelled.ok
    BY SettledResults DEF Cancelled
<1>3. OnlySettles(Stoppable, res)
    BY <1>1, <1>2, SettlesAll
<1>4. \A q \in Stoppable : q \in DOMAIN requests
    BY DEF Stoppable, StreamInv, Placed
<1>5. \A q \in Stoppable : ~res[q].ok
    BY <1>2, <1>4
<1> HIDE DEF res
<1>6. /\ stream' \in StreamStates /\ stream'.last = stream.last
      /\ stream'.active = stream.active /\ stream'.pc = stream.pc
      /\ stream'.outcome = stream.outcome /\ stream'.queue = stream.queue
      /\ stream'.frames = stream.frames /\ stream'.stop
    BY <1>1 DEF StreamStates
<1>7. Queued(stream') = Queued(stream) /\ Frames' = Frames
    BY <1>6 DEF Queued, Frames
<1>8. \A q \in Frames :
        q \in DOMAIN requests /\ Fence(q) # 0 /\ q \notin Queued(stream) \cup {stream.active}
    BY DEF StreamInv, Placed
<1>9. Distinct(stream'.queue)
    BY <1>6 DEF StreamInv, Placed
<1>10. Rearranged(Stoppable, res)
    BY <1>4, <1>5, <1>6, <1>7, <1>8, <1>9 DEF Rearranged
<1> QED BY <1>1, <1>3, <1>10, ResettledInv

LEMMA GpuKept ==
    ASSUME StreamInv, GpuCompletes \/ DeviceLost PROVE StreamKept
<1>1. /\ requests' = requests /\ stream' = stream /\ gpu' \in [fence : Nat, lost : BOOLEAN]
      /\ gpu'.fence >= gpu.fence /\ gpu.fence \in Nat /\ gpu'.fence \in Nat
  <2>1. gpu \in [fence : Nat, lost : BOOLEAN] /\ gpu.fence \in Nat
    BY DEF StreamInv, StreamType
  <2>2. CASE GpuCompletes
    BY <2>1, <2>2 DEF GpuCompletes
  <2>3. CASE DeviceLost
    <3>1. gpu' = [gpu EXCEPT !.lost = TRUE] /\ requests' = requests /\ stream' = stream
      BY <2>3 DEF DeviceLost
    <3>2. \A b \in BOOLEAN : /\ [gpu EXCEPT !.lost = b] \in [fence : Nat, lost : BOOLEAN]
                            /\ [gpu EXCEPT !.lost = b].fence = gpu.fence
      BY <2>1
    <3>3. TRUE \in BOOLEAN
      OBVIOUS
    <3>4. gpu' \in [fence : Nat, lost : BOOLEAN] /\ gpu'.fence = gpu.fence
      BY <3>1, <3>2, <3>3
    <3> QED BY <2>1, <3>1, <3>4
  <2> QED BY <2>2, <2>3
<1>2. \A q \in DOMAIN requests : requests[q] \in RequestStates /\ Fence(q) \in Nat
    BY RequestTypes
<1>3. StreamType' /\ Placed'
    BY <1>1 DEF StreamInv, StreamType, Placed, Frames, Fence
<1>4. Settlement'
    BY <1>1, <1>2 DEF StreamInv, Settlement, SettledOk, Fence, IsPrefix
<1>5. Keeps
    BY <1>1 DEF Keeps, Fence
<1>6. FailedUnsubmitted => FailedUnsubmitted'
    BY <1>1 DEF FailedUnsubmitted, Fence
<1> QED BY <1>3, <1>4, <1>5, <1>6 DEF StreamInv, StreamKept

\* Only a stop settles what is queued, so an admitted request is unsettled.
LEMMA AdmitKept ==
    ASSUME StreamInv, AdmitRequest PROVE StreamKept
<1>1. stream \in StreamStates /\ stream.queue \in Seq(Nat) /\ stream.queue # <<>>
      /\ requests' = requests /\ gpu' = gpu /\ stream.pc = "top" /\ stream.active = 0
      /\ ~stream.stop
    BY DEF StreamInv, StreamType, StreamStates, AdmitRequest, At, Placed
<1>2. First \in Queued(stream) /\ First \in DOMAIN requests /\ Fence(First) = 0
      /\ Queued(Without) \subseteq Queued(stream) /\ Distinct(Without.queue)
      /\ First \notin Queued(Without) /\ First # 0
    BY <1>1, TailElements, QueuedUnsubmitted
    DEF First, Without, Queued, ElementsOf, StreamInv, Placed, StreamStates
<1>3. First \in Nat /\ "record" \in StreamPhases /\ Tail(stream.queue) \in Seq(Nat)
    BY <1>1, <1>2, RequestTypes, HeadTailProperties DEF StreamPhases
<1>4. /\ stream' \in StreamStates /\ stream'.active = First /\ stream'.pc = "record"
      /\ stream'.queue = Without.queue /\ stream'.frames = stream.frames
      /\ stream'.last = stream.last /\ stream'.stop = stream.stop
    BY <1>1, <1>3 DEF AdmitRequest, Without, StreamStates
<1>5. Queued(stream') = Queued(Without) /\ Frames' = Frames
    BY <1>4 DEF Queued, Frames
<1>6. /\ Placed /\ Settlement /\ ~requests[First].result.settled
    BY <1>1, <1>2 DEF StreamInv, Settlement
<1>7. Placed'
    BY <1>1, <1>2, <1>4, <1>5, <1>6 DEF Placed, Fence
<1>8. Settlement'
    BY <1>1, <1>2, <1>4, <1>5, <1>6 DEF Settlement, SettledOk, Fence, IsPrefix
<1>9. Keeps
    BY <1>1, <1>4, <1>6 DEF Keeps, Fence, StreamInv, StreamType
<1>10. FailedUnsubmitted => FailedUnsubmitted'
    BY <1>1, <1>4, <1>6 DEF FailedUnsubmitted, Fence
<1>11. StreamType'
    BY <1>1, <1>4 DEF StreamInv, StreamType
<1> QED BY <1>7, <1>8, <1>9, <1>10, <1>11 DEF StreamInv, StreamKept

\* Recording gives the active request the next fence value, or none.
LEMMA RecordKept ==
    ASSUME StreamInv, RecordRequest PROVE StreamKept
<1> DEFINE r == stream.active
<1>1. /\ stream \in StreamStates /\ stream.last \in Nat /\ stream.pc = "record" /\ gpu' = gpu
      /\ requests \in Seq(RequestStates) /\ gpu.fence \in Nat
    BY DEF StreamInv, StreamType, StreamStates, RecordRequest, At
<1>2. r \in DOMAIN requests /\ r # 0 /\ Fence(r) = 0 /\ r \notin Queued(stream) /\ r \notin Frames
    BY <1>1 DEF StreamInv, Placed
<1>3. PICK submits \in BOOLEAN, ok \in BOOLEAN :
          /\ ok => submits
          /\ requests' = IF submits THEN [requests EXCEPT ![r].fence = stream.last + 1] ELSE requests
          /\ stream' = [stream EXCEPT !.last = IF submits THEN @ + 1 ELSE @,
                                      !.outcome = ok, !.pc = "settle"]
    BY DEF RecordRequest
<1>4. /\ stream' \in StreamStates /\ stream'.pc = "settle" /\ stream'.outcome = ok
      /\ stream'.queue = stream.queue /\ stream'.frames = stream.frames
      /\ stream'.active = r /\ stream'.stop = stream.stop
      /\ stream'.last = IF submits THEN stream.last + 1 ELSE stream.last
  <2>1. "settle" \in StreamPhases
    BY DEF StreamPhases
  <2>2. PICK last \in Nat : last = IF submits THEN stream.last + 1 ELSE stream.last
    BY <1>1
  <2>3. stream' = [stream EXCEPT !.last = last, !.outcome = ok, !.pc = "settle"]
    BY <1>3, <2>2
  <2> QED BY <1>1, <2>1, <2>2, <2>3 DEF StreamStates
<1>5. /\ requests' \in Seq(RequestStates) /\ DOMAIN requests' = DOMAIN requests
      /\ \A q \in DOMAIN requests :
            /\ q # r => requests'[q] = requests[q]
            /\ requests'[q].kind = requests[q].kind
            /\ requests'[q].result = requests[q].result
            /\ requests'[q].fence = IF q = r /\ submits THEN stream.last + 1
                                    ELSE requests[q].fence
  <2>1. CASE submits
    <3> DEFINE e == [requests[r] EXCEPT !.fence = stream.last + 1]
    <3>1. requests[r] \in RequestStates
      BY <1>2, RequestTypes
    <3>2. /\ e \in RequestStates /\ e.kind = requests[r].kind
          /\ e.result = requests[r].result /\ e.fence = stream.last + 1
      <4>1. \A f \in Nat : [requests[r] EXCEPT !.fence = f] \in RequestStates
        BY <3>1 DEF RequestStates
      <4>2. stream.last + 1 \in Nat
        BY <1>1
      <4> QED BY <3>1, <4>1, <4>2 DEF RequestStates
    <3>3. requests' = [requests EXCEPT ![r] = e]
      BY <1>3, <2>1
    <3> HIDE DEF e
    <3> QED BY <1>1, <1>2, <2>1, <3>2, <3>3, ExceptSeq, RequestTypes
  <2>2. CASE ~submits
    BY <1>1, <1>3, <2>2
  <2> QED BY <2>1, <2>2
<1>6. Queued(stream') = Queued(stream) /\ Frames' = Frames
    BY <1>4 DEF Queued, Frames
<1>7. Placed /\ Settlement
    BY DEF StreamInv
<1>8. ~SettledOk(r)
    BY <1>2, <1>7 DEF Settlement
<1>9. \A q \in DOMAIN requests :
        Fence(q)' = (IF q = r /\ submits THEN stream.last + 1 ELSE Fence(q))
        /\ Fence(q) \in Nat /\ Fence(q) <= stream.last
    BY <1>5, <1>7, RequestTypes DEF Fence, Placed
<1>10. Placed'
  <2>1. \A q \in DOMAIN requests' : Fence(q)' <= stream'.last
    BY <1>1, <1>4, <1>5, <1>9
  <2>2. \A q \in Queued(stream') : Fence(q)' = 0
    BY <1>2, <1>6, <1>7, <1>9 DEF Placed
  <2>3. \A q \in Frames' : Fence(q)' # 0
    BY <1>2, <1>6, <1>7, <1>9 DEF Placed
  <2>4. stream'.outcome => Fence(r)' # 0
    BY <1>1, <1>2, <1>3, <1>4, <1>9
  <2>5. /\ Queued(stream') \cup Frames' \cup ({r} \ {0}) \subseteq DOMAIN requests'
        /\ Distinct(stream'.queue) /\ Queued(stream') \cap Frames' = {}
    BY <1>4, <1>5, <1>6, <1>7 DEF Placed
  <2> QED BY <1>2, <1>4, <1>6, <2>1, <2>2, <2>3, <2>4, <2>5 DEF Placed
<1>11. Settlement'
  <2>1. \A q \in DOMAIN requests : SettledOk(q)' = SettledOk(q) /\ IsPrefix(q)' = IsPrefix(q)
    BY <1>5 DEF SettledOk, IsPrefix
  <2>2. \A q \in DOMAIN requests : SettledOk(q) => q # r /\ Fence(q)' = Fence(q)
    BY <1>8, <1>9
  <2> QED BY <1>1, <1>4, <1>5, <1>6, <1>7, <2>1, <2>2 DEF Settlement, Placed
<1>12. Keeps
    BY <1>1, <1>2, <1>4, <1>5, <1>9 DEF Keeps, Fence
<1>13. FailedUnsubmitted => FailedUnsubmitted'
    BY <1>4, <1>5, <1>9 DEF FailedUnsubmitted, Fence
<1>14. StreamType'
    BY <1>1, <1>4, <1>5 DEF StreamInv, StreamType
<1> QED BY <1>10, <1>11, <1>12, <1>13, <1>14 DEF StreamInv, StreamKept

\* A queued request is the newest, unsettled and not submitted.
LEMMA QueueKept ==
    ASSUME StreamInv, NEW kind \in {"prefix", "terminal"}, NEW joins \in Nat,
           QueueRequest(kind, joins)
    PROVE  /\ StreamKept
           /\ DOMAIN requests' = DOMAIN requests \cup {Len(requests) + 1}
           /\ requests'[Len(requests) + 1].kind = kind
           /\ requests'[Len(requests) + 1].fence = 0
<1>0. PICK n : n = Len(requests) + 1
    OBVIOUS
<1> DEFINE e == Request(kind, joins)
           opens == kind = "prefix"
<1>1. /\ stream \in StreamStates /\ stream.queue \in Seq(Nat) /\ ~stream.stop /\ gpu' = gpu
      /\ requests \in Seq(RequestStates) /\ stream.last \in Nat
      /\ requests' = Append(requests, e)
      /\ stream' = [stream EXCEPT !.queue = Append(@, n), !.open = opens]
    BY <1>0 DEF StreamInv, StreamType, StreamStates, QueueRequest
<1>2. /\ e \in RequestStates /\ e.kind = kind /\ e.fence = 0
      /\ ~e.result.settled
  <2>1. Unsettled \in Results /\ ~Unsettled.settled
    BY DEF Unsettled, Results
  <2> QED BY <2>1 DEF Request, RequestStates
<1>3. /\ n \in Nat /\ n # 0 /\ n \notin DOMAIN requests
      /\ requests' \in Seq(RequestStates) /\ DOMAIN requests' = DOMAIN requests \cup {n}
      /\ \A q \in DOMAIN requests : requests'[q] = requests[q] /\ q # n
      /\ requests'[n] = e
  <2> HIDE DEF e
  <2> QED BY <1>0, <1>1, <1>2, AppendProperties, RequestTypes
<1> HIDE DEF e
<1>4. opens \in BOOLEAN /\ Append(stream.queue, n) \in Seq(Nat)
    BY <1>1, <1>3, AppendProperties
<1> HIDE DEF opens
<1>5. /\ stream' \in StreamStates /\ stream'.queue = Append(stream.queue, n)
      /\ stream'.frames = stream.frames /\ stream'.active = stream.active
      /\ stream'.pc = stream.pc /\ stream'.outcome = stream.outcome
      /\ stream'.last = stream.last /\ stream'.stop = stream.stop
    BY <1>1, <1>4 DEF StreamStates
<1>6. Placed /\ Settlement
    BY DEF StreamInv
<1>7. n \notin Queued(stream) /\ n \notin Frames /\ n # stream.active
    BY <1>3, <1>6 DEF Placed
<1>8. Queued(stream') = Queued(stream) \cup {n} /\ Distinct(stream'.queue) /\ Frames' = Frames
  <2>1. ElementsOf(stream.queue) = Queued(stream) /\ ElementsOf(stream'.queue) = Queued(stream')
    BY DEF ElementsOf, Queued
  <2>2. Distinct(stream.queue)
    BY <1>6 DEF Placed
  <2> QED BY <1>1, <1>3, <1>5, <1>7, <2>1, <2>2, AppendElements DEF Frames
<1>9. \A q \in DOMAIN requests :
        /\ Fence(q)' = Fence(q) /\ SettledOk(q)' = SettledOk(q) /\ IsPrefix(q)' = IsPrefix(q)
        /\ q # n
    BY <1>3 DEF Fence, SettledOk, IsPrefix
<1>10. Fence(n)' = 0 /\ ~SettledOk(n)'
    BY <1>2, <1>3 DEF Fence, SettledOk
<1>11. Placed'
  <2>1. \A q \in DOMAIN requests' : Fence(q)' <= stream'.last
    BY <1>1, <1>3, <1>5, <1>6, <1>9, <1>10 DEF Placed
  <2> QED BY <1>3, <1>5, <1>6, <1>7, <1>8, <1>9, <1>10, <2>1 DEF Placed
<1>12. Settlement'
  <2>1. ASSUME NEW q \in DOMAIN requests', SettledOk(q)'
        PROVE  /\ q \in DOMAIN requests /\ Fence(q)' # 0
               /\ ~IsPrefix(q)' => gpu'.fence >= Fence(q)'
               /\ q \notin Queued(stream') \cup {stream'.active}
    BY <1>1, <1>3, <1>5, <1>6, <1>8, <1>9, <1>10, <2>1 DEF Settlement
  <2>2. \A q \in Queued(stream') : ~requests'[q].result.settled
    BY <1>1, <1>2, <1>3, <1>6, <1>8 DEF Settlement, Placed
  <2> QED BY <2>1, <2>2 DEF Settlement
<1>13. Keeps
    BY <1>1, <1>3, <1>5 DEF Keeps, Fence, StreamInv, StreamType
<1>14. FailedUnsubmitted => FailedUnsubmitted'
    BY <1>2, <1>3, <1>5, <1>9 DEF FailedUnsubmitted
<1>15. StreamType'
    BY <1>1, <1>3, <1>5 DEF StreamInv, StreamType
<1> QED BY <1>0, <1>2, <1>3, <1>11, <1>12, <1>13, <1>14, <1>15 DEF StreamInv, StreamKept

LEMMA StreamStarts == StreamInit => StreamInv /\ FailedUnsubmitted
<1> SUFFICES ASSUME StreamInit PROVE StreamInv /\ FailedUnsubmitted
    OBVIOUS
<1>1. /\ requests = <<>> /\ stream.queue = <<>> /\ stream.frames = <<>> /\ stream.pc = "top"
      /\ stream.active = 0 /\ stream \in StreamStates /\ gpu = [fence |-> 0, lost |-> FALSE]
  <2>1. <<>> \in Seq(Nat) /\ "top" \in StreamPhases
    BY DEF StreamPhases
  <2> QED BY <2>1 DEF StreamInit, StreamStates
<1>2. StreamType
    BY <1>1 DEF StreamType
<1>3. DOMAIN requests = {} /\ Queued(stream) = {} /\ Frames = {} /\ Distinct(stream.queue)
    BY <1>1, EmptyElements DEF Queued, Frames, ElementsOf
<1> QED BY <1>1, <1>2, <1>3 DEF StreamInv, Placed, Settlement, FailedUnsubmitted

\* Each step of the renderer thread, together.
LEMMA ThreadKept ==
    ASSUME StreamInv, StreamNext PROVE StreamKept
BY RetireKept, LoopKept, CancelKept, AdmitKept, RefuseAtIntakeKept, RecordKept,
   SettleRequestKept, EndKept
DEF StreamNext

-----------------------------------------------------------------------------
(* The source. *)

\* The entry of a span names the request of its work, a frameless one no image.
Entry(e) ==
    IF e.kind = "inherit" THEN e.mark = 0
    ELSE e.work \in DOMAIN requests /\ requests[e.work].kind = e.kind

EntriesInv ==
    /\ \A i \in DOMAIN source.pending : Entry(source.pending[i])
    /\ submit.pc = "push" => Entry(submit.span)
    /\ submit.pc = "queue" => submit.span.kind # "inherit"

\* A poll inside its loop owns the lock and started before any close.
Locked ==
    /\ \A p \in Pollers : polls[p].pc \in {"fence", "entry"} <=> holder = p
    /\ holder # 0 => ~source.closed
    /\ \A p \in Pollers : polls[p].fence <= gpu.fence

\* What a peek waits for: its work is the request of a resolve, and once it
\* stopped waiting the GPU is done with it.
PeekInv ==
    /\ peek.pc # "idle" => peek.work \in DOMAIN requests
    /\ peek.pc = "wait" /\ ~peek.graph => ~IsPrefix(peek.work) \/ Finished(peek.work)
    /\ peek.pc = "fence" => SettledOk(peek.work)
    /\ peek.pc = "store" => Finished(peek.work)

ImagesInv ==
    /\ \A image \in source.images \cup source.peeked : image[2] \in DOMAIN requests
    /\ ImagesAreDone /\ ClosedIsEmpty /\ NothingBelowDiscard

\* Only the close stops a recording under way, so until then a result that
\* names no fence is of work never submitted.
SourceInv ==
    /\ SourceType /\ EntriesInv /\ Locked /\ PeekInv /\ ImagesInv
    /\ ~source.closed => FailedUnsubmitted

CompletionInv == StreamInv /\ SourceInv

-----------------------------------------------------------------------------
(* What the stream's steps keep of what the source refers to. *)

LEMMA Kept ==
    ASSUME StreamInv, StreamInv', Keeps
    PROVE  /\ \A r \in DOMAIN requests :
                 /\ r \in DOMAIN requests' /\ IsPrefix(r)' = IsPrefix(r)
                 /\ SettledOk(r) => SettledOk(r)' /\ Fence(r)' # 0
                 /\ Finished(r) => Finished(r)'
           /\ \A e : Entry(e) => Entry(e)'
           /\ \A e : Entry(e) /\ WorkDone(e) => WorkDone(e)'
<1>1. \A r \in DOMAIN requests : Fence(r) \in Nat /\ Fence(r)' \in Nat /\ r \in DOMAIN requests'
  <2>1. \A r \in DOMAIN requests : r \in DOMAIN requests'
    BY DEF Keeps
  <2>2. \A r \in DOMAIN requests' : requests'[r] \in RequestStates
    BY LenProperties, ElementOfSeq DEF StreamInv, StreamType
  <2>3. \A r \in DOMAIN requests' : Fence(r)' \in Nat
    BY <2>2 DEF RequestStates, Fence
  <2> QED BY <2>1, <2>3, RequestTypes
<1>2. gpu.fence \in Nat /\ gpu'.fence \in Nat /\ gpu'.fence >= gpu.fence
    BY DEF Keeps, StreamInv, StreamType
<1>3. \A r \in DOMAIN requests : Finished(r) => Finished(r)'
    BY <1>1, <1>2 DEF Keeps, Finished, Fence
<1>4. \A r \in DOMAIN requests : SettledOk(r) => SettledOk(r)' /\ Fence(r)' # 0
    BY <1>1 DEF Keeps, SettledOk, Fence, StreamInv, Settlement
<1>5. \A r \in DOMAIN requests : IsPrefix(r)' = IsPrefix(r)
    BY DEF Keeps, IsPrefix
<1>6. \A e : Entry(e) => Entry(e)'
    BY DEF Keeps, Entry
<1>7. \A e : Entry(e) /\ WorkDone(e) => WorkDone(e)'
  <2> SUFFICES ASSUME NEW e, Entry(e), WorkDone(e), e.kind # "inherit" PROVE WorkDone(e)'
    BY DEF WorkDone
  <2>1. e.work \in DOMAIN requests
    BY DEF Entry
  <2>2. CASE Finished(e.work)
    BY <1>3, <2>1, <2>2 DEF WorkDone
  <2>3. CASE /\ Census /\ e.kind = "terminal" /\ e.work # stream.active
             /\ requests[e.work].result.settled /\ requests[e.work].fence = 0
    BY <2>1, <2>3 DEF Keeps, WorkDone, Fence
  <2> QED BY <2>2, <2>3 DEF WorkDone
<1> QED BY <1>1, <1>3, <1>4, <1>5, <1>6, <1>7

\* What every step of the whole keeps.
StreamSteps ==
    /\ StreamInv' /\ Keeps
    /\ ~source.closed /\ FailedUnsubmitted => FailedUnsubmitted'

LEMMA StreamSame ==
    ASSUME StreamInv, UNCHANGED streamVars PROVE StreamSteps
<1>1. requests' = requests /\ stream' = stream /\ gpu' = gpu
    BY DEF streamVars
<1>2. StreamInv'
    BY <1>1 DEF StreamInv, StreamType, Placed, Settlement, Frames, Fence, SettledOk, IsPrefix
<1>3. Keeps
    BY <1>1 DEF Keeps, Fence, StreamInv, StreamType
<1> QED BY <1>1, <1>2, <1>3 DEF StreamSteps, FailedUnsubmitted, Fence

LEMMA StreamStep ==
    ASSUME CompletionInv, [Next]_vars PROVE StreamSteps
<1>0. StreamInv /\ (source.closed \/ FailedUnsubmitted)
    BY DEF CompletionInv, SourceInv
<1>1. CASE QueueWork
  <2>1. submit \in SubmitStates /\ submit.span.kind \in {"prefix", "terminal"}
        /\ submit.span.joins \in Nat
    BY <1>1 DEF QueueWork, CompletionInv, SourceInv, SourceType, SubmitStates, EntriesInv,
                Entries, Kinds
  <2> QED BY <1>0, <1>1, <2>1, QueueKept DEF QueueWork, StreamKept, StreamSteps
<1>2. CASE WorkRefused
  <2>1. CASE UNCHANGED streamVars
    BY <1>0, <2>1, StreamSame
  <2>2. CASE RefuseRequest(submit.span.kind, submit.span.joins)
    BY <1>0, <2>2, RefuseRequestKept DEF StreamKept, StreamSteps
  <2> QED BY <1>2, <2>1, <2>2 DEF WorkRefused
<1>3. CASE RendererNext
    BY <1>0, <1>3, ThreadKept DEF RendererNext, StreamKept, StreamSteps
<1>4. CASE DeviceNext
    BY <1>0, <1>4, GpuKept DEF DeviceNext, StreamKept, StreamSteps
<1>5. CASE StopProducer
    BY <1>0, <1>5, StopKept DEF StopProducer, StreamSteps
<1>6. CASE UNCHANGED streamVars
    BY <1>0, <1>6, StreamSame
<1>7. CASE UNCHANGED vars
    BY <1>6, <1>7 DEF vars
<1>8. CASE \E kind \in Kinds, mark \in Marks \cup {0} : StartSubmit(kind, mark)
    BY <1>6, <1>8 DEF StartSubmit
<1>9. CASE \E p \in Pollers : PollNext(p)
    BY <1>6, <1>9
    DEF PollNext, StartPoll, TryLock, ReadFence, Advance, EndAdvance, FailAdvance, Fail
<1>10. CASE \E mark \in Marks :
              TakeGuestImage(mark) \/ DiscardGuestImagesThrough(mark) \/ StartPeek(mark)
    BY <1>6, <1>10 DEF TakeGuestImage, DiscardGuestImagesThrough, StartPeek
<1>11. CASE PeekNext \/ Close \/ Push
    BY <1>6, <1>11 DEF PeekNext, AwaitWork, AwaitPasses, StorePeek, Close, Push
<1> QED BY <1>1, <1>2, <1>3, <1>4, <1>5, <1>7, <1>8, <1>9, <1>10, <1>11 DEF Next, SubmitNext

-----------------------------------------------------------------------------
(* Type correctness. *)

LEMMA SubmitTypes ==
    ASSUME StreamInv, SourceType,
           \/ \E kind \in Kinds, mark \in Marks \cup {0} : StartSubmit(kind, mark)
           \/ SubmitNext
    PROVE  SourceType'
<1>1. /\ source \in SourceStates /\ submit \in SubmitStates /\ source.pending \in Seq(Entries)
      /\ source.open \in Nat /\ submit.span \in Entries /\ Len(requests) \in Nat
    BY RequestTypes DEF SourceType, SourceStates, SubmitStates
<1>2. NoSpan \in Entries
    BY DEF NoSpan, Entries, Kinds
<1>3. [pc |-> "idle", span |-> NoSpan] \in SubmitStates
    BY <1>2 DEF SubmitStates
<1>4. source' \in SourceStates /\ submit' \in SubmitStates
  <2>1. ASSUME NEW kind \in Kinds, NEW mark \in Marks \cup {0}, StartSubmit(kind, mark)
        PROVE  source' \in SourceStates /\ submit' \in SubmitStates
    <3> DEFINE joins == IF kind = "terminal" THEN source.open ELSE 0
               pc == IF kind = "inherit" THEN "push" ELSE "queue"
    <3>1. joins \in Nat /\ pc \in {"idle", "queue", "push"}
      BY <1>1
    <3>2. submit' = [pc |-> pc, span |-> [kind |-> kind, mark |-> mark, work |-> 0, joins |-> joins]]
      BY <2>1 DEF StartSubmit
    <3> HIDE DEF joins, pc
    <3>3. submit' \in SubmitStates
      BY <3>1, <3>2 DEF SubmitStates, Entries
    <3>4. source' = source \/ source' = [source EXCEPT !.open = 0]
      BY <2>1 DEF StartSubmit
    <3>5. source' \in SourceStates
      BY <1>1, <3>4 DEF SourceStates
    <3> QED BY <3>3, <3>5
  <2>2. CASE QueueWork
    <3> DEFINE n == Len(requests) + 1
               open == IF submit.span.kind = "prefix" THEN source.open + 1 ELSE source.open
    <3>1. n \in Nat /\ open \in Nat
      BY <1>1
    <3>2. submit' = [submit EXCEPT !.pc = "push", !.span.work = n]
          /\ source' = [source EXCEPT !.open = open]
      BY <2>2 DEF QueueWork
    <3> HIDE DEF n, open
    <3>3. [submit.span EXCEPT !.work = n] \in Entries
      BY <1>1, <3>1 DEF Entries
    <3>4. submit' = [submit EXCEPT !.pc = "push", !.span = [submit.span EXCEPT !.work = n]]
      BY <1>1, <3>2 DEF SubmitStates
    <3>5. \A e \in Entries : [submit EXCEPT !.pc = "push", !.span = e] \in SubmitStates
      BY <1>1 DEF SubmitStates
    <3>6. submit' \in SubmitStates
      BY <3>3, <3>4, <3>5
    <3>7. source' \in SourceStates
      BY <1>1, <3>1, <3>2 DEF SourceStates
    <3> QED BY <3>6, <3>7
  <2>3. CASE WorkRefused
    BY <1>1, <1>3, <2>3 DEF WorkRefused, EndSubmit
  <2>4. CASE Push
    <3>1. Append(source.pending, submit.span) \in Seq(Entries)
      BY <1>1, AppendProperties
    <3>2. source' = [source EXCEPT !.pending = Append(source.pending, submit.span)]
      BY <2>4 DEF Push
    <3>3. source' \in SourceStates
      BY <1>1, <3>1, <3>2 DEF SourceStates
    <3> QED BY <1>3, <2>4, <3>3 DEF Push, EndSubmit
  <2> QED BY <2>1, <2>2, <2>3, <2>4 DEF SubmitNext
<1>5. UNCHANGED <<polls, holder, peek>>
    BY DEF StartSubmit, SubmitNext, QueueWork, WorkRefused, Push
<1>6. named' \subseteq Marks
    BY <1>1 DEF StartSubmit, SubmitNext, QueueWork, WorkRefused, Push, SourceType, Entries
<1> QED BY <1>4, <1>5, <1>6 DEF SourceType

LEMMA PollTypes ==
    ASSUME StreamInv, SourceType, NEW p \in Pollers, PollNext(p)
    PROVE  SourceType'
<1>1. /\ source \in SourceStates /\ source.pending \in Seq(Entries) /\ source.completed \in Nat
      /\ source.images \in SUBSET (Marks \X Nat)
      /\ polls \in [Pollers -> PollStates] /\ holder \in Pollers \cup {0}
    BY DEF SourceType, SourceStates
<1>2. gpu.fence \in Nat /\ gpu.lost \in BOOLEAN
    BY DEF StreamInv, StreamType
<1>3. ASSUME NEW pc \in {"idle", "lock", "fence", "entry", "fail"}
      PROVE  SetPoll(p, pc) => polls' \in [Pollers -> PollStates]
  <2>1. [polls[p] EXCEPT !.pc = pc] \in PollStates
    BY <1>1 DEF PollStates
  <2> QED BY <1>1, <2>1 DEF SetPoll
<1>4. EndPoll(p) => polls' \in [Pollers -> PollStates]
  <2>1. [pc |-> "idle", fence |-> 0, lost |-> FALSE] \in PollStates
    BY DEF PollStates
  <2> QED BY <1>1, <2>1 DEF EndPoll
<1>5. UNCHANGED <<submit, peek, named>>
    BY DEF PollNext, StartPoll, TryLock, ReadFence, Advance, EndAdvance, FailAdvance, Fail
<1>6. CASE StartPoll(p)
    BY <1>3, <1>5, <1>6 DEF StartPoll, SourceType
<1>7. CASE TryLock(p)
    BY <1>3, <1>4, <1>5, <1>7 DEF TryLock, SourceType
<1>8. CASE ReadFence(p)
  <2>1. [pc |-> "entry", fence |-> gpu.fence, lost |-> gpu.lost] \in PollStates
    BY <1>2 DEF PollStates
  <2>2. polls' \in [Pollers -> PollStates]
    BY <1>1, <1>8, <2>1 DEF ReadFence
  <2> QED BY <1>5, <1>8, <2>2 DEF ReadFence, SourceType
<1>9. CASE Advance(p)
  <2>1. source.pending # <<>> /\ Front \in Entries
    BY <1>1, <1>9, HeadTailProperties DEF Advance, Front
  <2>2. Tail(source.pending) \in Seq(Entries)
    BY <1>1, <2>1, HeadTailProperties
  <2>3. \A images \in SUBSET (Marks \X Nat) : Pop(images) => source' \in SourceStates
    <3>1. ASSUME NEW images \in SUBSET (Marks \X Nat), Pop(images) PROVE source' \in SourceStates
      <4>1. source.images \cup images \in SUBSET (Marks \X Nat) /\ source.completed + 1 \in Nat
        BY <1>1
      <4> QED BY <1>1, <2>2, <3>1, <4>1 DEF Pop, SourceStates
    <3> QED BY <3>1
  <2>4. KeptImages \in SUBSET (Marks \X Nat)
    BY <1>1, <2>1, SourceConstants DEF KeptImages, Entries, SourceStates
  <2>5. source' \in SourceStates
    BY <1>9, <2>3, <2>4 DEF Advance
  <2> QED BY <1>5, <1>9, <2>5 DEF Advance, SourceType
<1>10. CASE EndAdvance(p)
    BY <1>4, <1>5, <1>10 DEF EndAdvance, SourceType
<1>11. CASE FailAdvance(p)
    BY <1>3, <1>5, <1>11 DEF FailAdvance, SourceType
<1>12. CASE Fail(p)
  <2>1. source' \in SourceStates
    BY <1>1, <1>12 DEF Fail, SourceStates
  <2> QED BY <1>4, <1>5, <1>12, <2>1 DEF Fail, SourceType
<1> QED BY <1>6, <1>7, <1>8, <1>9, <1>10, <1>11, <1>12 DEF PollNext

LEMMA ImageTypes ==
    ASSUME SourceType,
           \/ \E mark \in Marks :
                 TakeGuestImage(mark) \/ DiscardGuestImagesThrough(mark) \/ StartPeek(mark)
           \/ PeekNext \/ Close
    PROVE  SourceType'
<1>1. /\ source \in SourceStates /\ peek \in PeekStates /\ source.discarded \in Nat
      /\ source.images \in SUBSET (Marks \X Nat) /\ source.peeked \in SUBSET (Marks \X Nat)
      /\ source.pending \in Seq(Entries)
    BY DEF SourceType, SourceStates
<1>2. \A images, mark : Above(images, mark) \subseteq images
    BY DEF Above
<1>3. UNCHANGED <<submit, polls, holder>> /\ named' \subseteq Marks
    BY DEF TakeGuestImage, DiscardGuestImagesThrough, StartPeek, PeekNext, AwaitWork,
           AwaitPasses, StorePeek, Close, SourceType
<1>4. NoPeek \in PeekStates
    BY DEF NoPeek, PeekStates
<1>5. ASSUME NEW mark \in Marks, NEW n \in Nat
      PROVE  [source EXCEPT !.images = Above(source.images, mark),
                            !.peeked = Above(source.peeked, mark), !.discarded = n] \in SourceStates
    BY <1>1, <1>2 DEF SourceStates
<1>6. ASSUME NEW mark \in Marks, TakeGuestImage(mark) PROVE SourceType'
  <2>1. PICK n \in Nat : n = IF mark - 1 > source.discarded THEN mark - 1 ELSE source.discarded
    BY <1>1, SourceConstants
  <2>2. source' = [source EXCEPT !.images = Above(source.images, mark),
                                 !.peeked = Above(source.peeked, mark), !.discarded = n]
    BY <1>6, <2>1 DEF TakeGuestImage, TakeImage
  <2>3. source' \in SourceStates
    BY <1>5, <2>2
  <2> QED BY <1>3, <1>6, <2>3 DEF TakeGuestImage, SourceType
<1>7. ASSUME NEW mark \in Marks, DiscardGuestImagesThrough(mark) PROVE SourceType'
  <2>1. PICK n \in Nat : n = IF mark > source.discarded THEN mark ELSE source.discarded
    BY <1>1, SourceConstants
  <2>2. source' = [source EXCEPT !.images = Above(source.images, mark),
                                 !.peeked = Above(source.peeked, mark), !.discarded = n]
    BY <1>7, <2>1 DEF DiscardGuestImagesThrough
  <2>3. source' \in SourceStates
    BY <1>5, <2>2
  <2> QED BY <1>3, <1>7, <2>3 DEF DiscardGuestImagesThrough, SourceType
<1>8. ASSUME NEW mark \in Marks, StartPeek(mark) PROVE SourceType'
  <2>1. ASSUME NEW image \in source.images,
               peek' = [pc |-> "wait", mark |-> mark, work |-> image[2], graph |-> FALSE]
        PROVE  peek' \in PeekStates
    BY <1>1, <2>1 DEF PeekStates
  <2>2. ASSUME NEW i \in PendingWith(mark),
               peek' = [pc |-> "wait", mark |-> mark, work |-> source.pending[i].work,
                        graph |-> source.pending[i].kind = "prefix"]
        PROVE  peek' \in PeekStates
    <3>1. source.pending[i] \in Entries
      BY <1>1, ElementOfSeq, LenProperties DEF PendingWith
    <3>2. source.pending[i].work \in Nat /\ (source.pending[i].kind = "prefix") \in BOOLEAN
      BY <3>1 DEF Entries
    <3>3. \A w \in Nat, b \in BOOLEAN :
            [pc |-> "wait", mark |-> mark, work |-> w, graph |-> b] \in PeekStates
      BY DEF PeekStates
    <3> QED BY <2>2, <3>2, <3>3
  <2>3. peek' \in PeekStates
    BY <1>8, <2>1, <2>2 DEF StartPeek
  <2> QED BY <1>3, <1>8, <2>3 DEF StartPeek, SourceType
<1>9. CASE AwaitWork \/ AwaitPasses
  <2>1. \A pc \in {"fence", "store"} : [peek EXCEPT !.pc = pc] \in PeekStates
    BY <1>1 DEF PeekStates
  <2>2. peek' \in PeekStates
    BY <1>4, <1>9, <2>1 DEF AwaitWork, AwaitPasses
  <2> QED BY <1>1, <1>3, <1>9, <2>2 DEF AwaitWork, AwaitPasses, SourceType
<1>10. CASE StorePeek
  <2>1. PICK kept : source' = [source EXCEPT !.peeked = kept] /\
                    kept = IF StillWanted THEN source.peeked \cup {<<peek.mark, peek.work>>}
                           ELSE source.peeked
    BY <1>10 DEF StorePeek
  <2>2. StillWanted => peek.mark # 0
    BY <1>1 DEF StillWanted, SourceStates
  <2>3. kept \in SUBSET (Marks \X Nat)
    BY <1>1, <2>1, <2>2 DEF PeekStates
  <2>4. source' \in SourceStates
    BY <1>1, <2>1, <2>3 DEF SourceStates
  <2> QED BY <1>3, <1>4, <1>10, <2>4 DEF StorePeek, SourceType
<1>11. CASE Close
  <2>1. source' \in SourceStates
    BY <1>1, <1>11 DEF Close, SourceStates
  <2> QED BY <1>1, <1>3, <1>11, <2>1 DEF Close, SourceType
<1> QED BY <1>6, <1>7, <1>8, <1>9, <1>10, <1>11 DEF PeekNext

LEMMA TypesKept ==
    ASSUME CompletionInv, [Next]_vars PROVE SourceType'
<1>1. StreamInv /\ SourceType
    BY DEF CompletionInv, SourceInv
<1>2. UNCHANGED sourceVars => SourceType'
    BY <1>1 DEF sourceVars, SourceType
<1>3. RendererNext \/ DeviceNext \/ StopProducer \/ UNCHANGED vars => UNCHANGED sourceVars
    BY DEF RendererNext, DeviceNext, StopProducer, vars
<1> QED BY <1>1, <1>2, <1>3, SubmitTypes, PollTypes, ImageTypes DEF Next

-----------------------------------------------------------------------------
(* The entries, the lock and the peek. *)

LEMMA EntriesKept ==
    ASSUME CompletionInv, [Next]_vars PROVE EntriesInv'
<1>1. /\ source \in SourceStates /\ submit \in SubmitStates /\ source.pending \in Seq(Entries)
      /\ submit.span \in Entries /\ EntriesInv /\ StreamInv
    BY DEF CompletionInv, SourceInv, SourceType, SourceStates, SubmitStates
<1>2. StreamSteps /\ \A e : Entry(e) => Entry(e)'
    BY <1>1, StreamStep, Kept DEF StreamSteps
<1>3. ASSUME source'.pending = source.pending, submit' = submit PROVE EntriesInv'
    BY <1>1, <1>2, <1>3 DEF EntriesInv
<1>4. ASSUME source'.pending = source.pending, submit'.pc = "idle" PROVE EntriesInv'
    BY <1>1, <1>2, <1>4 DEF EntriesInv
<1>5. ASSUME NEW kind \in Kinds, NEW mark \in Marks \cup {0}, StartSubmit(kind, mark)
      PROVE  EntriesInv'
  <2>1. source'.pending = source.pending
    BY <1>1, <1>5 DEF StartSubmit, SourceStates
  <2>2. \A i \in DOMAIN source'.pending : Entry(source.pending[i])'
    BY <1>1, <1>2, <2>1 DEF EntriesInv
  <2>3. CASE kind = "inherit"
    <3>1. submit'.pc = "push" /\ submit'.span.kind = "inherit" /\ submit'.span.mark = 0
      BY <1>5, <2>3 DEF StartSubmit
    <3> QED BY <2>2, <3>1 DEF EntriesInv, Entry
  <2>4. CASE kind # "inherit"
    <3>1. submit'.pc = "queue" /\ submit'.span.kind # "inherit"
      BY <1>5, <2>4 DEF StartSubmit
    <3> QED BY <2>2, <3>1 DEF EntriesInv
  <2> QED BY <2>3, <2>4
<1>6. CASE QueueWork
  <2> DEFINE n == Len(requests) + 1
  <2>1. /\ submit.span.kind \in {"prefix", "terminal"} /\ submit.span.joins \in Nat
        /\ submit.pc = "queue"
    BY <1>1, <1>6 DEF QueueWork, EntriesInv, Entries, Kinds
  <2>2. /\ n \in DOMAIN requests' /\ requests'[n].kind = submit.span.kind
    BY <1>1, <1>6, <2>1, QueueKept DEF QueueWork
  <2>3. submit' = [submit EXCEPT !.pc = "push", !.span.work = n]
    BY <1>6 DEF QueueWork
  <2> HIDE DEF n
  <2>4. submit'.pc = "push" /\ submit'.span.work = n /\ submit'.span.kind = submit.span.kind
    BY <1>1, <2>3 DEF SubmitStates, Entries
  <2>5. Entry(submit.span)'
    BY <2>1, <2>2, <2>4 DEF Entry
  <2>6. source'.pending = source.pending
    BY <1>1, <1>6 DEF QueueWork, SourceStates
  <2> QED BY <1>1, <1>2, <2>4, <2>5, <2>6 DEF EntriesInv
<1>7. CASE WorkRefused
    BY <1>4, <1>7 DEF WorkRefused, EndSubmit
<1>8. CASE Push
  <2>1. source'.pending = Append(source.pending, submit.span) /\ submit'.pc = "idle"
    BY <1>1, <1>8 DEF Push, EndSubmit, SourceStates
  <2>2. Entry(submit.span)
    BY <1>1, <1>8 DEF Push, EntriesInv
  <2>3. \A i \in DOMAIN source'.pending :
          \/ i \in DOMAIN source.pending /\ source'.pending[i] = source.pending[i]
          \/ source'.pending[i] = submit.span
    BY <1>1, <2>1, AppendProperties, LenProperties
  <2>4. \A i \in DOMAIN source'.pending : Entry(source'.pending[i])
    BY <1>1, <2>2, <2>3 DEF EntriesInv
  <2>5. \A e : Entry(e)' = Entry(e)
    BY <1>8 DEF Entry, Push, streamVars
  <2> QED BY <2>1, <2>4, <2>5 DEF EntriesInv
<1>9. ASSUME NEW p \in Pollers, PollNext(p) PROVE EntriesInv'
  <2>1. CASE Advance(p)
    <3>1. source'.pending = Tail(source.pending) /\ source.pending # <<>> /\ submit' = submit
      BY <1>1, <2>1 DEF Advance, Pop, SourceStates
    <3>2. \A i \in DOMAIN source'.pending :
            i + 1 \in DOMAIN source.pending /\ source'.pending[i] = source.pending[i + 1]
      BY <1>1, <3>1, HeadTailProperties, LenProperties
    <3> QED BY <1>1, <1>2, <3>1, <3>2 DEF EntriesInv
  <2>2. CASE ~Advance(p)
    <3>1. source'.pending = source.pending /\ submit' = submit
      BY <1>1, <1>9, <2>2 DEF PollNext, StartPoll, TryLock, ReadFence, EndAdvance, FailAdvance,
                              Fail, SourceStates
    <3> QED BY <1>3, <3>1
  <2> QED BY <2>1, <2>2
<1>10. ASSUME NEW mark \in Marks,
              TakeGuestImage(mark) \/ DiscardGuestImagesThrough(mark) \/ StartPeek(mark)
       PROVE  EntriesInv'
  <2>1. source'.pending = source.pending /\ submit' = submit
    BY <1>1, <1>10
    DEF TakeGuestImage, TakeImage, DiscardGuestImagesThrough, StartPeek, SourceStates
  <2> QED BY <1>3, <2>1
<1>11. CASE PeekNext \/ Close
  <2>1. source'.pending = source.pending /\ submit' = submit
    BY <1>1, <1>11 DEF PeekNext, AwaitWork, AwaitPasses, StorePeek, Close, SourceStates
  <2> QED BY <1>3, <2>1
<1>12. CASE RendererNext \/ DeviceNext \/ StopProducer \/ UNCHANGED vars
    BY <1>3, <1>12 DEF RendererNext, DeviceNext, StopProducer, sourceVars, vars
<1> QED BY <1>5, <1>6, <1>7, <1>8, <1>9, <1>10, <1>11, <1>12 DEF Next, SubmitNext

LEMMA LockedKept ==
    ASSUME CompletionInv, [Next]_vars PROVE Locked'
<1>1. /\ source \in SourceStates /\ polls \in [Pollers -> PollStates] /\ Locked
      /\ holder \in Pollers \cup {0} /\ 0 \notin Pollers
    BY SourceConstants DEF CompletionInv, SourceInv, SourceType
<1>2. gpu.fence \in Nat /\ gpu'.fence \in Nat /\ gpu'.fence >= gpu.fence
      /\ \A p \in Pollers : polls[p].fence \in Nat
    BY <1>1, StreamStep DEF StreamSteps, Keeps, StreamInv, StreamType, CompletionInv, PollStates
<1>3. ASSUME source'.closed = source.closed \/ holder = 0, polls' = polls, holder' = holder
      PROVE  Locked'
    BY <1>1, <1>2, <1>3 DEF Locked
<1>4. ASSUME NEW p \in Pollers, PollNext(p) PROVE Locked'
  <2>1. source'.closed = source.closed
    BY <1>1, <1>4 DEF PollNext, StartPoll, TryLock, ReadFence, Advance, Pop, EndAdvance,
                      FailAdvance, Fail, SourceStates
  <2>2. ASSUME NEW pc, SetPoll(p, pc)
        PROVE  /\ polls'[p].pc = pc /\ polls'[p].fence = polls[p].fence
               /\ \A q \in Pollers : q # p => polls'[q] = polls[q]
    BY <1>1, <2>2 DEF SetPoll, PollStates
  <2>3. ASSUME EndPoll(p)
        PROVE  /\ polls'[p].pc = "idle" /\ polls'[p].fence = 0
               /\ \A q \in Pollers : q # p => polls'[q] = polls[q]
    BY <1>1, <2>3 DEF EndPoll
  <2>4. CASE StartPoll(p)
    BY <1>1, <1>2, <2>1, <2>2, <2>4 DEF StartPoll, Locked, Poll
  <2>5. CASE TryLock(p)
    <3>1. CASE PendingMutexFree /\ Polls
      BY <1>1, <1>2, <2>1, <2>2, <2>5, <3>1 DEF TryLock, Locked, Poll, PendingMutexFree, Polls
    <3>2. CASE ~(PendingMutexFree /\ Polls)
      BY <1>1, <1>2, <2>1, <2>3, <2>5, <3>2 DEF TryLock, Locked, Poll
    <3> QED BY <3>1, <3>2
  <2>6. CASE ReadFence(p)
    <3>1. /\ polls'[p].pc = "entry" /\ polls'[p].fence = gpu.fence /\ holder' = holder
          /\ \A q \in Pollers : q # p => polls'[q] = polls[q]
      BY <1>1, <2>6 DEF ReadFence
    <3>2. polls[p].pc = "fence"
      BY <2>6 DEF ReadFence, Poll
    <3> QED BY <1>1, <1>2, <2>1, <3>1, <3>2 DEF Locked
  <2>7. CASE Advance(p)
    BY <1>3, <2>1, <2>7 DEF Advance
  <2>8. CASE EndAdvance(p)
    BY <1>1, <1>2, <2>1, <2>3, <2>8 DEF EndAdvance, Locked
  <2>9. CASE FailAdvance(p)
    BY <1>1, <1>2, <2>1, <2>2, <2>9 DEF FailAdvance, Locked, Poll
  <2>10. CASE Fail(p)
    BY <1>1, <1>2, <2>1, <2>3, <2>10 DEF Fail, Locked, Poll
  <2> QED BY <1>4, <2>4, <2>5, <2>6, <2>7, <2>8, <2>9, <2>10 DEF PollNext
<1>5. CASE (\E kind \in Kinds, mark \in Marks \cup {0} : StartSubmit(kind, mark)) \/ SubmitNext
  <2>1. source'.closed = source.closed /\ polls' = polls /\ holder' = holder
    BY <1>1, <1>5 DEF StartSubmit, SubmitNext, QueueWork, WorkRefused, Push, SourceStates
  <2> QED BY <1>3, <2>1
<1>6. CASE \/ \E mark \in Marks :
                 TakeGuestImage(mark) \/ DiscardGuestImagesThrough(mark) \/ StartPeek(mark)
           \/ PeekNext
  <2>1. source'.closed = source.closed /\ polls' = polls /\ holder' = holder
    BY <1>1, <1>6 DEF TakeGuestImage, TakeImage, DiscardGuestImagesThrough, StartPeek, PeekNext,
                      AwaitWork, AwaitPasses, StorePeek, SourceStates
  <2> QED BY <1>3, <2>1
<1>7. CASE Close
    BY <1>3, <1>7 DEF Close, PendingMutexFree
<1>8. CASE RendererNext \/ DeviceNext \/ StopProducer \/ UNCHANGED vars
    BY <1>3, <1>8 DEF RendererNext, DeviceNext, StopProducer, sourceVars, vars
<1> QED BY <1>4, <1>5, <1>6, <1>7, <1>8 DEF Next

\* A peek refers to finished work by the time it has an image to keep.
LEMMA PeekKept ==
    ASSUME CompletionInv, [Next]_vars PROVE PeekInv'
<1>1. /\ source \in SourceStates /\ peek \in PeekStates /\ PeekInv /\ ImagesInv /\ EntriesInv
      /\ StreamInv /\ StreamInv' /\ Keeps
    BY StreamStep DEF CompletionInv, SourceInv, SourceType, StreamSteps
<1>2. ASSUME peek' = peek PROVE PeekInv'
    BY <1>1, <1>2, Kept DEF PeekInv
<1>3. ASSUME peek'.pc = "idle" PROVE PeekInv'
    BY <1>3 DEF PeekInv
<1>4. ASSUME NEW mark \in Marks, StartPeek(mark) PROVE PeekInv'
  <2>0. requests' = requests /\ gpu' = gpu
    BY <1>4 DEF StartPeek, streamVars
  <2>1. ASSUME NEW image \in source.images,
               peek' = [pc |-> "wait", mark |-> mark, work |-> image[2], graph |-> FALSE]
        PROVE  PeekInv'
    BY <1>1, <2>0, <2>1 DEF PeekInv, ImagesInv, ImagesAreDone, Finished
  <2>2. ASSUME NEW i \in PendingWith(mark),
               peek' = [pc |-> "wait", mark |-> mark, work |-> source.pending[i].work,
                        graph |-> source.pending[i].kind = "prefix"]
        PROVE  PeekInv'
    <3> DEFINE e == source.pending[i]
    <3>1. i \in DOMAIN source.pending /\ e.mark = mark /\ mark # 0
      BY SourceConstants DEF PendingWith
    <3>2. Entry(e) /\ e.kind # "inherit"
      BY <1>1, <3>1 DEF EntriesInv, Entry
    <3>3. e.work \in DOMAIN requests /\ requests[e.work].kind = e.kind
      BY <3>2 DEF Entry
    <3>4. peek'.pc = "wait" /\ peek'.work = e.work /\ peek'.graph = (e.kind = "prefix")
      BY <2>2
    <3> QED BY <2>0, <3>3, <3>4 DEF PeekInv, IsPrefix
  <2> QED BY <1>4, <2>1, <2>2 DEF StartPeek
<1>5. CASE AwaitWork
  <2>0. requests' = requests /\ gpu' = gpu
    BY <1>5 DEF AwaitWork, streamVars
  <2>1. CASE peek' = NoPeek
    BY <1>3, <2>1 DEF NoPeek
  <2>2. CASE peek' # NoPeek
    <3>1. /\ SettledOk(peek.work) /\ peek.work \in DOMAIN requests /\ peek.pc = "wait"
          /\ peek' = [peek EXCEPT !.pc = IF peek.graph THEN "fence" ELSE "store"]
      BY <1>1, <1>5, <2>2 DEF AwaitWork, SettledOk, PeekInv
    <3>2. CASE peek.graph
      BY <1>1, <2>0, <3>1, <3>2 DEF PeekInv, PeekStates, SettledOk
    <3>3. CASE ~peek.graph
      <4>1. Finished(peek.work)
        BY <1>1, <3>1, <3>3 DEF PeekInv, StreamInv, Settlement, Finished, Fence
      <4> QED BY <1>1, <2>0, <3>1, <3>3, <4>1 DEF PeekInv, PeekStates, Finished
    <3> QED BY <3>2, <3>3
  <2> QED BY <2>1, <2>2
<1>6. CASE AwaitPasses
  <2>0. requests' = requests /\ gpu' = gpu
    BY <1>6 DEF AwaitPasses, streamVars
  <2>1. CASE peek' = NoPeek
    BY <1>3, <2>1 DEF NoPeek
  <2>2. CASE peek' # NoPeek
    <3>1. /\ SettledOk(peek.work) /\ peek.work \in DOMAIN requests /\ PassesDone
          /\ peek' = [peek EXCEPT !.pc = "store"]
      BY <1>1, <1>6, <2>2 DEF AwaitPasses, PeekInv
    <3>2. Finished(peek.work)
      BY <1>1, <3>1 DEF PassesDone, Finished, StreamInv, Settlement, Fence
    <3> QED BY <1>1, <2>0, <3>1, <3>2 DEF PeekInv, PeekStates, Finished
  <2> QED BY <2>1, <2>2
<1>7. CASE StorePeek
    BY <1>3, <1>7 DEF StorePeek, NoPeek
<1>8. CASE \/ (\E kind \in Kinds, mark \in Marks \cup {0} : StartSubmit(kind, mark)) \/ SubmitNext
           \/ \E p \in Pollers : PollNext(p)
           \/ \E mark \in Marks : TakeGuestImage(mark) \/ DiscardGuestImagesThrough(mark)
           \/ RendererNext \/ DeviceNext \/ Close \/ StopProducer \/ UNCHANGED vars
  <2>1. peek' = peek
    BY <1>8 DEF StartSubmit, SubmitNext, QueueWork, WorkRefused, Push, PollNext, StartPoll,
      TryLock, ReadFence, Advance, EndAdvance, FailAdvance, Fail, TakeGuestImage,
      DiscardGuestImagesThrough, RendererNext, DeviceNext, Close, StopProducer, sourceVars, vars
  <2> QED BY <1>2, <2>1
<1> QED BY <1>4, <1>5, <1>6, <1>7, <1>8 DEF Next, PeekNext

-----------------------------------------------------------------------------
(* The images, and the work behind a value. *)

\* What a poll pops is done, and so is the image it keeps.
LEMMA PoppedIsDone ==
    ASSUME CompletionInv, NEW p \in Pollers, Advance(p)
    PROVE  /\ source.pending # <<>> /\ ~source.closed /\ Front \in Entries /\ Entry(Front)
           /\ WorkDone(Front)
           /\ Pop({}) \/ (Front.work \in DOMAIN requests /\ Finished(Front.work) /\ Pop(KeptImages))
<1>1. /\ source \in SourceStates /\ source.pending \in Seq(Entries) /\ source.pending # <<>>
    BY DEF CompletionInv, SourceInv, SourceType, SourceStates, Advance
<1>2. Front \in Entries /\ 1 \in DOMAIN source.pending
    BY <1>1, ElementOfSeq, LenProperties, HeadTailProperties DEF Front
<1>3. Entry(Front)
    BY <1>2 DEF CompletionInv, SourceInv, EntriesInv, Front
<1>4. holder = p /\ p # 0 /\ ~source.closed /\ polls[p].fence <= gpu.fence
    BY SourceConstants DEF Advance, CompletionInv, SourceInv, Locked
<1>5. CASE Front.kind = "inherit"
    BY <1>1, <1>2, <1>3, <1>4, <1>5 DEF Advance, WorkDone
<1>6. CASE Front.kind # "inherit"
  <2>1. /\ Front.work \in DOMAIN requests /\ requests[Front.work].kind = Front.kind
        /\ Result.settled
        /\ \/ Result.ok /\ FenceReached(p) /\ Pop(KeptImages)
           \/ ~Result.ok /\ Skippable /\ Pop({})
    BY <1>3, <1>6 DEF Advance, Entry
  <2>2. CASE Result.ok /\ FenceReached(p) /\ Pop(KeptImages)
    <3>1. SettledOk(Front.work)
      BY <2>1, <2>2 DEF SettledOk, Result
    <3>2. Fence(Front.work) # 0 /\ (~IsPrefix(Front.work) => gpu.fence >= Fence(Front.work))
      BY <2>1, <3>1 DEF CompletionInv, StreamInv, Settlement
    <3>3. Fence(Front.work) \in Nat /\ gpu.fence \in Nat /\ polls[p].fence \in Nat
      BY <2>1, RequestTypes
      DEF CompletionInv, StreamInv, StreamType, SourceInv, SourceType, PollStates
    <3>4. gpu.fence >= Fence(Front.work)
      BY <1>4, <2>1, <2>2, <3>2, <3>3 DEF FenceReached, IsPrefix, Fence
    <3>5. Finished(Front.work)
      BY <3>2, <3>4 DEF Finished, Fence
    <3> QED BY <1>1, <1>2, <1>3, <1>4, <2>1, <2>2, <3>5 DEF WorkDone
  <2>3. CASE ~Result.ok /\ Skippable /\ Pop({})
    <3>1. Fence(Front.work) = 0 /\ Front.work # stream.active
      BY <1>4, <2>1, <2>3
      DEF CompletionInv, SourceInv, FailedUnsubmitted, Skippable, Result
    <3>2. WorkDone(Front)
      BY <2>1, <2>3, <3>1 DEF WorkDone, Skippable, Result, Fence
    <3> QED BY <1>1, <1>2, <1>3, <1>4, <2>3, <3>2
  <2> QED BY <2>1, <2>2, <2>3
<1> QED BY <1>5, <1>6

LEMMA ImagesKept ==
    ASSUME CompletionInv, [Next]_vars PROVE ImagesInv'
<1>1. /\ source \in SourceStates /\ ImagesInv /\ Keeps /\ StreamInv /\ StreamInv'
      /\ source.discarded \in Nat
      /\ source.images \in SUBSET (Marks \X Nat) /\ source.peeked \in SUBSET (Marks \X Nat)
    BY StreamStep DEF CompletionInv, SourceInv, SourceType, StreamSteps, SourceStates
<1>2. \A r \in DOMAIN requests : r \in DOMAIN requests' /\ (Finished(r) => Finished(r)')
    BY <1>1, Kept
\* What is held only shrinks, or an image of finished work is added.
<1>3. ASSUME NEW images, NEW kept, source'.images \subseteq source.images \cup images,
             source'.peeked \subseteq source.peeked \cup kept,
             \A image \in images \cup kept : image[2] \in DOMAIN requests /\ Finished(image[2]),
             source'.closed => source'.images = {} /\ source'.peeked = {},
             \A image \in source'.images : image[1] > source'.discarded
      PROVE  ImagesInv'
  <2>1. \A image \in source'.images \cup source'.peeked :
          image[2] \in DOMAIN requests /\ Finished(image[2])
    BY <1>1, <1>3 DEF ImagesInv, ImagesAreDone
  <2>2. \A image \in source'.images \cup source'.peeked :
          image[2] \in DOMAIN requests' /\ Finished(image[2])'
    <3> SUFFICES ASSUME NEW image \in source'.images \cup source'.peeked
                 PROVE  image[2] \in DOMAIN requests' /\ Finished(image[2])'
      OBVIOUS
    <3> QED BY <1>2, <2>1
  <2>3. ImagesAreDone'
    BY <2>2 DEF ImagesAreDone
  <2>4. NothingBelowDiscard'
    BY <1>3 DEF NothingBelowDiscard, MarksOf
  <2> QED BY <1>3, <2>2, <2>3, <2>4 DEF ImagesInv, ClosedIsEmpty
<1>4. /\ source.closed => source.images = {} /\ source.peeked = {}
      /\ \A image \in source.images : image[1] > source.discarded
    BY <1>1 DEF ImagesInv, ClosedIsEmpty, NothingBelowDiscard, MarksOf
<1>5. ASSUME source'.images = source.images, source'.peeked = source.peeked,
             source'.closed = source.closed, source'.discarded = source.discarded
      PROVE  ImagesInv'
  <2>1. source'.images \subseteq source.images \cup {} /\ source'.peeked \subseteq source.peeked \cup {}
    BY <1>5
  <2>2. /\ source'.closed => source'.images = {} /\ source'.peeked = {}
        /\ \A image \in source'.images : image[1] > source'.discarded
    BY <1>4, <1>5
  <2> QED BY <1>3, <2>1, <2>2
<1>6. ASSUME NEW p \in Pollers, Advance(p) PROVE ImagesInv'
  <2> DEFINE image == <<Front.mark, Front.work>>
  <2>1. ~source.closed
    BY <1>6, PoppedIsDone
  <2>2. CASE Pop({})
    <3>1. source'.images = source.images /\ source'.peeked = source.peeked
          /\ source'.closed = source.closed /\ source'.discarded = source.discarded
      BY <1>1, <2>2 DEF Pop, SourceStates
    <3> QED BY <1>5, <3>1
  <2>3. CASE Front.work \in DOMAIN requests /\ Finished(Front.work) /\ Pop(KeptImages)
    <3>1. source'.images = source.images \cup KeptImages /\ source'.peeked = source.peeked
          /\ source'.closed = source.closed /\ source'.discarded = source.discarded
      BY <1>1, <2>3 DEF Pop, SourceStates
    <3>2. KeptImages \subseteq {image} /\ \A i \in KeptImages : i[1] > source.discarded
      BY DEF KeptImages
    <3>3. source'.peeked \subseteq source.peeked \cup {}
      BY <3>1
    <3>4. \A i \in KeptImages : i[2] \in DOMAIN requests /\ Finished(i[2])
      BY <2>3, <3>2
    <3> QED BY <1>3, <1>4, <2>1, <3>1, <3>2, <3>3, <3>4
  <2> QED BY <1>6, <2>2, <2>3, PoppedIsDone
\* A take or a discard keeps what is above it.
<1>7. ASSUME NEW mark \in Marks, NEW n \in Nat, n <= mark \/ n = source.discarded,
             source'.images = Above(source.images, mark),
             source'.peeked = Above(source.peeked, mark), source'.closed = source.closed,
             source'.discarded = n
      PROVE  ImagesInv'
  <2>1. source'.images \subseteq source.images \cup {} /\ source'.peeked \subseteq source.peeked \cup {}
    BY <1>7 DEF Above
  <2>2. \A image \in source'.images :
          /\ image[1] \in Nat /\ image[1] > mark /\ image[1] > source.discarded
          /\ mark \in Nat
    BY <1>1, <1>4, <1>7, SourceConstants DEF Above
  <2>3. \A image \in source'.images : image[1] > source'.discarded
    BY <1>1, <1>7, <2>2
  <2>4. source'.closed => source'.images = {} /\ source'.peeked = {}
    BY <1>4, <1>7, <2>1
  <2> QED BY <1>3, <2>1, <2>3, <2>4
<1>8. ASSUME NEW mark \in Marks, TakeGuestImage(mark) PROVE ImagesInv'
  <2>1. PICK n \in Nat : n = IF mark - 1 > source.discarded THEN mark - 1 ELSE source.discarded
    BY <1>1, SourceConstants
  <2>2. n <= mark \/ n = source.discarded
    BY <2>1, SourceConstants
  <2>3. /\ source'.images = Above(source.images, mark) /\ source'.peeked = Above(source.peeked, mark)
        /\ source'.closed = source.closed /\ source'.discarded = n
    BY <1>1, <1>8, <2>1 DEF TakeGuestImage, TakeImage, SourceStates
  <2> QED BY <1>7, <2>2, <2>3
<1>9. ASSUME NEW mark \in Marks, DiscardGuestImagesThrough(mark) PROVE ImagesInv'
  <2>1. PICK n \in Nat : n = IF mark > source.discarded THEN mark ELSE source.discarded
    BY <1>1, SourceConstants
  <2>2. n <= mark \/ n = source.discarded
    BY <2>1, SourceConstants
  <2>3. /\ source'.images = Above(source.images, mark) /\ source'.peeked = Above(source.peeked, mark)
        /\ source'.closed = source.closed /\ source'.discarded = n
    BY <1>1, <1>9, <2>1 DEF DiscardGuestImagesThrough, SourceStates
  <2> QED BY <1>7, <2>2, <2>3
<1>10. CASE StorePeek
  <2> DEFINE kept == IF StillWanted THEN {<<peek.mark, peek.work>>} ELSE {}
  <2>1. source'.images = source.images /\ source'.peeked = source.peeked \cup kept
        /\ source'.closed = source.closed /\ source'.discarded = source.discarded
    BY <1>1, <1>10 DEF StorePeek, SourceStates
  <2>2. peek.work \in DOMAIN requests /\ Finished(peek.work)
    BY <1>10 DEF StorePeek, CompletionInv, SourceInv, PeekInv
  <2>3. source.closed => kept = {}
    BY DEF StillWanted
  <2>4. \A image \in kept : image[2] \in DOMAIN requests /\ Finished(image[2])
    BY <2>2
  <2>5. source'.closed => source'.images = {} /\ source'.peeked = {}
    BY <1>4, <2>1, <2>3
  <2>6. source'.images \subseteq source.images \cup {}
    BY <2>1
  <2> HIDE DEF kept
  <2> QED BY <1>3, <1>4, <2>1, <2>4, <2>5, <2>6
<1>11. CASE Close
  <2>1. source'.images = {} /\ source'.peeked = {}
    BY <1>1, <1>11 DEF Close, SourceStates
  <2>2. source'.images \subseteq source.images \cup {} /\ source'.peeked \subseteq source.peeked \cup {}
        /\ \A image \in source'.images : image[1] > source'.discarded
    BY <2>1
  <2> QED BY <1>3, <2>1, <2>2
<1>12. ASSUME NEW p \in Pollers, PollNext(p), ~Advance(p) PROVE ImagesInv'
  <2>1. source'.images = source.images /\ source'.peeked = source.peeked
        /\ source'.closed = source.closed /\ source'.discarded = source.discarded
    BY <1>1, <1>12 DEF PollNext, StartPoll, TryLock, ReadFence, EndAdvance, FailAdvance, Fail,
                       SourceStates
  <2> QED BY <1>5, <2>1
<1>13. CASE \/ (\E kind \in Kinds, mark \in Marks \cup {0} : StartSubmit(kind, mark))
            \/ SubmitNext \/ AwaitWork \/ AwaitPasses \/ \E mark \in Marks : StartPeek(mark)
            \/ RendererNext \/ DeviceNext \/ StopProducer \/ UNCHANGED vars
  <2>1. source'.images = source.images /\ source'.peeked = source.peeked
        /\ source'.closed = source.closed /\ source'.discarded = source.discarded
    BY <1>1, <1>13 DEF StartSubmit, SubmitNext, QueueWork, WorkRefused, Push, AwaitWork,
      AwaitPasses, StartPeek, RendererNext, DeviceNext, StopProducer, sourceVars, vars, SourceStates
  <2> QED BY <1>5, <2>1
<1> QED BY <1>6, <1>8, <1>9, <1>10, <1>11, <1>12, <1>13 DEF Next, PeekNext

-----------------------------------------------------------------------------
(* The invariant. *)

LEMMA CompletionStarts == Init => CompletionInv
<1> SUFFICES ASSUME Init PROVE CompletionInv
    OBVIOUS
<1>1. StreamInv /\ FailedUnsubmitted /\ gpu.fence = 0
    BY StreamStarts DEF Init, StreamInit
<1>2. /\ source.pending = <<>> /\ source.images = {} /\ source.peeked = {} /\ ~source.closed
      /\ source \in SourceStates
  <2>1. <<>> \in Seq(Entries)
    OBVIOUS
  <2> QED BY <2>1 DEF Init, SourceStates
<1>3. submit \in SubmitStates /\ submit.pc = "idle"
  <2>1. NoSpan \in Entries
    BY DEF NoSpan, Entries, Kinds
  <2> QED BY <2>1 DEF Init, SubmitStates
<1>4. peek \in PeekStates /\ peek.pc = "idle"
    BY DEF Init, NoPeek, PeekStates
<1>5. /\ polls \in [Pollers -> PollStates] /\ holder = 0 /\ named = {}
      /\ \A p \in Pollers : polls[p].pc = "idle" /\ polls[p].fence = 0
    BY DEF Init, PollStates
<1>6. SourceType
    BY <1>2, <1>3, <1>4, <1>5 DEF SourceType
<1>7. EntriesInv /\ PeekInv
    BY <1>2, <1>3, <1>4 DEF EntriesInv, PeekInv
<1>8. Locked
    BY <1>1, <1>5, SourceConstants DEF Locked
<1>9. ImagesInv
    BY <1>2 DEF ImagesInv, ImagesAreDone, ClosedIsEmpty, NothingBelowDiscard, MarksOf
<1> QED BY <1>1, <1>6, <1>7, <1>8, <1>9 DEF CompletionInv, SourceInv

LEMMA CompletionStep == CompletionInv /\ [Next]_vars => CompletionInv'
<1> SUFFICES ASSUME CompletionInv, [Next]_vars PROVE CompletionInv'
    OBVIOUS
<1>1. StreamSteps
    BY StreamStep
<1>2. source.closed => source'.closed
  <2>1. source \in SourceStates
    BY DEF CompletionInv, SourceInv, SourceType
  <2>2. [source EXCEPT !.closed = TRUE, !.images = {}, !.peeked = {}].closed
    BY <2>1 DEF SourceStates
  <2>3. CASE Close
    BY <2>2, <2>3 DEF Close
  <2>4. CASE \E p \in Pollers : PollNext(p)
    BY <2>1, <2>4 DEF PollNext, StartPoll, TryLock, ReadFence, Advance, Pop, EndAdvance,
                      FailAdvance, Fail, SourceStates
  <2>5. CASE ~Close /\ ~\E p \in Pollers : PollNext(p)
    BY <2>1, <2>5 DEF Next, vars, StartSubmit, SubmitNext, QueueWork, WorkRefused, Push,
      TakeGuestImage, TakeImage, DiscardGuestImagesThrough, StartPeek, PeekNext, AwaitWork,
      AwaitPasses, StorePeek, RendererNext, DeviceNext, StopProducer, sourceVars, SourceStates
  <2> QED BY <2>3, <2>4, <2>5
<1>3. ~source'.closed => FailedUnsubmitted'
    BY <1>1, <1>2 DEF StreamSteps, CompletionInv, SourceInv
<1> QED BY <1>1, <1>3, TypesKept, EntriesKept, LockedKept, PeekKept, ImagesKept
    DEF CompletionInv, SourceInv, StreamSteps

LEMMA CompletionInvariant == Spec => []CompletionInv
BY CompletionStarts, CompletionStep, PTL DEF Spec

\* The types of the source's members and of the stream behind it
\* (native_completion_source.h, native_renderer_d3d12.cpp).
THEOREM SourceTypeCorrect == Spec => []TypeOK
<1>1. CompletionInv => TypeOK
    BY DEF CompletionInv, StreamInv, SourceInv, TypeOK
<1> QED BY <1>1, CompletionInvariant, PTL

\* Every image that a take or a peek can show was read back by GPU work that
\* is finished, whatever polls, peeks, discards and losses came between.
THEOREM ImagesDone == Spec => []ImagesAreDone
<1>1. CompletionInv => ImagesAreDone
    BY DEF CompletionInv, SourceInv, ImagesInv
<1> QED BY <1>1, CompletionInvariant, PTL

\* An image discarded while its readback was in flight never comes back, and a
\* closed source holds none, although polls, peeks and Submits that began
\* before the close go on after it.
THEOREM TakenAwayStaysGone == Spec => []NoStaleImages
<1>1. CompletionInv => NoStaleImages
    BY DEF CompletionInv, SourceInv, ImagesInv, NoStaleImages
<1> QED BY <1>1, CompletionInvariant, PTL

-----------------------------------------------------------------------------
(* What a cached encoding belongs to.                                       *)

\* All that is pending under a mark is this work.
WorkOf(mark, work) == \A i \in PendingWith(mark) : source.pending[i].work = work

\* A mark names one resolve: what is pending, held, cached or peeked under it
\* has the same work.
NamesInv ==
    /\ \A i \in DOMAIN source.pending :
          source.pending[i].mark # 0 => source.pending[i].mark \in named
    /\ \A i, j \in DOMAIN source.pending :
          source.pending[i].mark = source.pending[j].mark /\ i # j =>
             source.pending[i].mark = 0
    /\ submit.pc # "idle" => submit.span.mark \notin named
    /\ \A image \in source.images \cup source.peeked : image[1] \in named
    /\ \A image \in source.images : PendingWith(image[1]) = {}
    /\ \A image \in source.peeked : WorkOf(image[1], image[2])
    /\ peek.pc # "idle" => peek.mark \in named /\ WorkOf(peek.mark, peek.work)

CacheInv == CompletionInv /\ NamesInv /\ PeekedIsLive

\* The work a peek waits for is the work pending under its mark.
PeekNamed ==
    peek.pc # "idle" =>
        /\ peek.mark \in named
        /\ \A i \in DOMAIN source.pending :
              source.pending[i].mark = peek.mark => source.pending[i].work = peek.work

LEMMA PeekNames ==
    (peek.pc # "idle" => peek.mark \in named /\ WorkOf(peek.mark, peek.work)) <=> PeekNamed
BY DEF PeekNamed, WorkOf, PendingWith

LEMMA NamesSame ==
    ASSUME NamesInv, source'.pending = source.pending, named' = named,
           source'.images \subseteq source.images,
           \A image \in source'.peeked : image[1] \in named /\ WorkOf(image[1], image[2]),
           submit'.pc # "idle" => submit'.span.mark \notin named,
           PeekNamed'
    PROVE  NamesInv'
<1>1. /\ \A i \in DOMAIN source'.pending :
            source'.pending[i].mark # 0 => source'.pending[i].mark \in named'
      /\ \A i, j \in DOMAIN source'.pending :
            source'.pending[i].mark = source'.pending[j].mark /\ i # j =>
               source'.pending[i].mark = 0
      /\ submit'.pc # "idle" => submit'.span.mark \notin named'
      /\ \A image \in source'.images \cup source'.peeked : image[1] \in named'
  BY DEF NamesInv
<1>2. \A image \in source'.images : PendingWith(image[1])' = {}
  BY DEF NamesInv, PendingWith
<1>3. \A image \in source'.peeked : WorkOf(image[1], image[2])'
  BY DEF WorkOf, PendingWith
<1>4. (peek.pc # "idle" => peek.mark \in named /\ WorkOf(peek.mark, peek.work))'
  BY DEF PeekNamed, WorkOf, PendingWith
<1> QED BY <1>1, <1>2, <1>3, <1>4 DEF NamesInv

\* What stays pending is what was, and at most one entry is added.
LEMMA PushNames ==
    ASSUME CompletionInv, NamesInv, Push
    PROVE  NamesInv'
<1> DEFINE q == source.pending
           span == submit.span
           n == Len(q) + 1
<1>1. /\ source \in SourceStates /\ q \in Seq(Entries) /\ span \in Entries
      /\ named \subseteq Marks /\ 0 \notin named
  BY SourceConstants DEF CompletionInv, SourceInv, SourceType, SourceStates, SubmitStates
<1>2. /\ source'.pending = Append(q, span) /\ source'.images = source.images
      /\ source'.peeked = source.peeked /\ submit'.pc = "idle" /\ peek' = peek
      /\ named' = named \cup ({span.mark} \ {0})
      /\ span.mark \notin named
  BY <1>1 DEF Push, EndSubmit, SourceStates, NamesInv
<1>3. /\ Len(q) \in Nat /\ DOMAIN q = 1 .. Len(q) /\ DOMAIN source'.pending = 1 .. n
      /\ \A i \in DOMAIN q : source'.pending[i] = q[i]
      /\ source'.pending[n] = span
  BY <1>1, <1>2, AppendProperties, LenProperties
<1>4. \A i \in DOMAIN source'.pending : i \in DOMAIN q \/ i = n
  BY <1>3
<1> HIDE DEF n
<1>5. \A i \in DOMAIN q : q[i].mark # span.mark \/ q[i].mark = 0
  BY <1>2 DEF NamesInv
<1>6. /\ \A i \in DOMAIN source'.pending :
            source'.pending[i].mark # 0 => source'.pending[i].mark \in named'
      /\ \A i, j \in DOMAIN source'.pending :
            source'.pending[i].mark = source'.pending[j].mark /\ i # j =>
               source'.pending[i].mark = 0
  BY <1>2, <1>3, <1>4, <1>5 DEF NamesInv
<1>7. \A mark \in named : PendingWith(mark)' = PendingWith(mark)
  <2>1. ASSUME NEW mark \in named
        PROVE  PendingWith(mark)' = PendingWith(mark)
    <3>1. \A i \in DOMAIN source'.pending : source'.pending[i].mark = mark =>
             i \in DOMAIN q /\ q[i].mark = mark
      BY <1>2, <1>3, <1>4
    <3>2. \A i \in DOMAIN q : i \in DOMAIN source'.pending
      BY <1>3 DEF n
    <3> QED BY <1>3, <3>1, <3>2 DEF PendingWith
  <2> QED BY <2>1
<1>8. \A mark \in named : \A work : WorkOf(mark, work) => WorkOf(mark, work)'
  <2>1. ASSUME NEW mark \in named, NEW work, WorkOf(mark, work)
        PROVE  WorkOf(mark, work)'
    <3>1. \A i \in PendingWith(mark) : i \in DOMAIN q
      BY DEF PendingWith
    <3> QED BY <1>3, <1>7, <2>1, <3>1 DEF WorkOf
  <2> QED BY <2>1
<1>9. /\ \A image \in source'.images \cup source'.peeked : image[1] \in named
      /\ \A image \in source'.images : PendingWith(image[1]) = {}
      /\ \A image \in source'.peeked : WorkOf(image[1], image[2])
      /\ PeekNamed
  BY <1>2, PeekNames DEF NamesInv
<1>10. /\ \A image \in source'.images : PendingWith(image[1])' = {}
       /\ \A image \in source'.peeked : WorkOf(image[1], image[2])'
  BY <1>7, <1>8, <1>9
<1>11. PeekNamed'
  BY <1>2, <1>3, <1>4, <1>9 DEF PeekNamed
<1>12. (peek.pc # "idle" => peek.mark \in named /\ WorkOf(peek.mark, peek.work))'
  BY <1>11 DEF PeekNamed, WorkOf, PendingWith
<1> QED BY <1>2, <1>6, <1>9, <1>10, <1>12 DEF NamesInv

\* The front leaves, perhaps for its image.
LEMMA AdvanceNames ==
    ASSUME CompletionInv, NamesInv, NEW p \in Pollers, Advance(p)
    PROVE  /\ NamesInv'
           /\ \A mark \in Marks : \A i \in PendingWith(mark) :
                 i = 1 \/ PendingWith(mark)' # {}
<1> DEFINE q == source.pending
<1>1. /\ source \in SourceStates /\ q \in Seq(Entries) /\ q # <<>>
      /\ source.images \in SUBSET (Marks \X Nat) /\ source.discarded \in Nat
  BY PoppedIsDone DEF CompletionInv, SourceInv, SourceType, SourceStates
<1>2. /\ source'.pending = Tail(q) /\ source'.peeked = source.peeked
      /\ source'.images \subseteq source.images \cup KeptImages
      /\ named' = named /\ peek' = peek /\ submit' = submit
  BY ZenonT(30), <1>1, PoppedIsDone DEF Advance, Pop, SourceStates
<1>3. /\ Len(q) \in Nat /\ DOMAIN q = 1 .. Len(q) /\ 1 \in DOMAIN q
      /\ Len(source'.pending) = Len(q) - 1 /\ DOMAIN source'.pending = 1 .. Len(q) - 1
      /\ \A i \in DOMAIN source'.pending :
            i + 1 \in DOMAIN q /\ i + 1 # 1 /\ source'.pending[i] = q[i + 1]
  BY <1>1, <1>2, HeadTailProperties, LenProperties
<1>4. \A mark : \A i \in PendingWith(mark)' : i + 1 \in PendingWith(mark)
  BY <1>3 DEF PendingWith
<1>5. \A mark : \A i \in PendingWith(mark) : i = 1 \/ PendingWith(mark)' # {}
  <2>1. ASSUME NEW mark, NEW i \in PendingWith(mark), i # 1
        PROVE  i - 1 \in PendingWith(mark)'
    <3>1. i \in DOMAIN q /\ q[i].mark = mark
      BY DEF PendingWith
    <3>2. i - 1 \in DOMAIN source'.pending /\ source'.pending[i - 1] = q[(i - 1) + 1]
          /\ (i - 1) + 1 = i
      BY <1>3, <2>1, <3>1
    <3> QED BY <3>1, <3>2 DEF PendingWith
  <2> QED BY <2>1
<1>6. /\ \A i \in DOMAIN source'.pending :
            source'.pending[i].mark # 0 => source'.pending[i].mark \in named'
      /\ \A i, j \in DOMAIN source'.pending :
            source'.pending[i].mark = source'.pending[j].mark /\ i # j =>
               source'.pending[i].mark = 0
  <2>1. \A i, j \in DOMAIN source'.pending : i # j => i + 1 # j + 1
    BY <1>3
  <2> QED BY <1>2, <1>3, <2>1 DEF NamesInv
<1>7. \A mark, work : WorkOf(mark, work) => WorkOf(mark, work)'
  <2>1. ASSUME NEW mark, NEW work, WorkOf(mark, work), NEW i \in PendingWith(mark)'
        PROVE  source'.pending[i].work = work
    <3>1. i + 1 \in PendingWith(mark) /\ i \in DOMAIN source'.pending
      BY <1>4 DEF PendingWith
    <3> QED BY <1>3, <2>1, <3>1 DEF WorkOf
  <2> QED BY <2>1 DEF WorkOf
<1>8. \A image \in KeptImages : image[1] \in named /\ PendingWith(image[1])' = {}
  <2>1. ASSUME NEW image \in KeptImages
        PROVE  image[1] \in named /\ PendingWith(image[1])' = {}
    <3>1. image[1] = q[1].mark /\ q[1].mark > source.discarded
      BY DEF KeptImages, Front
    <3>2. q[1].mark # 0
      BY <1>1, <3>1
    <3>3. ASSUME NEW i \in PendingWith(image[1])' PROVE FALSE
      <4>1. i + 1 \in PendingWith(image[1]) /\ i \in DOMAIN source'.pending
        BY <1>4 DEF PendingWith
      <4>2. i + 1 \in DOMAIN q /\ q[i + 1].mark = q[1].mark /\ i + 1 # 1
        BY <1>3, <3>1, <4>1 DEF PendingWith
      <4> QED BY <1>3, <3>2, <4>2 DEF NamesInv
    <3> QED BY <1>3, <3>1, <3>2, <3>3 DEF NamesInv
  <2> QED BY <2>1
<1>9. /\ \A image \in source'.images \cup source'.peeked : image[1] \in named'
      /\ \A image \in source'.images : PendingWith(image[1])' = {}
      /\ \A image \in source'.peeked : WorkOf(image[1], image[2])'
  <2>1. \A image \in source.images : PendingWith(image[1])' = {}
    <3>1. \A image \in source.images : PendingWith(image[1]) = {}
      BY DEF NamesInv
    <3> QED BY <1>4, <3>1
  <2>2. \A image \in source.peeked : WorkOf(image[1], image[2])
    BY DEF NamesInv
  <2> QED BY <1>2, <1>7, <1>8, <2>1, <2>2 DEF NamesInv
<1>10. PeekNamed'
  <2>1. PeekNamed
    BY PeekNames DEF NamesInv
  <2> QED BY <1>2, <1>3, <2>1 DEF PeekNamed
<1>11. /\ submit'.pc # "idle" => submit'.span.mark \notin named'
       /\ (peek.pc # "idle" => peek.mark \in named /\ WorkOf(peek.mark, peek.work))'
  BY <1>2, <1>10 DEF NamesInv, PeekNamed, WorkOf, PendingWith
<1> QED BY <1>5, <1>6, <1>9, <1>11 DEF NamesInv

LEMMA NamesStep ==
    ASSUME CompletionInv, NamesInv, [Next]_vars
    PROVE  NamesInv'
<1>1. /\ source \in SourceStates /\ submit \in SubmitStates /\ peek \in PeekStates
      /\ named \subseteq Marks /\ 0 \notin named
      /\ source.images \in SUBSET (Marks \X Nat) /\ source.peeked \in SUBSET (Marks \X Nat)
  BY SourceConstants DEF CompletionInv, SourceInv, SourceType, SourceStates
<1>2. ASSUME source'.pending = source.pending, source'.images \subseteq source.images,
             source'.peeked \subseteq source.peeked, named' = named,
             submit'.pc = "idle" \/ (submit.pc # "idle" /\ submit'.span.mark = submit.span.mark),
             peek'.pc = "idle" \/ (/\ peek.pc # "idle" /\ peek'.mark = peek.mark
                                   /\ peek'.work = peek.work)
      PROVE  NamesInv'
  <2>1. submit'.pc # "idle" => submit'.span.mark \notin named
    BY <1>2 DEF NamesInv
  <2>2. \A image \in source'.peeked : image[1] \in named /\ WorkOf(image[1], image[2])
    BY <1>2 DEF NamesInv
  <2>3. PeekNamed'
    <3>1. PeekNamed
      BY PeekNames DEF NamesInv
    <3> QED BY <1>2, <3>1 DEF PeekNamed
  <2> QED BY <1>2, <2>1, <2>2, <2>3, NamesSame
<1>3. ASSUME NEW kind \in Kinds, NEW mark \in Marks \cup {0}, StartSubmit(kind, mark)
      PROVE  NamesInv'
  <2>1. /\ source'.pending = source.pending /\ source'.images = source.images
        /\ source'.peeked = source.peeked /\ named' = named /\ peek' = peek
        /\ submit'.span.mark = mark /\ mark \notin named
    BY <1>1, <1>3 DEF StartSubmit, SourceStates
  <2>2. \A image \in source'.peeked : image[1] \in named /\ WorkOf(image[1], image[2])
    BY <2>1 DEF NamesInv
  <2>3. PeekNamed'
    <3>1. PeekNamed
      BY PeekNames DEF NamesInv
    <3> QED BY <2>1, <3>1 DEF PeekNamed
  <2> QED BY <2>1, <2>2, <2>3, NamesSame
<1>4. CASE QueueWork
  <2>1. /\ submit.pc = "queue" /\ submit'.span.mark = submit.span.mark
    BY <1>1, <1>4 DEF QueueWork, SubmitStates, Entries
  <2>2. /\ source'.pending = source.pending /\ source'.images = source.images
        /\ source'.peeked = source.peeked /\ named' = named /\ peek' = peek
    BY <1>1, <1>4 DEF QueueWork, SourceStates
  <2> QED BY <1>2, <2>1, <2>2
<1>5. CASE WorkRefused
  BY <1>2, <1>5 DEF WorkRefused, EndSubmit
<1>6. ASSUME NEW p \in Pollers, PollNext(p), ~Advance(p) PROVE NamesInv'
  <2>1. /\ source'.pending = source.pending /\ source'.images = source.images
        /\ source'.peeked = source.peeked /\ named' = named /\ peek' = peek
        /\ submit' = submit
    BY <1>1, <1>6 DEF PollNext, StartPoll, TryLock, ReadFence, EndAdvance, FailAdvance, Fail,
                      SourceStates
  <2> QED BY <1>2, <2>1
<1>7. ASSUME NEW mark \in Marks, TakeGuestImage(mark) \/ DiscardGuestImagesThrough(mark)
      PROVE  NamesInv'
  <2>1. /\ source'.pending = source.pending /\ source'.images = Above(source.images, mark)
        /\ source'.peeked = Above(source.peeked, mark) /\ named' = named /\ peek' = peek
        /\ submit' = submit
    BY <1>1, <1>7 DEF TakeGuestImage, TakeImage, DiscardGuestImagesThrough, SourceStates
  <2>2. source'.images \subseteq source.images /\ source'.peeked \subseteq source.peeked
    BY <2>1 DEF Above
  <2> QED BY <1>2, <2>1, <2>2
<1>8. ASSUME NEW mark \in Marks, StartPeek(mark) PROVE NamesInv'
  <2>1. /\ source' = source /\ named' = named /\ submit' = submit
        /\ peek'.mark = mark /\ peek'.pc = "wait"
    BY <1>8 DEF StartPeek
  <2>2. mark \in named /\ WorkOf(mark, peek'.work)
    <3>1. CASE \E image \in source.images :
                 image[1] = mark
                 /\ peek' = [pc |-> "wait", mark |-> mark, work |-> image[2], graph |-> FALSE]
      BY <3>1 DEF NamesInv, WorkOf
    <3>2. ASSUME NEW i \in PendingWith(mark),
                 peek' = [pc |-> "wait", mark |-> mark, work |-> source.pending[i].work,
                          graph |-> source.pending[i].kind = "prefix"]
          PROVE  mark \in named /\ WorkOf(mark, peek'.work)
      <4>1. i \in DOMAIN source.pending /\ source.pending[i].mark = mark /\ mark # 0
        BY SourceConstants DEF PendingWith
      <4>2. \A j \in PendingWith(mark) : j = i
        BY <4>1 DEF PendingWith, NamesInv
      <4> QED BY <3>2, <4>1, <4>2 DEF NamesInv, WorkOf
    <3> QED BY <1>8, <3>1, <3>2 DEF StartPeek
  <2>3. PeekNamed'
    BY <2>1, <2>2 DEF PeekNamed, WorkOf, PendingWith
  <2>4. /\ submit'.pc # "idle" => submit'.span.mark \notin named
        /\ \A image \in source'.peeked : image[1] \in named /\ WorkOf(image[1], image[2])
    BY <2>1 DEF NamesInv
  <2> QED BY <2>1, <2>3, <2>4, NamesSame
<1>9. CASE AwaitWork \/ AwaitPasses
  <2>1. UNCHANGED <<source, submit, named>>
    BY <1>9 DEF AwaitWork, AwaitPasses
  <2>2. peek'.pc = "idle" \/ (/\ peek.pc # "idle" /\ peek'.mark = peek.mark
                              /\ peek'.work = peek.work)
    BY <1>1, <1>9 DEF AwaitWork, AwaitPasses, NoPeek, PeekStates
  <2> QED BY <1>2, <2>1, <2>2
<1>10. CASE StorePeek
  <2>1. /\ source'.pending = source.pending /\ source'.images = source.images
        /\ source'.peeked \subseteq source.peeked \cup {<<peek.mark, peek.work>>}
        /\ named' = named /\ submit' = submit /\ peek'.pc = "idle" /\ peek.pc = "store"
    BY <1>1, <1>10 DEF StorePeek, NoPeek, SourceStates
  <2>2. \A image \in source'.peeked : image[1] \in named /\ WorkOf(image[1], image[2])
    <3>1. \A image \in source.peeked : image[1] \in named /\ WorkOf(image[1], image[2])
      BY DEF NamesInv
    <3>2. peek.mark \in named /\ WorkOf(peek.mark, peek.work)
      BY <2>1 DEF NamesInv
    <3> QED BY <2>1, <3>1, <3>2
  <2>3. submit'.pc # "idle" => submit'.span.mark \notin named
    BY <2>1 DEF NamesInv
  <2>4. PeekNamed'
    BY <2>1 DEF PeekNamed
  <2> QED BY <2>1, <2>2, <2>3, <2>4, NamesSame
<1>11. CASE Close
  <2>1. /\ source'.pending = source.pending /\ source'.images = {} /\ source'.peeked = {}
        /\ named' = named /\ submit' = submit /\ peek' = peek
    BY <1>1, <1>11 DEF Close, SourceStates
  <2> QED BY <1>2, <2>1
<1>12. CASE RendererNext \/ DeviceNext \/ StopProducer \/ UNCHANGED vars
  BY <1>2, <1>12 DEF RendererNext, DeviceNext, StopProducer, sourceVars, vars
<1> QED BY <1>3, <1>4, <1>5, <1>6, <1>7, <1>8, <1>9, <1>10, <1>11, <1>12, PushNames,
           AdvanceNames DEF Next, SubmitNext, PeekNext

\* A front entry whose readback is finished leaves for its image.
LEMMA KeptWhenDone ==
    ASSUME CompletionInv, NEW p \in Pollers, Advance(p), Front.mark # 0, Finished(Front.work)
    PROVE  Pop(KeptImages)
<1>1. ~source.closed /\ Entry(Front) /\ Front.kind # "inherit"
  BY PoppedIsDone DEF Entry
<1>2. Front.work \in DOMAIN requests /\ Fence(Front.work) # 0 /\ Result.settled
  BY <1>1 DEF Entry, Advance, Finished, Fence
<1>3. ~(~Result.ok /\ Skippable)
  BY <1>1, <1>2 DEF CompletionInv, SourceInv, FailedUnsubmitted, Skippable, Result
<1> QED BY <1>1, <1>3 DEF Advance

Live(mark) == mark \in MarksOf(source.images) \/ PendingWith(mark) # {}

\* Nothing kept is taken away, or only what is no longer cached.
LEMMA LiveStep ==
    ASSUME CompletionInv, NamesInv, PeekedIsLive, [Next]_vars
    PROVE  PeekedIsLive'
<1>1. /\ source \in SourceStates /\ peek \in PeekStates /\ source.discarded \in Nat
      /\ named \subseteq Marks /\ Marks \subseteq Nat /\ 0 \notin Marks
      /\ source.images \in SUBSET (Marks \X Nat) /\ source.peeked \in SUBSET (Marks \X Nat)
  BY SourceConstants DEF CompletionInv, SourceInv, SourceType, SourceStates
<1>2. \A image \in source.peeked :
         /\ image[1] \in Marks /\ Live(image[1]) /\ image[1] > source.discarded
  BY <1>1 DEF PeekedIsLive, MarksOf, Live
<1>3. ASSUME \A image \in source'.peeked : Live(image[1])' /\ image[1] > source'.discarded
      PROVE  PeekedIsLive'
  BY <1>3 DEF PeekedIsLive, MarksOf, Live
<1>4. ASSUME source'.pending = source.pending, source'.images = source.images,
             source'.peeked = source.peeked, source'.discarded = source.discarded
      PROVE  PeekedIsLive'
  BY <1>4 DEF PeekedIsLive, MarksOf, PendingWith
<1>5. ASSUME NEW p \in Pollers, Advance(p) PROVE PeekedIsLive'
  <2>1. /\ source'.peeked = source.peeked /\ source'.discarded = source.discarded
        /\ source.images \subseteq source'.images
    <3>1. PICK images : Pop(images)
      BY <1>5, PoppedIsDone
    <3> QED BY <1>1, <3>1 DEF Pop, SourceStates
  <2>2. ASSUME NEW image \in source.peeked PROVE Live(image[1])'
    <3>1. CASE image[1] \in MarksOf(source.images)
      BY <2>1, <3>1 DEF Live, MarksOf
    <3>2. CASE \E i \in PendingWith(image[1]) : i # 1
      <4>1. PendingWith(image[1])' # {}
        BY <1>2, <1>5, <3>2, AdvanceNames
      <4> QED BY <4>1 DEF Live
    <3>3. CASE 1 \in PendingWith(image[1])
      <4>1. Front.mark = image[1] /\ Front.work = image[2]
        BY <3>3 DEF PendingWith, Front, NamesInv, WorkOf
      <4>2. Finished(Front.work)
        BY <4>1 DEF CompletionInv, SourceInv, ImagesInv, ImagesAreDone
      <4>3. Front.mark # 0
        BY <1>1, <1>2, <4>1
      <4>4. Pop(KeptImages)
        BY <1>5, <4>2, <4>3, KeptWhenDone
      <4>5. <<Front.mark, Front.work>> \in KeptImages
        BY <1>2, <4>1 DEF KeptImages
      <4>6. source'.images = source.images \cup KeptImages
        BY <1>1, <4>4 DEF Pop, SourceStates
      <4>7. PICK kept \in source'.images : kept[1] = image[1]
        BY <4>1, <4>5, <4>6
      <4> QED BY <4>7 DEF Live, MarksOf
    <3> QED BY <1>2, <3>1, <3>2, <3>3 DEF Live
  <2> QED BY <1>2, <1>3, <2>1, <2>2
<1>6. ASSUME NEW mark \in Marks, TakeGuestImage(mark) \/ DiscardGuestImagesThrough(mark)
      PROVE  PeekedIsLive'
  <2>1. /\ source'.pending = source.pending /\ source'.images = Above(source.images, mark)
        /\ source'.peeked = Above(source.peeked, mark)
    BY <1>1, <1>6 DEF TakeGuestImage, TakeImage, DiscardGuestImagesThrough, SourceStates
  <2>2. source'.discarded = source.discarded \/ source'.discarded = mark - 1
        \/ source'.discarded = mark
    BY <1>1, <1>6 DEF TakeGuestImage, TakeImage, DiscardGuestImagesThrough, SourceStates
  <2>3. ASSUME NEW image \in source'.peeked
        PROVE  Live(image[1])' /\ image[1] > source'.discarded
    <3>1. image \in source.peeked /\ image[1] > mark /\ image[1] \in Nat /\ mark \in Nat
      BY <1>1, <1>2, <2>1 DEF Above
    <3>2. image[1] > source'.discarded
      BY <1>1, <1>2, <2>2, <3>1
    <3>3. image[1] \in MarksOf(source.images) => image[1] \in MarksOf(source'.images)
      BY <2>1, <3>1 DEF Above, MarksOf
    <3>4. PendingWith(image[1])' = PendingWith(image[1])
      BY <2>1 DEF PendingWith
    <3> QED BY <1>2, <3>1, <3>2, <3>3, <3>4 DEF Live
  <2> QED BY <1>3, <2>3
<1>7. CASE StorePeek
  <2>1. /\ source'.pending = source.pending /\ source'.images = source.images
        /\ source'.discarded = source.discarded
        /\ source'.peeked = source.peeked
              \cup (IF StillWanted THEN {<<peek.mark, peek.work>>} ELSE {})
    BY <1>1, <1>7 DEF StorePeek, SourceStates
  <2>2. \A image \in source'.peeked : Live(image[1]) /\ image[1] > source.discarded
    BY <1>2, <2>1 DEF StillWanted, Live
  <2>3. \A mark : Live(mark)' = Live(mark)
    BY <2>1 DEF Live, MarksOf, PendingWith
  <2> QED BY <1>3, <2>1, <2>2, <2>3
<1>8. CASE Push
  <2>1. /\ source'.images = source.images /\ source'.peeked = source.peeked
        /\ source'.discarded = source.discarded
        /\ source'.pending = Append(source.pending, submit.span)
        /\ source.pending \in Seq(Entries) /\ submit.span \in Entries
    BY <1>1, <1>8 DEF Push, SourceStates, CompletionInv, SourceInv, SourceType, SubmitStates
  <2>2. \A i \in DOMAIN source.pending :
           i \in DOMAIN source'.pending /\ source'.pending[i] = source.pending[i]
    BY <2>1, AppendProperties, LenProperties
  <2>3. \A mark : Live(mark) => Live(mark)'
    BY <2>1, <2>2 DEF Live, MarksOf, PendingWith
  <2> QED BY <1>2, <1>3, <2>1, <2>3
<1>9. CASE Close
  <2>1. source'.peeked = {}
    BY <1>1, <1>9 DEF Close, SourceStates
  <2> QED BY <1>3, <2>1
<1>10. ASSUME NEW p \in Pollers, PollNext(p), ~Advance(p) PROVE PeekedIsLive'
  <2>1. /\ source'.pending = source.pending /\ source'.images = source.images
        /\ source'.peeked = source.peeked /\ source'.discarded = source.discarded
    BY <1>1, <1>10 DEF PollNext, StartPoll, TryLock, ReadFence, EndAdvance, FailAdvance, Fail,
                       SourceStates
  <2> QED BY <1>4, <2>1
<1>11. CASE \/ (\E kind \in Kinds, mark \in Marks \cup {0} : StartSubmit(kind, mark))
            \/ QueueWork \/ WorkRefused \/ AwaitWork \/ AwaitPasses
            \/ (\E mark \in Marks : StartPeek(mark))
            \/ RendererNext \/ DeviceNext \/ StopProducer \/ UNCHANGED vars
  <2>1. /\ source'.pending = source.pending /\ source'.images = source.images
        /\ source'.peeked = source.peeked /\ source'.discarded = source.discarded
    BY <1>1, <1>11 DEF StartSubmit, QueueWork, WorkRefused, AwaitWork, AwaitPasses, StartPeek,
      RendererNext, DeviceNext, StopProducer, sourceVars, vars, SourceStates
  <2> QED BY <1>4, <2>1
<1> QED BY <1>5, <1>6, <1>7, <1>8, <1>9, <1>10, <1>11 DEF Next, SubmitNext, PeekNext

\* A cached encoding belongs to a resolve that is held or pending, and that no
\* discard passed: the readback of a resolve that leaves the queue becomes the
\* held image, because work that is finished is neither inherited nor skipped,
\* and takes, discards and the close drop the encoding with the image.
THEOREM PeekedStaysLive == Spec => []PeekedIsLive
<1>1. Init => NamesInv /\ PeekedIsLive
  <2> SUFFICES ASSUME Init PROVE NamesInv /\ PeekedIsLive
    OBVIOUS
  <2>1. /\ source.pending = <<>> /\ source.images = {} /\ source.peeked = {}
        /\ submit.pc = "idle" /\ peek.pc = "idle"
    BY DEF Init, NoPeek
  <2> QED BY <2>1 DEF NamesInv, PeekedIsLive, MarksOf, PendingWith
<1>2. CacheInv /\ [Next]_vars => CacheInv'
  BY CompletionStep, NamesStep, LiveStep DEF CacheInv
<1>3. CacheInv => PeekedIsLive
  BY DEF CacheInv
<1> QED BY <1>1, <1>2, <1>3, CompletionStarts, PTL DEF CacheInv, Spec

-----------------------------------------------------------------------------
(* The refinement. *)

Done ==
    (1 .. source.completed) \cup
    {source.completed + i : i \in {j \in DOMAIN source.pending : WorkDone(source.pending[j])}}

LEMMA DoneValues ==
    ASSUME CompletionInv
    PROVE  /\ source.completed \in Nat /\ Len(source.pending) \in Nat
           /\ DOMAIN source.pending = 1 .. Len(source.pending)
           /\ Done \subseteq 1 .. LastValue
<1>1. source.completed \in Nat /\ source.pending \in Seq(Entries)
    BY DEF CompletionInv, SourceInv, SourceType, SourceStates
<1>2. Len(source.pending) \in Nat /\ DOMAIN source.pending = 1 .. Len(source.pending)
    BY <1>1, LenProperties
<1> QED BY <1>1, <1>2 DEF Done, LastValue

LEMMA HostStarts == Init => Host!Init
<1> SUFFICES ASSUME Init PROVE Host!Init
    OBVIOUS
<1>1. source.pending = <<>> /\ source.completed = 0 /\ source.closed = FALSE
    BY DEF Init
<1>2. LastValue = 0
    BY <1>1 DEF LastValue
<1>3. Done = {}
    BY <1>1 DEF Done
<1> QED BY <1>1, <1>2, <1>3 DEF Host!Init, Done

\* What is done stays done while the entries stay as they are.
LEMMA DoneGrows ==
    ASSUME CompletionInv, StreamInv', Keeps, source'.completed = source.completed,
           source'.pending = source.pending
    PROVE  Done \subseteq Done' /\ Done' \subseteq 1 .. LastValue /\ LastValue' = LastValue
<1>1. \A j \in DOMAIN source.pending :
        WorkDone(source.pending[j]) => WorkDone(source.pending[j])'
  <2> SUFFICES ASSUME NEW j \in DOMAIN source.pending, WorkDone(source.pending[j])
               PROVE  WorkDone(source.pending[j])'
    OBVIOUS
  <2>1. Entry(source.pending[j])
    BY DEF CompletionInv, SourceInv, EntriesInv
  <2>2. PICK e : e = source.pending[j]
    OBVIOUS
  <2>3. WorkDone(e)'
    BY <2>1, <2>2, Kept DEF CompletionInv
  <2>4. e = source'.pending[j]
    BY <2>2
  <2> QED BY <2>3, <2>4 DEF WorkDone
<1>2. Done' = (1 .. source.completed) \cup
        {source.completed + i : i \in {j \in DOMAIN source.pending : WorkDone(source.pending[j])'}}
    BY DEF Done
<1>3. LastValue' = LastValue
    BY DEF LastValue
<1>4. Done' \subseteq 1 .. LastValue
    BY <1>2, DoneValues DEF LastValue
<1> QED BY <1>1, <1>2, <1>3, <1>4 DEF Done

LEMMA HostStep == CompletionInv /\ [Next]_vars => [Host!Next]_Host!vars
<1> SUFFICES ASSUME CompletionInv, [Next]_vars PROVE [Host!Next]_Host!vars
    OBVIOUS
<1>1. /\ source \in SourceStates /\ source.pending \in Seq(Entries) /\ source.completed \in Nat
      /\ Len(source.pending) \in Nat /\ DOMAIN source.pending = 1 .. Len(source.pending)
      /\ Done \subseteq 1 .. LastValue
      /\ StreamInv /\ StreamInv' /\ Keeps
    BY DoneValues, StreamStep
    DEF CompletionInv, SourceInv, SourceType, SourceStates, StreamSteps
\* Work finishes, or nothing of the promise changes.
<1>2. ASSUME source'.completed = source.completed, source'.pending = source.pending,
             source'.closed = source.closed
      PROVE  Host!Next
  <2>1. Done \subseteq Done' /\ Done' \subseteq 1 .. LastValue /\ LastValue' = LastValue
    BY <1>1, <1>2, DoneGrows
  <2> QED BY <1>2, <2>1 DEF Host!Next, Host!Finish, Done
<1>3. CASE Push
  <2>1. /\ source'.pending = Append(source.pending, submit.span)
        /\ source'.completed = source.completed /\ source'.closed = source.closed
        /\ requests' = requests /\ stream' = stream /\ gpu' = gpu
        /\ submit.span \in Entries
    BY <1>1, <1>3 DEF Push, SourceStates, streamVars, CompletionInv, SourceInv, SourceType,
                      SubmitStates
  <2> DEFINE n == Len(source.pending)
  <2>2. /\ Len(source'.pending) = n + 1 /\ DOMAIN source'.pending = 1 .. n + 1
        /\ \A i \in 1 .. n : source'.pending[i] = source.pending[i]
    BY <1>1, <2>1, AppendProperties, LenProperties
  <2>3. LastValue' = LastValue + 1 /\ LastValue = source.completed + n
    BY <1>1, <2>1, <2>2 DEF LastValue
  <2>4. \A e : WorkDone(e)' <=> WorkDone(e)
    BY <2>1 DEF WorkDone, Finished
  <2>5. Done' = (1 .. source.completed) \cup
          {source.completed + i : i \in {j \in 1 .. n + 1 : WorkDone(source'.pending[j])}}
    BY <2>1, <2>2, <2>4 DEF Done
  <2>6. Done = (1 .. source.completed) \cup
          {source.completed + i : i \in {j \in 1 .. n : WorkDone(source'.pending[j])}}
    BY <1>1, <2>2 DEF Done
  <2>7. Done' = Done \/ Done' = Done \cup {LastValue + 1}
    <3>1. {j \in 1 .. n + 1 : WorkDone(source'.pending[j])} =
            {j \in 1 .. n : WorkDone(source'.pending[j])}
              \cup (IF WorkDone(source'.pending[n + 1]) THEN {n + 1} ELSE {})
      BY <1>1
    <3>2. source.completed + (n + 1) = LastValue + 1
      BY <1>1, <2>3
    <3> QED BY <2>5, <2>6, <3>1, <3>2
  <2> QED BY <2>1, <2>3, <2>7 DEF Host!Next, Host!Submit, Done
<1>4. ASSUME NEW p \in Pollers, Advance(p) PROVE Host!Next
  <2> DEFINE n == Len(source.pending)
             c == source.completed
  <2>1. /\ source.pending # <<>> /\ ~source.closed /\ WorkDone(source.pending[1])
    BY <1>4, PoppedIsDone DEF Front
  <2>2. /\ source'.pending = Tail(source.pending) /\ source'.completed = c + 1
        /\ source'.closed = source.closed
        /\ requests' = requests /\ stream' = stream /\ gpu' = gpu
    BY <1>1, <1>4 DEF Advance, Pop, SourceStates, streamVars
  <2>3. /\ n >= 1 /\ Len(source'.pending) = n - 1 /\ DOMAIN source'.pending = 1 .. n - 1
        /\ \A i \in 1 .. n - 1 : source'.pending[i] = source.pending[i + 1]
    BY <1>1, <2>1, <2>2, HeadTailProperties, LenProperties
  <2>4. LastValue' = LastValue /\ LastValue = c + n
    BY <1>1, <2>2, <2>3 DEF LastValue
  <2>5. \A e : WorkDone(e)' <=> WorkDone(e)
    BY <2>2 DEF WorkDone, Finished
  <2>6. Done' = (1 .. c + 1) \cup
          {c + 1 + i : i \in {j \in 1 .. n - 1 : WorkDone(source.pending[j + 1])}}
    BY <2>2, <2>3, <2>5 DEF Done
  <2>7. Done = (1 .. c) \cup {c + i : i \in {j \in 1 .. n : WorkDone(source.pending[j])}}
    BY <1>1 DEF Done
  <2>8. Done' = Done
    <3>1. ASSUME NEW v \in Done' PROVE v \in Done
      <4>1. CASE v \in 1 .. c
        BY <2>7, <4>1
      <4>2. CASE v = c + 1
        <5>1. 1 \in {j \in 1 .. n : WorkDone(source.pending[j])}
          BY <1>1, <2>1, <2>3
        <5> QED BY <2>7, <4>2, <5>1
      <4>3. ASSUME NEW j \in 1 .. n - 1, WorkDone(source.pending[j + 1]), v = c + 1 + j
            PROVE  v \in Done
        <5>1. j + 1 \in 1 .. n /\ v = c + (j + 1)
          <6>1. n \in Nat /\ c \in Nat /\ j \in Nat /\ 1 <= j /\ j <= n - 1
            BY <1>1, <2>3
          <6> HIDE DEF n, c
          <6> QED BY <4>3, <6>1
        <5>2. j + 1 \in {k \in 1 .. n : WorkDone(source.pending[k])}
          BY <4>3, <5>1
        <5>3. v \in {c + k : k \in {m \in 1 .. n : WorkDone(source.pending[m])}}
          BY <5>1, <5>2
        <5> QED BY <2>7, <5>3
      <4>4. \/ v \in 1 .. c \/ v = c + 1
            \/ \E j \in 1 .. n - 1 : WorkDone(source.pending[j + 1]) /\ v = c + 1 + j
        <5>1. \/ v \in 1 .. c + 1
              \/ v \in {c + 1 + i : i \in {j \in 1 .. n - 1 : WorkDone(source.pending[j + 1])}}
          BY <2>6, <3>1
        <5>2. c \in Nat
          BY <1>1
        <5>3. v \in 1 .. c + 1 => v \in 1 .. c \/ v = c + 1
          BY <5>2
        <5> QED BY <5>1, <5>3
      <4> QED BY <4>1, <4>2, <4>3, <4>4
    <3>2. ASSUME NEW v \in Done PROVE v \in Done'
      <4>1. CASE v \in 1 .. c
        BY <1>1, <2>6, <4>1
      <4>2. ASSUME NEW j \in 1 .. n, WorkDone(source.pending[j]), v = c + j PROVE v \in Done'
        <5>1. CASE j = 1
          BY <1>1, <2>6, <4>2, <5>1
        <5>2. CASE j # 1
          <6>1. j - 1 \in 1 .. n - 1 /\ v = c + 1 + (j - 1) /\ (j - 1) + 1 = j
            BY <1>1, <4>2, <5>2
          <6> QED BY <2>6, <4>2, <6>1
        <5> QED BY <5>1, <5>2
      <4> QED BY <2>7, <3>2, <4>1, <4>2
    <3> QED BY <3>1, <3>2
  <2>9. c + 1 \in Done /\ c + 1 \in c + 1 .. LastValue /\ c + 1 .. c + 1 \subseteq Done
    BY <1>1, <2>1, <2>3, <2>4, <2>7
  <2> QED BY <2>1, <2>2, <2>4, <2>8, <2>9 DEF Host!Next, Host!Complete, Done
<1>5. CASE Close
  <2>1. /\ source'.pending = source.pending /\ source'.completed = source.completed
        /\ source'.closed = TRUE
        /\ requests' = requests /\ stream' = stream /\ gpu' = gpu
    BY <1>1, <1>5 DEF Close, SourceStates, streamVars
  <2>2. \A e : WorkDone(e)' <=> WorkDone(e)
    BY <2>1 DEF WorkDone, Finished
  <2>3. Done' = Done /\ LastValue' = LastValue
    BY <2>1, <2>2 DEF Done, LastValue
  <2> QED BY <2>1, <2>3 DEF Host!Next, Host!End, Done
<1>6. ASSUME NEW p \in Pollers, PollNext(p), ~Advance(p) PROVE Host!Next
  <2>1. source'.completed = source.completed /\ source'.pending = source.pending
        /\ source'.closed = source.closed
    BY <1>1, <1>6 DEF PollNext, StartPoll, TryLock, ReadFence, EndAdvance, FailAdvance, Fail,
                      SourceStates
  <2> QED BY <1>2, <2>1
<1>7. CASE \/ (\E kind \in Kinds, mark \in Marks \cup {0} : StartSubmit(kind, mark))
           \/ QueueWork \/ WorkRefused \/ PeekNext
           \/ \E mark \in Marks :
                 TakeGuestImage(mark) \/ DiscardGuestImagesThrough(mark) \/ StartPeek(mark)
           \/ RendererNext \/ DeviceNext \/ StopProducer \/ UNCHANGED vars
  <2>1. source'.completed = source.completed /\ source'.pending = source.pending
        /\ source'.closed = source.closed
    BY <1>1, <1>7 DEF StartSubmit, QueueWork, WorkRefused, PeekNext, AwaitWork, AwaitPasses,
      StorePeek, TakeGuestImage, TakeImage, DiscardGuestImagesThrough, StartPeek, RendererNext,
      DeviceNext, StopProducer, sourceVars, vars, SourceStates
  <2> QED BY <1>2, <2>1
<1> QED BY <1>3, <1>4, <1>5, <1>6, <1>7 DEF Next, SubmitNext

\* The source keeps HostWork's promise to the ledger: values complete in order,
\* each with the work of its span behind it, and none after Close
\* (native_completion_source.cpp, Completed and its advance).
THEOREM KeepsHostPromise == Spec => ImplementsHostWork
<1>1. Spec => Host!Spec
    BY HostStarts, HostStep, CompletionInvariant, PTL DEF Spec, Host!Spec
<1> QED BY <1>1 DEF ImplementsHostWork
=============================================================================
