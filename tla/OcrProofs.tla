----------------------------- MODULE OcrProofs ------------------------------
(***************************************************************************)
(* Proofs about OcrService, for any number of requests, sizes of queue and *)
(* batch, and threshold.  A request that the batcher holds is held once,   *)
(* has no answer yet and is in no failed batch; one that waits and is not  *)
(* resolved is held.                                                       *)
(***************************************************************************)
EXTENDS OcrService, FiniteSetTheorems, TLAPS

Futures == {"none", "pending", "done", "failed", "cancelled"}
Outcomes == {"new", "waiting", "answered", "error", "rejected", "timeout", "cancelled"}
Breakers == [state : {"closed", "open", "half_open"}, failures : Nat, elapsed : BOOLEAN]

Types ==
  /\ queue \in Seq(Requests) /\ batch \in Seq(Requests)
  /\ future \in [Requests -> Futures] /\ outcome \in [Requests -> Outcomes]
  /\ answer \in [Requests -> SUBSET Requests]
  /\ lost \subseteq Requests /\ spoilt \subseteq Requests
  /\ stops \in 0 .. MaxStops

\* how far the worker has come
Filled ==
  /\ is_running \in BOOLEAN
  /\ worker \in {"none", "get", "fill", "process"} /\ (is_running <=> worker # "none")
  /\ Len(queue) <= MaxQueueSize
  /\ worker \in {"none", "get"} => batch = << >>
  /\ worker = "fill" => Len(batch) < MaxBatchSize
  /\ Len(batch) <= MaxBatchSize

Queued(r) == \E i \in DOMAIN queue : queue[i] = r
Batched(r) == \E i \in DOMAIN batch : batch[i] = r

\* nothing is in the sequences q and b twice
Distinct(q, b) ==
  /\ \A i, j \in DOMAIN q : q[i] = q[j] => i = j
  /\ \A i, j \in DOMAIN b : b[i] = b[j] => i = j
  /\ \A i \in DOMAIN q, j \in DOMAIN b : q[i] # b[j]

Once == Distinct(queue, batch)

\* nothing has been decided about r
Open(r) == answer[r] = {} /\ r \notin spoilt

Requested(r) ==
  /\ Queued(r) \/ Batched(r) => future[r] # "none" /\ Open(r)
  /\ outcome[r] = "new" => future[r] = "none"
  /\ future[r] \in {"none", "pending"} => Open(r)
  /\ Pending(r) /\ r \notin lost => Queued(r) \/ Batched(r)
  /\ Waiting(r) => future[r] \in {"pending", "done", "failed"}
Resolved(r) ==
  /\ future[r] = "done" \/ outcome[r] = "answered" => answer[r] = {r}
  /\ future[r] = "failed" => r \in spoilt
  /\ answer[r] # {} => r \notin spoilt

\* The failures counted since the breaker was last closed, whatever succeeded in between.
BreakerCounts == breaker.state = "closed" <=> breaker.failures < Threshold

BreakerInv == breaker \in Breakers /\ streak \in Nat /\ BreakerCounts

ServiceInv == /\ Types /\ Filled /\ Once /\ BreakerInv
              /\ \A r \in Requests : Requested(r) /\ Resolved(r)

-----------------------------------------------------------------------------
(* The breaker                                                             *)

LEMMA BreakerKept ==
  ASSUME NEW b \in Breakers, b.state = "closed" <=> b.failures < Threshold
  PROVE  /\ ~Rejects(b) => /\ Admitted(b) \in Breakers
                           /\ Admitted(b).state = "closed" <=> Admitted(b).failures < Threshold
         /\ Succeeded(b) \in Breakers
         /\ Succeeded(b).state = "closed" <=> Succeeded(b).failures < Threshold
         /\ Failed(b) \in Breakers
         /\ Failed(b).state = "closed" <=> Failed(b).failures < Threshold
<1>1. /\ b.state \in {"closed", "open", "half_open"} /\ b.failures \in Nat
      /\ b.elapsed \in BOOLEAN
      /\ b = [state |-> b.state, failures |-> b.failures, elapsed |-> b.elapsed]
  BY DEF Breakers
<1>2. /\ Admitted(b) \in Breakers
      /\ Admitted(b).state = "closed" <=> Admitted(b).failures < Threshold
  BY <1>1 DEF Admitted, Breakers
<1>3. /\ Succeeded(b) \in Breakers
      /\ Succeeded(b).state = "closed" <=> Succeeded(b).failures < Threshold
  <2>1. CASE b.state = "half_open"
    <3>1. Succeeded(b) = [state |-> "closed", failures |-> 0, elapsed |-> b.elapsed]
      BY <1>1, <2>1 DEF Succeeded
    <3> QED
      BY <1>1, <3>1, BreakerAssumption DEF Breakers
  <2>2. CASE b.state # "half_open"
    <3>1. Succeeded(b) = b
      BY <2>2 DEF Succeeded
    <3> QED
      BY <3>1
  <2> QED
    BY <2>1, <2>2
<1>4. /\ Failed(b) \in Breakers
      /\ Failed(b).state = "closed" <=> Failed(b).failures < Threshold
  BY <1>1, BreakerAssumption DEF Failed, Opens, Breakers
<1> QED
  BY <1>2, <1>3, <1>4

LEMMA BreakerStep ==
  ASSUME BreakerInv, [ServiceNext]_serviceVars
  PROVE  BreakerInv'
<1> DEFINE Same == breaker' = breaker
           Elapses == breaker' = [breaker EXCEPT !.elapsed = TRUE]
           Admits == ~Rejects(breaker) /\ breaker' = Admitted(breaker)
           Refused == ~Rejects(breaker) /\ breaker' = Failed(Admitted(breaker))
           Ended == breaker' = Succeeded(breaker) \/ breaker' = Failed(breaker)
<1>0. streak' \in Nat
  <2>1. streak \in Nat
    BY DEF BreakerInv
  <2>2. ASSUME NEW r \in Requests, Submit(r) \/ Limited(r) \/ Rejected(r) \/ Cancelled(r)
        PROVE  streak' \in Nat
    BY <2>1, <2>2 DEF Submit, Limited, Rejected, Cancelled
  <2>3. ASSUME NEW r \in Requests, SubmitFails(r) \/ Resume(r) \/ Timeout(r)
        PROVE  streak' \in Nat
    BY <2>1, <2>3 DEF SubmitFails, Resume, Return, Raise, Timeout, NotesSuccess, NotesFailure
  <2>4. CASE \/ TimePasses \/ Batching \/ UNCHANGED serviceVars
             \/ (Start \/ Stop) /\ UNCHANGED <<breaker, outcome, streak>>
    BY <2>1, <2>4 DEF TimePasses, Batching, serviceVars
  <2> QED
    BY <2>2, <2>3, <2>4 DEF ServiceNext
<1>1. Same \/ Elapses \/ Admits \/ Refused \/ Ended
  <2>1. ASSUME NEW r \in Requests, Submit(r) PROVE Admits
    BY <2>1 DEF Submit
  <2>2. ASSUME NEW r \in Requests, SubmitFails(r) PROVE Refused
    BY <2>2 DEF SubmitFails, NotesFailure
  <2>3. ASSUME NEW r \in Requests, Resume(r) \/ Timeout(r) PROVE Ended
    BY <2>3 DEF Resume, Return, Raise, Timeout, NotesSuccess, NotesFailure
  <2>4. ASSUME NEW r \in Requests, Limited(r) \/ Rejected(r) \/ Cancelled(r) PROVE Same
    BY <2>4 DEF Limited, Rejected, Cancelled
  <2>5. CASE TimePasses
    BY <2>5 DEF TimePasses
  <2>6. CASE Batching \/ ((Start \/ Stop) /\ UNCHANGED <<breaker, outcome, streak>>) \/ UNCHANGED serviceVars
    BY <2>6 DEF Batching, serviceVars
  <2> HIDE DEF Same, Elapses, Admits, Refused, Ended
  <2> QED
    BY <2>1, <2>2, <2>3, <2>4, <2>5, <2>6 DEF ServiceNext
<1>2. breaker \in Breakers /\ (breaker.state = "closed" <=> breaker.failures < Threshold)
  BY DEF BreakerInv, BreakerCounts
<1>3. CASE Elapses
  BY <1>0, <1>2, <1>3 DEF BreakerInv, BreakerCounts, Breakers
<1>4. CASE Same
  BY <1>0, <1>2, <1>4 DEF BreakerInv, BreakerCounts
<1>5. CASE Admits \/ Ended
  BY <1>0, <1>2, <1>5, BreakerKept DEF BreakerInv, BreakerCounts
<1>6. CASE Refused
  BY <1>0, <1>2, <1>6, BreakerKept DEF BreakerInv, BreakerCounts
<1> QED
  BY <1>1, <1>3, <1>4, <1>5, <1>6

-----------------------------------------------------------------------------
(* Requests move from the queue to the batch                               *)

LEMMA EnqueueKeeps ==
  ASSUME ServiceInv, NEW r \in Requests, outcome[r] = "new", Accepts, Enqueue(r),
         outcome' = [outcome EXCEPT ![r] = "waiting"]
  PROVE  Types' /\ Filled' /\ Once' /\ \A q \in Requests : Requested(q)' /\ Resolved(q)'
<1>1. /\ queue' = Append(queue, r) /\ queue \in Seq(Requests) /\ batch \in Seq(Requests)
      /\ future' = [future EXCEPT ![r] = "pending"]
      /\ UNCHANGED <<is_running, worker, batch, answer, stops, lost, spoilt>>
  BY DEF Enqueue, ServiceInv, Types
<1>2. Types'
  BY <1>1 DEF ServiceInv, Types, Futures, Outcomes
<1>3. /\ Len(queue') = Len(queue) + 1 /\ DOMAIN queue' = 1 .. Len(queue) + 1
      /\ DOMAIN queue = 1 .. Len(queue) /\ Len(queue) \in Nat
      /\ \A i \in DOMAIN queue : i \in DOMAIN queue' /\ queue'[i] = queue[i]
      /\ queue'[Len(queue) + 1] = r
  BY <1>1
<1>4. Filled'
  BY <1>1, <1>3, BatchAssumption DEF ServiceInv, Filled, Accepts
<1>5. future[r] = "none" /\ ~Queued(r) /\ ~Batched(r) /\ Open(r)
  BY DEF ServiceInv, Requested
<1>6. Once'
  BY <1>1, <1>3, <1>5 DEF ServiceInv, Once, Distinct, Queued, Batched
<1>7. \A q : Queued(q)' <=> Queued(q) \/ q = r
  BY <1>3 DEF Queued
<1>8. \A q \in Requests : Requested(q)' /\ Resolved(q)'
  <2> SUFFICES ASSUME NEW q \in Requests PROVE Requested(q)' /\ Resolved(q)'
    OBVIOUS
  <2>1. Requested(q) /\ Resolved(q) /\ (Batched(q)' <=> Batched(q)) /\ (Open(q)' <=> Open(q))
    BY <1>1 DEF ServiceInv, Batched, Open
  <2>2. CASE q = r
    BY <1>1, <1>2, <1>5, <1>7, <2>1, <2>2
       DEF Requested, Resolved, Pending, Waiting, Open, Types, ServiceInv
  <2>3. CASE q # r
    BY <1>1, <1>7, <2>1, <2>3 DEF Requested, Resolved, Pending, Waiting, Types, ServiceInv
  <2> QED
    BY <2>2, <2>3
<1> QED
  BY <1>2, <1>4, <1>6, <1>8

LEMMA CollectKeeps ==
  ASSUME ServiceInv, NEW r \in Requests, Collect(r), UNCHANGED outcome
  PROVE  Types' /\ Filled' /\ Once' /\ \A q \in Requests : Requested(q)' /\ Resolved(q)'
<1>1. /\ worker \in {"get", "fill"} /\ queue # << >> /\ r = Head(queue)
      /\ queue' = Tail(queue) /\ batch' = Append(batch, r) /\ worker' = Collected(batch')
      /\ queue \in Seq(Requests) /\ batch \in Seq(Requests)
      /\ UNCHANGED <<is_running, future, answer, stops, lost, spoilt>>
  BY DEF Collect, ServiceInv, Types
<1>2. Types'
  BY <1>1 DEF ServiceInv, Types
<1>3. /\ Len(queue) \in Nat \ {0} /\ DOMAIN queue = 1 .. Len(queue)
      /\ Len(queue') = Len(queue) - 1 /\ DOMAIN queue' = 1 .. Len(queue) - 1
      /\ \A i \in DOMAIN queue' : i + 1 \in DOMAIN queue /\ queue'[i] = queue[i + 1]
      /\ queue[1] = r
  BY <1>1
<1>4. /\ Len(batch) \in Nat /\ DOMAIN batch = 1 .. Len(batch)
      /\ Len(batch') = Len(batch) + 1 /\ DOMAIN batch' = 1 .. Len(batch) + 1
      /\ \A i \in DOMAIN batch : i \in DOMAIN batch' /\ batch'[i] = batch[i]
      /\ batch'[Len(batch) + 1] = r
  BY <1>1
<1>5. Filled'
  <2>1. Len(batch) < MaxBatchSize
    <3>1. CASE worker = "get"
      <4>1. Len(batch) = 0
        BY <3>1 DEF ServiceInv, Filled
      <4> QED
        BY <4>1, BatchAssumption
    <3>2. CASE worker = "fill"
      BY <3>2 DEF ServiceInv, Filled
    <3> QED
      BY <1>1, <3>1, <3>2
  <2> QED
    BY <1>1, <1>3, <1>4, <2>1, BatchAssumption DEF ServiceInv, Filled, Collected
<1>6. Once'
  <2>1. \A i, j \in DOMAIN queue' : queue'[i] = queue'[j] => i = j
    BY <1>3 DEF ServiceInv, Once, Distinct
  <2>2. \A i \in DOMAIN queue' : queue'[i] # r
    BY <1>3 DEF ServiceInv, Once, Distinct
  <2>3. \A j \in DOMAIN batch : batch[j] # r
    BY <1>3 DEF ServiceInv, Once, Distinct
  <2>4. \A i, j \in DOMAIN batch' : batch'[i] = batch'[j] => i = j
    BY <1>4, <2>3 DEF ServiceInv, Once, Distinct
  <2>5. \A i \in DOMAIN queue', j \in DOMAIN batch' : queue'[i] # batch'[j]
    BY <1>3, <1>4, <2>2 DEF ServiceInv, Once, Distinct
  <2> QED
    BY <2>1, <2>4, <2>5 DEF Once, Distinct
<1>7. \A q : (Queued(q) \/ Batched(q))' <=> Queued(q) \/ Batched(q)
  <2> SUFFICES ASSUME NEW q PROVE (Queued(q) \/ Batched(q))' <=> Queued(q) \/ Batched(q)
    OBVIOUS
  <2>1. Queued(q)' => Queued(q)
    BY <1>3 DEF Queued
  <2>2. Queued(q) => q = r \/ Queued(q)'
    <3> SUFFICES ASSUME NEW i \in DOMAIN queue, queue[i] = q, q # r PROVE Queued(q)'
      BY DEF Queued
    <3>1. i - 1 \in DOMAIN queue' /\ (i - 1) + 1 = i
      BY <1>3
    <3>2. queue'[i - 1] = q
      BY <1>3, <3>1
    <3> QED
      BY <3>1, <3>2 DEF Queued
  <2>3. Batched(q)' <=> Batched(q) \/ q = r
    BY <1>4 DEF Batched
  <2>4. Queued(r)
    BY <1>3 DEF Queued
  <2> QED
    BY <2>1, <2>2, <2>3, <2>4
<1>8. \A q \in Requests : Requested(q)' /\ Resolved(q)'
  BY <1>1, <1>7 DEF ServiceInv, Requested, Resolved, Pending, Waiting, Open
<1> QED
  BY <1>2, <1>5, <1>6, <1>8

LEMMA EmptyBatchKeeps ==
  ASSUME ServiceInv, batch' = << >>, UNCHANGED queue
  PROVE  /\ Once' /\ \A q : (Queued(q)' <=> Queued(q)) /\ ~Batched(q)'
BY DEF ServiceInv, Once, Distinct, Queued, Batched

LEMMA NotBoth == ServiceInv => \A q : ~(Queued(q) /\ Batched(q))
BY DEF ServiceInv, Once, Distinct, Queued, Batched

LEMMA BatchedIs == \A r : r \in ToSet(batch) <=> Batched(r)
BY DEF ToSet, Batched

LEMMA StopKeeps ==
  ASSUME ServiceInv, Stop, UNCHANGED outcome
  PROVE  Types' /\ Filled' /\ Once' /\ \A q \in Requests : Requested(q)' /\ Resolved(q)'
<1>1. /\ is_running' = FALSE /\ worker' = "none" /\ batch' = << >> /\ stops' = stops + 1
      /\ stops < MaxStops /\ lost' = lost \cup {r \in ToSet(batch) : Pending(r)}
      /\ UNCHANGED <<queue, future, answer, spoilt>>
  BY DEF Stop
<1>2. ToSet(batch) \subseteq Requests
  BY DEF ServiceInv, Types, ToSet
<1>3. Types'
  BY <1>1, <1>2, BatchAssumption DEF ServiceInv, Types
<1>4. Filled'
  <2>1. is_running' \in BOOLEAN /\ (is_running' <=> worker' # "none")
    BY <1>1
  <2>2. Len(batch') = 0
    BY <1>1
  <2> QED
    BY <1>1, <2>1, <2>2, BatchAssumption DEF ServiceInv, Filled
<1>5. Once' /\ \A q : (Queued(q)' <=> Queued(q)) /\ ~Batched(q)'
  BY <1>1, EmptyBatchKeeps
<1>6. \A q \in Requests : Pending(q) /\ Batched(q) => q \in lost'
  BY <1>1, BatchedIs
<1>7. \A q \in Requests : Requested(q)' /\ Resolved(q)'
  BY <1>1, <1>5, <1>6 DEF ServiceInv, Requested, Resolved, Pending, Waiting, Open
<1> QED
  BY <1>3, <1>4, <1>5, <1>7

LEMMA FinishedKeeps ==
  ASSUME ServiceInv, Finished, worker = "process"
  PROVE  /\ Filled' /\ Once' /\ queue' \in Seq(Requests) /\ batch' \in Seq(Requests)
         /\ UNCHANGED <<stops, lost>> /\ \A q : (Queued(q)' <=> Queued(q)) /\ ~Batched(q)'
<1>1. worker' = "get" /\ batch' = << >> /\ UNCHANGED <<is_running, queue, stops, lost>>
  BY DEF Finished
<1>2. Filled'
  BY <1>1, BatchAssumption DEF ServiceInv, Filled
<1> QED
  BY <1>1, <1>2, EmptyBatchKeeps DEF ServiceInv, Types

LEMMA SucceedKeeps ==
  ASSUME ServiceInv, Succeed, UNCHANGED outcome
  PROVE  Types' /\ Filled' /\ Once' /\ \A q \in Requests : Requested(q)' /\ Resolved(q)'
<1>1. /\ Filled' /\ Once' /\ queue' \in Seq(Requests) /\ batch' \in Seq(Requests)
      /\ UNCHANGED <<stops, lost>> /\ \A q : (Queued(q)' <=> Queued(q)) /\ ~Batched(q)'
  BY FinishedKeeps DEF Succeed
<1>2. /\ future' = [r \in Requests |-> IF r \in Unresolved THEN "done" ELSE future[r]]
      /\ answer' = [r \in Requests |-> IF r \in Unresolved THEN {r} ELSE answer[r]]
      /\ UNCHANGED spoilt
  BY DEF Succeed, ResultOf
<1>3. \A q : q \in Unresolved <=> Batched(q) /\ Pending(q)
  BY BatchedIs DEF Unresolved
<1>4. Types'
  BY <1>1, <1>2 DEF ServiceInv, Types, Futures
<1>5. ASSUME NEW q \in Requests PROVE Requested(q)' /\ Resolved(q)'
  <2>1. Requested(q) /\ Resolved(q) /\ outcome[q]' = outcome[q] /\ spoilt' = spoilt
    BY <1>2 DEF ServiceInv
  <2>2. CASE q \in Unresolved
    <3>1. future'[q] = "done" /\ answer'[q] = {q} /\ q \notin spoilt
      BY <1>2, <1>3, <2>1, <2>2 DEF Requested, Open
    <3>2. ~Queued(q)' /\ ~Batched(q)'
      BY <1>1, <1>3, <2>2, NotBoth
    <3>3. outcome[q] # "new"
      BY <1>3, <2>1, <2>2 DEF Requested
    <3> QED
      BY <2>1, <3>1, <3>2, <3>3 DEF Requested, Resolved, Pending, Waiting, Open
  <2>3. CASE q \notin Unresolved
    <3>1. future'[q] = future[q] /\ answer'[q] = answer[q]
      BY <1>2, <2>3
    <3> QED
      BY <1>1, <1>3, <2>1, <2>3, <3>1 DEF Requested, Resolved, Pending, Waiting, Open
  <2> QED
    BY <2>2, <2>3
<1> QED
  BY <1>1, <1>4, <1>5

LEMMA FailKeeps ==
  ASSUME ServiceInv, Fail, UNCHANGED outcome
  PROVE  Types' /\ Filled' /\ Once' /\ \A q \in Requests : Requested(q)' /\ Resolved(q)'
<1>1. /\ Filled' /\ Once' /\ queue' \in Seq(Requests) /\ batch' \in Seq(Requests)
      /\ UNCHANGED <<stops, lost>> /\ \A q : (Queued(q)' <=> Queued(q)) /\ ~Batched(q)'
  BY FinishedKeeps DEF Fail
<1>2. /\ future' = [r \in Requests |-> IF r \in Unresolved THEN "failed" ELSE future[r]]
      /\ spoilt' = spoilt \cup ToSet(batch)
      /\ UNCHANGED answer
  BY DEF Fail
<1>3. \A q : q \in Unresolved <=> Batched(q) /\ Pending(q)
  BY BatchedIs DEF Unresolved
<1>4. Types'
  <2>1. ToSet(batch) \subseteq Requests
    BY DEF ServiceInv, Types, ToSet
  <2> QED
    BY <1>1, <1>2, <2>1 DEF ServiceInv, Types, Futures
<1>5. ASSUME NEW q \in Requests PROVE Requested(q)' /\ Resolved(q)'
  <2>1. /\ Requested(q) /\ Resolved(q) /\ outcome[q]' = outcome[q] /\ answer'[q] = answer[q]
        /\ q \in spoilt' <=> q \in spoilt \/ Batched(q)
    BY <1>2, BatchedIs DEF ServiceInv
  <2>2. CASE Batched(q)
    <3>1. ~Queued(q)' /\ ~Batched(q)'
      BY <1>1, <2>2, NotBoth
    <3>2. future[q] # "none" /\ answer[q] = {} /\ q \in spoilt'
      BY <2>1, <2>2 DEF Requested, Open
    <3>3. IF Pending(q) THEN future'[q] = "failed" ELSE future'[q] = future[q]
      BY <1>2, <1>3, <2>2
    <3> QED
      BY <2>1, <3>1, <3>2, <3>3 DEF Requested, Resolved, Pending, Waiting, Open
  <2>3. CASE ~Batched(q)
    <3>1. future'[q] = future[q]
      BY <1>2, <1>3, <2>3
    <3> QED
      BY <1>1, <2>1, <2>3, <3>1 DEF Requested, Resolved, Pending, Waiting, Open
  <2> QED
    BY <2>2, <2>3
<1> QED
  BY <1>1, <1>4, <1>5

-----------------------------------------------------------------------------
(* Calls end                                                               *)

\* r's call ends as it may, and its future with it when nothing resolved it.
LEMMA EndKeeps ==
  ASSUME ServiceInv, NEW r \in Requests, NEW how \in Outcomes \ {"new", "waiting"},
         outcome' = [outcome EXCEPT ![r] = how],
         how = "answered" => future[r] = "done",
         \/ future' = future
         \/ Waiting(r) /\ future' = [future EXCEPT ![r] = IF @ = "pending" THEN "cancelled" ELSE @],
         UNCHANGED <<is_running, queue, worker, batch, answer, stops, lost, spoilt>>
  PROVE  Types' /\ Filled' /\ Once' /\ \A q \in Requests : Requested(q)' /\ Resolved(q)'
<1>1. Filled' /\ Once'
  BY DEF ServiceInv, Filled, Once, Distinct
<1>2. Types'
  BY DEF ServiceInv, Types, Futures
<1>3. \A q : (Queued(q)' <=> Queued(q)) /\ (Batched(q)' <=> Batched(q)) /\ (Open(q)' <=> Open(q))
  BY DEF Queued, Batched, Open
<1>4. ASSUME NEW q \in Requests PROVE Requested(q)' /\ Resolved(q)'
  <2>1. Requested(q) /\ Resolved(q) /\ answer' = answer /\ spoilt' = spoilt /\ lost' = lost
    BY DEF ServiceInv
  <2>2. CASE q # r
    <3>1. outcome'[q] = outcome[q] /\ future'[q] = future[q]
      BY <2>2 DEF ServiceInv, Types
    <3> QED
      BY <1>3, <2>1, <3>1 DEF Requested, Resolved, Pending, Waiting
  <2>3. CASE q = r
    <3>1. /\ outcome'[q] = how
          /\ future'[q] = future[q] \/ (future[q] = "pending" /\ future'[q] = "cancelled")
      BY <2>3 DEF ServiceInv, Types
    <3> QED
      BY <1>3, <2>1, <2>3, <3>1 DEF Requested, Resolved, Pending, Waiting
  <2> QED
    BY <2>2, <2>3
<1> QED
  BY <1>1, <1>2, <1>4

LEMMA CallKeeps ==
  ASSUME ServiceInv, NEW r \in Requests,
         Limited(r) \/ Rejected(r) \/ SubmitFails(r) \/ Resume(r) \/ Timeout(r) \/ Cancelled(r)
  PROVE  Types' /\ Filled' /\ Once' /\ \A q \in Requests : Requested(q)' /\ Resolved(q)'
<1>1. CASE Limited(r) \/ Rejected(r)
  BY <1>1, EndKeeps DEF Limited, Rejected, Ends, batcherVars, Outcomes
<1>2. CASE SubmitFails(r) \/ Raise(r)
  BY <1>2, EndKeeps DEF SubmitFails, Raise, Ends, batcherVars, Outcomes
<1>3. CASE Return(r)
  BY <1>3, EndKeeps DEF Return, Ends, batcherVars, Outcomes
<1>4. CASE Timeout(r) \/ Cancelled(r)
  BY <1>4, EndKeeps DEF Timeout, Cancelled, Abandon, Ends, Outcomes
<1> QED
  BY <1>1, <1>2, <1>3, <1>4 DEF Resume

-----------------------------------------------------------------------------
(* Every step                                                              *)

LEMMA ServiceInitially == ServiceInit => ServiceInv
<1> SUFFICES ASSUME ServiceInit PROVE ServiceInv
  OBVIOUS
<1>1. Types
  BY BatchAssumption DEF ServiceInit, BatcherInit, Types, Futures, Outcomes
<1>2. Filled
  <2>1. is_running \in BOOLEAN /\ (is_running <=> worker # "none")
    BY DEF ServiceInit, BatcherInit
  <2>2. Len(queue) = 0 /\ Len(batch) = 0
    BY DEF ServiceInit, BatcherInit
  <2> QED
    BY <2>1, <2>2, BatchAssumption DEF ServiceInit, BatcherInit, Filled
<1>3. BreakerInv
  BY BreakerAssumption DEF ServiceInit, BreakerInv, BreakerCounts, Breakers
<1>4. Once
  BY DEF ServiceInit, BatcherInit, Once, Distinct
<1>5. \A r \in Requests : Requested(r) /\ Resolved(r)
  BY DEF ServiceInit, BatcherInit, Requested, Resolved, Queued, Batched, Open, Pending, Waiting
<1> QED
  BY <1>1, <1>2, <1>3, <1>4, <1>5 DEF ServiceInv

LEMMA ServiceStep == ServiceInv /\ [ServiceNext]_serviceVars => ServiceInv'
<1> SUFFICES ASSUME ServiceInv, [ServiceNext]_serviceVars PROVE ServiceInv'
  OBVIOUS
<1> DEFINE Rest == Types' /\ Filled' /\ Once' /\ \A q \in Requests : Requested(q)' /\ Resolved(q)'
<1>1. BreakerInv'
  BY BreakerStep DEF ServiceInv
<1>2. ASSUME UNCHANGED <<queue, batch, future, answer, stops, lost, spoilt, outcome>>, Filled'
      PROVE  Rest
  <2>1. Types' /\ Once'
    BY <1>2 DEF ServiceInv, Types, Once, Distinct
  <2>2. \A q \in Requests : Requested(q)' /\ Resolved(q)'
    BY <1>2 DEF ServiceInv, Requested, Resolved, Queued, Batched, Open, Pending, Waiting
  <2> QED
    BY <1>2, <2>1, <2>2
<1>3. CASE Start /\ UNCHANGED <<breaker, outcome, streak>>
  <2>1. Filled'
    BY <1>3 DEF Start, ServiceInv, Filled
  <2> QED
    BY <1>1, <1>2, <1>3, <2>1 DEF Start, ServiceInv
<1>4. CASE WaitTimeout /\ UNCHANGED <<breaker, outcome, streak>>
  <2>1. Filled'
    BY <1>4 DEF WaitTimeout, ServiceInv, Filled
  <2> QED
    BY <1>1, <1>2, <1>4, <2>1 DEF WaitTimeout, ServiceInv
<1>5. CASE TimePasses \/ UNCHANGED serviceVars
  <2>1. UNCHANGED <<batcherVars, outcome>>
    BY <1>5 DEF TimePasses, serviceVars
  <2>2. Filled'
    BY <2>1 DEF batcherVars, ServiceInv, Filled
  <2> QED
    BY <1>1, <1>2, <2>1, <2>2 DEF batcherVars, ServiceInv
<1>6. CASE Stop /\ UNCHANGED <<breaker, outcome, streak>>
  BY <1>1, <1>6, StopKeeps DEF ServiceInv
<1>7. ASSUME NEW r \in Requests, Collect(r), UNCHANGED <<breaker, outcome, streak>> PROVE ServiceInv'
  BY <1>1, <1>7, CollectKeeps DEF ServiceInv
<1>8. CASE (Succeed \/ Fail) /\ UNCHANGED <<breaker, outcome, streak>>
  BY <1>1, <1>8, SucceedKeeps, FailKeeps DEF ServiceInv
<1>9. ASSUME NEW r \in Requests, Submit(r) PROVE ServiceInv'
  <2>1. outcome[r] = "new" /\ Accepts /\ Enqueue(r) /\ outcome' = [outcome EXCEPT ![r] = "waiting"]
    BY <1>9 DEF Submit, Ends
  <2> QED
    BY <1>1, <2>1, EnqueueKeeps DEF ServiceInv
<1>10. ASSUME NEW r \in Requests,
              Limited(r) \/ Rejected(r) \/ SubmitFails(r) \/ Resume(r) \/ Timeout(r) \/ Cancelled(r)
       PROVE ServiceInv'
  BY <1>1, <1>10, CallKeeps DEF ServiceInv
<1> QED
  BY <1>3, <1>4, <1>5, <1>6, <1>7, <1>8, <1>9, <1>10 DEF ServiceNext, Batching, Worker

LEMMA ServiceAlways == ServiceSpec => []ServiceInv
BY ServiceInitially, ServiceStep, PTL DEF ServiceSpec

-----------------------------------------------------------------------------
(* The theorems                                                            *)

\* The types of the batcher, the breaker and the calls.
THEOREM ServiceTypes == ServiceSpec => []ServiceTypeOK
<1>1. ServiceInv => ServiceTypeOK
  BY DEF ServiceInv, Types, Filled, BreakerInv, ServiceTypeOK, Futures, Outcomes, Breakers
<1> QED
  BY <1>1, ServiceAlways, PTL

\* No caller gets the answer to another's request, and only the requests of a failed batch
\* fail with it (dynamic_batcher.py, _process_batch).
THEOREM ServiceFaithful == ServiceSpec => []AnswersFaithful
<1>1. ServiceInv => AnswersFaithful
  BY DEF ServiceInv, Types, Requested, Resolved, Open, Waiting, AnswersFaithful
<1> QED
  BY <1>1, ServiceAlways, PTL

\* The breaker is closed exactly while fewer failures than the threshold were counted since
\* it was last closed, in whatever order the calls end that were admitted in other states:
\* successes in between do not lower the count (rate_limiter.py:246), which its comments
\* call consecutive failures.
THEOREM ServiceBreaker == ServiceSpec => []BreakerCounts
<1>1. ServiceInv => BreakerCounts
  BY DEF ServiceInv, BreakerInv
<1> QED
  BY <1>1, ServiceAlways, PTL

Has(s, r) == \E i \in DOMAIN s : s[i] = r
Places(P, s, r) == \A i : i \in P <=> i \in DOMAIN s /\ s[i] = r

\* The places of r in a sequence that has it once.
LEMMA OnePlace ==
  ASSUME NEW S, NEW q \in Seq(S), NEW b \in Seq(S), NEW r,
         Distinct(q, b), Has(q, r) \/ Has(b, r), NEW P, Places(P, q \o b, r)
  PROVE  Cardinality(P) = 1
<1> DEFINE s == q \o b
<1>1. /\ Len(q) \in Nat /\ Len(b) \in Nat /\ DOMAIN q = 1 .. Len(q) /\ DOMAIN b = 1 .. Len(b)
      /\ DOMAIN s = 1 .. Len(q) + Len(b)
      /\ \A i \in DOMAIN s : s[i] = IF i <= Len(q) THEN q[i] ELSE b[i - Len(q)]
  OBVIOUS
<1> HIDE DEF s
<1>2. PICK k \in DOMAIN s : s[k] = r
  <2>1. ASSUME NEW i \in DOMAIN q, q[i] = r PROVE \E k \in DOMAIN s : s[k] = r
    BY <1>1, <2>1
  <2>2. ASSUME NEW i \in DOMAIN b, b[i] = r PROVE \E k \in DOMAIN s : s[k] = r
    <3>1. i + Len(q) \in DOMAIN s /\ s[i + Len(q)] = b[i]
      BY <1>1
    <3> QED
      BY <2>2, <3>1
  <2> QED
    BY <2>1, <2>2 DEF Has
<1>3. \A i \in DOMAIN s : s[i] = r => i = k
  <2> SUFFICES ASSUME NEW i \in DOMAIN s, s[i] = r PROVE i = k
    OBVIOUS
  <2>1. CASE i <= Len(q) /\ k <= Len(q)
    BY <1>1, <1>2, <2>1 DEF Distinct
  <2>2. CASE i > Len(q) /\ k > Len(q)
    <3>1. i - Len(q) \in DOMAIN b /\ k - Len(q) \in DOMAIN b
      BY <1>1, <2>2
    <3>2. b[i - Len(q)] = r /\ b[k - Len(q)] = r
      BY <1>1, <1>2, <2>2
    <3>3. i - Len(q) = k - Len(q)
      BY <3>1, <3>2 DEF Distinct
    <3> QED
      BY <1>1, <3>3
  <2>3. CASE i <= Len(q) /\ k > Len(q)
    <3>1. i \in DOMAIN q /\ k - Len(q) \in DOMAIN b /\ q[i] = r /\ b[k - Len(q)] = r
      BY <1>1, <1>2, <2>3
    <3> QED
      BY <3>1 DEF Distinct
  <2>4. CASE i > Len(q) /\ k <= Len(q)
    <3>1. k \in DOMAIN q /\ i - Len(q) \in DOMAIN b /\ q[k] = r /\ b[i - Len(q)] = r
      BY <1>1, <1>2, <2>4
    <3> QED
      BY <3>1 DEF Distinct
  <2> QED
    BY <1>1, <2>1, <2>2, <2>3, <2>4
<1>4. P = {k}
  BY <1>2, <1>3 DEF s, Places
<1> QED
  BY <1>4, FS_Singleton

\* A caller that waits is resolved or held by the batcher, once (dynamic_batcher.py).
THEOREM ServiceAccounts == ServiceSpec => []Accounted
<1>1. ServiceInv => Accounted
  <2> SUFFICES ASSUME ServiceInv, NEW r \in Requests \ lost, Waiting(r),
                      future[r] \notin {"done", "failed"}
               PROVE  Cardinality({i \in DOMAIN (queue \o batch) : (queue \o batch)[i] = r}) = 1
    BY DEF Accounted
  <2>1. Queued(r) \/ Batched(r)
    BY DEF ServiceInv, Requested, Pending
  <2>2. queue \in Seq(Requests) /\ batch \in Seq(Requests)
    BY DEF ServiceInv, Types
  <2> DEFINE P == {i \in DOMAIN (queue \o batch) : (queue \o batch)[i] = r}
  <2>3. Places(P, queue \o batch, r)
    BY DEF Places
  <2> HIDE DEF P
  <2>4. Distinct(queue, batch)
    BY DEF ServiceInv, Once
  <2>5. Has(queue, r) \/ Has(batch, r)
    BY <2>1 DEF Queued, Batched, Has
  <2>6. Cardinality(P) = 1
    BY <2>2, <2>3, <2>4, <2>5, OnePlace
  <2> QED
    BY <2>6 DEF P
<1> QED
  BY <1>1, ServiceAlways, PTL

=============================================================================
