--------------------------- MODULE DynamicBatcher ---------------------------
(***************************************************************************)
(* The batcher of mindnlp/ocr/core/batch/dynamic_batcher.py.  Callers put  *)
(* requests in a queue and wait for their futures; a worker collects a     *)
(* batch, has it processed and resolves the futures.  All of it runs in    *)
(* one event loop: what lies between two awaits is one action.             *)
(*                                                                         *)
(* What is processed is another matter: a batch comes back with an answer  *)
(* for each request, in order, or it fails.                                *)
(***************************************************************************)
EXTENDS Naturals, SequencesExt

CONSTANTS Requests,
          MaxBatchSize, MaxQueueSize,   \* BatchConfig
          MaxStops                      \* bound on the calls of stop

ASSUME BatchAssumption == /\ MaxBatchSize \in Nat \ {0}
                          /\ MaxQueueSize \in Nat \ {0} /\ MaxStops \in Nat

VARIABLES is_running,
          queue,
          worker,   \* where _batch_worker waits: "none" when there is none
          batch,
          future,   \* future[r]: "none" before r is submitted
          answer,   \* answer[r]: the data whose result was set, as a set
          stops,
          lost,     \* history: requests in a batch that stop threw away
          spoilt    \* history: requests of batches that failed

batcherVars == <<is_running, queue, worker, batch, future, answer, stops, lost, spoilt>>

Pending(r) == future[r] = "pending"

BatcherInit ==
  /\ is_running = FALSE /\ queue = << >> /\ worker = "none" /\ batch = << >>
  /\ future = [r \in Requests |-> "none"] /\ answer = [r \in Requests |-> {}]
  /\ stops = 0 /\ lost = {} /\ spoilt = {}

Start ==
  /\ ~is_running
  /\ is_running' = TRUE /\ worker' = "get"
  /\ UNCHANGED <<queue, batch, future, answer, stops, lost, spoilt>>

\* The worker is cancelled where it waits; the batch it held is gone, the queue stays.
Stop ==
  /\ is_running /\ stops < MaxStops
  /\ is_running' = FALSE /\ worker' = "none" /\ batch' = << >>
  /\ lost' = lost \cup {r \in ToSet(batch) : Pending(r)}
  /\ stops' = stops + 1
  /\ UNCHANGED <<queue, future, answer, spoilt>>

\* put_nowait finds room
Accepts == is_running /\ Len(queue) < MaxQueueSize
Enqueue(r) ==
  /\ queue' = Append(queue, r)
  /\ future' = [future EXCEPT ![r] = "pending"]
  /\ UNCHANGED <<is_running, worker, batch, answer, stops, lost, spoilt>>

\* wait_for gives up on the future, or its task is cancelled
Abandon(r) ==
  /\ future' = [future EXCEPT ![r] = IF @ = "pending" THEN "cancelled" ELSE @]
  /\ UNCHANGED <<is_running, queue, worker, batch, answer, stops, lost, spoilt>>

-----------------------------------------------------------------------------
(* _collect_batch                                                          *)

CollectedMore(b) == IF Len(b) <= MaxBatchSize THEN "fill" ELSE "process"   \* mutant
Collected(b) == IF Len(b) < MaxBatchSize THEN "fill" ELSE "process"

Collect(r) ==
  /\ worker \in {"get", "fill"} /\ queue # << >>
  /\ r = Head(queue) /\ queue' = Tail(queue)
  /\ batch' = Append(batch, r) /\ worker' = Collected(batch')
  /\ UNCHANGED <<is_running, future, answer, stops, lost, spoilt>>

\* wait_timeout_ms are over
WaitTimeoutEmpty ==   \* mutant: returns no batch
  /\ worker = "fill" /\ worker' = "get" /\ batch' = << >>
  /\ UNCHANGED <<is_running, queue, future, answer, stops, lost, spoilt>>
WaitTimeout ==
  /\ worker = "fill" /\ worker' = "process"
  /\ UNCHANGED <<is_running, queue, batch, future, answer, stops, lost, spoilt>>

-----------------------------------------------------------------------------
(* _process_batch                                                          *)

\* the requests whose future is resolved: setting one that is cancelled would raise
UntilCancelled ==   \* mutant: `if not req.future.cancelled()` is missing
  {batch[j] : j \in {n \in DOMAIN batch : \A i \in 1 .. n : Pending(batch[i])}}
Unresolved == {r \in ToSet(batch) : Pending(r)}

\* the result at r's place
ResultFirst(r) == Head(batch)   \* mutant: every request gets the first result
ResultOf(r) == r

Finished == worker' = "get" /\ batch' = << >> /\ UNCHANGED <<is_running, queue, stops, lost>>

Succeed ==
  /\ worker = "process"
  /\ future' = [r \in Requests |-> IF r \in Unresolved THEN "done" ELSE future[r]]
  /\ answer' = [r \in Requests |-> IF r \in Unresolved THEN {ResultOf(r)} ELSE answer[r]]
  /\ Finished /\ UNCHANGED spoilt

\* the processor raises, or returns another number of results
Fail ==
  /\ worker = "process"
  /\ future' = [r \in Requests |-> IF r \in Unresolved THEN "failed" ELSE future[r]]
  /\ spoilt' = spoilt \cup ToSet(batch)
  /\ Finished /\ UNCHANGED answer

Worker == (\E r \in Requests : Collect(r)) \/ WaitTimeout \/ Succeed \/ Fail

=============================================================================
