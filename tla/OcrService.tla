----------------------------- MODULE OcrService -----------------------------
(***************************************************************************)
(* Requests of the OCR service as ConcurrencyManager.process_request runs  *)
(* them (mindnlp/ocr/core/concurrency/manager.py): past the rate limiter,  *)
(* which may refuse any, through the circuit breaker of                    *)
(* core/limiter/rate_limiter.py into the batcher.  A call holds the        *)
(* breaker's lock only while it is admitted and while its end is noted; it *)
(* waits for the batcher without it.                                       *)
(***************************************************************************)
EXTENDS DynamicBatcher

CONSTANT Threshold   \* circuit_breaker_threshold

ASSUME BreakerAssumption == Threshold \in Nat \ {0}

VARIABLES breaker,   \* state, failure_count, and whether
                     \* circuit_breaker_timeout_s have passed since the last failure
          outcome,   \* outcome[r]: "new", "waiting", or how r's call ended
          streak     \* history: the failures the breaker noted since the last success

serviceVars == <<batcherVars, breaker, outcome, streak>>

Waiting(r) == outcome[r] = "waiting"

ServiceInit ==
  /\ BatcherInit
  /\ breaker = [state |-> "closed", failures |-> 0, elapsed |-> FALSE]
  /\ outcome = [r \in Requests |-> "new"] /\ streak = 0

-----------------------------------------------------------------------------
(* CircuitBreaker                                                          *)

Rejects(b) == b.state = "open" /\ ~b.elapsed
Admitted(b) == IF b.state = "open" THEN [b EXCEPT !.state = "half_open"] ELSE b

\* _on_success
Succeeded(b) ==
  IF b.state = "half_open" THEN [b EXCEPT !.state = "closed", !.failures = 0] ELSE b

\* _on_failure
Opens(b) == b.state = "half_open" \/ b.failures + 1 >= Threshold
Failed(b) == [state |-> IF Opens(b) THEN "open" ELSE b.state,
              failures |-> b.failures + 1, elapsed |-> FALSE]

NotesSuccess == breaker' = Succeeded(breaker) /\ streak' = 0
NotesFailure(b) == breaker' = Failed(b) /\ streak' = streak + 1

TimePasses ==
  /\ breaker.state = "open" /\ ~breaker.elapsed
  /\ breaker' = [breaker EXCEPT !.elapsed = TRUE]
  /\ UNCHANGED <<batcherVars, outcome, streak>>

-----------------------------------------------------------------------------
(* process_request                                                         *)

Ends(r, how) == outcome' = [outcome EXCEPT ![r] = how]

\* the rate limiter refuses
Limited(r) ==
  /\ outcome[r] = "new"
  /\ Ends(r, "rejected")
  /\ UNCHANGED <<batcherVars, breaker, streak>>

Rejected(r) ==
  /\ outcome[r] = "new" /\ Rejects(breaker)
  /\ Ends(r, "rejected")
  /\ UNCHANGED <<batcherVars, breaker, streak>>

Submit(r) ==
  /\ outcome[r] = "new" /\ ~Rejects(breaker) /\ Accepts
  /\ Enqueue(r)
  /\ Ends(r, "waiting") /\ breaker' = Admitted(breaker)
  /\ UNCHANGED streak

\* RuntimeError or QueueFull, which the breaker counts as failures
SubmitFails(r) ==
  /\ outcome[r] = "new" /\ ~Rejects(breaker) /\ ~Accepts
  /\ Ends(r, "error") /\ NotesFailure(Admitted(breaker))
  /\ UNCHANGED batcherVars

Return(r) ==
  /\ Waiting(r) /\ future[r] = "done"
  /\ Ends(r, "answered") /\ NotesSuccess
  /\ UNCHANGED batcherVars

Raise(r) ==
  /\ Waiting(r) /\ future[r] = "failed"
  /\ Ends(r, "error") /\ NotesFailure(breaker)
  /\ UNCHANGED batcherVars

\* also when the future was resolved, but the caller has not run since
Timeout(r) ==
  /\ Waiting(r)
  /\ Abandon(r)
  /\ Ends(r, "timeout") /\ NotesFailure(breaker)

\* CancelledError, which the breaker does not see
Cancelled(r) ==
  /\ Waiting(r)
  /\ Abandon(r)
  /\ Ends(r, "cancelled") /\ UNCHANGED <<breaker, streak>>

-----------------------------------------------------------------------------

Resume(r) == Return(r) \/ Raise(r)
Batching == Worker /\ UNCHANGED <<breaker, outcome, streak>>

ServiceNext ==
  \/ (Start \/ Stop) /\ UNCHANGED <<breaker, outcome, streak>>
  \/ Batching
  \/ \E r \in Requests : \/ Limited(r) \/ Rejected(r)
                         \/ Submit(r) \/ SubmitFails(r) \/ Resume(r) \/ Timeout(r) \/ Cancelled(r)
  \/ TimePasses

ServiceSpec == ServiceInit /\ [][ServiceNext]_serviceVars
FairService == ServiceSpec /\ WF_serviceVars(Batching)
                           /\ \A r \in Requests : WF_serviceVars(Resume(r))

-----------------------------------------------------------------------------
(* Properties                                                              *)

\* Types.
ServiceTypeOK ==
  /\ is_running \in BOOLEAN
  /\ queue \in Seq(Requests) /\ Len(queue) <= MaxQueueSize
  /\ batch \in Seq(Requests) /\ Len(batch) <= MaxBatchSize
  /\ worker \in {"none", "get", "fill", "process"} /\ (is_running <=> worker # "none")
  /\ future \in [Requests -> {"none", "pending", "done", "failed", "cancelled"}]
  /\ answer \in [Requests -> SUBSET Requests]
  /\ stops \in 0 .. MaxStops /\ lost \subseteq Requests /\ spoilt \subseteq Requests
  /\ breaker \in [state : {"closed", "open", "half_open"}, failures : Nat,
                  elapsed : BOOLEAN]
  /\ outcome \in [Requests -> {"new", "waiting", "answered", "error", "rejected",
                               "timeout", "cancelled"}]
  /\ streak \in Nat

\* A caller gets the answer to its own request, never that of another in its batch; and
\* the requests of a batch that failed fail with it, each whose caller still waits and no
\* others (dynamic_batcher.py:246).
AnswersFaithful ==
  \A r \in Requests : /\ outcome[r] = "answered" => answer[r] = {r}
                      /\ future[r] = "failed" => r \in spoilt
                      /\ Waiting(r) /\ r \in spoilt => future[r] = "failed"
                      /\ answer[r] # {} => r \notin spoilt

\* A caller that waits has its request in the queue or in the batch, once, or its future
\* is resolved: whatever other callers gave up on meanwhile and however batches end.  Only
\* the requests in the batch that stop threw away are nowhere (dynamic_batcher.py:101).
Accounted ==
  \A r \in Requests \ lost :
    Waiting(r) => \/ future[r] \in {"done", "failed"}
                  \/ Cardinality({i \in DOMAIN (queue \o batch) :
                                    (queue \o batch)[i] = r}) = 1

\* The comments of rate_limiter.py:20 and 275: the threshold counts consecutive failures.
OpensConsecutive ==
  [][breaker.state = "closed" /\ breaker'.state = "open" => streak' >= Threshold]_serviceVars

\* Every caller is served without its timeout, unless the batcher is stopped: no request is
\* left behind in the queue or in a batch.
Served == \A r \in Requests : Waiting(r) ~> (~Waiting(r) \/ ~is_running \/ r \in lost)

=============================================================================
