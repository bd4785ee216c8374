----------------------------- MODULE Scheduler -----------------------------
(***************************************************************************)
(* The scheduling loop of the inference engine: scheduler.py, driven by    *)
(* LLMEngine.step and LLMEngine.add_request, over the blocks of            *)
(* BlockManager.  One step of the engine is                                *)
(*                                                                         *)
(*   schedule()      admit waiting sequences (prefill), or else give every *)
(*                   running one room for a token (decode), preempting     *)
(*                   from the tail of running when the blocks run out      *)
(*   run             the forward pass (LLMEngine.tla says what it does to  *)
(*                   the KV cache)                                         *)
(*   postprocess()   append the sampled tokens, retire what has finished   *)
(*                                                                         *)
(* pc is the place in that step.  Each iteration of a loop is one action,  *)
(* so no action repeats itself over a sequence.  Sequences stay in waiting *)
(* or running until the loop body has dealt with them: the `seq` of the    *)
(* prefill loop is Head(waiting), the `seq` of the decode loop is          *)
(* Head(running), and the victim of a preemption is Last(running), which   *)
(* is that same seq when nothing else is running.                          *)
(***************************************************************************)
EXTENDS BlockManager

CONSTANTS Prompts,           \* the prompts a request may carry
          MaxNumSeqs,        \* config.max_num_seqs
          MaxBatchedTokens,  \* config.max_num_batched_tokens
          MaxTokens,         \* sampling_params.max_tokens, of every request
          IgnoreEos,         \* the requests with sampling_params.ignore_eos
          Eos                \* config.eos

ASSUME EngineAssumption == /\ Prompts \subseteq Seq(Tokens) \ {<< >>}
                           /\ MaxNumSeqs \in Nat \ {0}
                           /\ MaxBatchedTokens \in Nat \ {0}
                           /\ MaxTokens \in Nat \ {0}
                           /\ IgnoreEos \subseteq Seqs

VARIABLES waiting,    \* Scheduler.waiting
          running,    \* Scheduler.running
          scheduled,  \* scheduled_seqs; in postprocess, what is left of it
          batched,    \* num_batched_tokens
          miss,       \* cache_miss, of the allocate in progress
          prefill,    \* is_prefill of the last schedule()
          status,     \* Sequence.status, or "NONE" before add_request
          prompt,     \* Sequence.num_prompt_tokens
          pc

queueVars == <<waiting, running, scheduled>>
vars == <<managerVars, tokens, queueVars, batched, miss, prefill, status, prompt, pc>>

Statuses == {"NONE", "WAITING", "RUNNING", "FINISHED"}
Places == {"idle", "admit", "alloc", "decode", "preempt", "run", "post",
           "finish", "failed"}

SchedInit ==
  /\ BlockInit
  /\ tokens = [s \in Seqs |-> << >>]
  /\ table = [s \in Seqs |-> << >>]
  /\ cached = [s \in Seqs |-> 0]
  /\ waiting = << >> /\ running = << >> /\ scheduled = << >>
  /\ batched = 0 /\ miss = FALSE /\ prefill = FALSE
  /\ status = [s \in Seqs |-> "NONE"]
  /\ prompt = [s \in Seqs |-> 0]
  /\ pc = "idle"

-----------------------------------------------------------------------------
(* llm_engine.py                                                           *)

\* add_request, which the caller may interleave with steps; Sequence.counter
\* numbers the requests in the order of their arrival
AddRequest(s, p) ==
  /\ pc = "idle" /\ status[s] = "NONE"
  /\ \A r \in Seqs : status[r] = "NONE" => s <= r
  /\ tokens' = [tokens EXCEPT ![s] = p]
  /\ prompt' = [prompt EXCEPT ![s] = Len(p)]
  /\ status' = [status EXCEPT ![s] = "WAITING"]
  /\ waiting' = Append(waiting, s)
  /\ UNCHANGED <<managerVars, running, scheduled, batched, miss, prefill, pc>>

IsFinished == waiting = << >> /\ running = << >>

\* step, called while not is_finished()
Step ==
  /\ pc = "idle" /\ ~IsFinished
  /\ pc' = "admit" /\ scheduled' = << >> /\ batched' = 0
  /\ UNCHANGED <<managerVars, tokens, waiting, running, miss, prefill, status, prompt>>

-----------------------------------------------------------------------------
(* schedule, prefill                                                       *)

Admissible ==
  /\ waiting # << >>
  /\ Len(scheduled) < MaxNumSeqs
  /\ batched + Length(Head(waiting)) <= MaxBatchedTokens
  /\ CanAllocate(Head(waiting))

Admit ==
  /\ pc = "admit" /\ Admissible
  /\ pc' = "alloc" /\ miss' = FALSE
  /\ UNCHANGED <<managerVars, tokens, queueVars, batched, prefill, status, prompt>>

\* one iteration of allocate's loop
AllocBlock ==
  LET s == Head(waiting)
      i == Len(table[s]) + 1
  IN  /\ pc = "alloc" /\ i <= NumBlocksOf(s)
      /\ miss' = (miss \/ ~Hit(PrefixHash(s, i), BlockTokens(s, i)))
      /\ IF miss' THEN AllocateMiss(s) ELSE AllocateHit(s)
      /\ UNCHANGED <<tokens, queueVars, batched, prefill, status, prompt, pc>>

\* the rest of the prefill loop's body
Admitted ==
  LET s == Head(waiting)
  IN  /\ pc = "alloc" /\ Len(table[s]) = NumBlocksOf(s)
      /\ batched' = batched + (Length(s) - cached[s])
      /\ status' = [status EXCEPT ![s] = "RUNNING"]
      /\ waiting' = Tail(waiting)
      /\ running' = Append(running, s)
      /\ scheduled' = Append(scheduled, s)
      /\ pc' = "admit"
      /\ UNCHANGED <<managerVars, tokens, miss, prefill, prompt>>

\* leave the loop: run the prefill batch, or fall through to decode
PrefillDone ==
  /\ pc = "admit" /\ ~Admissible
  /\ IF scheduled # << >>
     THEN pc' = "run" /\ prefill' = TRUE
     ELSE pc' = "decode" /\ UNCHANGED prefill
  /\ UNCHANGED <<managerVars, tokens, queueVars, batched, miss, status, prompt>>

-----------------------------------------------------------------------------
(* schedule, decode                                                        *)

Decoding == pc = "decode" /\ running # << >> /\ Len(scheduled) < MaxNumSeqs

DecodeAppend ==
  LET s == Head(running)
  IN  /\ Decoding /\ CanAppend(s) /\ AppendAssert(s)
      /\ MayAppend(s)
      /\ running' = Tail(running)
      /\ scheduled' = Append(scheduled, s)
      /\ UNCHANGED <<tokens, waiting, batched, miss, prefill, status, prompt, pc>>

\* preempt: the tail of running loses its blocks ...
Preempt ==
  /\ Decoding /\ ~CanAppend(Head(running))
  /\ status' = [status EXCEPT ![Last(running)] = "WAITING"]
  /\ pc' = "preempt"
  /\ UNCHANGED <<managerVars, tokens, queueVars, batched, miss, prefill, prompt>>

\* ... one after the other ...
PreemptBlock ==
  /\ pc = "preempt" /\ ~Freed(Last(running))
  /\ DeallocateLast(Last(running))
  /\ UNCHANGED <<tokens, queueVars, batched, miss, prefill, status, prompt, pc>>

RequeueLast(s) == waiting' = Append(waiting, s)   \* mutant: append for appendleft
RequeueNowhere(s) == UNCHANGED waiting            \* mutant: the sequence is lost
Requeue(s) == waiting' = <<s>> \o waiting

\* ... and goes back to the head of waiting.
Preempted ==
  LET s == Last(running)
  IN  /\ pc = "preempt" /\ Freed(s)
      /\ cached' = [cached EXCEPT ![s] = 0]
      /\ Requeue(s)
      /\ running' = Front(running)
      /\ pc' = "decode"
      /\ UNCHANGED <<blockVars, table, tokens, scheduled, batched, miss, prefill,
                     status, prompt>>

DecodeDone ==
  /\ pc = "decode" /\ ~Decoding /\ scheduled # << >>
  /\ running' = scheduled \o running
  /\ prefill' = FALSE
  /\ pc' = "run"
  /\ UNCHANGED <<managerVars, tokens, waiting, scheduled, batched, miss, status, prompt>>

\* assert scheduled_seqs: nothing fits, and step raises AssertionError
DecodeFails ==
  /\ pc = "decode" /\ ~Decoding /\ scheduled = << >>
  /\ pc' = "failed"
  /\ UNCHANGED <<managerVars, tokens, queueVars, batched, miss, prefill, status, prompt>>

-----------------------------------------------------------------------------
(* run and postprocess                                                     *)

Forward ==
  /\ pc = "run"
  /\ pc' = "post"
  /\ UNCHANGED <<managerVars, tokens, queueVars, batched, miss, prefill, status, prompt>>

Finishes(s, t) ==
  \/ s \notin IgnoreEos /\ t = Eos
  \/ Length(s) + 1 - prompt[s] = MaxTokens

AfterPost(rest) == IF rest = << >> THEN "idle" ELSE "post"

\* the sampled token of the next sequence of the batch
Sampled(t) ==
  LET s == Head(scheduled)
  IN  /\ pc = "post"
      /\ tokens' = [tokens EXCEPT ![s] = Append(@, t)]
      /\ IF Finishes(s, t)
         THEN /\ status' = [status EXCEPT ![s] = "FINISHED"]
              /\ pc' = "finish"
              /\ UNCHANGED scheduled
         ELSE /\ scheduled' = Tail(scheduled)
              /\ pc' = AfterPost(Tail(scheduled))
              /\ UNCHANGED status
      /\ UNCHANGED <<managerVars, waiting, running, batched, miss, prefill, prompt>>

FinishBlock ==
  /\ pc = "finish" /\ ~Freed(Head(scheduled))
  /\ DeallocateLast(Head(scheduled))
  /\ UNCHANGED <<tokens, queueVars, batched, miss, prefill, status, prompt, pc>>

Finished ==
  LET s == Head(scheduled)
  IN  /\ pc = "finish" /\ Freed(s)
      /\ cached' = [cached EXCEPT ![s] = 0]
      /\ running' = RemoveFirst(running, s)
      /\ scheduled' = Tail(scheduled)
      /\ pc' = AfterPost(Tail(scheduled))
      /\ UNCHANGED <<blockVars, table, tokens, waiting, batched, miss, prefill,
                     status, prompt>>

-----------------------------------------------------------------------------

\* every request was added and has finished, or the engine has raised
Terminated ==
  /\ pc = "failed" \/ (pc = "idle" /\ \A s \in Seqs : status[s] = "FINISHED")
  /\ UNCHANGED vars

Prefill == Admit \/ AllocBlock \/ Admitted \/ PrefillDone
Decode == DecodeAppend \/ Preempt \/ PreemptBlock \/ Preempted \/ DecodeDone \/ DecodeFails
Postprocess == (\E t \in Tokens : Sampled(t)) \/ FinishBlock \/ Finished

SchedNext ==
  \/ \E s \in Seqs, p \in Prompts : AddRequest(s, p)
  \/ Step \/ Prefill \/ Decode \/ Forward \/ Postprocess
  \/ Terminated

SchedSpec == SchedInit /\ [][SchedNext]_vars

-----------------------------------------------------------------------------
(* Properties                                                              *)

\* The types of the variables; a block table names blocks, a queue sequences.
TypeOK ==
  /\ ref \in [Blocks -> Nat]
  /\ hash \in [Blocks -> Seq(Tokens)]
  /\ toks \in [Blocks -> Seq(Tokens)]
  /\ DOMAIN index \subseteq Seq(Tokens) /\ \A h \in DOMAIN index : index[h] \in Blocks
  /\ free \in Seq(Blocks) /\ used \subseteq Blocks
  /\ tokens \in [Seqs -> Seq(Tokens)]
  /\ table \in [Seqs -> Seq(Blocks)]
  /\ cached \in [Seqs -> Nat]
  /\ waiting \in Seq(Seqs) /\ running \in Seq(Seqs) /\ scheduled \in Seq(Seqs)
  /\ batched \in Int /\ miss \in BOOLEAN /\ prefill \in BOOLEAN
  /\ status \in [Seqs -> Statuses]
  /\ prompt \in [Seqs -> Nat]
  /\ pc \in Places

\* The places in the block tables t that hold block b.  One table may hold b
\* twice: a stale entry of hash_to_block_id can name a block of the same
\* sequence.
Holders(t, b) == UNION {{<<s, i>> : i \in {j \in DOMAIN t[s] : t[s][j] = b}} : s \in Seqs}

\* ref_count is the number of table entries that name the block, however
\* admissions, shared prefixes, preemptions and retirements interleave.
RefCounted == \A b \in Blocks : ref[b] = Cardinality(Holders(table, b))

\* Every block is in exactly one of free_block_ids (once) and used_block_ids,
\* and it is in use exactly while something refers to it.
Partitioned ==
  /\ \A j, k \in 1 .. Len(free) : free[j] = free[k] => j = k
  /\ \A b \in Blocks : b \in used <=> ref[b] > 0
  /\ \A b \in Blocks : b \in used <=> \A k \in 1 .. Len(free) : free[k] # b

\* The order in which the sequences will be served: what a decode has already
\* scheduled was taken from the front of running.
Line ==
  IF pc \in {"decode", "preempt"} THEN scheduled \o running \o waiting
  ELSE running \o waiting

\* First come, first served: neither admission nor preemption ever lets a
\* request overtake an older one, and no request is in the queues twice.
ArrivalOrder == \A j, k \in 1 .. Len(Line) : j < k => Line[j] < Line[k]

\* A request that is not running holds no block, so a finished or a preempted
\* one leaks none; `assert not seq.block_table` of allocate is a part of this.
Holding(s) ==
  \/ status[s] = "RUNNING"
  \/ pc = "alloc" /\ s = Head(waiting)
  \/ pc = "preempt" /\ s = Last(running)
  \/ pc = "finish" /\ s = Head(scheduled)

NoLeak == \A s \in Seqs : table[s] # << >> => Holding(s)

\* can_allocate's promise: while a sequence is being allocated there is a free
\* block for each block it still lacks, and free_block_ids[0] never raises.
Funded ==
  pc = "alloc" => Len(free) >= NumBlocksOf(Head(waiting)) - Len(table[Head(waiting)])

\* The assertions of may_append hold when decode calls it.
AppendAsserts == Decoding /\ CanAppend(Head(running)) => AppendAssert(Head(running))

\* A sequence in the batch has a block for each of its tokens.
Covered ==
  pc = "run" =>
    \A k \in 1 .. Len(scheduled) : Len(table[scheduled[k]]) = NumBlocksOf(scheduled[k])

=============================================================================
