---------------------------- MODULE ModelRunner ----------------------------
(***************************************************************************)
(* The engine on more than one rank: ModelRunner.call, write_shm,          *)
(* read_shm, loop and exit of model_runner.py, and what __getstate__ of    *)
(* sequence.py lets a command carry.                                       *)
(*                                                                         *)
(* Rank 0 is the process of LLMEngine.tla.  It sends each command through  *)
(* one shared buffer and one event per worker, and nothing tells it that a *)
(* worker has read the buffer.  Only the collectives inside the command    *)
(* do: rank 0 waits for the gathered logits (the tolist of run), so it     *)
(* returns after every worker has joined in.  The collectives are          *)
(* external; a worker's own launch of them need not wait for anybody.      *)
(*                                                                         *)
(* The model starts behind the barrier of __init__, when the buffer exists *)
(* and the workers are about to open it.                                   *)
(***************************************************************************)
EXTENDS LLMEngine

CONSTANT WorldSize   \* config.tensor_parallel_size

ASSUME WorldAssumption == WorldSize \in Nat \ {0, 1}

Workers == 1 .. WorldSize - 1

VARIABLES shm,      \* the command in the shared buffer
          event,    \* ModelRunner.event, of each worker
          call,     \* where rank 0 is in ModelRunner.call
          next,     \* the event that write_shm's loop sets next
          place,    \* where a worker is in loop
          got,      \* method_name and args of a worker
          joined    \* the workers that have launched the collectives of this run

channelVars == <<shm, event, call, next, place, got, joined>>
runnerVars == <<engineVars, channelVars>>

NoCommand == [method |-> "none"]
ExitCommand == [method |-> "exit"]

CarriesPrompt(s) == prompt[s] > Length(s)    \* mutant: only ever the last token
\* num_completion_tokens == 0
CarriesTokens(s) == Length(s) = prompt[s]

\* __getstate__: all tokens of a prompt, else the last one
SequenceState(s) ==
  [num_tokens |-> Length(s), num_prompt_tokens |-> prompt[s],
   num_cached_tokens |-> cached[s], block_table |-> table[s],
   has_tokens |-> CarriesTokens(s),
   carried |-> IF CarriesTokens(s) THEN tokens[s] ELSE <<Last(tokens[s])>>]

RunCommand ==
  [method |-> "run", is_prefill |-> prefill,
   seqs |-> [k \in 1 .. Len(scheduled) |-> SequenceState(scheduled[k])]]

RunnerInit ==
  /\ EngineInit
  /\ shm = NoCommand
  /\ event = [w \in Workers |-> FALSE]
  /\ call = "idle" /\ next = WorldSize
  /\ place = [w \in Workers |-> "attach"]
  /\ got = [w \in Workers |-> NoCommand]
  /\ joined = {}

-----------------------------------------------------------------------------
(* Rank 0                                                                  *)

\* write_shm: the buffer first ...
WriteShm(c) ==
  /\ call = "idle"
  /\ shm' = c /\ call' = "signal" /\ next' = 1
  /\ UNCHANGED <<engineVars, event, place, got, joined>>

CallRun == pc = "run" /\ WriteShm(RunCommand)
CallExit == pc \in {"idle", "failed"} /\ WriteShm(ExitCommand)

\* ... then one event after the other.
SetEvent ==
  /\ call = "signal" /\ next \in Workers
  /\ event' = [event EXCEPT ![next] = TRUE]
  /\ next' = next + 1
  /\ UNCHANGED <<engineVars, shm, call, place, got, joined>>

\* the last event is that of the MS_SCHED process, which never reads commands
Signalled ==
  /\ call = "signal" /\ next = WorldSize
  /\ call' = "execute"
  /\ UNCHANGED <<engineVars, shm, event, next, place, got, joined>>

NobodyJoined == TRUE            \* mutant: rank 0 does not wait for the logits
AllJoined == joined = Workers

\* rank 0's own run; it has the sampled tokens when all ranks have joined in
RunReturns ==
  /\ call = "execute" /\ AllJoined
  /\ Run
  /\ call' = "idle" /\ joined' = {}
  /\ UNCHANGED <<shm, event, next, place, got>>

\* exit: the barrier, which all ranks reach with the buffer closed
ExitReturns ==
  /\ call = "execute" /\ \A w \in Workers : place[w] = "exit"
  /\ call' = "ended"
  /\ place' = [w \in Workers |-> "done"]
  /\ UNCHANGED <<engineVars, shm, event, next, got, joined>>

-----------------------------------------------------------------------------
(* A worker                                                                *)

\* SharedMemory(name="nanovllm"), then loop
Attach(w) ==
  /\ place[w] = "attach"
  /\ place' = [place EXCEPT ![w] = "wait"]
  /\ UNCHANGED <<engineVars, shm, event, call, next, got, joined>>

\* read_shm: event.wait() and pickle.loads ...
ReadShm(w) ==
  /\ place[w] = "wait" /\ event[w]
  /\ got' = [got EXCEPT ![w] = shm]
  /\ place' = [place EXCEPT ![w] = "clear"]
  /\ UNCHANGED <<engineVars, shm, event, call, next, joined>>

\* ... then event.clear()
ClearEvent(w) ==
  /\ place[w] = "clear"
  /\ event' = [event EXCEPT ![w] = FALSE]
  /\ place' = [place EXCEPT ![w] = "call"]
  /\ UNCHANGED <<engineVars, shm, call, next, got, joined>>

\* prepare_prefill reads seq.token_ids and prepare_decode seq.last_token, and
\* __setstate__ sets only one of the two.
Readable(c) == \A k \in DOMAIN c.seqs : c.seqs[k].has_tokens <=> c.is_prefill

\* run on a worker: an AttributeError before any collective, or all of them
Execute(w) ==
  /\ place[w] = "call" /\ got[w].method = "run"
  /\ IF Readable(got[w])
     THEN joined' = joined \cup {w} /\ place' = [place EXCEPT ![w] = "wait"]
     ELSE place' = [place EXCEPT ![w] = "failed"] /\ UNCHANGED joined
  /\ got' = [got EXCEPT ![w] = NoCommand]
  /\ UNCHANGED <<engineVars, shm, event, call, next>>

ExitLoop(w) ==
  /\ place[w] = "call" /\ got[w].method = "exit"
  /\ place' = [place EXCEPT ![w] = "exit"]
  /\ got' = [got EXCEPT ![w] = NoCommand]
  /\ UNCHANGED <<engineVars, shm, event, call, next, joined>>

-----------------------------------------------------------------------------

\* the process of rank 0 outside call
OutsideCall ==
  /\ call = "idle" /\ pc # "run"
  /\ EngineNext
  /\ UNCHANGED channelVars

\* all processes have ended, or rank 0 waits for the logits of a dead worker
Stopped ==
  /\ call = "ended" \/ \E w \in Workers : place[w] = "failed"
  /\ UNCHANGED runnerVars

RunnerNext ==
  \/ OutsideCall
  \/ CallRun \/ CallExit \/ SetEvent \/ Signalled \/ RunReturns \/ ExitReturns
  \/ \E w \in Workers : \/ Attach(w) \/ ReadShm(w) \/ ClearEvent(w)
                        \/ Execute(w) \/ ExitLoop(w)
  \/ Stopped

RunnerSpec == RunnerInit /\ [][RunnerNext]_runnerVars

-----------------------------------------------------------------------------
(* Properties                                                              *)

\* The buffer and the events are as good as a queue: rank 0 never writes a
\* command over one that somebody has still to read, no worker runs a command
\* twice, and none sleeps through one.
CommandsOnce ==
  /\ call = "idle" => \A w \in Workers : ~event[w] /\ place[w] \in {"attach", "wait"}
  /\ \A w \in Workers : got[w] # NoCommand => got[w] = shm /\ w \notin joined
  /\ call = "execute" =>
       \A w \in Workers : \/ event[w] \/ w \in joined
                          \/ place[w] \in {"call", "exit", "failed"}

\* what rank 0 computes for sequence s, and a worker for the state g of it
InputIds(s) == SubSeq(tokens[s], (IF prefill THEN cached[s] ELSE Length(s) - 1) + 1, Length(s))
WorkerInputIds(g) == IF prefill THEN SubSeq(g.carried, g.num_cached_tokens + 1, g.num_tokens)
                     ELSE g.carried

\* A worker runs the batch of rank 0 on the same tokens and blocks.  The one
\* exception is a prompt that was preempted after its first token and is
\* prefilled again: its tokens are not in the command.
RanksAgree ==
  \A w \in Workers : got[w].method = "run" =>
    /\ pc = "run" /\ got[w].is_prefill = prefill
    /\ Len(got[w].seqs) = Len(scheduled)
    /\ \A k \in 1 .. Len(scheduled) :
         LET g == got[w].seqs[k]
             s == scheduled[k]
         IN  /\ g.block_table = table[s]
             /\ \/ g.has_tokens = prefill /\ WorkerInputIds(g) = InputIds(s)
                \/ prefill /\ Length(s) > prompt[s]

=============================================================================
