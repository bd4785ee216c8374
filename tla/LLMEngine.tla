----------------------------- MODULE LLMEngine -----------------------------
(***************************************************************************)
(* The engine as a whole: the scheduler of Scheduler.tla and what the      *)
(* forward pass does to the KV cache, model_runner.py and attention.py.    *)
(*                                                                         *)
(* The cache is an array of slots, BlockSize to a block.  The key and      *)
(* value of a token depend on the tokens before it, so a slot is modelled  *)
(* by the context its entry was computed from: the tokens up to and        *)
(* including its own.                                                      *)
(***************************************************************************)
EXTENDS Scheduler

VARIABLE kv   \* ModelRunner.kv_cache

engineVars == <<vars, kv>>

Slots == 0 .. NumBlocks * BlockSize - 1

\* the context of the token at position p, counted from 0
Context(s, p) == SubSeq(tokens[s], 1, p + 1)

\* Where the token at position p of s is kept.  prepare_prefill lists the
\* slots block by block and prepare_decode takes the last one; both put the
\* token here when slot_mapping has one slot for each token.
SlotOf(s, p) == table[s][p \div SeqBlockSize + 1] * BlockSize + (p % SeqBlockSize)

LastBlockNumTokens(s) == Length(s) - (NumBlocksOf(s) - 1) * SeqBlockSize

SlotCountFull(s) ==   \* mutant: the last block counts as a full one
  (NumBlocksOf(s) - cached[s] \div SeqBlockSize) * BlockSize
\* the slots that prepare_prefill lists for s: full blocks, then the last one
SlotCount(s) ==
  LET first == cached[s] \div SeqBlockSize
  IN  IF first < NumBlocksOf(s)
      THEN (NumBlocksOf(s) - 1 - first) * BlockSize + LastBlockNumTokens(s)
      ELSE 0

\* the positions whose tokens are the input of this pass
InputPositions(s) ==
  IF prefill THEN cached[s] .. Length(s) - 1 ELSE {Length(s) - 1}

Scheduled == {scheduled[k] : k \in 1 .. Len(scheduled)}

\* the tokens that are the input of this pass, as sequence and position
Inputs == UNION {{s} \X InputPositions(s) : s \in Scheduled}

\* `assert slot_mapping.numel() == N` of store_kvcache.  No sequence has fewer
\* slots than inputs, so the totals agree when each sequence's do.
StoreAssert ==
  prefill => \A s \in Scheduled : SlotCount(s) = Cardinality(InputPositions(s))

\* ModelRunner.run: the pass stores the entries of all its inputs before it
\* reads the cache.  No two inputs have one slot (SoleWriter below).
Run ==
  /\ Forward /\ StoreAssert
  /\ kv' = [k \in Slots |->
              LET here == {w \in Inputs : SlotOf(w[1], w[2]) = k}
              IN  IF here = {} THEN kv[k]
                  ELSE LET w == CHOOSE w \in here : TRUE IN Context(w[1], w[2])]

EngineInit == SchedInit /\ kv = [k \in Slots |-> << >>]

KeepsCache(A) == A /\ UNCHANGED kv

EngineNext ==
  \/ \E s \in Seqs, p \in Prompts : KeepsCache(AddRequest(s, p))
  \/ KeepsCache(Step)
  \/ KeepsCache(Admit) \/ KeepsCache(AllocBlock) \/ KeepsCache(Admitted)
  \/ KeepsCache(PrefillDone)
  \/ KeepsCache(DecodeAppend)
  \/ KeepsCache(Preempt) \/ KeepsCache(PreemptBlock) \/ KeepsCache(Preempted)
  \/ KeepsCache(DecodeDone) \/ KeepsCache(DecodeFails)
  \/ Run
  \/ \E t \in Tokens : KeepsCache(Sampled(t))
  \/ KeepsCache(FinishBlock) \/ KeepsCache(Finished)
  \/ KeepsCache(Terminated)

\* what one call of step does
InStep == Run \/ KeepsCache(Step \/ Prefill \/ Decode \/ Postprocess)

EngineSpec == EngineInit /\ [][EngineNext]_engineVars

\* generate calls step until is_finished(), and step itself always ends
FairEngine == EngineSpec /\ WF_engineVars(InStep)

-----------------------------------------------------------------------------
(* Properties                                                              *)

\* The positions of s whose entries are read: all of them during a pass, all
\* but the token just sampled after it.
Stored(s) ==
  {p \in 0 .. Length(s) - 1 : p \div SeqBlockSize < Len(table[s])}

\* store_kvcache's assertion holds on every pass.
SlotMappingComplete == pc = "run" => StoreAssert

\* A pass writes each slot once, and never puts one token where another
\* sequence, scheduled or not, keeps a different one: shared blocks are only
\* written by the sequence that first filled them.
SoleWriter ==
  pc = "run" =>
    \A w \in Inputs, s \in Seqs : \A p \in Stored(s) :
      SlotOf(s, p) = SlotOf(w[1], w[2]) =>
        /\ tokens[s][p + 1] = tokens[w[1]][w[2] + 1]
        /\ <<s, p>> \in Inputs => <<s, p>> = w

\* After a pass every sequence of the batch finds, at each of its positions,
\* an entry computed from the token it has there: nothing it shares was
\* overwritten, or published before it was computed.
CacheHoldsTokens ==
  pc = "post" /\ tokens[Head(scheduled)] # << >> =>
    LET s == Head(scheduled)
    IN  \A p \in 0 .. Length(s) - 1 :
          kv[SlotOf(s, p)] # << >> /\ Last(kv[SlotOf(s, p)]) = tokens[s][p + 1]

\* Prefix reuse: the entry is the one of the sequence's own context.
PrefixReuse ==
  pc = "post" =>
    LET s == Head(scheduled)
    IN  \A p \in 0 .. Length(s) - 1 : kv[SlotOf(s, p)] = Context(s, p)

\* schedule always finds something to run: `assert scheduled_seqs` holds.
NeverStuck == pc # "failed"

\* What does hold of it: the assertion fails only while the oldest request has
\* grown past what one prefill or the whole cache can hold.  No order of
\* preemptions, and no request that was served before, can bring it about.
StuckOnlyOversized ==
  pc = "failed" =>
    /\ waiting # << >>
    /\ LET n == Length(Head(waiting))
       IN  n > MaxBatchedTokens \/ BlocksFor(n) > NumBlocks

\* Every request that is added is finished, unless that assertion ends the engine.
RequestsFinish ==
  \A s \in Seqs : status[s] = "WAITING" ~> status[s] = "FINISHED" \/ pc = "failed"

=============================================================================
