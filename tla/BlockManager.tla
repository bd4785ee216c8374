---------------------------- MODULE BlockManager ----------------------------
(***************************************************************************)
(* The paged KV cache of the inference engine: block_manager.py and the    *)
(* parts of sequence.py it reads.  A sequence's tokens live in blocks; a   *)
(* full block is published under the hash of the whole prefix it ends, so  *)
(* that a later prompt with the same prefix can share it.                  *)
(*                                                                         *)
(* Hashes.  compute_hash folds the previous block's 64 bit xxhash and the  *)
(* block's tokens.  The model has no collisions, so a hash is the prefix   *)
(* itself: hashing tokens t after prefix h gives h \o t, and the code's -1 *)
(* is the empty sequence.                                                  *)
(*                                                                         *)
(* Loops.  allocate and deallocate are loops over the blocks of one        *)
(* sequence.  An action here is one iteration of such a loop; the caller   *)
(* (Scheduler.tla) runs the iterations back to back, as the code does.     *)
(***************************************************************************)
EXTENDS Integers, Sequences, FiniteSets, SequencesExt

CONSTANTS Seqs,          \* the requests (Sequence objects), by their seq_id
          Tokens,        \* the vocabulary
          NumBlocks,     \* config.num_kvcache_blocks
          BlockSize,     \* config.kvcache_block_size, the manager's block_size
          SeqBlockSize   \* Sequence.block_size, a class constant

ASSUME SizesAssumption == /\ Seqs \subseteq Nat
                          /\ NumBlocks \in Nat \ {0}
                          /\ BlockSize \in Nat \ {0}
                          /\ SeqBlockSize \in Nat \ {0}

Blocks == 0 .. NumBlocks - 1
NoHash == << >>

VARIABLES ref,      \* Block.ref_count
          hash,     \* Block.hash
          toks,     \* Block.token_ids
          index,    \* hash_to_block_id, entries are never removed
          free,     \* free_block_ids, a deque
          used,     \* used_block_ids
          tokens,   \* Sequence.token_ids
          table,    \* Sequence.block_table
          cached    \* Sequence.num_cached_tokens

blockVars == <<ref, hash, toks, index, free, used>>
seqVars == <<tokens, table, cached>>
managerVars == <<ref, hash, toks, index, free, used, table, cached>>

BlockInit ==
  /\ ref = [b \in Blocks |-> 0]
  /\ hash = [b \in Blocks |-> NoHash]
  /\ toks = [b \in Blocks |-> << >>]
  /\ index = [h \in {} |-> 0]
  /\ free = [k \in 1 .. NumBlocks |-> k - 1]
  /\ used = {}

-----------------------------------------------------------------------------
(* sequence.py                                                             *)

Length(s) == Len(tokens[s])

BlocksForPlusOne(n) == n \div SeqBlockSize + 1   \* mutant: one too many when full
BlocksFor(n) == (n + SeqBlockSize - 1) \div SeqBlockSize

NumBlocksOf(s) == BlocksFor(Length(s))

\* seq.block(i - 1): blocks are numbered from 1 here
BlockEnd(s, i) == Min({i * SeqBlockSize, Length(s)})
BlockTokens(s, i) == SubSeq(tokens[s], (i - 1) * SeqBlockSize + 1, BlockEnd(s, i))

-----------------------------------------------------------------------------
(* block_manager.py                                                        *)

\* The value of h in allocate's loop after block i: the hash of all the blocks
\* so far, if this one has exactly block_size tokens.
PrefixHash(s, i) ==
  IF Len(BlockTokens(s, i)) = BlockSize
  THEN SubSeq(tokens[s], 1, BlockEnd(s, i))
  ELSE NoHash

\* hash_to_block_id.get(h, -1), where -1 is never a key, and the check that
\* the block found still holds these tokens.
HitUnchecked(h, t) == h \in DOMAIN index   \* mutant: trusts the hash
Hit(h, t) == h \in DOMAIN index /\ toks[index[h]] = t

\* mutant: the block stays in free_block_ids
TakeBlockKeepsFree(b) ==
  /\ ref' = [ref EXCEPT ![b] = 1]
  /\ used' = used \cup {b}
  /\ UNCHANGED free

\* _allocate_block: reset the block and move it from free to used
TakeBlock(b) ==
  /\ ref' = [ref EXCEPT ![b] = 1]
  /\ free' = RemoveFirst(free, b)
  /\ used' = used \cup {b}

\* _deallocate_block; the block keeps its hash and tokens, for a later Hit
Release(b) ==
  /\ used' = used \ {b}
  /\ free' = Append(free, b)

ShareBlockUncounted(b) == UNCHANGED <<ref, free, used>>   \* mutant: no new reference

\* a block in use gets one more reference
ShareBlock(b) ==
  /\ ref' = [ref EXCEPT ![b] = @ + 1]
  /\ UNCHANGED <<free, used>>

\* Block.update and the new entry of hash_to_block_id; a block that is not
\* published was just reset, which leaves it with no hash and no tokens.
Publish(b, h, t) ==
  IF h # NoHash
  THEN /\ hash' = [hash EXCEPT ![b] = h]
       /\ toks' = [toks EXCEPT ![b] = t]
       /\ index' = [g \in DOMAIN index \cup {h} |-> IF g = h THEN b ELSE index[g]]
  ELSE /\ hash' = [hash EXCEPT ![b] = NoHash]
       /\ toks' = [toks EXCEPT ![b] = << >>]
       /\ UNCHANGED index

CanAllocateWhole(s) == Len(free) >= Length(s) \div SeqBlockSize   \* mutant: whole blocks only
CanAllocate(s) == Len(free) >= NumBlocksOf(s)

\* An iteration of allocate after a lookup failed (here or in an earlier
\* iteration): take the oldest free block.
AllocateMiss(s) ==
  LET i == Len(table[s]) + 1
      b == free[1]
  IN  /\ TakeBlock(b)
      /\ Publish(b, PrefixHash(s, i), BlockTokens(s, i))
      /\ table' = [table EXCEPT ![s] = Append(@, b)]
      /\ UNCHANGED cached

\* An iteration of allocate that reuses a published block, in use or free.
AllocateHit(s) ==
  LET i == Len(table[s]) + 1
      h == PrefixHash(s, i)
      b == index[h]
  IN  /\ IF b \in used THEN ShareBlock(b) ELSE TakeBlock(b)
      /\ Publish(b, h, BlockTokens(s, i))
      /\ table' = [table EXCEPT ![s] = Append(@, b)]
      /\ cached' = [cached EXCEPT ![s] = @ + BlockSize]

UnreferencedAlways(b) == TRUE    \* mutant: frees a block that others share
UnreferencedNever(b) == FALSE    \* mutant: never gives a block back
\* ref_count after the decrement is 0
Unreferenced(b) == ref[b] = 1

\* An iteration of deallocate, from the last block to the first.  The code
\* clears the table after the loop; here each iteration drops its block.
FreedAllButOne(s) == Len(table[s]) <= 1   \* mutant: the loop misses the first block
Freed(s) == table[s] = << >>

DeallocateLast(s) ==
  LET b == Last(table[s])
  IN  /\ ref' = [ref EXCEPT ![b] = @ - 1]
      /\ IF Unreferenced(b) THEN Release(b) ELSE UNCHANGED <<used, free>>
      /\ table' = [table EXCEPT ![s] = Front(@)]
      /\ UNCHANGED <<hash, toks, index, cached>>

-----------------------------------------------------------------------------
(* may_append: called before a decode step, when the sequence has one      *)
(* token more than its blocks hold.                                        *)

LastBlock(s) == Last(table[s])

NeedsBlock(s) == Length(s) % BlockSize = 1
FillsBlockEarly(s) == Length(s) % BlockSize = BlockSize - 1   \* mutant: off by one
FillsBlock(s) == Length(s) % BlockSize = 0

CanAppend(s) == Len(free) >= (IF NeedsBlock(s) THEN 1 ELSE 0)

\* the assertion of each of may_append's three branches
AppendAssert(s) == NeedsBlock(s) <=> hash[LastBlock(s)] # NoHash

\* Append a block for the token that does not fit, publish the block that
\* this token fills, or do nothing.
MayAppend(s) ==
  /\ IF NeedsBlock(s)
     THEN /\ TakeBlock(free[1])
          /\ Publish(free[1], NoHash, << >>)
          /\ table' = [table EXCEPT ![s] = Append(@, free[1])]
     ELSE /\ IF FillsBlock(s)
             THEN LET n == Len(table[s])
                      t == BlockTokens(s, NumBlocksOf(s))
                      prefix == IF n > 1 THEN hash[table[s][n - 1]] ELSE NoHash
                  IN  Publish(LastBlock(s), prefix \o t, t)
             ELSE UNCHANGED <<hash, toks, index>>
          /\ UNCHANGED <<ref, free, used, table>>
  /\ UNCHANGED cached

=============================================================================
