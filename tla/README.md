# MindNLP: a TLA+ verification of its stateful cores

MindNLP bundles several programs. Most of their lines are numeric kernels, API
layers and examples; what can go wrong in ways a test hardly reaches sits in a
few stateful cores. This directory models those cores, checks them with TLC and
proves the most important properties with TLAPS. Paths below are relative to
the repository root; code is under `src/`.

## 1. Inventory

| component | state | operations | interacts with | hard part |
|---|---|---|---|---|
| KV block manager, `src/mindnlp/inference/engine/block_manager.py`, `sequence.py` | per block: reference count, hash, tokens; hash index; free deque, used set; per sequence: tokens, block table, cached count | `can_allocate`, `allocate`, `deallocate`, `can_append`, `may_append` | called by the scheduler; tables read by the model runner | sharing of blocks, stale index entries, exhaustion of the pool |
| scheduler, `engine/scheduler.py` | waiting and running deques, statuses | `add`, `schedule`, `preempt`, `postprocess` | owns the block manager, driven by the engine | preemption order, starvation, its assertion |
| engine loop, `engine/llm_engine.py` | | `add_request`, `step`, `generate`, `exit` | scheduler, model runner | requests arriving between steps |
| model runner, `engine/model_runner.py`, `layers/attention.py` | KV cache; shared-memory command buffer and events | `prepare_prefill`, `prepare_decode`, `run`, `call`, `write_shm`, `read_shm`, `loop`, `exit` | reads block tables, sends commands to worker ranks | slots, ordering of commands across processes |
| OCR batcher, `src/mindnlp/ocr/core/batch/dynamic_batcher.py` | queue, worker task, futures | `start`, `stop`, `submit`, worker, collect, process | concurrency manager above, engine below | timeouts against late results, stop, failing batches |
| OCR limiter and breaker, `core/limiter/rate_limiter.py` | bucket; breaker state and counters | `acquire`, `wait_for_token`, `call`, `reset` | concurrency manager | calls in flight across a state change |
| OCR manager, `core/concurrency/manager.py` | whether it runs | `process_request`, `_batch_predict`, `start`, `stop` | the three above | every way a call can end, against the breaker's count |
| autograd engine, `src/mindtorch_v2/_autograd/engine.py` | dependency and received counts, ready queue | `backward`, `grad`, hooks | tensors and nodes, DDP hooks | a node that runs early, twice or never |
| NPU allocator, `_backends/npu/allocator.py` | active, cached and pending blocks, statistics | `malloc`, `free`, `record_stream`, `synchronize`, `empty_cache` | streams and events of the device | reuse while a stream still works, split blocks |
| DDP reducer, `nn/parallel/distributed.py` | pending counts and gradients per bucket | hooks, bucket reduction, unused parameters, `no_sync` | autograd hooks, collectives of the process group | order of collectives across ranks |
| TCP store, `distributed/_store.py` | server map, client socket and lock | `set`, `get`, `wait`, `close` | rendezvous of the process groups | blocked getters, timeouts, desynchronised replies |
| others | see `PROJECT.json`, status `not_modelled` | | | numeric code, file formats, scripts |

What makes each correct:

- *Block manager*: counts are the table entries; the pool is partitioned; no
  leak; a block is reused as a prefix only for that prefix; no assertion fails.
- *Scheduler*: first come, first served; every request finishes; it always
  finds work while there are requests.
- *Model runner*: one slot for each input token, no sequence overwrites what
  another reads; every worker executes every command once and in order.
- *OCR service*: a request gets its own result or an error, once, in bounded
  time; a full queue, an open breaker and an empty bucket reject and nothing
  else does; nothing is left behind by `stop`.
- *Autograd*: every node on a path runs once, after all its users.
- *Allocator*: no memory is given out while a stream may still use it, nor
  returned to the device while a part of it is in use.
- *Reducer and store*: ranks issue the same collectives in the same order;
  after backward all ranks hold the same gradients; a reply answers its request.

`PROJECT.json` lists the hazards at their lines, with the properties that cover
them or the reason why none does yet.

## 2. The inference engine

### Modules

| module | models | role |
|---|---|---|
| `BlockManager` | `block_manager.py`, the parts of `sequence.py` it reads | variables and one operator per method or loop iteration |
| `Scheduler` | `scheduler.py`, `LLMEngine.add_request`, `step`, `is_finished` | `EXTENDS BlockManager`; one action per loop iteration; the properties of both |
| `LLMEngine` | `model_runner.py` (`prepare_*`, `run`), `store_kvcache` | `EXTENDS Scheduler`; adds the KV cache and the forward pass, the fairness and the properties over the cache |
| `ModelRunner` | `model_runner.py` (`call`, `write_shm`, `read_shm`, `loop`, `exit`), `Sequence.__getstate__` | `EXTENDS LLMEngine`; rank 0 and its workers over the shared buffer and the events |
| `MCEngine`, `MCRunner` | | prompts and requests for TLC, on one rank and on several |
| `SchedulerProofs` | | lemmas about block tables and queues; the inductive invariant and the theorems about `Scheduler` |
| `EngineProofs` | | what a block table holds (no leak, the assertions of `may_append`, a block per token); who writes a slot of the cache and what it holds; the engine on several ranks implements the one on one rank, and this the scheduler; the worker channel loses no command |

State maps one to one: `ref`, `hash`, `toks` are `Block.ref_count`, `.hash`,
`.token_ids`; `index` is `hash_to_block_id`; `free`, `used` the two id sets;
`tokens`, `table`, `cached`, `status`, `prompt` the fields of `Sequence`;
`waiting`, `running`, `scheduled`, `batched`, `miss` the deques and locals of
`schedule`. `pc` is the place within `step`. A loop of the code is one action
per iteration (`AllocBlock` for `allocate`, `PreemptBlock` and `FinishBlock` for
`deallocate`, `Sampled` for `postprocess`); the code is single-threaded, so only
`AddRequest` interleaves, between two steps.

Where the model departs from the text of the code, on purpose:

- the sequence under treatment stays at its end of the deque until the
  iteration is over, where the code pops it first. Nothing runs in between; the
  decode loop's `seq` is `Head(running)`, and its victim `Last(running)`, which
  is `seq` itself when it is alone, as in the code's `else` branch;
- `deallocate` drops a table entry per iteration, where the code clears the
  table after the loop;
- a block's hash is the token prefix it stands for: no xxhash collisions;
- `kv` holds, for each slot, the context its entry was computed from. The
  kernel that writes the slots is external (`store_kvcache_kernel`); what it
  does is taken from its arguments;
- the sampled token is any token, and every request has the same `max_tokens`,
  which is positive (`SamplingParams` does not exclude 0; with 0 the equality of
  `scheduler.py:68` never holds);
- `Sequence.block_size` (a class constant) and `config.kvcache_block_size` are
  separate constants, as in the code. `config.py:22` accepts any multiple of 256 for the
  second while the first stays 256; with 512 `prepare_prefill` lists more slots than a
  prompt of more than 256 tokens has tokens, and `store_kvcache`'s assertion fails. The
  runs and the proofs take the two equal.

*The worker channel* (`ModelRunner`). With `tensor_parallel_size` above 1, rank 0
sends each command through one shared-memory buffer and sets one event per
worker; no worker acknowledges. `shm`, `event` are the buffer and the events;
`call` is the place of rank 0 in `ModelRunner.call` and `place` that of a worker in
`loop`; `got` is what `read_shm` unpickled; `joined` are the workers that have
launched the collectives of the current run. Setting an event, reading the
buffer, and clearing the event are actions of their own. `OutsideCall` is every
step of rank 0 outside `call`, `RunReturns` is `Run` of `LLMEngine`. On purpose:

- the model starts behind the barrier of `__init__`, when rank 0 has created the
  buffer and each worker is about to open it;
- a worker's launch of a collective waits for nobody (kernels are queued on the
  device), so it may be back in `read_shm` while rank 0 is still in `run`. Rank 0
  waits for the gathered logits (`tolist`, `model_runner.py:219`), so for all;
- `LLMEngine.__init__` starts one process more than there are workers
  (`MS_SCHED`), whose event is set and never read: `SetEvent` is for the workers;
- a command carries of a sequence what `__getstate__` puts into it. A worker that
  needs what is not there raises, its process ends, and rank 0 waits for ever
  (`Stopped`, the only stop besides the end of all processes);
- the 2**20 bytes of the buffer are not modelled.

### Runs

All instances have three requests, a vocabulary of two tokens of which one is
EOS (ignored by request 2), three blocks, prompts of one to four tokens over
blocks of two, two sequences per batch, and up to three completion tokens. They
are enough for: prompts sharing a full block, sharing a block that was freed and
then found again, a partial last block, a hit after a miss, a prompt as long as
the batch limit, preemption of the tail and of oneself, re-admission after
preemption with completion tokens, exhaustion of the pool in the middle of a
decode, and a running queue longer than `max_num_seqs`. `scheduler` has three ranks:
two workers, so that one may be a command ahead of the other. The other runs are of
`LLMEngine` on one rank.

| run | shows |
|---|---|
| `scheduler` | the safety properties, in every reachable state of `RunnerSpec`, also on the way to the assertion failure of `readmission` and to a worker's failure |
| `scheduler_live` | `schedule` fails to find work only over a request that outgrew its limits; otherwise every request finishes |
| `prefix_reuse` (violation) | a stale index entry makes a prompt reuse entries of another prefix |
| `readmission` (violation) | a request that outgrew `max_num_batched_tokens` is preempted and can never come back |

The properties:

| property | what it says | catches |
|---|---|---|
| `TypeOK` | types | |
| `RefCounted` | a reference count is the number of table entries naming the block | a missed increment or decrement |
| `Partitioned` | a block is once in `free` or in `used`, never both | double free, reuse of a used block |
| `NoLeak` | only a running sequence, or one being (de)allocated, has blocks | leaks on preemption and retirement |
| `Funded` | `can_allocate` covers the whole loop of `allocate` | `free_block_ids[0]` on an empty deque |
| `AppendAsserts` | the assertions of `may_append` | off-by-one at block boundaries |
| `Covered` | a batched sequence has a block for each token | the same, seen from the runner |
| `ArrivalOrder` | the queues, joined in service order, are sorted by arrival | overtaking, duplicates |
| `SlotMappingComplete` | `store_kvcache`'s assertion | wrong slot counts |
| `SoleWriter` | a pass writes a slot once and never over another sequence's entry | sharing a block that is still written |
| `CacheHoldsTokens` | after a pass each position of the next batched sequence has an entry of its token | blocks published before they are computed |
| `CommandsOnce` | no command is overwritten before it is read, run twice, or slept through | rank 0 that runs ahead of its workers |
| `RanksAgree` | a worker has the tokens and blocks of rank 0's batch, except for the prompts below | state lost between the ranks |
| `NeverStuck` | `assert scheduled_seqs` (refuted by `readmission`) | |
| `StuckOnlyOversized` | that assertion fails only while the oldest request is longer than one prefill or the whole cache can hold | leaked blocks, a queue blocked by anything else |
| `RequestsFinish` | waiting leads to finished, unless that assertion ends the engine | lost or starved requests |

`PrefixReuse` (the entry is one of the sequence's own context, not only of its
token) is what prefix caching means and is what `prefix_reuse` refutes;
`CacheHoldsTokens` is the part of it that does hold.

The exception in `RanksAgree` is real: a request that was preempted after its first
token is prefilled again, but `__getstate__` sends its last token only, since
`num_completion_tokens` is not 0. The worker's `seq[seq.num_cached_tokens:]` then
raises `AttributeError`, and rank 0 never gets its logits. The run reaches such
states; nothing in the repository says that preemption is supported with several
ranks, so it is recorded here and not as a finding.

Deadlock is checked in every run: the only states without a further step are
those in which all requests have finished or the engine has raised, where
`Terminated` stutters, and with several ranks those of `Stopped`. An assertion of the code that failed elsewhere would
disable its step and end the behaviour; that those of `may_append` and
`store_kvcache` never fail is what `AppendAsserts` and `SlotMappingComplete` check.

*Fairness.* `FairEngine` assumes `WF(InStep)`: `generate` calls `step` until
`is_finished()`, and a step is a straight run of single-threaded code, so some
enabled step action is taken. Nothing is assumed of `AddRequest`, and nothing of
which token is sampled: a request ends by `max_tokens` at the latest.

### Proofs

`SchedulerProofs` proves, for every number of requests, blocks, prompt lengths,
block sizes and limits, and under `SizesAssumption` and `EngineAssumption`
alone (sizes are positive, prompts non-empty, requests numbered), that

- `SchedSpec => []TypeOK` (`TypeCorrectness`),
- `SchedSpec => []RefCounted` (`ReferencesCounted`),
- `SchedSpec => []Partitioned` (`PoolPartitioned`),
- `SchedSpec => []Funded` (`AllocationFunded`),
- `SchedSpec => []ArrivalOrder` (`FirstComeFirstServed`).

None of these is inductive alone. The invariant `Inv` has the parts

- `TypeOK`, and `RefCounted` stated with finiteness of the sets of holders
  (`Counted`), without which adding or removing one holder says nothing of the
  cardinality;
- `Partitioned`, which needs `RefCounted`: a block is released exactly when its
  only holder drops it (`TakeAccounted`, `ShareAccounted`, `DropAccounted` are
  the three ways in which a table changes);
- `Funded`, which needs both: a hit on a free block takes one from the middle
  of the deque, a miss one from its head, a hit on a block in use none;
- `Nonempty` and `Rooted`: at each `pc` the queue whose head or last element is
  used is not empty, and a sequence that is decoded has a block;
- `Numbered` and `ArrivalOrder`: requests get their numbers in the order of
  arrival, so a new one is larger than all in the queues.

`InvStep` has one case per action.

`EngineProofs` adds to `Inv` what is needed to say how long a block table is:

- `NoLeak`, inductive together with `Inv`, for any two block sizes
  (`BlocksReturned`);
- `Served`: a sequence in `running` or in the batch has status `RUNNING` unless it
  is being deallocated, one in `waiting` does not, and no batch has one twice;
- `Keyed` and `Alone`: a block without a hash has no tokens, so no lookup can hit
  it, so it is in one table at one place. `may_append` decides by the hash of the
  last block, and this is why no other sequence can change that hash meanwhile;
- `Fitting`: a running sequence has `BlocksFor(n)` blocks, with n its tokens once
  the batch has made room for the last of them and one less before, and its last
  block has a hash exactly if these n tokens fill it. `Filling` says the latter
  of the table that `allocate` is building.

`Fitting` needs the manager's block size to be `Sequence.block_size` and above 1
(`SameSizes`), and with it gives `AppendAsserted` and `BatchCovered`. The hypothesis
is not for convenience: without the equality `SlotMappingComplete` fails, and with
size 1 `len(seq) % block_size == 1` is never true. The arithmetic of it
(`BlocksForNext`: when a token more needs a block more) is proved from the bounds
n <= k * B < n + B, which determine k.

`EngineProofs` shows that `EngineSpec` implements `SchedSpec` (the KV cache only
observes, and `Run`'s assertion only removes steps) and that `RunnerSpec`
implements `EngineSpec` for any number of workers (`RunnerImplementsEngine`: the
channel only delays the pass), so all this safety holds on several ranks too.
`CommandsCarried` proves `CommandsOnce` under `WorldAssumption` (two ranks or more).
Its invariant `ChannelInv` says of each worker that it is `AtRest`, or `Reached` by
the command: event set and not yet read through, or in the middle of it, or joined.
While rank 0 signals, exactly the workers below `next` are reached; when it
executes, all are; since it returns only when all have joined, all are at rest
again at the next command.

Two more theorems of `EngineProofs` are about what is computed, not only when.
`SlotsComplete` (`SlotMappingComplete` for equal block sizes) rests on `Reuse`: what
was found in the cache is a whole number of blocks, within the tokens of the
sequence, within the blocks of its table while `allocate` builds it, and nothing
for a sequence that holds no blocks. `WorkersAgree` (`RanksAgree`) rests on `Carried`,
that the command in flight is what rank 0 would send now, and on `Grown`, that a
request which runs and is not in the batch has a token more than its prompt, as has
all of a decode batch: so a decode never needs what `__getstate__` leaves out.

`StuckOnlyWhenOversized` (`StuckOnlyOversized` under `SameSizes`) counts blocks. When
`schedule` finds nothing, `running` is empty, so by `NoLeak` nobody holds a block, so
by `RefCounted` all are free, and the head of `waiting` is refused although the pool
is whole: it is too long for a prefill or for the cache. That `running` is empty
because its last sequence preempted itself is the case that needs `Fitting`: it held
every block, and needed one more.

`WritesDisjoint` (`SoleWriter`) and `CacheComplete` (`CacheHoldsTokens`), again under
`SameSizes`, are about the cache itself.

- `Matching`: a published block has, for each sequence with it in its table, the
  tokens of that sequence at that place. So an input that meets another sequence's
  entry stores the token that is there.
- `OneOwner`: what a sequence computes itself, beyond what it found in the cache, is in
  blocks that no other sequence computes. `Contiguous` (until it misses, `allocate` has
  found what it put into the table) and `Ahead` (the last token of a sequence is not
  cached when a decode computes it) place the inputs of a pass in such blocks.
- `PublishedComputed`, `OpenComputed` and `Awaited`: an entry of a block in use is
  stored, or an input of the pass to come stores it. `allocate` publishes a block
  before any pass has computed it; that this does no harm is because whoever hits it
  comes into the same batch or a later one.

`PrefixReuse`, which differs from `CacheHoldsTokens` in the context and not only the
token, is what this argument cannot give, since `Matching` knows the tokens of one
block and not of those before it; the run refutes it.

Only model-checked: `RequestsFinish`, since liveness is outside the prover.

## 3. The autograd engine

`Autograd` models `src/mindtorch_v2/_autograd/engine.py` and the release of saved
tensors in `node.py`; `MCAutograd` gives it graphs; `AutogradProofs` proves its
order. A run has a fixed graph, as the forward pass left it, and makes calls of
`backward` and `autograd.grad` one after the other over it.

| model | code |
|---|---|
| `graph.inputs`, `graph.saves`, `graph.silent` | `Node.inputs`, nodes with saved tensors, edges for which `backward` answers `None` |
| `deps`, `received`, `nodeGrad`, `ready`, `gradsMap` | the fields of `_GraphTask` |
| `released`, `grad` | `SavedTensor._released`, `Tensor.grad` |
| `Call`, `Visit`, `CountUsers` | `backward`/`grad`, `_build_dependencies` |
| `Root`, `RootsDone` | the loop over outputs in `_run_backward` |
| `Skip`, `RunNode`, `Raise`, `SilentEdge`, `Edge`, `NodeDone` | `_GraphTask.run`, an action per iteration of its inner loop |
| `NodeArrival`, `TensorArrival` | `_accumulate_node_grad`, `_accumulate_tensor_grad` |

Every local derivative is 1, so a gradient is the number of paths it came along
and `None` is 0: a lost, doubled or early contribution shows in the number. The
stack of the traversal is a set, since only what was visited counts later.

Left out: hooks that change a gradient or call `backward` again, `create_graph`
(it only sets `retain_graph`, and records the additions), version counters, and
several tensors with one node (a custom `Function` with several outputs).

*The condition `Countable`.* The engine counts arrivals per edge but users per
node, and does not count the outputs. So its order is right only for graphs in
which a node that is used twice by one node (`y * y`) is used by no other, and no
output is used by another node of the graph. `RunsOnce`, `AfterUsers` and
`RaisesAfterRelease` say what holds there; `autograd_once` shows what happens
elsewhere; `GradientsComplete` holds for all graphs without a silent edge into a
node and without a cycle.

*Cycles.* An in-place operation makes a node whose input is the tensor that the node
is then put into (`_backends/autograd.py:225-229`), so the node is its own input.
`Paths` is not defined there, and `Call` leaves `target` at 0. The runs have no such
graph; what the engine does with one is proved (`CyclesStall`): where `Countable`
holds, no node of a cycle is ever run. After `y = f(x); y.add_(c); z = y.sum()`,
`z.backward()` returns and has run neither the node of `add_`, which counts itself as a
user (`engine.py:123-127`), nor that of `f`, and `x` gets no gradient. (When `y` is
itself the output, `Countable` fails: the node runs, sends itself a gradient and runs
again, until it finds its saved tensors released, or for ever if it saved none.)

| run | instance | shows |
|---|---|---|
| `autograd` | every graph of three nodes over a leaf with one or two inputs to a node (repeated ones too) and up to one silent edge, two stacked diamonds, a square beside a chain; outputs one, two, repeated, or leaves; two calls with or without `retain_graph` | all properties below |
| `autograd_once` (violation) | `y = f(x); (y * y) + h(h(y))` | the first `backward` raises the error of a second one |

Three nodes hold the smallest diamond, a node used twice, and a node used at two
depths; the graphs of five nodes add a node that waits for a longer path. Two
calls are enough for a release to meet a later call.

| property | what it says | catches |
|---|---|---|
| `RunsOnce` | no node runs twice in a call | a count that is reached early |
| `AfterUsers` | a node runs after its users passed their gradients on | wrong order |
| `GradientsComplete` | at the end every tensor has the gradient of every path, on top of what it had | lost or doubled contributions |
| `RaisesAfterRelease` | the error of `node.py:34` needs an earlier call without `retain_graph` | releasing too much |
| `CallsReturn` | every call returns (in a graph without a cycle) | a loop of `run` that does not advance |

*Fairness.* `FairAutograd` assumes `WF(Backward)`: a call is straight-line code on
one thread. Nothing is assumed of `Call`.

*Proofs*, for every graph (deep or cyclic ones too) and every number of calls, under
`AutogradAssumption` (finitely many nodes, distinct from leaves):
`AutogradTypeCorrect`, `NodesRunOnce`, `NodesAfterUsers`, `RaisesOnlyAfterRelease`,
`GradientsWhole`, `NodesRun` and `CyclesStall`. The invariant `AutogradInv` has the parts `Fresh`
(before the run nothing arrived), `Closed` (the traversal reached everything below the
outputs and `deps` counts its users), `Strict` (what is released was released by an
earlier call that did not retain, or was run by this one), and, where `Countable`
holds, `Ordered`. Its core is the account `received[n] <= Cardinality(Senders(n))` for
a node that no node uses twice: `Senders` are the users that came past the edge to it.
When `received` reaches `deps`, which is the number of users, the two sets are equal,
so all users ran; each of them sent once, so nothing arrives afterwards, `nodeGrad`
stays empty and a second entry in `ready` is skipped. A node used twice has that user
alone (`Countable`), and waits in `ready` while the user is in its loop.

`GradientsWhole` proves `GradientsComplete` for every acyclic graph, whatever it
counts: a node may run early, and run again, as in `autograd_once`. Its invariant
`Whole` speaks of sums instead of counts. `Account`: there is a `d`, where `d[n]` is
what `n` was run with in all its runs, such that `d[n]` and what `nodeGrad` still
holds is what came from `outputs` and along the edges to `n` (`Along`: `d[m]` for each
edge of `m`, without `g` on those the loop of `run` has still to pass), and the same
sum is in `grad` or `gradsMap`. `Queued`: what can be run is in `ready`. `Heard`:
`Cardinality(Senders(n)) <= received[n]`, the other half of the account of `Ordered`,
which holds where no silent edge leads into a node. `Reached`: only what is below the
outputs is visited. At the end `ready` is empty. So every visited node ran
(`NodesRun`): among those that
did not, one would be used only by nodes that did (`Acyclic`), hence hold a gradient,
be counted by all its users and be in `ready`. Then nothing is held, `d` solves the
equation of `Paths`, an acyclic graph has one solution (`PathsAre`), and what was
added up is what `Call` put into `target` (`Owes`). The sums are those of `Sums`.

Only model-checked: `CallsReturn` (liveness).

## 4. Data-parallel training

`Reducer` models `nn/parallel/distributed.py` over `Gloo`, the collectives of
`distributed/_gloo/` message by message; `Collective` is what a process group
promises; `MCReducer` gives programs for the ranks.

| model | code |
|---|---|
| `Begin`, `SendUp`, `Gather`, `Scatter`, `Receive` | `allreduce` and `broadcast` of `_gloo/_process_group_gloo.py` over one connection for each peer (`up`, `down`) |
| `BroadcastBuffers`, `Prepare`, `MarkUnused`, `UnusedMarked` | `DistributedDataParallel.forward`, `prepare_for_backward`, `_find_unused_params`; `zero_grad` where the program calls it |
| `Hook`, `Finish` | a gradient that arrives in backward: the hook, then the engine's accumulation |
| `Reduce`, `Average`, `Reduced`, `Raise` | the loop of `_run_default_allreduce` with what `allreduce` writes into the tensor it is given, the writes of `_reduce_bucket`, its `KeyError` |
| `ReceiveFails` | a peer that ended, or a socket timeout of two ranks that wait for each other |
| `pending`, `bgrads`, `cache` | `_bucket_pending`, `_bucket_grads`, `_cached_unused_param_indices` |
| `summed`, `Rewritten`, `Value` | the tensor objects that `allreduce` has written, and who sees it: other buckets, `param.grad`, gradients computed from them later |

A gradient is a value, a divisor and the tensor object that holds them. A value is
one term *(rank, tensor, iteration)*, or after an all-reduce the set of what each
rank gave, so that a sum of sums differs from a sum. `param.grad` is the sequence of
gradients added to it: a gradient of another parameter, of an older iteration, added
twice or missing a rank is visible. A message has no tag, as in the code, so ranks
that disagree do read each other's messages as something else.

*Tensors are shared.* `dist.all_reduce` (`distributed.py:216`) writes the sum into the
tensor that the hook received (`_process_group_gloo.py:71,77`), and only the quotient
is a new one. Autograd may have handed the same tensor to two parameters: the formula
of `a + b` returns `reduce_grad` of one gradient for each
(`_backends/autograd.py:242-245`), which is the gradient itself where the shapes agree
(`_autograd/utils.py:8-9`). It may also go on to compute other gradients from it.
A program therefore names, for each arrival, its tensor and the one it is computed
from; `Average` writes to every place that holds the tensor, and `summed` keeps its
value for arrivals still to come. `MCShared` has two parameters of one bucket that share a
tensor, and two of different buckets that do, with a third computed from it.

*What the user must see to.* DDP relies on its user: ranks make the same number of
iterations, agree on `no_sync`, account for every parameter once and fill the
buckets in the same order. `Orderly` says that of one iteration; `inStep` holds
the iterations up to which all ranks keep it. Unused parameters fill their buckets
first, in ascending order; once a static graph has cached their indices, in a *set*,
in the order in which Python iterates over that set. The constant `SetOrder` is that
order, any for each set but the same on all ranks, as it is for small integers in
CPython. So ranks with different unused sets may agree in the first iteration
and not in the second (`MCFewer`). The programs include ones that break
it (another order on rank 0, a parameter used twice or missing), so the
properties, which speak of `inStep`, are checked in their presence; the code must
still get right everything else: which parameters count as unused, what is left in
a bucket by `no_sync`, and the static graph's cache.

| run | shows |
|---|---|
| `reducer` | three ranks, four parameters in three buckets, two iterations; every order of two or three arrivals on ranks 1 and 2 against the default on rank 0; unused parameters with and without `find_unused_parameters` and `static_graph`, the cached set in two orders; buffers or none; `no_sync` before and after, with `zero_grad` or without; tensors that parameters share |
| `reducer_average` (violation) | two ranks with the same programs, where nothing is shared or accumulated: the parameter that fills a bucket gets twice the average |

Three ranks are the fewest at which rank 0 can take messages of two peers in an
order; of three buckets two can be filled by unused parameters, in two orders, while
the third waits for a gradient.

| property | what it says | catches |
|---|---|---|
| `CollectivesMatch` | ranks in step make the same n-th collective on the same tensor | hooks that reduce in another order |
| `GradientsAveraged` | after a synchronised iteration that began without gradients `param.grad` holds, once or twice, the average of this iteration's gradients of all ranks | stale buckets, missing ranks, wrong parameter |
| `UnsyncedStaysLocal` | `no_sync` adds the rank's own gradients in the order of arrival and nothing else | buckets that survive `no_sync` |
| `GroupPromise` | `Gloo` implements `Collective` (refinement) | a reduction that leaves a rank out |
| `TrainingEnds` | ranks in step all finish | a bucket that never fills, a rank that waits for ever |

*What `GradientsAveraged` does not say.* Two things one may expect of DDP do not hold in
this code, and the property leaves them out by its conditions.

- *A shared tensor is summed again.* With `y = a + b` and both parameters in one
  bucket, the second all-reduce sums what the first has written: every rank then holds
  the sum already, so `b` gets N times the average, and another parameter that shares or
  is computed from the tensor gets a wrong value as well. The condition `Alone` restricts
  the property to parameters whose tensor no other has, on any rank; that these
  keep their average next to ones that share is checked.
- *Gradients accumulated under `no_sync` are lost.* `_reduce_bucket` assigns
  `param.grad` (`distributed.py:210`) and reduces this iteration's gradients only.
  `tests/mindtorch_v2/test_hccl_ddp_advanced_multicard.py:6` announces "`no_sync()`
  accumulation followed by synchronized backward", but its assertion only compares
  the ranks with each other, and these agree. The condition `Starts` (first iteration or
  `zero_grad`) leaves it out; the theorem `AccumulatedLost` states it: without that
  condition, what is left is still the average of the last iteration and nothing else.

*Fairness.* `FairReducer` assumes `WF(RankStep(r))` of each rank: a process that can
go on does. A rank that waits for a message is not enabled, so nothing is assumed
about others. `ReceiveFails` is a step of the rank, since the receive does raise.

*Proofs* (`ReducerProofs`), under `GlooAssumption` and `ReducerAssumption`, for any number
of ranks, parameters, buckets and programs.

`CollectivesPromised` is the refinement: `ReducerSpec => GroupPromise`, so what the
messages of `Gloo` amount to is one collective. `Begin` is the abstract `Give`, the step
that ends a call is its `Take`, all else stutters. `Calls` says that a rank is in at
most one call (`Counts`: as many results as calls, but for the one under way, and a
result is on its way from the moment rank 0 has sent it) and needs nothing of the
ranks. `Exchanged(h)` holds as long as the ranks make the same calls up to the h-th
(`Group!Agreed(h)`): what rank 0 took was sent for that call (`TakenSent`), what is on
its way up was not taken (`GoingUp`), what is on its way down is the outcome of the call
it answers (`GoingDown`), rank 0's sum is of exactly those it has heard
(`GatheredSoFar`), and results are outcomes (`Result`, `Returned`). Since `Agreed` is
about the past, it is true at every earlier step too; ranks that break it in a later
call lose nothing that was promised of the earlier ones. A receive may fail as
`ReceiveFails` says, when the peer has ended or waits too; a connection that breaks while
both processes go on, or in the middle of a message, is not modelled.

`ReducerTypes` (`ReducerTypeOK`) adds the buckets: positions of `red` are positions of
a bucket, and a gradient is only ever put into the bucket of its parameter
(`BucketTypes`), whatever the user does.

`ObjectsInv` is about tensors: a bucket holds those that this backward handed to its
parameters, or new ones (`Objects`), and only such tensors of synchronised iterations
were summed (`Summing`), so no all-reduce writes to a gradient of an unsynchronised one.

`UnsyncedLocal` (`UnsyncedStaysLocal`) follows one rank: in an unsynchronised iteration
its hooks leave the buckets alone (`Stepping`), so each parameter's gradients are
those of the iteration before, then one of its own for each arrival handled
(`Unsynced`), each at its place (`Placing`, `Placements`), and `Finish` records them (`Journal`).

`CollectivesInOrder` (`CollectivesMatch`) says that ranks in step make their n-th
collective on the same tensor. The calls of a rank are a function of its program
(`IsCall`: in each iteration the broadcast of the buffers, if any, and if it is
synchronised the gradients of its buckets), and their order is one of times: iteration,
the arrival that fills the bucket (or, for buckets of unused parameters alone, the place the set gives them in the loop of
`prepare_for_backward`), position. The n-th call made is the one that has n calls up to
itself, which is how the induction knows it (`Labelled`, `Counted`). That a bucket is
reduced at its time and not before or after is `Clocked`: until time t its `pending` holds
the parameters whose last gradient is still to come, those unused having left it before
the first arrival. With a static graph this rests on the cached set being the one of
a synchronised iteration of this program (`Cached`), scanned from its own outputs
(`Scanned`). Ranks that have only begun iterations in step have the same calls so far, in
the same order (`SameCalls`), so the same number means the same call.

`AveragesCorrect` (`GradientsAveraged`) and `AccumulatedLost` join them: what the calls of iterations in
step carry. Two ranks need not be in step for ever: one may have gone on to an iteration
the other never reaches, so `Numbering` is about calls and not about ranks: the n-th call
of a rank, if its program numbers a call of an iteration in step so, is that call, with
the rank's own term of that parameter; a rank that has left the iterations in step has
made all of those (`Left`), and what it calls later has a higher number. Hence the calls up
to one that a rank in step waits for are the same on all ranks (`LabelsAgree`), the promise
`Exchanged` holds for it, and it returns the sum of all ranks' terms (`ReturnedSum`).
The rest follows one rank, and parameters whose tensor no rank shares (`Lone`): a bucket
holds its own terms until its reduction gets to them and averages from there on (`Held`),
since other calls write to other tensors (`NotRewritten`); once it is reduced, `param.grad` holds its
averages, and one of them twice if a hook filled the bucket (`Grads`); when backward
is over, every bucket was filled (`FinishFilled`).

Only model-checked, being liveness: `TrainingEnds`.

## 5. The TCP store

`TCPStore` models `distributed/_store.py`: a server with a handler thread for each
connection, `TCPStore` objects that threads share, and the lock that makes them
take turns. `Store` is what the users of a store rely on: a map whose calls take
effect at one moment between call and return, a `get` and a `wait` that block.
`MCStore` has two threads on one connection and a third on its own, over two keys.

`Send` is the call with its request, when the lock is free (a thread that waits for
the lock has not called yet); `Serve` the handler with the answer; `Receive` the
answer's return. `GivesUp` is the socket's timeout: the request stays under way and
its answer comes later, to the next caller on that connection. When a value is read
for the answer of one byte, its `Rest` stays in the channel and what is read next
means anything (`ReceiveRest`). `HandlerEnds` is the server's deadline or its
`close`. So `sound`, the connections no call gave up on, is part of the promise:
on the others an answer means nothing and a write may come late; a program that
goes on after a timeout may get the previous call's answer.

| property (run `store`) | what it says | catches |
|---|---|---|
| `KeepsPromise` | `TCPSpec` implements `Store`, with `op <- Op` (the call under way) and `effect <- Effect` (the answer in the channel) | interleaved requests on a connection, answers to the wrong thread, reads before the key is there |
| `StoreCallsEnd` | every call returns or raises | a lock held for ever, a `get` that blocks the `set` it waits for |

Three calls are enough for a call that gives up, its late answer and a third that
reads it; the map starts with any content, as calls before may have left it.

*Fairness.* `WF` of each client's receive and each handler: threads of the process
and of the server that can go on do. None of `Send`, `GivesUp` and `Close`, so that
calls end by the handlers' deadline alone, which the server does keep.

*Proof* (`StoreProofs`): `TCPSpec => KeepsPromise`, for all keys, values, threads and
connections. The refinement needs of `StoreInv`: `OneSent` (one call at a time on a
connection: the lock), `InCall`, and `Channels`: on a sound connection there is
at most one message under way, and it is the request of the call (`Requested`) or
an answer of the kind it expects (`Answered`), which makes `Effect` the answer the
call will return; `Cleared` and `AllKnown` (what is asked on an unsound
connection) allow the late writes. Its steps: `Serve` on a sound connection is
`TakeEffect`, on an unsound one `LateWrite` or nothing; the receives are
`Return` or `Fail`; `GivesUp` is `Fail` and makes the connection unsound.
`StoreTypes` is the type invariant, from the same `StoreInv`. `StoreCallsEnd` is
model-checked only.

## 6. The NPU allocator

`NpuAllocator` models `_backends/npu/allocator.py` and the `defer_free` and
`synchronize` of the runtime that drive it. Sizes and addresses are in units of
`ROUNDING_BYTES`; streams run kernels in the order they were launched.

| model | code |
|---|---|
| `Malloc`, `Collect`, `Reuse`, `Fresh`, `OutOfMemory`, `Retry` | `malloc`: `_drain_pending`, `_maybe_collect_garbage`, `_find_cached` with `_split_block`, `_raw_malloc`, `_oom_retry` |
| `Free`, `DeferFree`, `Synchronize`, `RecordStream`, `EmptyCache` | `free`, `Runtime.defer_free`, `synchronize`, `record_stream`, `empty_cache` |
| `Launch`, `Finish` | kernels of the device |
| `Tear` | `empty_cache` gives the device a piece of a split segment |

`Free` may run while a `malloc` is between its parts, since finalizers of storages
do. First fit is modelled as any fit. A failed `_record_event` synchronises the
device, which always succeeds. `MAX_SPLIT_SIZE` equals `SMALL_POOL_THRESHOLD` and no
block of the small pool is that large, so the two are one constant and the
`max_split_size_mb` of the configuration has no effect on which blocks are split.

*Streams.* A kernel may use any active block on any stream, and `RecordStream` replaces
the stream of a block whatever still runs. `Free(b, s)` records its event on the block's
stream when a storage dies, and on any stream `s` when the call is that of `resize_`
(`_storage.py:371`), which passes the stream that is current. One event covers one
stream: a kernel of another stream that still uses the block at its `free` is put in the
history variable `exposed`. For those kernels early reuse does happen, and the allocator
has no means to prevent it; `NoEarlyReuse` says that it happens to no other.

*Where the model stops.* A cached remainder of a split segment is freed by its own
address, which no `acl.rt.malloc` returned, or with the segment's first address
while another part is in use. What the device then does is undefined, so `Tear`
sets `torn` and ends the behaviour. The design document says that garbage
collection "does not touch active blocks" (`docs/plans/2026-02-13-npu-allocator-oom-design.md`).

| property (run `allocator`) | what it says | catches |
|---|---|---|
| `Disjoint` | blocks in use, freed or cached share no memory and lie in memory of the device | off-by-one in a split, a block in two places |
| `NoEarlyReuse` | while a kernel that is not exposed is in flight, `malloc` hands out none of its memory and the device gets none of it back | reuse before the event, an event recorded too early, a segment given back under a kernel |
| `StatsExact` | the statistics are the sums over the blocks, and the blocks are all of the reserved memory | a remainder lost or counted twice |
| `OomOnlyWhenExhausted` | `malloc` fails only when nothing cached or pending is left and the request fits nowhere | a retry that gives up early |

The instance: two streams with one kernel each, a device of three units, every
request size, both pools (small below three), a garbage threshold of two. It reaches splits, reuse of a
remainder, a block used on one stream and freed with the event of the other, events of
two streams in any order, collection with and without garbage, and retries that fail and
succeed.

*Proofs* (`AllocatorProofs`), for any device, pool threshold, streams and number of
kernels: `BlocksDisjoint`, `KernelsKeepMemory`, `OomIsExhaustion`. `AllocInv` has
`BlockTypes`; `Laid`: the layout of `Disjoint` and, for the last theorem, that
every segment of the device is used by some block (`Used`), so that one that
survives `_oom_retry` holds an active block; `KernelsHeld`: the memory of a kernel that is
not exposed belongs to an active block or to a freed one whose event was recorded later
on the kernel's stream (`Held`), and a kernel's number lies between what its stream
finished and launched, so that an event recorded at `free` covers it; `Counts`;
`OneCall`. `NoEarlyReuse` follows from `Held` and `Laid` before and after a step. `AllocTypeCorrect` is the type invariant.

`StatisticsExact` (`StatsExact`): every field of the statistics is a sum of sizes over
a finite set of blocks, and every action adds, removes or splits blocks of that set.
What such a sum does then is in `Sums`: `Total` of a set with one more element, with one
less, of a disjoint union. The prover has no induction over sets; these are proved by
descent instead, from a counterexample that has the fewest elements, which the
well-foundedness of the natural numbers supplies.

## 7. The OCR service

`DynamicBatcher` models `ocr/core/batch/dynamic_batcher.py`; `OcrService` puts
the circuit breaker of `core/limiter/rate_limiter.py` and `process_request` of
`core/concurrency/manager.py` around it. All run in one event loop, so what lies
between two awaits is one action. The processor is external to the batcher: it answers
a batch in order, with the wrong number of results, or with an error. The one that
`ConcurrencyManager` installs, `_batch_predict` (`manager.py:173-190`), has no await and
calls the engine inside the event loop, so nothing else runs while a batch is
processed; the model lets other steps come between and so covers processors that do
wait. No engine under `src/` has the `process_batch` that `_batch_predict` calls for two
requests or more: with those engines every such batch takes the branch `Fail`, and
`Succeed` of a larger batch stands for an engine that has the method.

| model | code |
|---|---|
| `Start`, `Stop`, `Enqueue`, `Abandon` | `start`, `stop`, `submit` and the ways its `wait_for` ends |
| `Collect`, `WaitTimeout`, `Succeed`, `Fail` | `_collect_batch`, `_process_batch` |
| `Rejects`, `Admitted`, `Succeeded`, `Failed`, `TimePasses` | `CircuitBreaker.call`, `_on_success`, `_on_failure` |
| `Limited`, `Rejected`, `Submit`, `SubmitFails`, `Return`, `Raise`, `Timeout`, `Cancelled` | `process_request`, by how it ends |

A future that was resolved may still lose against `Timeout`, since the caller runs
later. The limiter may refuse any request: its arithmetic on a clock is left out.
In this commit `ConcurrencyManager` cannot be constructed, because `Settings` lacks
fields it reads; the model is of what it does with settings that have them.

A request's priority is stored and never read. The threshold of the breaker is
documented as a number of consecutive failures; a success in the closed state does not
reset the count, and the run `breaker_consecutive` shows what follows: with threshold
two, a failure, a success and a failure open the breaker.

| property (run `ocr`) | what it says | catches |
|---|---|---|
| `AnswersFaithful` | a caller gets its own answer; of a failed batch every request that is still waited for fails, and no other | results shifted by a request that gave up, a failure that reaches only some |
| `Accounted` | a waiting caller is resolved or held once by queue or batch, unless `stop` threw its batch away | a batch dropped on a timeout or a cancelled future |
| `Served` | a waiting caller is served, unless the batcher stops | a worker that dies or forgets |
| `OpensConsecutive` (run `breaker_consecutive`, violated) | the breaker opens after as many failures in a row as its threshold | |

Three callers with batches and a queue of two make full and partial batches, a
full queue, and two ends after the breaker opened (threshold two); two stops let a
batch be lost, and requests that stayed in the queue meet the next worker. The run
does not check deadlock: a service whose callers all ended may stop.

*Fairness.* `WF(Batching)`: the worker task is scheduled and the processor ends;
`WF(Resume(r))`: a task whose future is resolved is scheduled. None of `Timeout`,
`Cancelled`, `Start` and `Stop`, so `Served` does not lean on timeouts.

*Proofs* (`OcrProofs`), for any callers, sizes and threshold: `ServiceTypes`,
`ServiceFaithful`, `ServiceBreaker`, `ServiceAccounts`. In `ServiceInv`, `Once`
says that queue and batch together hold no request twice; `Requested` that what
they hold has no answer yet and is in no failed batch, and that a pending request
is held; `Resolved` that a result is the request's own; `Filled` ties the batch to
the worker's place. `ServiceBreaker` says what the breaker does count: it is closed
exactly while the failures noted since it last closed are fewer than its threshold,
also when calls end late that were admitted in another state. `Served` is
model-checked only.

## 8. Findings

See `PROJECT.json`. In short: prefix hits compare a block's tokens and not its prefix; a
long request can lock the scheduler after a preemption; a first `backward` can fail with
the error of a second one; the parameter that fills a DDP bucket gets twice the average;
the circuit breaker counts failures that are not consecutive. No run but a theorem
(`CyclesStall`, section 3) shows that `backward` through an in-place operation can
return without a gradient for what is below it, and another (`AccumulatedLost`,
section 4) that a synchronised iteration drops what `no_sync` accumulated. Two
parameters that share a gradient tensor get a multiple of the average (section 4). The
attention kernels that read the cache are commented out in this commit
(`layers/attention.py:40-54`), so the first concerns the block tables and slots that
are computed for them.

## 9. Plan

Done: the inference engine with its worker channel, the autograd engine, the reducer
with its collectives, the TCP store, the NPU allocator, the OCR service.

Open, in this order:

1. *Autograd*: calls of `backward` from a hook, and a run for the gradient that a
   silent edge loses.
2. *Second batching stack* of the OCR service (`queue_limiter.py`), which the API
   does not reach; the limiter's bucket over a clock.
3. *Data loader* and *dispatch pipeline* of `mindtorch_v2`: worker processes with
   their queues, and the order in which functionalised writes are applied.

What stays out: numeric kernels, operator libraries, file formats, training
scripts, and the statistics kept for monitoring: no interaction that TLC could
explore, or no property beyond arithmetic on floats. They are most of the
repository's lines.
