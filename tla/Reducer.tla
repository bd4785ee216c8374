------------------------------ MODULE Reducer -------------------------------
(***************************************************************************)
(* DistributedDataParallel, nn/parallel/distributed.py: each rank trains a *)
(* replica.  A hook on each parameter collects the gradients of backward   *)
(* in buckets, and the hook that fills a bucket averages it over the ranks *)
(* with one all-reduce (of Gloo) for each parameter, before backward goes  *)
(* on.                                                                     *)
(*                                                                         *)
(* A gradient has a value and is a tensor object: all-reduce writes the    *)
(* sum into the object it is given, which autograd may have handed to      *)
(* several parameters, or may go on to compute gradients from.             *)
(* Parameter.grad is the sequence of gradients added to it, << >> for      *)
(* None; zero_grad, where a program calls it, comes before the forward     *)
(* pass.                                                                   *)
(***************************************************************************)
EXTENDS Gloo, FiniteSets, FiniteSetsExt, SequencesExt

CONSTANTS Params,    \* indices of the parameters that require a gradient
          Buckets,   \* _Reducer.buckets: parameter indices by bucket
          SetOrder,  \* by set of indices: the rank of each index when Python iterates
          Programs,  \* what the ranks may do, see ProgramType
          Configs    \* settings of DistributedDataParallel, see ConfigType

\* an object that backward hands to a parameter, and the one handed to a parameter before
\* that backward computes it from, 0 for none
Tensors == [name : Nat \ {0}, from : Nat]

\* by rank and iteration: the parameters in the order in which their gradients
\* arrive, each with its tensor, whether it is outside of no_sync, and zero_grad
ProgramType == [Ranks -> Seq([uses : Seq(Params), tensors : Seq(Tensors),
                              sync : BOOLEAN, zero : BOOLEAN])]
ConfigType == [find_unused : BOOLEAN, static : BOOLEAN, buffers : BOOLEAN]

ASSUME ReducerAssumption ==
  /\ Params \subseteq Nat /\ IsFiniteSet(Params)
  /\ Buckets \in Seq(Seq(Params) \ {<< >>})
  /\ \A p \in Params : \E b \in DOMAIN Buckets : \E k \in DOMAIN Buckets[b] :
       /\ Buckets[b][k] = p
       /\ \A c \in DOMAIN Buckets : \A l \in DOMAIN Buckets[c] :
            Buckets[c][l] = p => c = b /\ l = k
  /\ SetOrder \in [SUBSET Params -> [Params -> Params]]
  /\ \A S \in SUBSET Params : \A p, q \in Params : SetOrder[S][p] = SetOrder[S][q] => p = q
  /\ Programs \subseteq ProgramType /\ Configs \subseteq ConfigType
  /\ \A g \in Programs : \A r \in Ranks : \A i \in DOMAIN g[r] :
       Len(g[r][i].tensors) = Len(g[r][i].uses)

VARIABLES program, config,
          inStep,    \* history: the iterations through which the ranks are in step
          iter,      \* iteration of each rank
          pc,        \* place in forward or backward
          at,        \* arrivals handled by backward
          todo,      \* unused parameters still to mark
          cache,     \* _cached_unused_param_indices, << >> for None, else <<set>>
          pending,   \* _bucket_pending
          bgrads,    \* _bucket_grads: functions on the parameters that arrived
          red,       \* _reduce_bucket: <<bucket, position>>, or << >>
          grad,      \* Parameter.grad
          summed,    \* by object that all-reduce has written: its value
          after      \* history: grad of each rank after each iteration

setup == <<program, config, inStep>>
localVars == <<iter, pc, at, todo, cache, pending, bgrads, red, grad, summed,
               after>>
reducerVars == <<glooVars, setup, localVars>>

None == << >>
Buffers == -1   \* stands for the tensors of module.buffers()
Zero == [val |-> {}, over |-> 1, object |-> None]   \* a new tensor
FirstBucket(p) == 1   \* mutant
BucketOf(p) == CHOOSE b \in DOMAIN Buckets : p \in Range(Buckets[b])
Plan(r, i) == program[r][i]
Now(r) == Plan(r, iter[r])
SyncAlways(r) == TRUE   \* mutant: the flag is not read
Syncs(r) == Now(r).sync
Idle(r, i) == Params \ Range(Plan(r, i).uses)
Scans == config.static \/ config.find_unused

\* A gradient is val / over.  val is the term of the object, or the sum of an all-reduce:
\* the set of what each rank gave, which keeps apart sums of sums.
Object(x, i) == <<x, i>>
Summed(r, x) == Object(x, iter[r]) \in DOMAIN summed[r]
SumIn(r, x) == summed[r][Object(x, iter[r])]
Value(r, t) ==
  IF Summed(r, t.name) THEN SumIn(r, t.name)
  ELSE IF Summed(r, t.from) THEN {<<r, t.name, iter[r], SumIn(r, t.from)>>}
  ELSE {<<r, t.name, iter[r]>>}
\* the gradient that arrives k-th
Local(r, k) ==
  LET t == Now(r).tensors[k]
  IN  [val |-> Value(r, t), over |-> 1, object |-> Object(t.name, iter[r])]

\* What the user of DDP must see to, all ranks in step:

\* the position at which bucket b is filled: unused parameters come first, in the
\* order of a set once they are cached
FilledAt(r, i, b) ==
  LET u == Plan(r, i).uses
      used == {k \in DOMAIN u : u[k] \in Range(Buckets[b])}
      idle == Range(Buckets[b]) \ Range(u)
      again == config.static /\ \E j \in 1 .. i - 1 : Plan(r, j).sync
      turns == {IF again THEN SetOrder[Idle(r, i)][p] ELSE p : p \in idle}
  IN  IF used = {} THEN Max(turns) - Max(Params) - 1 ELSE Max(used)

\* every rank accounts for every parameter once, and fills the buckets in the same
\* order; with a static graph it uses the parameters of the iterations before
Orderly(i) ==
  /\ \A r \in Ranks :
       LET u == Plan(r, i).uses
       IN  /\ Plan(r, i).sync
           /\ \A k, l \in DOMAIN u : u[k] = u[l] => k = l
           /\ Scans \/ Range(u) = Params
           /\ config.static => \A j \in 1 .. i : Plan(r, j).sync =>
                                 Range(Plan(r, j).uses) = Range(u)
  /\ \A q, r \in Ranks : \A b, c \in DOMAIN Buckets :
       FilledAt(q, i, b) < FilledAt(q, i, c) => FilledAt(r, i, b) < FilledAt(r, i, c)

StaysInStep(i) == \A j \in 1 .. i : \A r \in Ranks : j \in DOMAIN program[r] =>
               /\ \A q \in Ranks : j \in DOMAIN program[q]
               /\ Orderly(j) \/ \A q \in Ranks : ~Plan(q, j).sync

ReducerInit ==
  /\ GlooInit
  /\ program \in Programs /\ config \in Configs
  /\ inStep = {i \in 1 .. Max({Len(program[r]) : r \in Ranks}) : StaysInStep(i)}
  /\ iter = [r \in Ranks |-> 1] /\ pc = [r \in Ranks |-> "forward"]
  /\ at = [r \in Ranks |-> 0] /\ todo = [r \in Ranks |-> {}]
  /\ cache = [r \in Ranks |-> None] /\ red = [r \in Ranks |-> None]
  /\ pending = [r \in Ranks |-> [b \in DOMAIN Buckets |-> 0]]
  /\ bgrads = [r \in Ranks |-> [b \in DOMAIN Buckets |-> << >>]]
  /\ grad = [r \in Ranks |-> [p \in Params |-> None]]
  /\ summed = [r \in Ranks |-> << >>]
  /\ after = [r \in Ranks |-> << >>]

Set(f, r, v) == [f EXCEPT ![r] = v]

-----------------------------------------------------------------------------
(* DistributedDataParallel.forward                                         *)

\* the buffers come from rank 0
BroadcastBuffers(r) ==
  /\ pc[r] = "forward" /\ iter[r] <= Len(program[r])
  /\ config.buffers /\ N > 1
  /\ Begin(r, "broadcast", {<<r, Buffers, iter[r]>>}, Buffers)
  /\ pc' = Set(pc, r, "prepare")
  /\ UNCHANGED <<setup, iter, at, todo, cache, pending, bgrads, red, grad, summed, after>>

ResetPendingShort == [b \in DOMAIN Buckets |-> Len(Buckets[b]) - 1]   \* mutant
ResetPending == [b \in DOMAIN Buckets |-> Len(Buckets[b])]

\* zero_grad, the forward pass of the module and prepare_for_backward
Prepare(r) ==
  /\ \/ pc[r] = "prepare" /\ phase[r] = "idle"
     \/ pc[r] = "forward" /\ iter[r] <= Len(program[r]) /\ ~(config.buffers /\ N > 1)
  /\ pending' = Set(pending, r, ResetPending)
  /\ bgrads' = Set(bgrads, r, [b \in DOMAIN Buckets |-> << >>])
  /\ IF Syncs(r) /\ Scans
     THEN /\ pc' = Set(pc, r, "unused")
          /\ todo' = Set(todo, r, IF config.static /\ cache[r] # None
                                  THEN cache[r][1] ELSE Idle(r, iter[r]))
     ELSE pc' = Set(pc, r, "backward") /\ UNCHANGED todo
  /\ grad' = IF Now(r).zero THEN Set(grad, r, [p \in Params |-> None]) ELSE grad
  /\ UNCHANGED <<glooVars, setup, iter, at, cache, red, summed, after>>

\* a gradient of p joins its bucket
Put(f, p, v) == [q \in DOMAIN f \cup {p} |-> IF q = p THEN v ELSE f[q]]
Arrive(r, p, v) ==
  LET b == BucketOf(p)
  IN  /\ bgrads' = [bgrads EXCEPT ![r][b] = Put(@, p, v)]
      /\ pending' = [pending EXCEPT ![r][b] = @ - 1]
      /\ red' = IF pending[r][b] = 1 THEN Set(red, r, <<b, 1>>) ELSE red

\* the turn of p: among all parameters, or in the set that was cached
Turn(r, p) == IF cache[r] = None THEN p ELSE SetOrder[cache[r][1]][p]

\* _find_unused_params: the simulated hook of one parameter
MarkUnused(r) ==
  /\ pc[r] = "unused" /\ red[r] = None
  /\ \E p \in todo[r] :
       /\ \A q \in todo[r] : Turn(r, p) <= Turn(r, q)
       /\ Arrive(r, p, Zero)
       /\ todo' = Set(todo, r, todo[r] \ {p})
  /\ UNCHANGED <<glooVars, setup, iter, pc, at, cache, grad, summed, after>>

UnusedMarked(r) ==
  /\ pc[r] = "unused" /\ red[r] = None /\ todo[r] = {}
  /\ cache' = IF config.static /\ cache[r] = None THEN Set(cache, r, <<Idle(r, iter[r])>>)
                                                  ELSE cache
  /\ pc' = Set(pc, r, "backward")
  /\ UNCHANGED <<glooVars, setup, iter, at, todo, pending, bgrads, red, grad, summed, after>>

-----------------------------------------------------------------------------
(* backward                                                                *)

\* _accumulate_tensor_grad of the engine, with what the hook returned
Accumulate(g, p, v) == [g EXCEPT ![p] = Append(@, v)]

\* a gradient arrives at a parameter, whose hook runs first
Hook(r) ==
  /\ pc[r] = "backward" /\ red[r] = None /\ at[r] < Len(Now(r).uses)
  /\ LET p == Now(r).uses[at[r] + 1]
         g == Local(r, at[r] + 1)
     IN  /\ IF Syncs(r) THEN Arrive(r, p, g) ELSE UNCHANGED <<bgrads, pending, red>>
         \* the hook that reduces returns after that
         /\ grad' = IF red'[r] = None THEN Set(grad, r, Accumulate(grad[r], p, g)) ELSE grad
  /\ at' = Set(at, r, at[r] + 1)
  /\ UNCHANGED <<glooVars, setup, iter, pc, todo, cache, summed, after>>

Finish(r) ==
  /\ pc[r] = "backward" /\ red[r] = None /\ at[r] = Len(Now(r).uses)
  /\ after' = Set(after, r, Append(after[r], grad[r]))
  /\ iter' = Set(iter, r, iter[r] + 1) /\ at' = Set(at, r, 0)
  /\ pc' = Set(pc, r, "forward")
  /\ UNCHANGED <<glooVars, setup, todo, cache, pending, bgrads, red, grad, summed>>

-----------------------------------------------------------------------------
(* _reduce_bucket, called by MarkUnused or Hook                            *)

\* mutant: in the order of arrival
SlotArrived(r) ==
  LET u == Now(r).uses
      bucket == Range(Buckets[red[r][1]])
      Came(p) == IF p \in Range(u) THEN Min({k \in DOMAIN u : u[k] = p}) ELSE p - Max(Params) - 1
  IN  CHOOSE p \in bucket : Cardinality({q \in bucket : Came(q) <= Came(p)}) = red[r][2]
Slot(r) == Buckets[red[r][1]][red[r][2]]
InSlot(r) == bgrads[r][red[r][1]][Slot(r)]
Arrived(r, p) == p \in DOMAIN bgrads[r][BucketOf(p)]
Reducing(r) == red[r] # None /\ pc[r] \in {"unused", "backward"} /\ phase[r] = "idle"

\* _run_default_allreduce: the next parameter
Reduce(r) ==
  /\ Reducing(r) /\ red[r][2] \in DOMAIN Buckets[red[r][1]]
  /\ Arrived(r, Slot(r))
  /\ Begin(r, "allreduce", {<<r, InSlot(r).val>>}, Slot(r))
  /\ pc' = Set(pc, r, IF pc[r] = "unused" THEN "unused-reduce" ELSE "backward-reduce")
  /\ UNCHANGED <<setup, iter, at, todo, cache, pending, bgrads, red, grad, summed, after>>

\* grads[pi] raises KeyError
Raise(r) ==
  /\ Reducing(r) /\ red[r][2] \in DOMAIN Buckets[red[r][1]]
  /\ ~Arrived(r, Slot(r))
  /\ pc' = Set(pc, r, "raised")
  /\ UNCHANGED <<glooVars, setup, iter, at, todo, cache, pending, bgrads, red,
                 grad, summed, after>>

\* the sum v was written into the object of InSlot(r): a gradient that is this object too
\* has the value.  One that is the result of an addition is not
Rewritten(r, g, v) ==
  IF g.object # None /\ g.object = InSlot(r).object THEN [g EXCEPT !.val = v] ELSE g

\* all_reduce returns; the slot takes mul(g, 1.0 / world_size), a new tensor
Average(r) ==
  LET b == red[r][1]
      v == taken[r][Len(taken[r])]
      mean == [val |-> v, over |-> N, object |-> None]
  IN  /\ pc[r] \in {"unused-reduce", "backward-reduce"} /\ phase[r] = "idle"
      /\ bgrads' = Set(bgrads, r,
                       [c \in DOMAIN Buckets |-> [p \in DOMAIN bgrads[r][c] |->
                          IF c = b /\ p = Slot(r) THEN mean ELSE Rewritten(r, bgrads[r][c][p], v)]])
      /\ grad' = Set(grad, r, [p \in Params |->
                    IF Len(grad[r][p]) = 1 THEN <<Rewritten(r, grad[r][p][1], v)>>
                                           ELSE grad[r][p]])
      /\ summed' = IF InSlot(r).object = None THEN summed
                   ELSE Set(summed, r, Put(summed[r], InSlot(r).object, v))
      /\ red' = [red EXCEPT ![r][2] = @ + 1]
      /\ pc' = Set(pc, r, IF pc[r] = "unused-reduce" THEN "unused" ELSE "backward")
      /\ UNCHANGED <<glooVars, setup, iter, at, todo, cache, pending, after>>

OverwrittenLate(r) == grad[r]   \* mutant: only the engine writes param.grad
Overwritten(r) == [p \in Params |-> IF p \in Range(Buckets[red[r][1]])
                                    THEN <<bgrads[r][red[r][1]][p]>> ELSE grad[r][p]]

\* the averages overwrite param.grad; in backward the hook then returns its own,
\* which the engine accumulates
Reduced(r) ==
  /\ Reducing(r) /\ red[r][2] \notin DOMAIN Buckets[red[r][1]]
  /\ LET p == Now(r).uses[at[r]]
     IN  grad' = Set(grad, r, IF pc[r] = "unused" THEN Overwritten(r)
                              ELSE Accumulate(Overwritten(r), p, bgrads[r][red[r][1]][p]))
  /\ red' = Set(red, r, None)
  /\ UNCHANGED <<glooVars, setup, iter, pc, at, todo, cache, pending, bgrads, summed, after>>

-----------------------------------------------------------------------------

Ended(r) == pc[r] = "raised" \/ (pc[r] = "forward" /\ iter[r] > Len(program[r]))

\* "peer connection closed", when the process of q has ended, or the timeout of the
\* socket, when q waits for r
ReceiveFails(r) ==
  /\ \E q \in Ranks : Awaits(r, q) /\ (Ended(q) \/ Awaits(q, r))
  /\ pc' = Set(pc, r, "raised")
  /\ phase' = Set(phase, r, "broken")
  /\ UNCHANGED <<given, taken, up, down, acc, peer, setup, iter, at, todo, cache,
                 pending, bgrads, red, grad, summed, after>>

Communicate(r) == GlooStep(r) /\ UNCHANGED <<setup, localVars>>

RankStep(r) ==
  \/ BroadcastBuffers(r) \/ Prepare(r) \/ MarkUnused(r) \/ UnusedMarked(r)
  \/ Hook(r) \/ Finish(r)
  \/ Reduce(r) \/ Raise(r) \/ Average(r) \/ Reduced(r)
  \/ Communicate(r) \/ ReceiveFails(r)

Terminated == (\A r \in Ranks : Ended(r)) /\ UNCHANGED reducerVars

ReducerNext == (\E r \in Ranks : RankStep(r)) \/ Terminated
ReducerSpec == ReducerInit /\ [][ReducerNext]_reducerVars
FairReducer == ReducerSpec /\ \A r \in Ranks : WF_reducerVars(RankStep(r))

-----------------------------------------------------------------------------
(* Properties                                                              *)

Arrivals(r, i, p) == {k \in DOMAIN Plan(r, i).uses : Plan(r, i).uses[k] = p}
Name(r, i, k) == Plan(r, i).tensors[k].name

\* what backward of iteration i gives p on rank r, nothing where p is unused
Term(r, p, i) == {<<r, Name(r, i, k), i>> : k \in Arrivals(r, i, p)}
\* the average of iteration i's gradients of p over the ranks
Contributions(p, i) == [val |-> {<<q, Term(q, p, i)>> : q \in Ranks}, over |-> N,
                        object |-> None]

\* the tensor given to p is given to no parameter else nor computed from another's
Alone(r, p, i) == \A k \in Arrivals(r, i, p) :
                    /\ Plan(r, i).tensors[k].from = 0
                    /\ \A l \in DOMAIN Plan(r, i).uses : Name(r, i, l) = Name(r, i, k) => l = k

\* no gradient was accumulated before the iteration
Starts(r, i) == i = 1 \/ Plan(r, i).zero

\* Types.
ReducerTypeOK ==
  /\ program \in Programs /\ config \in Configs
  /\ \A r \in Ranks :
       /\ iter[r] \in 1 .. Len(program[r]) + 1 /\ at[r] \in Nat
       /\ pc[r] \in {"forward", "prepare", "unused", "unused-reduce", "backward",
                     "backward-reduce", "raised"}
       /\ phase[r] \in {"idle", "send", "gather", "scatter", "receive", "broken"}
       /\ todo[r] \subseteq Params
       /\ \A b \in DOMAIN Buckets : pending[r][b] \in Int
                                    /\ DOMAIN bgrads[r][b] \subseteq Range(Buckets[b])

\* the iterations that r has begun
Begun(r) == {i \in DOMAIN program[r] : i <= iter[r]}

\* While the ranks are in step, the n-th collective of every rank is the same
\* operation on the same tensor, so that no rank adds the gradient of one parameter
\* to that of another: the hooks of distributed.py:166 meet in one order.
CollectivesMatch ==
  \A q, r \in Ranks : Begun(q) \cup Begun(r) \subseteq inStep =>
    \A n \in DOMAIN given[q] \cap DOMAIN given[r] :
      given[q][n].op = given[r][n].op /\ given[q][n].tensor = given[r][n].tensor

\* After a synchronised iteration in step that began without gradients, param.grad of every
\* rank holds the average of this iteration's gradients of all ranks, of the right
\* parameter, and nothing else; it may hold it twice (see WritesAverage).  It is so of
\* parameters with a tensor of their own on every rank, whatever the others share: a
\* tensor that two parameters share is summed twice (distributed.py:216).
GradientsAveraged ==
  \A r \in Ranks : \A i \in DOMAIN after[r] : i \in inStep /\ Plan(r, i).sync /\ Starts(r, i) =>
    \A p \in Params : (\A q \in Ranks : Alone(q, p, i)) =>
      after[r][i][p] \in {<<Contributions(p, i)>>, <<Contributions(p, i), Contributions(p, i)>>}

\* param.grad as iteration i finds it
Before(r, i) == IF Starts(r, i) THEN [p \in Params |-> None] ELSE after[r][i - 1]
\* the gradient that arrives k-th, where no object was summed
Own(r, i, k) == [val |-> {<<r, Name(r, i, k), i>>}, over |-> 1,
                 object |-> Object(Name(r, i, k), i)]

\* A no_sync iteration adds to what a rank had its own gradients, each once and in the
\* order of their arrival, and nothing of another rank's, whatever the ranks did before.
UnsyncedStaysLocal ==
  \A r \in Ranks : \A i \in DOMAIN after[r] : ~Plan(r, i).sync =>
    LET uses == Plan(r, i).uses
        Upto(p, k) == Len(Before(r, i)[p]) + Cardinality({j \in 1 .. k : uses[j] = p})
    IN  /\ \A p \in Params : /\ Len(after[r][i][p]) = Upto(p, Len(uses))
                            /\ \A n \in DOMAIN Before(r, i)[p] :
                                 after[r][i][p][n] = Before(r, i)[p][n]
        /\ \A k \in DOMAIN uses : after[r][i][uses[k]][Upto(uses[k], k)] = Own(r, i, k)

\* The collectives under the reducer keep the promise of a process group.
GroupPromise == Group!CollSpec

\* Ranks that stay in step all finish: none waits for a collective another does not
\* make, and none raises.
TrainingEnds == []((\A r \in Ranks : Len(program[r]) \in inStep)
                    => <>(\A r \in Ranks : iter[r] > Len(program[r])))

\* The docstring of _Reducer: averaged grads are written to param.grad "for all
\* parameters in the bucket", here of parameters as in GradientsAveraged.
WritesAverage ==
  \A r \in Ranks : \A i \in DOMAIN after[r] : i \in inStep /\ Plan(r, i).sync /\ Starts(r, i) =>
    \A p \in Params : (\A q \in Ranks : Alone(q, p, i)) =>
      after[r][i][p] = <<Contributions(p, i)>>

=============================================================================
