------------------------------ MODULE Autograd ------------------------------
(***************************************************************************)
(* The backward engine of mindtorch_v2, _autograd/engine.py: one call of   *)
(* backward or autograd.grad is a _GraphTask that counts the users of each *)
(* node reachable from the outputs, then runs a node when as many          *)
(* gradients arrived at it.                                                *)
(*                                                                         *)
(* A tensor is named by its grad_fn, or is a leaf.  Every local derivative *)
(* is 1, so a gradient is a natural number: how many paths lead from the   *)
(* outputs to the tensor.  None is 0.  A node's backward may answer None   *)
(* for an input; that edge is silent.  Tensor hooks are the identity.      *)
(***************************************************************************)
EXTENDS Integers, Sequences, FiniteSets, FiniteSetsExt

CONSTANTS Nodes,     \* Node objects
          Leaves,    \* tensors without a grad_fn
          Graphs,    \* the graphs a program may have built, see GraphType
          Outputs,   \* the tuples of tensors that backward or grad starts from
          Retained,  \* nodes whose output has retain_grad() set
          MaxCalls   \* bound on the calls of backward and grad

Tensors == Nodes \cup Leaves

\* inputs: Node.inputs; silent: the edges <<node, i>> whose gradient is None;
\* saves: the nodes with saved tensors
GraphType == [inputs : [Nodes -> Seq(Tensors)],
              silent : SUBSET (Nodes \X Nat),
              saves : SUBSET Nodes]

ASSUME AutogradAssumption == /\ Nodes \cap Leaves = {}
                             /\ Nodes # {} /\ IsFiniteSet(Nodes)
                             /\ Graphs \subseteq GraphType
                             /\ Outputs \subseteq Seq(Tensors)
                             /\ Retained \subseteq Nodes
                             /\ MaxCalls \in Nat

VARIABLES graph,     \* the graph, built before the first call
          released,  \* nodes whose saved tensors were released
          grad,      \* Tensor.grad
          pc,        \* the place within _run_backward
          outputs, retain, accumulate,            \* arguments of the call
          stack, visited,                         \* of _build_dependencies
          deps, received, nodeGrad, ready, gradsMap,  \* of the _GraphTask
          cur, g,    \* node and grad of the loop in run
          at,        \* position in outputs, or in cur's inputs
          calls,     \* history: calls so far
          strict,    \* history: an earlier call did not retain the graph
          ran,       \* history: how often each node was run by this call
          before,    \* history: grad when this call began
          target     \* history: the gradient this call owes each tensor

taskVars == <<deps, received, nodeGrad, ready, gradsMap>>
argVars == <<graph, outputs, retain, accumulate, calls, strict, before, target>>
autogradVars == <<argVars, released, grad, pc, stack, visited, taskVars, cur, g,
                  at, ran>>

inputs == graph.inputs

GradFns(ts) == {n \in Nodes : \E i \in DOMAIN ts : ts[i] = n}

-----------------------------------------------------------------------------
(* The reference: paths from the outputs                                   *)

EdgesTo(t) == UNION {{<<m, i>> : i \in {j \in DOMAIN inputs[m] :
                inputs[m][j] = t /\ <<m, j>> \notin graph.silent}} : m \in Nodes}

TimesIn(outs, t) == Cardinality({k \in DOMAIN outs : outs[k] = t})

\* what arrives along edges when f[n] leaves n on each of its edges
Arriving(f, t) == MapThenSumSet(LAMBDA e : f[e[1]], EdgesTo(t))

\* what arrives at a node, as an output or along an edge
Paths(outs) ==
  LET paths[n \in Nodes] == TimesIn(outs, n) + Arriving(paths, n)
  IN  paths

\* Paths are defined where there is no cycle: in every set of nodes, one is used
\* by no node of the set.  An operation in place makes a node its own input.
Acyclic ==
  \A S \in SUBSET Nodes : S # {} => \E n \in S : \A m \in S : n \notin GradFns(inputs[m])

\* what arrives at a tensor along edges; for a leaf, as an output too
Owed(outs) ==
  LET paths == Paths(outs)
  IN  [t \in Tensors |->
         (IF t \in Leaves THEN TimesIn(outs, t) ELSE 0) + Arriving(paths, t)]

-----------------------------------------------------------------------------

NoCount == [n \in Nodes |-> 0]
NoGrad == [t \in Tensors |-> 0]

AutogradInit ==
  /\ graph \in Graphs
  /\ released = {} /\ grad = NoGrad /\ pc = "idle"
  /\ outputs = << >> /\ retain = FALSE /\ accumulate = FALSE
  /\ stack = {} /\ visited = {}
  /\ deps = NoCount /\ received = NoCount /\ nodeGrad = NoCount /\ ready = << >>
  /\ gradsMap = NoGrad
  /\ cur = (CHOOSE n \in Nodes : TRUE) /\ g = 0 /\ at = 1
  /\ calls = 0 /\ strict = FALSE /\ ran = NoCount
  /\ before = NoGrad /\ target = NoGrad

PushedLeaves(n) == {inputs[n][i] : i \in DOMAIN inputs[n]}   \* mutant: no test for None
Pushed(n) == GradFns(inputs[n])

\* backward(outs[1]), or grad(outs, ...)
Call(outs, keep, acc) ==
  /\ pc = "idle" /\ calls < MaxCalls
  /\ acc => Len(outs) = 1
  /\ pc' = "build" /\ calls' = calls + 1
  /\ outputs' = outs /\ retain' = keep /\ accumulate' = acc
  /\ stack' = GradFns(outs)
  /\ before' = grad /\ target' = IF Acyclic THEN Owed(outs) ELSE NoGrad
  /\ UNCHANGED <<graph, released, grad, visited, taskVars, cur, g, at, strict, ran>>

\* _build_dependencies: a step of the traversal.  Only what is visited counts
\* later, so the order and the repetitions of stack are left out.
Visit ==
  \E n \in stack :
      /\ pc = "build"
      /\ visited' = visited \cup {n}
      /\ stack' = (stack \ {n}) \cup (IF n \in visited THEN {} ELSE Pushed(n))
      /\ UNCHANGED <<argVars, released, grad, pc, taskVars, cur, g, at, ran>>

\* `seen`: a node that uses n twice is one user
Users(n) == {m \in visited : n \in GradFns(inputs[m])}

\* _build_dependencies: count the users of each node
CountUsers ==
  /\ pc = "build" /\ stack = {}
  /\ deps' = [n \in Nodes |-> IF n \in visited THEN Cardinality(Users(n)) ELSE 0]
  /\ pc' = "roots"
  /\ UNCHANGED <<argVars, released, grad, stack, visited, received, nodeGrad, ready,
                 gradsMap, cur, g, at, ran>>

-----------------------------------------------------------------------------
(* _GraphTask                                                              *)

\* _accumulate_node_grad
IsReadyLate(n) == received'[n] > deps[n]   \* mutant
IsReadyFirst(n) == TRUE                    \* mutant: no count
IsReady(n) == received'[n] >= deps[n]

NodeArrival(n, v) ==
  /\ nodeGrad' = [nodeGrad EXCEPT ![n] = @ + v]
  /\ received' = [received EXCEPT ![n] = @ + 1]
  /\ ready' = IF IsReady(n) THEN Append(ready, n) ELSE ready

\* _accumulate_tensor_grad
Accumulates(t) == t \in Leaves \cup Retained

TensorArrival(t, v) ==
  IF accumulate
  THEN /\ grad' = IF Accumulates(t) THEN [grad EXCEPT ![t] = @ + v] ELSE grad
       /\ UNCHANGED gradsMap
  ELSE /\ gradsMap' = [gradsMap EXCEPT ![t] = @ + v]
       /\ UNCHANGED grad

\* the loop over outputs in _run_backward
Root ==
  /\ pc = "roots" /\ at \in DOMAIN outputs
  /\ LET t == outputs[at]
     IN  IF t \in Leaves
         THEN TensorArrival(t, 1) /\ UNCHANGED <<nodeGrad, received, ready>>
         ELSE NodeArrival(t, 1) /\ UNCHANGED <<grad, gradsMap>>
  /\ at' = at + 1
  /\ UNCHANGED <<argVars, released, pc, stack, visited, deps, cur, g, ran>>

RootsDone ==
  /\ pc = "roots" /\ at \notin DOMAIN outputs
  /\ pc' = "run"
  /\ UNCHANGED <<argVars, released, grad, stack, visited, taskVars, cur, g, at, ran>>

\* mutant: popleft at the end of the body, which `continue` leaves out
SkipKeeps ==
  /\ pc = "run" /\ ready # << >> /\ nodeGrad[Head(ready)] = 0
  /\ UNCHANGED autogradVars

\* a node in ready whose gradient was taken by an earlier run
Skip ==
  /\ pc = "run" /\ ready # << >> /\ nodeGrad[Head(ready)] = 0
  /\ ready' = Tail(ready)
  /\ UNCHANGED <<argVars, released, grad, pc, stack, visited, deps, received, nodeGrad,
                 gradsMap, cur, g, at, ran>>

Pop ==
  /\ pc = "run" /\ ready # << >> /\ nodeGrad[Head(ready)] # 0
  /\ ready' = Tail(ready)
  /\ nodeGrad' = [nodeGrad EXCEPT ![Head(ready)] = 0]
  /\ cur' = Head(ready) /\ g' = nodeGrad[Head(ready)] /\ at' = 1
  /\ ran' = [ran EXCEPT ![Head(ready)] = @ + 1]
  /\ UNCHANGED <<argVars, grad, stack, visited, deps, received, gradsMap>>

\* node.backward(grad), which reads the saved tensors
RunNode ==
  /\ Pop
  /\ Head(ready) \notin released \cap graph.saves
  /\ pc' = "edges"
  /\ UNCHANGED released

\* "Trying to backward through the graph a second time"
Raise ==
  /\ Pop
  /\ Head(ready) \in released \cap graph.saves
  /\ pc' = "raised"
  /\ UNCHANGED released

\* the loop over node.inputs
SilentEdge ==
  /\ pc = "edges" /\ at \in DOMAIN inputs[cur] /\ <<cur, at>> \in graph.silent
  /\ at' = at + 1
  /\ UNCHANGED <<argVars, released, grad, pc, stack, visited, taskVars, cur, g, ran>>

Edge ==
  /\ pc = "edges" /\ at \in DOMAIN inputs[cur] /\ <<cur, at>> \notin graph.silent
  /\ LET t == inputs[cur][at]
     IN  /\ TensorArrival(t, g)
         /\ IF t \in Nodes THEN NodeArrival(t, g) ELSE UNCHANGED <<nodeGrad, received, ready>>
  /\ at' = at + 1
  /\ UNCHANGED <<argVars, released, pc, stack, visited, deps, cur, g, ran>>

ReleasedAlways(n) == released \cup {n}   \* mutant: ignores retain_graph
Released(n) == IF retain THEN released ELSE released \cup {n}

NodeDone ==
  /\ pc = "edges" /\ at \notin DOMAIN inputs[cur]
  /\ released' = Released(cur)
  /\ pc' = "run"
  /\ UNCHANGED <<argVars, grad, stack, visited, taskVars, cur, g, at, ran>>

RunDone ==
  /\ pc = "run" /\ ready = << >>
  /\ pc' = "done"
  /\ UNCHANGED <<argVars, released, grad, stack, visited, taskVars, cur, g, at, ran>>

\* the _GraphTask is gone
Return ==
  /\ pc \in {"done", "raised"}
  /\ pc' = "idle"
  /\ strict' = (strict \/ ~retain)
  /\ stack' = {} /\ visited' = {} /\ outputs' = << >> /\ ready' = << >>
  /\ deps' = NoCount /\ received' = NoCount /\ nodeGrad' = NoCount /\ ran' = NoCount
  /\ gradsMap' = NoGrad /\ before' = NoGrad /\ target' = NoGrad
  /\ g' = 0 /\ at' = 1
  /\ UNCHANGED <<graph, retain, accumulate, calls, released, grad, cur>>

\* the program ends
Stop == pc = "idle" /\ calls = MaxCalls /\ UNCHANGED autogradVars

Backward == Visit \/ CountUsers \/ Root \/ RootsDone \/ Skip \/ RunNode \/ Raise
            \/ SilentEdge \/ Edge \/ NodeDone \/ RunDone \/ Return

AutogradNext ==
  \/ \E outs \in Outputs, keep, acc \in BOOLEAN : Call(outs, keep, acc)
  \/ Backward
  \/ Stop

AutogradSpec == AutogradInit /\ [][AutogradNext]_autogradVars

\* a call is straight-line code on one thread
FairAutograd == AutogradSpec /\ WF_autogradVars(Backward)

-----------------------------------------------------------------------------
(* Properties                                                              *)

AutogradTypeOK ==
  /\ graph \in Graphs /\ released \subseteq Nodes
  /\ grad \in [Tensors -> Nat] /\ gradsMap \in [Tensors -> Nat]
  /\ pc \in {"idle", "build", "roots", "run", "edges", "done", "raised"}
  /\ outputs \in Seq(Tensors) /\ retain \in BOOLEAN /\ accumulate \in BOOLEAN
  /\ stack \subseteq Nodes /\ visited \subseteq Nodes /\ ready \in Seq(Nodes)
  /\ deps \in [Nodes -> Nat] /\ received \in [Nodes -> Nat]
  /\ nodeGrad \in [Nodes -> Nat] /\ cur \in Nodes /\ g \in Nat /\ at \in Nat \ {0}
  /\ calls \in 0 .. MaxCalls /\ strict \in BOOLEAN /\ ran \in [Nodes -> Nat]
  /\ before \in [Tensors -> Nat]

\* The engine counts gradients per edge and users per node, and the outputs
\* not at all.  The count is right when a node that is used twice by one node
\* is used by no other, and no output is used by a node of the graph.
UsesTwice(m, n) ==
  \E i, j \in DOMAIN inputs[m] : i # j /\ inputs[m][i] = n /\ inputs[m][j] = n

Countable ==
  /\ \A n, m \in visited : UsesTwice(m, n) => Users(n) = {m}
  /\ \A k \in DOMAIN outputs : outputs[k] \in Nodes => Users(outputs[k]) = {}

Running == pc \in {"roots", "run", "edges", "done", "raised"}

\* No node runs twice in one call, so no node finds its saved tensors
\* released by the very call that needs them.
RunsOnce == Running /\ Countable => \A n \in Nodes : ran[n] <= 1

\* A node runs after every node that uses its result has passed on its
\* gradients.
AfterUsers ==
  Running /\ Countable =>
    \A n \in Nodes : ran[n] > 0 => \A m \in Users(n) : ran[m] > 0 /\ ~(pc = "edges" /\ cur = m)

\* No silent edge leads into a node.
Quiet == \A e \in graph.silent : inputs[e[1]][e[2]] \in Leaves

\* With no cycle and no silent edge into a node, every tensor gets its whole
\* gradient, also where nodes run more than once; an error is the only way out.
GradientsComplete ==
  pc = "done" /\ Quiet /\ Acyclic =>
    IF accumulate
    THEN \A t \in Leaves \cup Retained : grad[t] = before[t] + target[t]
    ELSE gradsMap = target

\* "Trying to backward through the graph a second time" is raised only when an
\* earlier call went through the graph and did not retain it.
RaisesAfterRelease == pc = "raised" /\ Countable => strict

\* Every call returns; the graphs of the runs have no cycle.
CallsReturn == pc = "build" ~> pc = "idle"

\* What the error says of itself, for every graph.
RaisesSecondTime == pc = "raised" => strict

=============================================================================
