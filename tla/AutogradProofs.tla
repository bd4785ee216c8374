--------------------------- MODULE AutogradProofs ---------------------------
(***************************************************************************)
(* Proofs about the backward engine, for every graph, deep or cyclic,      *)
(* every number of inputs of a node and every sequence of calls.           *)
(*                                                                         *)
(* What the engine promises of the order, RunsOnce, AfterUsers and         *)
(* RaisesAfterRelease, rests on an account of arrivals: a node that no     *)
(* node uses twice has received at most one gradient from each user that   *)
(* came past the edge to it, so it cannot be ready before its last user    *)
(* passed its gradient on, and nothing is left that could make it ready    *)
(* again.                                                                  *)
(*                                                                         *)
(* GradientsComplete rests on an account of sums, which a node that runs   *)
(* early or twice does not upset: what a node was run with, in all its     *)
(* runs together, and what it still holds is what came along the edges to  *)
(* it.  When ready is empty nothing is held, and the account is the        *)
(* equation that defines the paths in a graph without a cycle.             *)
(***************************************************************************)
EXTENDS Autograd, Sums

-----------------------------------------------------------------------------
(* Types                                                                   *)

LEMMA GraphTypes ==
  ASSUME graph \in Graphs
  PROVE  /\ \A n \in Nodes : inputs[n] \in Seq(Tensors)
         /\ \A n \in Nodes : Pushed(n) \subseteq Nodes
BY AutogradAssumption DEF GraphType, inputs, Pushed, GradFns

LEMMA HeadTail ==
  ASSUME NEW S, NEW q \in Seq(S), q # << >>
  PROVE  Head(q) \in S /\ Tail(q) \in Seq(S)
OBVIOUS

LEMMA InitTypes == AutogradInit => AutogradTypeOK
<1> SUFFICES ASSUME AutogradInit PROVE AutogradTypeOK
  OBVIOUS
<1>1. cur \in Nodes
  <2>1. PICK n : n \in Nodes
    BY AutogradAssumption
  <2> QED BY <2>1 DEF AutogradInit
<1>2. NoCount \in [Nodes -> Nat] /\ NoGrad \in [Tensors -> Nat]
  BY DEF NoCount, NoGrad
<1>3. << >> \in Seq(Nodes) /\ << >> \in Seq(Tensors)
  OBVIOUS
<1>4. /\ graph \in Graphs /\ released = {} /\ pc = "idle" /\ grad = NoGrad
      /\ outputs = << >> /\ retain = FALSE /\ accumulate = FALSE
      /\ stack = {} /\ visited = {} /\ ready = << >> /\ gradsMap = NoGrad
      /\ deps = NoCount /\ received = NoCount /\ nodeGrad = NoCount
      /\ g = 0 /\ at = 1 /\ calls = 0 /\ strict = FALSE /\ ran = NoCount
      /\ before = NoGrad
  BY DEF AutogradInit
<1>5. retain \in BOOLEAN /\ accumulate \in BOOLEAN /\ strict \in BOOLEAN
  BY ONLY <1>4
<1>6. calls \in 0 .. MaxCalls /\ g \in Nat /\ at \in Nat \ {0}
  BY ONLY <1>4, AutogradAssumption
<1> QED BY ONLY <1>1, <1>2, <1>3, <1>4, <1>5, <1>6 DEF AutogradTypeOK

LEMMA TensorArrivalTypes ==
  ASSUME grad \in [Tensors -> Nat], gradsMap \in [Tensors -> Nat],
         NEW t \in Tensors, NEW v \in Nat, TensorArrival(t, v)
  PROVE  grad' \in [Tensors -> Nat] /\ gradsMap' \in [Tensors -> Nat]
<1>1. /\ [grad EXCEPT ![t] = @ + v] \in [Tensors -> Nat]
      /\ [gradsMap EXCEPT ![t] = @ + v] \in [Tensors -> Nat]
  OBVIOUS
<1> QED BY <1>1 DEF TensorArrival

LEMMA NodeArrivalTypes ==
  ASSUME nodeGrad \in [Nodes -> Nat], received \in [Nodes -> Nat], ready \in Seq(Nodes),
         NEW n \in Nodes, NEW v \in Nat, NodeArrival(n, v)
  PROVE  /\ nodeGrad' \in [Nodes -> Nat] /\ received' \in [Nodes -> Nat]
         /\ ready' \in Seq(Nodes)
BY DEF NodeArrival

LEMMA StepTypes == AutogradTypeOK /\ [AutogradNext]_autogradVars => AutogradTypeOK'
<1> SUFFICES ASSUME AutogradTypeOK, [AutogradNext]_autogradVars PROVE AutogradTypeOK'
  OBVIOUS
<1>1. CASE UNCHANGED autogradVars
  BY <1>1 DEF AutogradTypeOK, autogradVars, argVars, taskVars
<1>2. ASSUME NEW outs \in Outputs, NEW keep \in BOOLEAN, NEW acc \in BOOLEAN,
             Call(outs, keep, acc)
      PROVE  AutogradTypeOK'
  <2>1. outs \in Seq(Tensors) /\ GradFns(outs) \subseteq Nodes
    BY AutogradAssumption DEF GradFns
  <2>2. calls' \in 0 .. MaxCalls
    BY <1>2, AutogradAssumption DEF Call, AutogradTypeOK
  <2> QED BY <2>1, <2>2, <1>2 DEF AutogradTypeOK, Call, taskVars
<1>3. CASE Visit
  BY <1>3, GraphTypes DEF AutogradTypeOK, Visit, argVars, taskVars
<1>4. CASE CountUsers
  <2>1. deps' \in [Nodes -> Nat]
    <3>1. ASSUME NEW n \in Nodes PROVE Cardinality(Users(n)) \in Nat
      <4>1. IsFiniteSet(Users(n))
        BY FS_Subset, AutogradAssumption DEF AutogradTypeOK, Users
      <4> QED BY <4>1, FS_CardinalityType
    <3> QED BY <3>1, <1>4 DEF CountUsers
  <2> QED BY <2>1, <1>4 DEF AutogradTypeOK, CountUsers, argVars
<1>5. CASE Root
  <2>1. outputs[at] \in Tensors /\ at' \in Nat \ {0}
    BY <1>5 DEF Root, AutogradTypeOK
  <2>2. grad' \in [Tensors -> Nat] /\ gradsMap' \in [Tensors -> Nat]
    BY <2>1, <1>5, TensorArrivalTypes DEF Root, AutogradTypeOK
  <2>3. /\ nodeGrad' \in [Nodes -> Nat] /\ received' \in [Nodes -> Nat]
        /\ ready' \in Seq(Nodes)
    BY <2>1, <1>5, NodeArrivalTypes DEF Root, AutogradTypeOK, Tensors
  <2> QED BY <2>1, <2>2, <2>3, <1>5 DEF AutogradTypeOK, Root, argVars
<1>6. CASE RootsDone
  BY <1>6 DEF AutogradTypeOK, RootsDone, argVars, taskVars
<1>7. CASE Skip
  <2>1. Tail(ready) \in Seq(Nodes)
    BY <1>7, HeadTail DEF AutogradTypeOK, Skip
  <2> QED BY <2>1, <1>7 DEF AutogradTypeOK, Skip, argVars
<1>8. CASE RunNode \/ Raise
  <2>1. Pop /\ pc' \in {"edges", "raised"} /\ released' = released
    BY <1>8 DEF RunNode, Raise
  <2>2. Head(ready) \in Nodes /\ Tail(ready) \in Seq(Nodes)
    BY <2>1, HeadTail DEF AutogradTypeOK, Pop
  <2>3. /\ nodeGrad' \in [Nodes -> Nat] /\ ran' \in [Nodes -> Nat] /\ g' \in Nat
        /\ cur' \in Nodes /\ at' \in Nat \ {0} /\ ready' \in Seq(Nodes)
    <3>1. PICK n \in Nodes : n = Head(ready)
      BY <2>2
    <3>2. /\ nodeGrad' = [nodeGrad EXCEPT ![n] = 0] /\ ran' = [ran EXCEPT ![n] = @ + 1]
          /\ g' = nodeGrad[n] /\ cur' = n /\ at' = 1 /\ ready' = Tail(ready)
      BY <2>1, <3>1 DEF Pop
    <3>3. nodeGrad \in [Nodes -> Nat] /\ ran \in [Nodes -> Nat]
      BY DEF AutogradTypeOK
    <3> QED BY ONLY <3>1, <3>2, <3>3, <2>2
  <2>4. UNCHANGED <<graph, outputs, retain, accumulate, calls, strict, before, grad,
                    stack, visited, deps, received, gradsMap>>
    BY <2>1 DEF Pop, argVars
  <2>5. retain' \in BOOLEAN /\ accumulate' \in BOOLEAN /\ strict' \in BOOLEAN
    BY <2>4 DEF AutogradTypeOK
  <2>6. pc' \in {"idle", "build", "roots", "run", "edges", "done", "raised"}
    BY <2>1
  <2> QED BY <2>1, <2>3, <2>4, <2>5, <2>6 DEF AutogradTypeOK
<1>9. CASE SilentEdge
  BY <1>9 DEF AutogradTypeOK, SilentEdge, argVars, taskVars
<1>10. CASE Edge
  <2>1. inputs[cur][at] \in Tensors /\ at' \in Nat \ {0}
    <3>1. inputs[cur] \in Seq(Tensors) /\ at \in Nat \ {0}
      BY GraphTypes DEF AutogradTypeOK
    <3>2. at \in DOMAIN inputs[cur] /\ at' = at + 1
      BY <1>10 DEF Edge
    <3> HIDE DEF inputs
    <3> QED BY <3>1, <3>2
  <2>2. grad' \in [Tensors -> Nat] /\ gradsMap' \in [Tensors -> Nat]
    BY <2>1, <1>10, TensorArrivalTypes DEF Edge, AutogradTypeOK
  <2>3. /\ nodeGrad' \in [Nodes -> Nat] /\ received' \in [Nodes -> Nat]
        /\ ready' \in Seq(Nodes)
    BY <2>1, <1>10, NodeArrivalTypes DEF Edge, AutogradTypeOK
  <2> QED BY <2>1, <2>2, <2>3, <1>10 DEF AutogradTypeOK, Edge, argVars
<1>11. CASE NodeDone
  BY <1>11 DEF AutogradTypeOK, NodeDone, Released, argVars, taskVars
<1>12. CASE RunDone
  BY <1>12 DEF AutogradTypeOK, RunDone, argVars, taskVars
<1>13. CASE Return
  <2>1. NoCount \in [Nodes -> Nat] /\ NoGrad \in [Tensors -> Nat]
    BY DEF NoCount, NoGrad
  <2>2. << >> \in Seq(Nodes) /\ << >> \in Seq(Tensors)
    OBVIOUS
  <2> QED BY <2>1, <2>2, <1>13 DEF AutogradTypeOK, Return
<1>14. CASE Stop
  BY <1>14, <1>1 DEF Stop
<1> QED
  BY <1>1, <1>2, <1>3, <1>4, <1>5, <1>6, <1>7, <1>8, <1>9, <1>10, <1>11, <1>12,
     <1>13, <1>14 DEF AutogradNext, Backward

\* Every variable of the engine keeps its type, whatever graph it is given.
THEOREM AutogradTypeCorrect == AutogradSpec => []AutogradTypeOK
BY InitTypes, StepTypes, PTL DEF AutogradSpec

-----------------------------------------------------------------------------
(* The invariant                                                           *)

\* Before the run of a task nothing has arrived and nothing has run.
Fresh ==
  /\ pc \in {"idle", "build"} => received = NoCount /\ nodeGrad = NoCount /\ ready = << >>
  /\ pc \in {"idle", "build", "roots"} => ran = NoCount
  /\ pc = "idle" => visited = {}

\* The traversal reaches every node below the outputs, and counts its users.
Closed ==
  /\ pc = "build" =>
       /\ GradFns(outputs) \subseteq visited \cup stack
       /\ \A m \in visited : Pushed(m) \subseteq visited \cup stack
  /\ Running =>
       /\ GradFns(outputs) \subseteq visited
       /\ \A m \in visited : Pushed(m) \subseteq visited
       /\ deps = [n \in Nodes |-> IF n \in visited THEN Cardinality(Users(n)) ELSE 0]
       /\ \A i \in 1 .. Len(ready) : ready[i] \in visited
  /\ pc = "edges" => cur \in visited /\ ran[cur] > 0

\* Until a call does not retain the graph, only the current one released
\* anything, and only what it ran.
Strict ==
  strict \/ \A n \in released : ~retain /\ Running /\ ran[n] > 0

\* m came past an edge to n
Sent(m, n) ==
  ran[m] > 0 /\ (pc = "edges" /\ cur = m
                   => \E i \in DOMAIN inputs[m] : i < at /\ inputs[m][i] = n)
Senders(n) == {m \in Users(n) : Sent(m, n)}
UsedTwice(n) == \E m \in visited : UsesTwice(m, n)

UsersRan(n) == \A m \in Users(n) : ran[m] > 0
UsersDone(n) == \A m \in Users(n) : ran[m] > 0 /\ ~(pc = "edges" /\ cur = m)

Ordered ==
  /\ \A n \in Nodes : ran[n] <= 1
  /\ \A n \in Nodes : nodeGrad[n] # 0 => ran[n] = 0
  /\ \A n \in Nodes : ran[n] > 0 => UsersDone(n)
  /\ \A i \in 1 .. Len(ready) : UsersRan(ready[i])
  /\ \A n \in visited : UsedTwice(n) \/ Users(n) = {}
                        \/ received[n] <= Cardinality(Senders(n))
  /\ pc = "raised" => strict

AutogradInv == AutogradTypeOK /\ Fresh /\ Closed /\ Strict
               /\ (Running /\ Countable => Ordered)

-----------------------------------------------------------------------------
(* What a step leaves alone                                                *)

\* The users of a node are fixed once the traversal is over.
LEMMA SameGraph ==
  ASSUME graph' = graph, visited' = visited, outputs' = outputs
  PROVE  /\ Countable' <=> Countable
         /\ \A n : Users(n)' = Users(n) /\ Pushed(n)' = Pushed(n)
         /\ \A n : UsedTwice(n)' <=> UsedTwice(n)
         /\ inputs' = inputs /\ GradFns(outputs)' = GradFns(outputs)
BY DEF Countable, Users, Pushed, GradFns, UsedTwice, UsesTwice, inputs

LEMMA FiniteUsers ==
  ASSUME AutogradTypeOK, NEW n
  PROVE  IsFiniteSet(Users(n)) /\ IsFiniteSet(Senders(n))
<1>1. IsFiniteSet(visited)
  BY AutogradAssumption, FS_Subset DEF AutogradTypeOK
<1>2. Users(n) \subseteq visited /\ Senders(n) \subseteq visited
  BY DEF Users, Senders
<1> QED BY <1>1, <1>2, FS_Subset

\* A step after which as many or more users have sent keeps the account.
LEMMA MoreSenders ==
  ASSUME AutogradTypeOK, AutogradTypeOK', NEW n, Users(n)' = Users(n),
         \A m \in Users(n) : Sent(m, n) => Sent(m, n)'
  PROVE  Cardinality(Senders(n)) <= Cardinality(Senders(n)')
<1>1. Senders(n) \subseteq Senders(n)'
  BY DEF Senders
<1>2. IsFiniteSet(Senders(n)')
  <2>1. IsFiniteSet(visited')
    BY AutogradAssumption, FS_Subset DEF AutogradTypeOK
  <2>2. Senders(n)' \subseteq visited'
    BY DEF Senders, Users
  <2> QED BY <2>1, <2>2, FS_Subset
<1> QED BY <1>1, <1>2, FS_Subset

-----------------------------------------------------------------------------
(* The steps                                                               *)

LEMMA InitInv == AutogradInit => AutogradInv
<1> SUFFICES ASSUME AutogradInit PROVE AutogradInv
  OBVIOUS
<1>1. AutogradTypeOK
  BY InitTypes
<1>2. /\ pc = "idle" /\ received = NoCount /\ nodeGrad = NoCount /\ ready = << >>
      /\ ran = NoCount /\ released = {} /\ visited = {}
  BY DEF AutogradInit
<1>3. ~Running
  BY <1>2 DEF Running
<1> QED BY <1>1, <1>2, <1>3 DEF AutogradInv, Fresh, Closed, Strict

\* The steps of a task after the traversal are of these kinds.
RunStep == Root \/ RootsDone \/ Skip \/ RunNode \/ Raise \/ SilentEdge \/ Edge
           \/ NodeDone \/ RunDone

LEMMA RunStepKeeps ==
  ASSUME RunStep
  PROVE  /\ graph' = graph /\ visited' = visited /\ outputs' = outputs
         /\ deps' = deps /\ strict' = strict /\ retain' = retain
         /\ pc \in {"roots", "run", "edges"} /\ Running /\ Running'
BY DEF RunStep, Root, RootsDone, Skip, RunNode, Raise, Pop, SilentEdge, Edge, NodeDone,
       RunDone, argVars, taskVars, Running

LEMMA FreshStep == AutogradInv /\ [AutogradNext]_autogradVars => Fresh'
<1> SUFFICES ASSUME AutogradInv, [AutogradNext]_autogradVars PROVE Fresh'
  OBVIOUS
<1> USE DEF Fresh
<1>1. CASE UNCHANGED autogradVars
  BY <1>1 DEF AutogradInv, autogradVars, argVars, taskVars, NoCount
<1>2. ASSUME NEW outs \in Outputs, NEW keep \in BOOLEAN, NEW acc \in BOOLEAN,
             Call(outs, keep, acc)
      PROVE  Fresh'
  BY <1>2 DEF AutogradInv, Call, taskVars, NoCount
<1>3. CASE Visit
  BY <1>3 DEF AutogradInv, Visit, taskVars, NoCount
<1>4. CASE CountUsers
  BY <1>4 DEF AutogradInv, CountUsers, NoCount
<1>5. CASE Return
  BY <1>5 DEF Return, NoCount
<1>6. CASE Root
  BY <1>6 DEF AutogradInv, Root, NoCount
<1>7. CASE RunStep /\ ~Root
  BY <1>7 DEF RunStep, RootsDone, Skip, RunNode, Raise, SilentEdge, Edge, NodeDone,
              RunDone, Pop
<1> QED
  BY <1>1, <1>2, <1>3, <1>4, <1>5, <1>6, <1>7 DEF AutogradNext, Backward, RunStep, Stop

LEMMA StrictStep == AutogradInv /\ [AutogradNext]_autogradVars => Strict'
<1> SUFFICES ASSUME AutogradInv, [AutogradNext]_autogradVars PROVE Strict'
  OBVIOUS
<1>1. CASE UNCHANGED autogradVars
  BY <1>1 DEF AutogradInv, Strict, Running, autogradVars, argVars, taskVars
<1>2. ASSUME NEW outs \in Outputs, NEW keep \in BOOLEAN, NEW acc \in BOOLEAN,
             Call(outs, keep, acc)
      PROVE  Strict'
  BY <1>2 DEF AutogradInv, Strict, Call, Running
<1>3. CASE Visit \/ CountUsers
  <2>1. ~Running /\ strict' = strict /\ released' = released
    BY <1>3 DEF Visit, CountUsers, argVars, Running
  <2> QED BY <2>1 DEF AutogradInv, Strict
<1>4. CASE Return
  BY <1>4 DEF AutogradInv, Strict, Return
<1>5. CASE Root \/ RootsDone \/ Skip \/ SilentEdge \/ Edge \/ RunDone
  <2>1. Running /\ Running' /\ strict' = strict /\ retain' = retain
    BY <1>5, RunStepKeeps DEF RunStep
  <2>2. released' = released /\ ran' = ran
    BY <1>5 DEF Root, RootsDone, Skip, SilentEdge, Edge, RunDone
  <2> QED BY <2>1, <2>2 DEF AutogradInv, Strict
<1>6. CASE RunNode \/ Raise
  <2>1. Running /\ Running' /\ strict' = strict /\ retain' = retain
    BY <1>6, RunStepKeeps DEF RunStep
  <2>2. released' = released
    BY <1>6 DEF RunNode, Raise
  <2>3. \A n \in Nodes : ran[n] > 0 => ran'[n] > 0
    <3>1. ran \in [Nodes -> Nat] /\ ran' = [ran EXCEPT ![Head(ready)] = @ + 1]
      BY <1>6 DEF RunNode, Raise, Pop, AutogradInv, AutogradTypeOK
    <3> QED BY <3>1
  <2>4. released \subseteq Nodes
    BY DEF AutogradInv, AutogradTypeOK
  <2> QED BY <2>1, <2>2, <2>3, <2>4 DEF AutogradInv, Strict
<1>7. CASE NodeDone
  <2>1. Running /\ Running' /\ strict' = strict /\ retain' = retain
    BY <1>7, RunStepKeeps DEF RunStep
  <2>2. /\ ran' = ran /\ ran[cur] > 0
        /\ released' = IF retain THEN released ELSE released \cup {cur}
    BY <1>7 DEF NodeDone, Released, AutogradInv, Closed
  <2> QED BY <2>1, <2>2 DEF AutogradInv, Strict
<1> QED
  BY <1>1, <1>2, <1>3, <1>4, <1>5, <1>6, <1>7 DEF AutogradNext, Backward, Stop

LEMMA ClosedStep == AutogradInv /\ [AutogradNext]_autogradVars => Closed'
<1> SUFFICES ASSUME AutogradInv, [AutogradNext]_autogradVars PROVE Closed'
  OBVIOUS
<1>1. CASE UNCHANGED autogradVars
  <2>1. /\ graph' = graph /\ visited' = visited /\ outputs' = outputs /\ pc' = pc
        /\ stack' = stack /\ deps' = deps /\ ready' = ready /\ cur' = cur /\ ran' = ran
    BY <1>1 DEF autogradVars, argVars, taskVars
  <2> QED BY <2>1, SameGraph DEF AutogradInv, Closed, Running
<1>2. ASSUME NEW outs \in Outputs, NEW keep \in BOOLEAN, NEW acc \in BOOLEAN,
             Call(outs, keep, acc)
      PROVE  Closed'
  <2>1. /\ visited' = {} /\ pc' = "build" /\ outputs' = outs /\ stack' = GradFns(outs)
    BY <1>2 DEF Call, AutogradInv, Fresh
  <2>2. GradFns(outputs)' = stack'
    BY <2>1 DEF GradFns
  <2> QED BY <2>1, <2>2 DEF Closed, Running
<1>3. CASE Visit
  <2>1. PICK n \in stack :
           /\ visited' = visited \cup {n}
           /\ stack' = (stack \ {n}) \cup (IF n \in visited THEN {} ELSE Pushed(n))
    BY <1>3 DEF Visit
  <2>2. /\ pc = "build" /\ pc' = "build" /\ graph' = graph /\ outputs' = outputs
    BY <1>3 DEF Visit, argVars
  <2>3. GradFns(outputs)' = GradFns(outputs) /\ \A m : Pushed(m)' = Pushed(m)
    BY <2>2 DEF GradFns, Pushed, inputs
  <2>4. /\ GradFns(outputs) \subseteq visited \cup stack
        /\ \A m \in visited : Pushed(m) \subseteq visited \cup stack
    BY <2>2 DEF AutogradInv, Closed
  <2>5. visited \cup stack \subseteq visited' \cup stack'
    BY <2>1
  <2>6. \A m \in visited' : Pushed(m) \subseteq visited' \cup stack'
    <3>1. n \in visited \/ Pushed(n) \subseteq stack'
      BY <2>1
    <3> QED BY <2>1, <2>4, <2>5, <3>1
  <2>7. Closed'
    <3>1. GradFns(outputs) \subseteq visited' \cup stack'
      BY <2>4, <2>5
    <3> QED BY <2>2, <2>3, <2>6, <3>1 DEF Closed, Running
  <2> QED BY <2>7
<1>4. CASE CountUsers
  <2>1. /\ graph' = graph /\ visited' = visited /\ outputs' = outputs /\ ready' = << >>
        /\ pc = "build" /\ pc' = "roots" /\ stack = {}
        /\ deps' = [n \in Nodes |-> IF n \in visited THEN Cardinality(Users(n)) ELSE 0]
    BY <1>4 DEF CountUsers, argVars, AutogradInv, Fresh
  <2>2. GradFns(outputs) \subseteq visited /\ \A m \in visited : Pushed(m) \subseteq visited
    BY <2>1 DEF AutogradInv, Closed
  <2> QED BY <2>1, <2>2, SameGraph DEF Closed
<1>5. CASE Return
  BY <1>5 DEF Closed, Return, Running
<1>6. CASE RunStep
  <2>1. /\ graph' = graph /\ visited' = visited /\ outputs' = outputs /\ deps' = deps
        /\ Running
    BY <1>6, RunStepKeeps
  <2>2. /\ GradFns(outputs) \subseteq visited /\ \A m \in visited : Pushed(m) \subseteq visited
        /\ deps = [n \in Nodes |-> IF n \in visited THEN Cardinality(Users(n)) ELSE 0]
        /\ \A i \in 1 .. Len(ready) : ready[i] \in visited
    BY <2>1 DEF AutogradInv, Closed
  <2>3. ready \in Seq(Nodes) /\ ran \in [Nodes -> Nat]
    BY DEF AutogradInv, AutogradTypeOK
  <2>4. /\ \A i \in 1 .. Len(ready') : ready'[i] \in visited
        /\ pc' = "edges" => cur' \in visited /\ ran'[cur'] > 0
    <3>1. CASE Root
      <4>1. outputs[at] \in Nodes => outputs[at] \in GradFns(outputs)
        BY <3>1 DEF Root, GradFns
      <4>2. \/ ready' = ready
            \/ outputs[at] \in Nodes /\ ready' = Append(ready, outputs[at])
        BY <3>1 DEF Root, NodeArrival, Tensors, AutogradInv, AutogradTypeOK
      <4>3. pc' # "edges"
        BY <3>1 DEF Root
      <4> QED BY <4>1, <4>2, <4>3, <2>2, <2>3
    <3>2. CASE Edge
      <4>1. cur \in visited /\ ran[cur] > 0 /\ cur' = cur /\ ran' = ran
        BY <3>2 DEF Edge, AutogradInv, Closed
      <4>2. inputs[cur][at] \in Nodes => inputs[cur][at] \in visited
        BY <3>2, <4>1, <2>2 DEF Edge, Pushed, GradFns
      <4>3. \/ ready' = ready
            \/ inputs[cur][at] \in Nodes /\ ready' = Append(ready, inputs[cur][at])
        BY <3>2 DEF Edge, NodeArrival
      <4> HIDE DEF inputs
      <4> QED BY <4>1, <4>2, <4>3, <2>2, <2>3
    <3>3. CASE RunNode \/ Raise
      <4>1. /\ ready # << >> /\ ready' = Tail(ready) /\ cur' = Head(ready)
            /\ ran' = [ran EXCEPT ![Head(ready)] = @ + 1]
        BY <3>3 DEF RunNode, Raise, Pop
      <4>2. Head(ready) \in visited /\ Head(ready) \in Nodes
        BY <4>1, <2>2, <2>3
      <4>3. \A i \in 1 .. Len(Tail(ready)) : Tail(ready)[i] \in visited
        BY <4>1, <2>2, <2>3
      <4> QED BY <4>1, <4>2, <4>3, <2>3
    <3>4. CASE Skip
      BY <3>4, <2>2, <2>3 DEF Skip
    <3>5. CASE RootsDone \/ NodeDone \/ RunDone
      BY <3>5, <2>2 DEF RootsDone, NodeDone, RunDone, taskVars
    <3>6. CASE SilentEdge
      BY <3>6, <2>2 DEF SilentEdge, taskVars, AutogradInv, Closed
    <3> QED BY <1>6, <3>1, <3>2, <3>3, <3>4, <3>5, <3>6 DEF RunStep
  <2>5. pc' # "build"
    BY <1>6, RunStepKeeps DEF Running
  <2> QED BY <2>1, <2>2, <2>4, <2>5, SameGraph DEF Closed
<1> QED
  BY <1>1, <1>2, <1>3, <1>4, <1>5, <1>6 DEF AutogradNext, Backward, RunStep, Stop

-----------------------------------------------------------------------------
(* The order of the nodes                                                  *)

\* The account of a node at which nothing arrives.
LEMMA AccountKept ==
  ASSUME AutogradInv, Ordered, AutogradTypeOK', NEW k \in visited, Users(k)' = Users(k),
         ~UsedTwice(k), Users(k) # {}, received'[k] = received[k],
         \A m \in Users(k) : Sent(m, k) => Sent(m, k)'
  PROVE  received'[k] <= Cardinality(Senders(k)')
<1>1. received[k] <= Cardinality(Senders(k))
  BY DEF Ordered
<1>2. Cardinality(Senders(k)) <= Cardinality(Senders(k)')
  BY MoreSenders DEF AutogradInv
<1>3. IsFiniteSet(Senders(k)) /\ IsFiniteSet(Senders(k)')
  <2>1. IsFiniteSet(Users(k))
    BY FiniteUsers DEF AutogradInv
  <2> QED BY <2>1, FS_Subset DEF Senders
<1>4. /\ Cardinality(Senders(k)) \in Nat /\ Cardinality(Senders(k)') \in Nat
      /\ received[k] \in Nat
  BY <1>3, FS_CardinalityType DEF AutogradInv, AutogradTypeOK
<1> QED BY <1>1, <1>2, <1>4

\* An arrival at a node that no user of it can still disturb.
LEMMA ArrivalOrdered ==
  ASSUME AutogradInv, Running, Countable, Ordered, RunStep, AutogradTypeOK',
         NEW n \in visited, NEW v \in Nat, NodeArrival(n, v),
         ran' = ran, pc' = pc, cur' = cur,
         ran[n] = 0,
         UsedTwice(n) => \E m \in Users(n) : ran[m] > 0,
         UsedTwice(n) \/ Users(n) = {} \/ received'[n] <= Cardinality(Senders(n)'),
         \A k \in visited : \A m \in Users(k) : Sent(m, k) => Sent(m, k)'
  PROVE  Ordered'
<1>1. /\ graph' = graph /\ visited' = visited /\ outputs' = outputs /\ strict' = strict
      /\ deps' = deps
  BY RunStepKeeps
<1>2. /\ received' = [received EXCEPT ![n] = @ + 1] /\ received \in [Nodes -> Nat]
      /\ nodeGrad' = [nodeGrad EXCEPT ![n] = @ + v] /\ nodeGrad \in [Nodes -> Nat]
      /\ ready \in Seq(Nodes) /\ visited \subseteq Nodes /\ n \in Nodes
  BY DEF NodeArrival, AutogradInv, AutogradTypeOK
<1>3. /\ \A k : Users(k)' = Users(k)
      /\ \A k : UsedTwice(k)' <=> UsedTwice(k)
  BY <1>1, SameGraph
<1>4. \A k \in visited : UsedTwice(k)' \/ Users(k)' = {}
                           \/ received'[k] <= Cardinality(Senders(k)')
  <2>1. ASSUME NEW k \in visited, k # n, ~UsedTwice(k), Users(k) # {}
        PROVE  received'[k] <= Cardinality(Senders(k)')
    BY <2>1, <1>2, <1>3, AccountKept
  <2> QED BY <2>1, <1>3
<1>5. ready' # ready => UsersRan(n)
  <2>1. SUFFICES ASSUME received'[n] >= deps[n] PROVE UsersRan(n)
    BY DEF NodeArrival, IsReady
  <2>2. deps[n] = Cardinality(Users(n))
    BY <1>2 DEF AutogradInv, Closed
  <2>3. Countable' /\ UsedTwice(n)' => \E m \in Users(n)' : ran'[m] > 0
    BY <1>3
  <2>4. /\ Cardinality(Users(n)) \in Nat /\ Cardinality(Senders(n)') \in Nat
        /\ received'[n] \in Nat
    <3>1. IsFiniteSet(Users(n)) /\ IsFiniteSet(Senders(n)')
      <4>1. IsFiniteSet(Users(n))
        BY FiniteUsers DEF AutogradInv
      <4> QED BY <4>1, <1>3, FS_Subset DEF Senders
    <3> QED BY <3>1, <1>2, FS_CardinalityType
  <2>5. UsedTwice(n) \/ Users(n) = {} \/ Cardinality(Users(n)) <= Cardinality(Senders(n)')
    BY <2>1, <2>2, <2>4
  <2>6. Senders(n)' \subseteq Users(n) /\ \A m \in Senders(n)' : ran[m] > 0
    BY <1>3 DEF Senders, Sent
  <2>7. CASE UsedTwice(n)
    <3>1. PICK k \in visited : UsesTwice(k, n)
      BY <2>7 DEF UsedTwice
    <3>2. Users(n) = {k}
      BY <3>1 DEF Countable
    <3> QED BY <3>2, <2>7 DEF UsersRan
  <2>8. CASE Cardinality(Users(n)) <= Cardinality(Senders(n)')
    <3>1. IsFiniteSet(Users(n))
      BY FiniteUsers DEF AutogradInv
    <3>2. Cardinality(Senders(n)') <= Cardinality(Users(n))
      BY <3>1, <2>6, FS_Subset
    <3>3. Senders(n)' = Users(n)
      BY <3>1, <3>2, <2>4, <2>6, <2>8, FS_Subset
    <3> QED BY <3>3, <2>6 DEF UsersRan
  <2> QED BY <2>5, <2>7, <2>8 DEF UsersRan
<1>6. (\A i \in 1 .. Len(ready) : UsersRan(ready[i]))'
  <2>1. \A i \in 1 .. Len(ready') : UsersRan(ready[i])' <=> UsersRan(ready'[i])
    BY <1>3 DEF UsersRan
  <2>2. \A i \in 1 .. Len(ready) : UsersRan(ready[i])
    BY DEF Ordered
  <2>3. ready' = ready \/ (ready' = Append(ready, n) /\ UsersRan(n))
    BY <1>5 DEF NodeArrival
  <2>4. ASSUME NEW i \in 1 .. Len(ready') PROVE UsersRan(ready'[i])
    <3>1. CASE ready' = ready
      BY <3>1, <2>2, <2>4
    <3>2. CASE ready' = Append(ready, n) /\ UsersRan(n)
      BY <3>2, <2>2, <2>4, <1>2
    <3> QED BY <3>1, <3>2, <2>3
  <2> QED BY <2>1, <2>4
<1>7. \A k \in Nodes : ran'[k] > 0 => UsersDone(k)'
  BY <1>3 DEF UsersDone, Ordered
<1>8. \A k \in Nodes : nodeGrad'[k] # 0 => ran'[k] = 0
  BY <1>2 DEF Ordered
<1>9. /\ \A k \in Nodes : ran'[k] <= 1
      /\ pc' = "raised" => strict'
  BY <1>1 DEF Ordered
<1> QED BY <1>1, <1>4, <1>6, <1>7, <1>8, <1>9 DEF Ordered

\* A step without an arrival, after which ready is shorter or the same.
LEMMA QuietOrdered ==
  ASSUME AutogradInv, Running, Countable, Ordered, RunStep, AutogradTypeOK',
         ran' = ran, received' = received, nodeGrad' = nodeGrad,
         ready' = ready \/ (ready # << >> /\ ready' = Tail(ready)),
         pc' = "edges" => pc = "edges" /\ cur' = cur /\ at' = at + 1,
         pc' # "raised"
  PROVE  Ordered'
<1>1. /\ graph' = graph /\ visited' = visited /\ outputs' = outputs /\ inputs' = inputs
      /\ at \in Nat /\ at' \in Nat
  BY RunStepKeeps DEF AutogradInv, AutogradTypeOK, inputs
<1>2. /\ \A k : Users(k)' = Users(k)
      /\ \A k : UsedTwice(k)' <=> UsedTwice(k)
  BY <1>1, SameGraph
<1>3. \A k, m : Sent(m, k) => Sent(m, k)'
  <2>1. SUFFICES ASSUME NEW k, NEW m, Sent(m, k) PROVE Sent(m, k)'
    OBVIOUS
  <2>2. ran[m] > 0 /\ (pc = "edges" /\ cur = m
                   => \E i \in DOMAIN inputs[m] : i < at /\ inputs[m][i] = k)
    BY <2>1 DEF Sent
  <2>3. SUFFICES ASSUME pc' = "edges", cur' = m
                 PROVE  \E i \in DOMAIN inputs[m] : i < at' /\ inputs[m][i] = k
    BY <2>2, <1>1 DEF Sent
  <2>4. PICK i \in DOMAIN inputs[m] : i < at /\ inputs[m][i] = k
    BY <2>2, <2>3
  <2>5. i \in Nat
    <3>1. cur \in Nodes /\ inputs[cur] \in Seq(Tensors)
      BY GraphTypes DEF AutogradInv, AutogradTypeOK
    <3>2. cur = m
      BY <2>3
    <3> HIDE DEF inputs
    <3> QED BY <3>1, <3>2, <2>4
  <2>6. i < at'
    <3>1. at' = at + 1
      BY <2>3
    <3> QED BY <3>1, <2>4, <2>5, <1>1
  <2> QED BY <2>4, <2>6
<1>4. \A k \in visited : UsedTwice(k)' \/ Users(k)' = {}
                           \/ received'[k] <= Cardinality(Senders(k)')
  <2>1. ASSUME NEW k \in visited, ~UsedTwice(k), Users(k) # {}
        PROVE  received'[k] <= Cardinality(Senders(k)')
    BY <2>1, <1>2, <1>3, AccountKept
  <2> QED BY <2>1, <1>2
<1>5. (\A i \in 1 .. Len(ready) : UsersRan(ready[i]))'
  <2>1. \A i \in 1 .. Len(ready') : UsersRan(ready[i])' <=> UsersRan(ready'[i])
    BY <1>2 DEF UsersRan
  <2>2. ASSUME NEW i \in 1 .. Len(ready') PROVE UsersRan(ready'[i])
    <3>1. \A j \in 1 .. Len(ready) : UsersRan(ready[j])
      BY DEF Ordered
    <3>2. ready \in Seq(Nodes)
      BY DEF AutogradInv, AutogradTypeOK
    <3>3. CASE ready' = ready
      BY <3>1, <3>3, <2>2
    <3>4. CASE ready # << >> /\ ready' = Tail(ready)
      <4>1. i + 1 \in 1 .. Len(ready) /\ ready'[i] = ready[i + 1]
        BY <3>2, <3>4, <2>2
      <4> QED BY <4>1, <3>1
    <3> QED BY <3>3, <3>4
  <2> QED BY <2>1, <2>2
<1>6. \A k \in Nodes : ran'[k] > 0 => UsersDone(k)'
  BY <1>2 DEF UsersDone, Ordered
<1> QED BY <1>1, <1>4, <1>5, <1>6 DEF Ordered

\* A node is taken from ready, to be run or to fail.
LEMMA PopOrdered ==
  ASSUME AutogradInv, Running, Countable, Ordered, RunNode \/ Raise, AutogradTypeOK'
  PROVE  Ordered'
<1>1. /\ graph' = graph /\ visited' = visited /\ outputs' = outputs /\ strict' = strict
      /\ retain' = retain
  BY RunStepKeeps DEF RunStep
<1>2. /\ \A k : Users(k)' = Users(k)
      /\ \A k : UsedTwice(k)' <=> UsedTwice(k)
  BY <1>1, SameGraph
<1>3. ready \in Seq(Nodes) /\ ran \in [Nodes -> Nat] /\ nodeGrad \in [Nodes -> Nat]
  BY DEF AutogradInv, AutogradTypeOK
<1>4. /\ ready # << >> /\ ready' = Tail(ready) /\ pc = "run" /\ pc' \in {"edges", "raised"}
      /\ nodeGrad[Head(ready)] # 0 /\ received' = received
  BY DEF RunNode, Raise, Pop
<1>5. PICK n \in Nodes : n = Head(ready) /\ n = ready[1]
  BY <1>3, <1>4
<1>6. /\ nodeGrad' = [nodeGrad EXCEPT ![n] = 0] /\ ran' = [ran EXCEPT ![n] = @ + 1]
      /\ cur' = n /\ at' = 1
  BY <1>5 DEF RunNode, Raise, Pop
<1>7. ran[n] = 0 /\ UsersRan(n)
  BY <1>3, <1>4, <1>5 DEF Ordered
<1>8. ran'[n] = 1 /\ \A k \in Nodes \ {n} : ran'[k] = ran[k]
  BY <1>3, <1>6, <1>7
<1>9. /\ \A k \in Nodes : ran'[k] <= 1
      /\ \A k \in Nodes : nodeGrad'[k] # 0 => ran'[k] = 0
  BY <1>3, <1>6, <1>8 DEF Ordered
<1>10. \A k \in Nodes : ran'[k] > 0 => n \notin Users(k)
  <2>1. ASSUME NEW k \in Nodes, k # n, ran[k] > 0 PROVE n \notin Users(k)
    BY <2>1, <1>7 DEF Ordered, UsersDone
  <2>2. n \notin Users(n)
    BY <1>7 DEF UsersRan
  <2> QED BY <2>1, <2>2, <1>8
<1>11. \A k \in Nodes : Users(k) \subseteq Nodes
  BY DEF Users, AutogradInv, AutogradTypeOK
<1>12. \A k \in Nodes : ran'[k] > 0 => UsersDone(k)'
  <2>1. ASSUME NEW k \in Nodes, ran'[k] > 0, NEW m \in Users(k)
        PROVE  ran'[m] > 0 /\ cur' # m
    <3>1. m # n /\ m \in Nodes
      BY <2>1, <1>10, <1>11
    <3>2. ran[m] > 0
      <4>1. CASE k = n
        BY <4>1, <1>7, <2>1 DEF UsersRan
      <4>2. CASE k # n
        BY <4>2, <1>8, <2>1 DEF Ordered, UsersDone
      <4> QED BY <4>1, <4>2
    <3> QED BY <3>1, <3>2, <1>6, <1>8
  <2> QED BY <2>1, <1>2 DEF UsersDone
<1>13. (\A i \in 1 .. Len(ready) : UsersRan(ready[i]))'
  <2>1. ASSUME NEW i \in 1 .. Len(ready') PROVE UsersRan(ready[i])'
    <3>1. i + 1 \in 1 .. Len(ready) /\ ready'[i] = ready[i + 1]
      BY <1>3, <1>4, <2>1
    <3>2. UsersRan(ready[i + 1]) /\ ready[i + 1] \in Nodes
      BY <3>1, <1>3 DEF Ordered
    <3>3. \A m \in Users(ready[i + 1]) : ran'[m] > 0
      BY <3>2, <1>8, <1>11 DEF UsersRan
    <3> QED BY <3>1, <3>3, <1>2 DEF UsersRan
  <2> QED BY <2>1
<1>14. ASSUME NEW k \in visited, NEW m \in Users(k), Sent(m, k) PROVE Sent(m, k)'
  <2>1. m # n /\ m \in Nodes
    BY <1>7, <1>11, <1>14 DEF Sent, AutogradInv, AutogradTypeOK
  <2> QED BY <2>1, <1>6, <1>8, <1>14 DEF Sent
<1>15. \A k \in visited : UsedTwice(k)' \/ Users(k)' = {}
                           \/ received'[k] <= Cardinality(Senders(k)')
  <2>1. ASSUME NEW k \in visited, ~UsedTwice(k), Users(k) # {}
        PROVE  received'[k] <= Cardinality(Senders(k)')
    BY <2>1, <1>2, <1>4, <1>14, AccountKept
  <2> QED BY <2>1, <1>2
<1>16. pc' = "raised" => strict'
  <2>1. ASSUME pc' = "raised" PROVE n \in released
    BY <2>1, <1>5 DEF RunNode, Raise
  <2> QED BY <2>1, <1>1, <1>7 DEF AutogradInv, Strict
<1> QED BY <1>1, <1>9, <1>12, <1>13, <1>15, <1>16 DEF Ordered

LEMMA RootOrdered ==
  ASSUME AutogradInv, Countable, Ordered, Root, AutogradTypeOK'
  PROVE  Ordered'
<1>1. RunStep /\ Running /\ pc = "roots" /\ pc' = pc /\ ran' = ran /\ cur' = cur
  BY DEF RunStep, Running, Root
<1>2. at \in DOMAIN outputs /\ outputs \in Seq(Tensors)
  BY DEF Root, AutogradInv, AutogradTypeOK
<1>3. CASE outputs[at] \in Leaves
  <2>1. received' = received /\ nodeGrad' = nodeGrad /\ ready' = ready
    BY <1>3 DEF Root
  <2> QED BY <1>1, <2>1, QuietOrdered
<1>4. CASE outputs[at] \notin Leaves
  <2>1. PICK n \in Nodes : n = outputs[at]
    BY <1>2, <1>4 DEF Tensors
  <2>2. n \in visited /\ Users(n) = {}
    BY <1>1, <1>2, <2>1 DEF Countable, AutogradInv, Closed, GradFns
  <2>3. NodeArrival(n, 1)
    BY <1>4, <2>1 DEF Root
  <2>4. ran[n] = 0
    BY <1>1 DEF AutogradInv, Fresh, NoCount
  <2>5. ~UsedTwice(n)
    <3>1. SUFFICES ASSUME NEW m \in visited, UsesTwice(m, n) PROVE FALSE
      BY DEF UsedTwice
    <3> QED BY <3>1, <2>2 DEF Countable
  <2>6. \A k \in visited : \A m \in Users(k) : Sent(m, k) => Sent(m, k)'
    BY <1>1 DEF Sent
  <2> QED BY <1>1, <2>2, <2>3, <2>4, <2>5, <2>6, ArrivalOrdered
<1> QED BY <1>3, <1>4

LEMMA EdgeOrdered ==
  ASSUME AutogradInv, Countable, Ordered, Edge, AutogradTypeOK'
  PROVE  Ordered'
<1>1. /\ RunStep /\ Running /\ pc = "edges" /\ pc' = pc /\ ran' = ran /\ cur' = cur
      /\ at' = at + 1
  BY DEF RunStep, Running, Edge
<1>2. /\ at \in DOMAIN inputs[cur] /\ inputs[cur] \in Seq(Tensors) /\ cur \in Nodes
      /\ cur \in visited /\ ran[cur] > 0
  BY <1>1, GraphTypes DEF Edge, AutogradInv, AutogradTypeOK, Closed
<1>3. CASE inputs[cur][at] \notin Nodes
  <2>1. received' = received /\ nodeGrad' = nodeGrad /\ ready' = ready
    BY <1>3 DEF Edge
  <2> QED BY <1>1, <2>1, QuietOrdered
<1>4. CASE inputs[cur][at] \in Nodes
  <2>1. PICK n \in Nodes : n = inputs[cur][at]
    BY <1>4
  <2>2. n \in visited /\ cur \in Users(n)
    <3>1. n \in Pushed(cur)
      BY <1>2, <2>1 DEF Pushed, GradFns
    <3> QED BY <3>1, <1>1, <1>2 DEF Users, Pushed, AutogradInv, Closed
  <2>3. NodeArrival(n, g) /\ g \in Nat
    BY <2>1 DEF Edge, AutogradInv, AutogradTypeOK
  <2>4. ran[n] = 0
    <3>1. ~UsersDone(n)
      BY <1>1, <2>2 DEF UsersDone
    <3>2. ran[n] \in Nat
      BY DEF AutogradInv, AutogradTypeOK
    <3> QED BY <3>1, <3>2 DEF Ordered
  <2>5. graph' = graph /\ visited' = visited /\ outputs' = outputs /\ inputs' = inputs
    BY <1>1, RunStepKeeps DEF inputs
  <2>6. DOMAIN inputs[cur] \subseteq Nat /\ at \in Nat
    <3> HIDE DEF inputs
    <3> QED BY <1>2
  <2>7. \A k \in visited : \A m \in Users(k) : Sent(m, k) => Sent(m, k)'
    <3>1. SUFFICES ASSUME NEW k \in visited, NEW m \in Users(k), Sent(m, k), m = cur
                   PROVE  \E i \in DOMAIN inputs[m] : i < at' /\ inputs[m][i] = k
      BY <1>1, <2>5 DEF Sent
    <3>2. PICK i \in DOMAIN inputs[m] : i < at /\ inputs[m][i] = k
      BY <3>1, <1>1 DEF Sent
    <3>3. i < at'
      BY <3>1, <3>2, <2>6, <1>1
    <3> QED BY <3>2, <3>3
  <2>8. ASSUME ~UsedTwice(n) PROVE received'[n] <= Cardinality(Senders(n)')
    <3>1. received'[n] = received[n] + 1 /\ received[n] \in Nat
      BY <2>3 DEF NodeArrival, AutogradInv, AutogradTypeOK
    <3>2. received[n] <= Cardinality(Senders(n))
      BY <2>2, <2>8 DEF Ordered
    <3>3. ~Sent(cur, n)
      <4>1. \A i \in DOMAIN inputs[cur] : i < at => inputs[cur][i] # n
        <5>1. SUFFICES ASSUME NEW i \in DOMAIN inputs[cur], i < at, inputs[cur][i] = n
                       PROVE  FALSE
          OBVIOUS
        <5>2. i # at
          BY <5>1, <2>6
        <5>3. UsesTwice(cur, n)
          BY <5>1, <5>2, <1>2, <2>1 DEF UsesTwice
        <5> QED BY <5>3, <2>8, <1>2 DEF UsedTwice
      <4> QED BY <4>1, <1>1 DEF Sent
    <3>4. Users(n)' = Users(n)
      BY <2>5, SameGraph
    <3>5. Senders(n) \cup {cur} \subseteq Senders(n)'
      <4>1. ASSUME NEW m, m = cur PROVE Sent(m, n)'
        <5>1. at < at'
          BY <1>1, <2>6
        <5>2. \E i \in DOMAIN inputs[m] : i < at' /\ inputs[m][i] = n
          BY <5>1, <4>1, <1>2, <2>1
        <5> QED BY <5>2, <4>1, <1>1, <1>2, <2>5 DEF Sent
      <4>2. \A m \in Users(n) : Sent(m, n) => Sent(m, n)'
        BY <2>2, <2>7
      <4>3. Senders(n)' = {m \in Users(n) : Sent(m, n)'}
        BY <3>4 DEF Senders
      <4>4. cur \in Senders(n)'
        BY <4>1, <4>3, <2>2
      <4>5. Senders(n) \subseteq Senders(n)'
        BY <4>2, <4>3 DEF Senders
      <4> QED BY <4>4, <4>5
    <3>6. IsFiniteSet(Senders(n)) /\ IsFiniteSet(Senders(n)')
      <4>1. IsFiniteSet(Users(n))
        BY FiniteUsers DEF AutogradInv
      <4> QED BY <4>1, <3>4, FS_Subset DEF Senders
    <3>7. cur \notin Senders(n)
      BY <3>3 DEF Senders
    <3>8. Cardinality(Senders(n) \cup {cur}) = Cardinality(Senders(n)) + 1
      BY <3>6, <3>7, FS_AddElement
    <3>9. Cardinality(Senders(n) \cup {cur}) <= Cardinality(Senders(n)')
      BY <3>5, <3>6, FS_Subset
    <3>10. Cardinality(Senders(n)) \in Nat /\ Cardinality(Senders(n)') \in Nat
      BY <3>6, FS_CardinalityType
    <3> QED BY <3>1, <3>2, <3>8, <3>9, <3>10
  <2>9. UsedTwice(n) => \E m \in Users(n) : ran[m] > 0
    BY <1>2, <2>2
  <2> QED BY <1>1, <2>2, <2>3, <2>4, <2>7, <2>8, <2>9, ArrivalOrdered
<1> QED BY <1>3, <1>4

LEMMA OrderedStep ==
  AutogradInv /\ [AutogradNext]_autogradVars /\ AutogradTypeOK'
    => (Running /\ Countable => Ordered)'
<1> SUFFICES ASSUME AutogradInv, [AutogradNext]_autogradVars, AutogradTypeOK',
                    Running', Countable'
             PROVE  Ordered'
  OBVIOUS
<1>1. CASE UNCHANGED autogradVars
  <2>1. /\ graph' = graph /\ visited' = visited /\ outputs' = outputs /\ pc' = pc
        /\ ran' = ran /\ nodeGrad' = nodeGrad /\ received' = received /\ ready' = ready
        /\ cur' = cur /\ at' = at /\ strict' = strict /\ inputs' = inputs
    BY <1>1 DEF autogradVars, argVars, taskVars, inputs
  <2>2. Countable /\ Running /\ Ordered
    BY <2>1, SameGraph DEF Running, AutogradInv
  <2>3. /\ \A k : Users(k)' = Users(k) /\ Senders(k)' = Senders(k)
        /\ \A k : UsedTwice(k)' <=> UsedTwice(k)
    BY <2>1, SameGraph DEF Senders, Sent
  <2>4. \A k : (UsersRan(k)' <=> UsersRan(k)) /\ (UsersDone(k)' <=> UsersDone(k))
    BY <2>1, <2>3 DEF UsersRan, UsersDone
  <2>5. (\A i \in 1 .. Len(ready) : UsersRan(ready[i]))'
    BY <2>1, <2>2, <2>3 DEF UsersRan, Ordered
  <2> QED BY <2>1, <2>2, <2>3, <2>4, <2>5 DEF Ordered
<1>2. CASE CountUsers
  <2>1. /\ pc' = "roots" /\ ran' = NoCount /\ nodeGrad' = NoCount /\ received' = NoCount
        /\ ready' = << >> /\ visited' \subseteq Nodes
    BY <1>2 DEF CountUsers, AutogradInv, Fresh, AutogradTypeOK
  <2>2. ASSUME NEW k \in visited' PROVE received'[k] <= Cardinality(Senders(k)')
    <3>1. IsFiniteSet(visited') /\ Senders(k)' \subseteq visited'
      BY AutogradAssumption, FS_Subset, <2>1 DEF Senders, Users
    <3>2. Cardinality(Senders(k)') \in Nat
      BY <3>1, FS_Subset, FS_CardinalityType
    <3> QED BY <2>1, <2>2, <3>2 DEF NoCount
  <2> QED BY <2>1, <2>2 DEF Ordered, NoCount
<1>3. CASE RunStep
  <2>1. Running /\ Countable /\ Ordered
    BY <1>3, RunStepKeeps, SameGraph DEF AutogradInv
  <2>2. CASE RootsDone \/ Skip \/ SilentEdge \/ NodeDone \/ RunDone
    <3>1. /\ ran' = ran /\ received' = received /\ nodeGrad' = nodeGrad
          /\ ready' = ready \/ (ready # << >> /\ ready' = Tail(ready))
          /\ pc' = "edges" => pc = "edges" /\ cur' = cur /\ at' = at + 1
          /\ pc' # "raised"
      BY <2>2 DEF RootsDone, Skip, SilentEdge, NodeDone, RunDone, taskVars
    <3> QED BY <3>1, <2>1, <1>3, QuietOrdered
  <2> QED
    BY <2>1, <2>2, <1>3, RootOrdered, EdgeOrdered, PopOrdered DEF RunStep
<1>4. ASSUME NEW outs \in Outputs, NEW keep \in BOOLEAN, NEW acc \in BOOLEAN,
             Call(outs, keep, acc)
      PROVE  FALSE
  BY <1>4 DEF Call, Running
<1>5. CASE Visit \/ Return
  BY <1>5 DEF Visit, Return, Running
<1> QED
  BY <1>1, <1>2, <1>3, <1>4, <1>5 DEF AutogradNext, Backward, RunStep, Stop

-----------------------------------------------------------------------------
(* The order of a run                                                      *)

\* The account of gradients and what follows from it hold in every state.
THEOREM AutogradInvariance == AutogradSpec => []AutogradInv
<1>1. AutogradInv /\ [AutogradNext]_autogradVars => AutogradInv'
  BY StepTypes, FreshStep, ClosedStep, StrictStep, OrderedStep DEF AutogradInv
<1> QED BY InitInv, <1>1, PTL DEF AutogradSpec

\* run gives no node a second turn: _GraphTask.ready may hold a node twice, but
\* once it ran no user is left that could send it another gradient.
THEOREM NodesRunOnce == AutogradSpec => []RunsOnce
<1>1. AutogradInv => RunsOnce
  BY DEF AutogradInv, RunsOnce, Ordered
<1> QED BY <1>1, AutogradInvariance, PTL

\* The count of users in _build_dependencies orders the nodes topologically.
THEOREM NodesAfterUsers == AutogradSpec => []AfterUsers
<1>1. AutogradInv => AfterUsers
  BY DEF AutogradInv, AfterUsers, Ordered, UsersDone
<1> QED BY <1>1, AutogradInvariance, PTL

\* SavedTensor.materialize refuses only the graphs that were not retained.
THEOREM RaisesOnlyAfterRelease == AutogradSpec => []RaisesAfterRelease
<1>1. AutogradInv => RaisesAfterRelease
  BY DEF AutogradInv, RaisesAfterRelease, Ordered, Running
<1> QED BY <1>1, AutogradInvariance, PTL

\* nodes below the outputs each of which is used by another of them, or by itself
Loop(S) == S \subseteq visited /\ \A n \in S : Users(n) \cap S # {}

\* Where the count of users is right, the nodes of a cycle are never run: each
\* waits for one of the others, or for itself as after an operation in place,
\* whose node has the tensor it is put into as its input.
CycleWaits == Running /\ Countable => \A S : Loop(S) => \A n \in S : ran[n] = 0

LEMMA CycleStep == AutogradInv /\ CycleWaits /\ [AutogradNext]_autogradVars => CycleWaits'
<1> SUFFICES ASSUME AutogradInv, CycleWaits, [AutogradNext]_autogradVars,
                    Running', Countable', NEW S, Loop(S)', NEW n \in S
             PROVE  ran'[n] = 0
  BY DEF CycleWaits
<1>0. n \in Nodes
  <2>1. AutogradTypeOK'
    BY StepTypes DEF AutogradInv
  <2> QED BY <2>1 DEF Loop, AutogradTypeOK
<1>1. ASSUME graph' = graph, visited' = visited, outputs' = outputs
      PROVE  /\ Countable /\ Loop(S)
             /\ \A k : Users(k)' = Users(k)
  BY <1>1 DEF Countable, Loop, Users, UsesTwice, GradFns, inputs
<1>2. ASSUME graph' = graph, visited' = visited, outputs' = outputs, ran' = ran, Running
      PROVE  ran'[n] = 0
  BY <1>1, <1>2 DEF CycleWaits
<1>3. CASE CountUsers
  BY <1>0, <1>3 DEF CountUsers, AutogradInv, Fresh, NoCount
<1>4. CASE RunNode \/ Raise
  <2>1. /\ graph' = graph /\ visited' = visited /\ outputs' = outputs /\ Running
        /\ ready # << >> /\ ran' = [ran EXCEPT ![Head(ready)] = @ + 1]
    BY <1>4 DEF RunNode, Raise, Pop, argVars, Running
  <2>2. Countable /\ Loop(S) /\ Ordered
    BY <1>1, <2>1 DEF AutogradInv
  <2>3. ran \in [Nodes -> Nat] /\ ready \in Seq(Nodes)
    BY DEF AutogradInv, AutogradTypeOK
  <2>4. Head(ready) \in Nodes /\ UsersRan(Head(ready))
    BY <2>1, <2>2, <2>3 DEF Ordered
  <2>5. ran[n] = 0 /\ \A m \in S : ran[m] = 0
    BY <2>1, <2>2 DEF CycleWaits
  <2>6. Head(ready) \notin S
    BY <2>2, <2>4, <2>5 DEF Loop, UsersRan
  <2> QED BY <1>0, <2>1, <2>3, <2>4, <2>5, <2>6
<1>5. CASE UNCHANGED autogradVars
  BY <1>2, <1>5 DEF autogradVars, argVars, Running
<1>6. CASE Root \/ RootsDone \/ Skip \/ SilentEdge \/ Edge \/ NodeDone \/ RunDone
  BY <1>2, <1>6 DEF Root, RootsDone, Skip, SilentEdge, Edge, NodeDone, RunDone,
                    argVars, Running
<1>7. ASSUME NEW outs \in Outputs, NEW keep \in BOOLEAN, NEW acc \in BOOLEAN,
             Call(outs, keep, acc)
      PROVE  FALSE
  BY <1>7 DEF Call, Running
<1>8. CASE Visit
  BY <1>8 DEF Visit, Running
<1>9. CASE Return
  BY <1>9 DEF Return, Running
<1>10. CASE Stop
  BY <1>5, <1>10 DEF Stop
<1> QED BY <1>3, <1>4, <1>5, <1>6, <1>7, <1>8, <1>9, <1>10 DEF AutogradNext, Backward

\* A cycle stalls: a call runs no node of it, however often it is made.
THEOREM CyclesStall == AutogradSpec => []CycleWaits
<1>1. AutogradInit => CycleWaits
  BY DEF AutogradInit, CycleWaits, Running
<1> QED BY <1>1, CycleStep, AutogradInvariance, PTL DEF AutogradSpec

-----------------------------------------------------------------------------
(* Sums over edges                                                         *)

\* f[n] on each edge of n
Carry(f) == [e \in Nodes \X Nat |-> f[e[1]]]

LEMMA EdgeTo ==
  ASSUME graph \in Graphs, NEW t, NEW e \in EdgesTo(t)
  PROVE  /\ e \in Nodes \X Nat /\ e[1] \in Nodes /\ e[2] \in Nat /\ e[2] >= 1
         /\ e[2] \in DOMAIN inputs[e[1]] /\ inputs[e[1]][e[2]] = t
         /\ e \notin graph.silent /\ e = <<e[1], e[2]>>
         /\ t \in Nodes => t \in GradFns(inputs[e[1]])
<1>0. PICK m \in Nodes : \E i \in DOMAIN inputs[m] :
        e = <<m, i>> /\ inputs[m][i] = t /\ <<m, i>> \notin graph.silent
  BY DEF EdgesTo
<1>1. PICK i \in DOMAIN inputs[m] :
        e = <<m, i>> /\ inputs[m][i] = t /\ <<m, i>> \notin graph.silent
  BY <1>0
<1>2. inputs[m] \in Seq(Tensors)
  BY GraphTypes
<1>3. i \in Nat /\ i >= 1
  <2> HIDE DEF inputs
  <2> QED BY <1>1, <1>2
<1>4. e[1] = m /\ e[2] = i
  BY <1>1
<1> QED BY <1>1, <1>3, <1>4 DEF GradFns

LEMMA ToEdge ==
  ASSUME NEW t, NEW m \in Nodes, NEW i \in DOMAIN inputs[m], inputs[m][i] = t,
         <<m, i>> \notin graph.silent
  PROVE  <<m, i>> \in EdgesTo(t)
BY DEF EdgesTo

LEMMA EdgesFinite ==
  ASSUME graph \in Graphs, NEW t
  PROVE  IsFiniteSet(EdgesTo(t))
<1> DEFINE Into(m) == {<<m, i>> : i \in {j \in DOMAIN inputs[m] :
                         inputs[m][j] = t /\ <<m, j>> \notin graph.silent}}
           A == {Into(m) : m \in Nodes}
<1>1. ASSUME NEW m \in Nodes PROVE IsFiniteSet(Into(m))
  <2> DEFINE I == {j \in DOMAIN inputs[m] : inputs[m][j] = t /\ <<m, j>> \notin graph.silent}
             f == [i \in I |-> <<m, i>>]
  <2>1. inputs[m] \in Seq(Tensors)
    BY GraphTypes
  <2>2. DOMAIN inputs[m] = 1 .. Len(inputs[m]) /\ Len(inputs[m]) \in Nat
    <3> HIDE DEF inputs
    <3> QED BY <2>1
  <2>3. IsFiniteSet(DOMAIN inputs[m])
    BY <2>2, FS_Interval
  <2>4. IsFiniteSet(I)
    BY <2>3, FS_Subset
  <2>5. f \in Surjection(I, Into(m))
    BY DEF Surjection
  <2> HIDE DEF f, I, Into
  <2> QED BY <2>4, <2>5, FS_Surjection
<1> DEFINE h == [m \in Nodes |-> Into(m)]
<1>2. h \in Surjection(Nodes, A)
  <2> HIDE DEF Into
  <2> QED BY DEF Surjection
<1>3. IsFiniteSet(A)
  <2> HIDE DEF h, A
  <2> QED BY <1>2, AutogradAssumption, FS_Surjection
<1>4. \A T \in A : IsFiniteSet(T)
  <2> HIDE DEF Into
  <2> QED BY <1>1
<1>5. EdgesTo(t) = UNION A
  BY DEF EdgesTo
<1> HIDE DEF A
<1> QED BY <1>3, <1>4, <1>5, FS_UNION

\* Arriving is a sum over the edges.
LEMMA ArrivingTotal ==
  ASSUME graph \in Graphs, NEW t, NEW f, NEW w, \A e \in EdgesTo(t) : w[e] = f[e[1]]
  PROVE  Arriving(f, t) = Total(w, EdgesTo(t))
<1> DEFINE S == EdgesTo(t)
           Is(F) == F = [s \in SUBSET S |-> IF s = {} THEN 0
                          ELSE f[(CHOOSE x \in s : TRUE)[1]] + F[s \ {CHOOSE x \in s : TRUE}]]
<1>1. Arriving(f, t) = (CHOOSE F : Is(F))[S]
  BY DEF Arriving, MapThenSumSet, MapThenFoldSet
<1>2. ASSUME NEW F PROVE Is(F) <=> Adds(F, w, S)
  <2>1. \A s \in SUBSET S : s # {} => f[(CHOOSE x \in s : TRUE)[1]] = w[Member(s)]
    <3> HIDE DEF S
    <3> SUFFICES ASSUME NEW s \in SUBSET S, s # {} PROVE f[Member(s)[1]] = w[Member(s)]
      BY DEF Member
    <3>1. Member(s) \in S
      BY MemberIn
    <3> QED BY <3>1 DEF S
  <2>2. [s \in SUBSET S |-> IF s = {} THEN 0
            ELSE f[(CHOOSE x \in s : TRUE)[1]] + F[s \ {CHOOSE x \in s : TRUE}]]
        = [s \in SUBSET S |-> IF s = {} THEN 0 ELSE w[Member(s)] + F[Without(s)]]
    <3> HIDE DEF S
    <3> QED BY <2>1 DEF Member, Without
  <2> HIDE DEF S
  <2> QED BY <2>2 DEF Adds
<1>3. IsFiniteSet(S)
  BY EdgesFinite
<1> HIDE DEF Is, S
<1>4. Adds(CHOOSE F : Is(F), w, S)
  <2>1. PICK F : Adds(F, w, S)
    BY <1>3, AddsExists
  <2> QED BY <1>2, <2>1
<1>5. S \in SUBSET S
  OBVIOUS
<1>6. (CHOOSE F : Is(F))[S] = Total(w, S)
  BY ONLY <1>3, <1>4, <1>5, TotalAt
<1> QED BY <1>1, <1>6 DEF S

-----------------------------------------------------------------------------
(* The reference                                                           *)

\* f solves the equation of Paths
Solves(f, outs) ==
  /\ f \in [Nodes -> Nat]
  /\ \A n \in Nodes : f[n] = TimesIn(outs, n) + Total(Carry(f), EdgesTo(n))

OwedBy(f, outs) ==
  [t \in Tensors |->
     (IF t \in Leaves THEN TimesIn(outs, t) ELSE 0) + Total(Carry(f), EdgesTo(t))]

LEMMA CarryAt ==
  ASSUME graph \in Graphs, NEW f, NEW t
  PROVE  \A e \in EdgesTo(t) : Carry(f)[e] = f[e[1]]
BY EdgeTo DEF Carry

\* An acyclic graph has one solution.
LEMMA PathsAre ==
  ASSUME graph \in Graphs, Acyclic, NEW outs, NEW f, Solves(f, outs)
  PROVE  Paths(outs) = f
<1> DEFINE P(p) == p = [n \in Nodes |-> TimesIn(outs, n) + Arriving(p, n)]
<1>1. Paths(outs) = CHOOSE p : P(p)
  BY DEF Paths
<1>2. \A n \in Nodes : Arriving(f, n) = Total(Carry(f), EdgesTo(n))
  BY CarryAt, ArrivingTotal
<1>3. P(f)
  <2>1. f \in [Nodes -> Nat]
    BY DEF Solves
  <2>2. \A n \in Nodes : f[n] = TimesIn(outs, n) + Arriving(f, n)
    BY <1>2 DEF Solves
  <2> QED BY <2>1, <2>2
<1>4. ASSUME NEW p, P(p) PROVE p = f
  <2> DEFINE D == {n \in Nodes : p[n] # f[n]}
  <2>1. \A n \in Nodes : p[n] = TimesIn(outs, n) + Arriving(p, n)
    BY <1>4
  <2>2. p = [n \in Nodes |-> p[n]] /\ f = [n \in Nodes |-> f[n]]
    <3>1. DOMAIN p = Nodes
      BY <1>4
    <3> DEFINE q == [n \in Nodes |-> TimesIn(outs, n) + Arriving(p, n)]
    <3>2. q = [n \in Nodes |-> q[n]]
      OBVIOUS
    <3> HIDE DEF q
    <3>3. p = q
      BY <1>4 DEF q
    <3> QED BY <3>2, <3>3 DEF Solves
  <2>3. D = {}
    <3> SUFFICES ASSUME D # {} PROVE FALSE
      OBVIOUS
    <3>1. PICK n \in D : \A m \in D : n \notin GradFns(inputs[m])
      <4>1. D \in SUBSET Nodes
        OBVIOUS
      <4> HIDE DEF D
      <4> QED BY <4>1 DEF Acyclic
    <3>2. \A e \in EdgesTo(n) : Carry(f)[e] = p[e[1]]
      <4> SUFFICES ASSUME NEW e \in EdgesTo(n) PROVE Carry(f)[e] = p[e[1]]
        OBVIOUS
      <4>1. e[1] \in Nodes /\ n \in GradFns(inputs[e[1]])
        BY EdgeTo, <3>1
      <4>2. e[1] \notin D
        BY <3>1, <4>1
      <4> QED BY <4>1, <4>2, CarryAt
    <3>3. Arriving(p, n) = Total(Carry(f), EdgesTo(n))
      BY <3>2, ArrivingTotal
    <3> QED BY <3>1, <3>3, <2>1 DEF Solves
  <2> QED BY <2>2, <2>3
<1> HIDE DEF P
<1> QED BY <1>1, <1>3, <1>4

LEMMA OwedAre ==
  ASSUME graph \in Graphs, Acyclic, NEW outs, NEW f, Solves(f, outs)
  PROVE  Owed(outs) = OwedBy(f, outs)
<1>1. Paths(outs) = f
  BY PathsAre
<1>2. \A t \in Tensors : Arriving(f, t) = Total(Carry(f), EdgesTo(t))
  BY CarryAt, ArrivingTotal
<1> QED BY <1>1, <1>2 DEF Owed, OwedBy

-----------------------------------------------------------------------------
(* The invariant of the account                                            *)

\* the places at which the account of a task is kept
Live == pc \in {"roots", "run", "edges", "done"}

\* the positions in outputs from which t has had its gradient
Fed(t) == {k \in DOMAIN outputs : outputs[k] = t /\ (pc = "roots" => k < at)}

\* What went along each edge when d[n] is the gradient that n has been run
\* with, in all its runs together.
Flow(d) == [e \in Nodes \X Nat |->
              IF pc = "edges" /\ e[1] = cur /\ e[2] >= at THEN d[e[1]] - g ELSE d[e[1]]]
Along(d, t) == Total(Flow(d), EdgesTo(t))

ToNode(d, n) == Cardinality(Fed(n)) + Along(d, n)
ToTensor(d, t) == (IF t \in Leaves THEN Cardinality(Fed(t)) ELSE 0) + Along(d, t)

RunWith(d) ==
  /\ d \in [Nodes -> Nat]
  /\ \A n \in Nodes : d[n] > 0 <=> ran[n] > 0
  /\ pc = "edges" => g > 0 /\ g <= d[cur]

\* What arrived at a node it has been run with, or still holds.
NodesPaid(d) == \A n \in Nodes : d[n] + nodeGrad[n] = ToNode(d, n)

TensorsPaid(d) ==
  IF accumulate
  THEN \A t \in Leaves \cup Retained : grad[t] = before[t] + ToTensor(d, t)
  ELSE \A t \in Tensors : gradsMap[t] = ToTensor(d, t)

Passed(d) == RunWith(d) /\ NodesPaid(d) /\ TensorsPaid(d)

Account == Live => \E d : Passed(d)

\* A gradient that its node can be run with is in ready.
InReady(n) == \E i \in 1 .. Len(ready) : ready[i] = n
Queued == \A n \in Nodes : nodeGrad[n] # 0 /\ received[n] >= deps[n] => InReady(n)

\* Each user that sent a gradient has been counted.
Heard == Live /\ Quiet => \A n \in Nodes : Cardinality(Senders(n)) <= received[n]

\* Only what is below the outputs is visited.
Needed(n) == n \in GradFns(outputs) \/ \E m \in visited : n \in Pushed(m)
Reached == pc # "idle" => \A n \in visited \cup stack : Needed(n)

Start ==
  /\ pc \in {"idle", "build"} => at = 1 /\ gradsMap = NoGrad
  /\ pc = "build" => before = grad
  /\ pc = "done" => ready = << >>

\* Whatever solves the equation of the paths is what the call owes.
Owes ==
  pc # "idle" /\ Acyclic => \A f : Solves(f, outputs) => target = OwedBy(f, outputs)

Whole == Account /\ Queued /\ Heard /\ Reached /\ Start /\ Owes

-----------------------------------------------------------------------------

\* What depends on the graph alone.
LEMMA SameEdges ==
  ASSUME graph' = graph
  PROVE  /\ inputs' = inputs
         /\ \A t : EdgesTo(t)' = EdgesTo(t)
         /\ Acyclic' <=> Acyclic
         /\ Quiet' <=> Quiet
         /\ \A f, outs : Solves(f, outs)' <=> Solves(f, outs)
         /\ \A f, outs : OwedBy(f, outs)' = OwedBy(f, outs)
<1>1. inputs' = inputs
  BY DEF inputs
<1>2. \A t : EdgesTo(t)' = EdgesTo(t)
  BY <1>1 DEF EdgesTo
<1>3. \A ts : GradFns(ts)' = GradFns(ts)
  BY DEF GradFns
<1>4. Acyclic' <=> Acyclic
  BY <1>1 DEF Acyclic, GradFns
<1>5. Quiet' <=> Quiet
  BY <1>1 DEF Quiet
<1>6. \A f, outs : Solves(f, outs)' <=> Solves(f, outs)
  BY <1>2 DEF Solves, Carry, TimesIn
<1>7. \A f, outs : OwedBy(f, outs)' = OwedBy(f, outs)
  BY <1>2 DEF OwedBy, Carry, TimesIn
<1> QED BY <1>1, <1>2, <1>4, <1>5, <1>6, <1>7

LEMMA OwesStep == AutogradInv /\ Owes /\ [AutogradNext]_autogradVars => Owes'
<1> SUFFICES ASSUME AutogradInv, Owes, [AutogradNext]_autogradVars PROVE Owes'
  OBVIOUS
<1>1. ASSUME NEW outs \in Outputs, NEW keep \in BOOLEAN, NEW acc \in BOOLEAN,
             Call(outs, keep, acc)
      PROVE  Owes'
  <2>1. graph' = graph /\ outputs' = outs /\ (Acyclic => target' = Owed(outs))
    BY <1>1 DEF Call
  <2>2. graph \in Graphs
    BY DEF AutogradInv, AutogradTypeOK
  <2>3. SUFFICES ASSUME Acyclic, NEW f, Solves(f, outs) PROVE Owed(outs) = OwedBy(f, outs)
    BY <2>1, SameEdges DEF Owes
  <2> QED BY <2>2, <2>3, OwedAre
<1>2. CASE Return
  BY <1>2 DEF Owes, Return
<1>3. CASE UNCHANGED autogradVars \/ Visit \/ CountUsers \/ RunStep
  <2>1. /\ graph' = graph /\ outputs' = outputs /\ target' = target
        /\ pc' = "idle" => pc = "idle"
        /\ pc = "idle" => pc' = "idle"
    BY <1>3 DEF autogradVars, argVars, Visit, CountUsers, RunStep, Root, RootsDone, Skip,
       RunNode, Raise, Pop, SilentEdge, Edge, NodeDone, RunDone
  <2> QED BY <2>1, SameEdges DEF Owes
<1> QED
  BY <1>1, <1>2, <1>3 DEF AutogradNext, Backward, RunStep, Stop

LEMMA StartStep == AutogradInv /\ Start /\ [AutogradNext]_autogradVars => Start'
<1> SUFFICES ASSUME AutogradInv, Start, [AutogradNext]_autogradVars PROVE Start'
  OBVIOUS
<1> USE DEF Start, NoGrad
<1>1. CASE UNCHANGED autogradVars
  BY <1>1 DEF autogradVars, argVars, taskVars
<1>2. ASSUME NEW outs \in Outputs, NEW keep \in BOOLEAN, NEW acc \in BOOLEAN,
             Call(outs, keep, acc)
      PROVE  Start'
  BY <1>2 DEF Call, taskVars
<1>3. CASE Visit
  BY <1>3 DEF Visit, argVars, taskVars
<1>4. CASE CountUsers
  BY <1>4 DEF CountUsers
<1>5. CASE Return
  BY <1>5 DEF Return
<1>6. CASE RunStep
  BY <1>6 DEF RunStep, Root, RootsDone, Skip, RunNode, Raise, SilentEdge, Edge, NodeDone,
              RunDone, Pop, taskVars
<1> QED
  BY <1>1, <1>2, <1>3, <1>4, <1>5, <1>6 DEF AutogradNext, Backward, RunStep, Stop

LEMMA ReachedStep == AutogradInv /\ Reached /\ [AutogradNext]_autogradVars => Reached'
<1> SUFFICES ASSUME AutogradInv, Reached, [AutogradNext]_autogradVars PROVE Reached'
  OBVIOUS
<1>1. ASSUME NEW outs \in Outputs, NEW keep \in BOOLEAN, NEW acc \in BOOLEAN,
             Call(outs, keep, acc)
      PROVE  Reached'
  <2>1. visited' = {} /\ outputs' = outs /\ stack' = GradFns(outs)
    BY <1>1 DEF Call, AutogradInv, Fresh
  <2> QED BY <2>1 DEF Reached, Needed, GradFns
<1>2. CASE Return
  BY <1>2 DEF Reached, Return
<1>3. CASE Visit
  <2>1. PICK n \in stack :
           /\ visited' = visited \cup {n}
           /\ stack' = (stack \ {n}) \cup (IF n \in visited THEN {} ELSE Pushed(n))
    BY <1>3 DEF Visit
  <2>2. pc = "build" /\ graph' = graph /\ outputs' = outputs
    BY <1>3 DEF Visit, argVars
  <2>3. GradFns(outputs)' = GradFns(outputs) /\ \A m : Pushed(m)' = Pushed(m)
    BY <2>2 DEF GradFns, Pushed, inputs
  <2>4. \A k \in visited \cup stack : Needed(k)
    BY <2>2 DEF Reached
  <2>5. \A k : Needed(k) => Needed(k)'
    BY <2>1, <2>3 DEF Needed
  <2>6. \A k \in Pushed(n) : Needed(k)'
    BY <2>1, <2>3 DEF Needed
  <2>7. ASSUME NEW k \in visited' \cup stack' PROVE Needed(k)'
    BY <2>1, <2>4, <2>5, <2>6, <2>7
  <2> QED BY <2>7 DEF Reached
<1>4. CASE UNCHANGED autogradVars \/ CountUsers \/ RunStep
  <2>1. /\ graph' = graph /\ outputs' = outputs /\ visited' = visited /\ stack' = stack
        /\ pc = "idle" => pc' = "idle"
    BY <1>4 DEF autogradVars, argVars, CountUsers, RunStep, Root, RootsDone, Skip,
       RunNode, Raise, Pop, SilentEdge, Edge, NodeDone, RunDone
  <2>2. GradFns(outputs)' = GradFns(outputs) /\ \A m : Pushed(m)' = Pushed(m)
    BY <2>1 DEF GradFns, Pushed, inputs
  <2>3. \A k : Needed(k)' <=> Needed(k)
    BY <2>1, <2>2 DEF Needed
  <2> QED BY <2>1, <2>3 DEF Reached
<1> QED
  BY <1>1, <1>2, <1>3, <1>4 DEF AutogradNext, Backward, RunStep, Stop

LEMMA QueuedStep == AutogradInv /\ Queued /\ [AutogradNext]_autogradVars => Queued'
<1> SUFFICES ASSUME AutogradInv, Queued, [AutogradNext]_autogradVars PROVE Queued'
  OBVIOUS
<1>0. /\ ready \in Seq(Nodes) /\ nodeGrad \in [Nodes -> Nat] /\ received \in [Nodes -> Nat]
  BY DEF AutogradInv, AutogradTypeOK
<1>1. CASE UNCHANGED taskVars
  BY <1>1 DEF Queued, InReady, taskVars
<1>2. CASE CountUsers \/ Return
  <2>1. nodeGrad' = NoCount
    BY <1>2 DEF CountUsers, Return, AutogradInv, Fresh
  <2> QED BY <2>1 DEF Queued, NoCount
<1>3. ASSUME NEW x \in Nodes, NEW v, NodeArrival(x, v), deps' = deps PROVE Queued'
  <2>1. /\ nodeGrad' = [nodeGrad EXCEPT ![x] = @ + v]
        /\ received' = [received EXCEPT ![x] = @ + 1]
        /\ ready' = IF received'[x] >= deps[x] THEN Append(ready, x) ELSE ready
    BY <1>3 DEF NodeArrival, IsReady
  <2> SUFFICES ASSUME NEW n \in Nodes, nodeGrad'[n] # 0, received'[n] >= deps[n]
               PROVE  \E i \in 1 .. Len(ready') : ready'[i] = n
    BY <1>3 DEF Queued, InReady
  <2>2. CASE n = x
    <3>1. ready' = Append(ready, x)
      BY <2>1, <2>2
    <3>2. Len(ready') = Len(ready) + 1 /\ ready'[Len(ready) + 1] = x /\ Len(ready) \in Nat
      BY <3>1, <1>0
    <3> QED BY <3>2, <2>2
  <2>3. CASE n # x
    <3>1. nodeGrad[n] # 0 /\ received[n] >= deps[n]
      BY <2>1, <2>3, <1>0
    <3>2. PICK i \in 1 .. Len(ready) : ready[i] = n
      BY <3>1 DEF Queued, InReady
    <3>3. i \in 1 .. Len(ready') /\ ready'[i] = ready[i]
      BY <2>1, <1>0
    <3> QED BY <3>2, <3>3
  <2> QED BY <2>2, <2>3
<1>4. CASE Root
  <2>1. outputs[at] \in Tensors
    BY <1>4 DEF Root, AutogradInv, AutogradTypeOK
  <2>2. CASE outputs[at] \in Leaves
    BY <1>4, <2>2 DEF Root, Queued, InReady
  <2>3. CASE outputs[at] \notin Leaves
    BY <1>4, <2>1, <2>3, <1>3 DEF Root, Tensors
  <2> QED BY <2>2, <2>3
<1>5. CASE Edge
  <2>1. CASE inputs[cur][at] \notin Nodes
    BY <1>5, <2>1 DEF Edge, Queued, InReady
  <2>2. CASE inputs[cur][at] \in Nodes
    BY <1>5, <2>2, <1>3 DEF Edge
  <2> QED BY <2>1, <2>2
<1>6. CASE Skip \/ RunNode \/ Raise
  <2>1. /\ ready # << >> /\ ready' = Tail(ready) /\ received' = received /\ deps' = deps
        /\ nodeGrad'[Head(ready)] = 0
        /\ \A n \in Nodes : n # Head(ready) => nodeGrad'[n] = nodeGrad[n]
    BY <1>6, <1>0, HeadTail DEF Skip, RunNode, Raise, Pop
  <2> SUFFICES ASSUME NEW n \in Nodes, nodeGrad'[n] # 0, received[n] >= deps[n]
               PROVE  \E i \in 1 .. Len(ready') : ready'[i] = n
    BY <2>1 DEF Queued, InReady
  <2>2. n # Head(ready) /\ nodeGrad[n] # 0
    BY <2>1
  <2>3. PICK i \in 1 .. Len(ready) : ready[i] = n
    BY <2>2 DEF Queued, InReady
  <2>4. i # 1 /\ i - 1 \in 1 .. Len(Tail(ready)) /\ Tail(ready)[i - 1] = ready[i]
    BY <2>1, <2>2, <2>3, <1>0
  <2> QED BY <2>1, <2>3, <2>4
<1>7. ASSUME NEW outs \in Outputs, NEW keep \in BOOLEAN, NEW acc \in BOOLEAN,
             Call(outs, keep, acc)
      PROVE  UNCHANGED taskVars
  BY <1>7 DEF Call
<1> QED
  BY <1>1, <1>2, <1>4, <1>5, <1>6, <1>7 DEF AutogradNext, Backward, Stop, autogradVars,
     Visit, RootsDone, SilentEdge, NodeDone, RunDone

LEMMA SendersFinite ==
  ASSUME AutogradTypeOK, NEW n
  PROVE  /\ IsFiniteSet(Senders(n)) /\ Cardinality(Senders(n)) \in Nat
BY FiniteUsers, FS_CardinalityType

LEMMA HeardStep ==
  AutogradInv /\ Heard /\ [AutogradNext]_autogradVars /\ AutogradTypeOK' => Heard'
<1> SUFFICES ASSUME AutogradInv, Heard, [AutogradNext]_autogradVars, AutogradTypeOK',
                    Live', Quiet', NEW n \in Nodes
             PROVE  Cardinality(Senders(n)') <= received'[n]
  BY DEF Heard
<1>0. AutogradTypeOK
  BY DEF AutogradInv
<1>1. CASE UNCHANGED autogradVars
  <2>1. /\ graph' = graph /\ visited' = visited /\ pc' = pc /\ ran' = ran /\ cur' = cur
        /\ at' = at /\ received' = received /\ outputs' = outputs
    BY <1>1 DEF autogradVars, argVars, taskVars
  <2>2. Senders(n)' = Senders(n)
    BY <2>1, SameGraph DEF Senders, Sent
  <2> QED BY <2>1, <2>2, SameEdges DEF Heard, Live
<1>2. ASSUME NEW outs \in Outputs, NEW keep \in BOOLEAN, NEW acc \in BOOLEAN,
             Call(outs, keep, acc)
      PROVE  FALSE
  BY <1>2 DEF Call, Live
<1>3. CASE Visit \/ Return \/ Raise
  BY <1>3 DEF Visit, Return, Raise, Live
<1>4. CASE CountUsers
  <2>1. ran' = NoCount /\ visited' \subseteq Nodes /\ received' = NoCount
    BY <1>4 DEF CountUsers, AutogradInv, Fresh, AutogradTypeOK
  <2>2. Senders(n)' = {}
    BY <2>1 DEF Senders, Sent, NoCount, Users
  <2> QED BY <2>1, <2>2, FS_EmptySet DEF NoCount
<1>5. CASE RunStep /\ ~Raise
  <2>1. graph' = graph /\ visited' = visited /\ outputs' = outputs /\ Live
    BY <1>5, RunStepKeeps DEF Live
  <2>2. /\ Users(n)' = Users(n) /\ inputs' = inputs
    BY <2>1, SameGraph
  <2>3. Quiet /\ Cardinality(Senders(n)) <= received[n]
    BY <2>1, SameEdges DEF Heard
  <2>4. /\ at \in Nat \ {0} /\ cur \in Nodes /\ inputs[cur] \in Seq(Tensors)
        /\ received \in [Nodes -> Nat]
    BY <1>0, GraphTypes DEF AutogradTypeOK
  <2>5. /\ DOMAIN inputs[cur] = 1 .. Len(inputs[cur]) /\ Len(inputs[cur]) \in Nat
    <3> HIDE DEF inputs
    <3> QED BY <2>4
  <2>6. \A m \in Users(n) : \E i \in DOMAIN inputs[m] : inputs[m][i] = n
    BY DEF Users, GradFns
  <2>7. received'[n] >= received[n]
    <3>1. received' = received \/ \E x \in Nodes : received' = [received EXCEPT ![x] = @ + 1]
      <4>1. CASE Root
        <5>1. outputs[at] \in Leaves \/ outputs[at] \in Nodes
          <6>1. outputs \in Seq(Tensors) /\ at \in DOMAIN outputs
            BY <4>1, <1>0 DEF Root, AutogradTypeOK
          <6>2. outputs[at] \in Tensors
            BY <6>1
          <6> QED BY <6>2 DEF Tensors
        <5>2. outputs[at] \in Leaves \/ NodeArrival(outputs[at], 1)
          BY <4>1 DEF Root
        <5>3. CASE outputs[at] \in Leaves
          BY <4>1, <5>3 DEF Root
        <5>4. CASE outputs[at] \in Nodes /\ NodeArrival(outputs[at], 1)
          BY <5>4 DEF NodeArrival
        <5> QED BY <5>1, <5>2, <5>3, <5>4
      <4>2. CASE Edge
        BY <4>2 DEF Edge, NodeArrival
      <4>3. ~Root /\ ~Edge => received' = received
        BY <1>5 DEF RunStep, RootsDone, Skip, RunNode, Pop, SilentEdge, NodeDone, RunDone,
           taskVars
      <4> QED BY <4>1, <4>2, <4>3
    <3> QED BY <3>1, <2>4
  <2>8. ASSUME Senders(n)' \subseteq Senders(n) PROVE Cardinality(Senders(n)') <= received'[n]
    <3>1. Cardinality(Senders(n)) \in Nat /\ IsFiniteSet(Senders(n))
      BY <1>0, SendersFinite
    <3>2. Cardinality(Senders(n)') <= Cardinality(Senders(n)) /\ IsFiniteSet(Senders(n)')
      BY <3>1, <2>8, FS_Subset
    <3>3. Cardinality(Senders(n)') \in Nat /\ received[n] \in Nat /\ received'[n] \in Nat
      BY <3>2, FS_CardinalityType, <2>4 DEF AutogradTypeOK
    <3> QED BY <3>1, <3>2, <3>3, <2>3, <2>7
  <2>9. CASE Root \/ RootsDone \/ Skip \/ RunDone
    <3>1. /\ ran' = ran /\ pc # "edges" /\ pc' # "edges"
      BY <2>9 DEF Root, RootsDone, Skip, RunDone
    <3>2. Senders(n)' \subseteq Senders(n)
      BY <3>1, <2>2 DEF Senders, Sent
    <3> QED BY <3>2, <2>8
  <2>10. CASE RunNode
    <3>1. /\ pc # "edges" /\ pc' = "edges" /\ at' = 1 /\ ready # << >>
          /\ ran' = [ran EXCEPT ![Head(ready)] = @ + 1] /\ cur' = Head(ready)
      BY <2>10 DEF RunNode, Pop
    <3>2. cur' \in Nodes /\ inputs'[cur'] \in Seq(Tensors)
      BY <2>2, GraphTypes, <1>0 DEF AutogradTypeOK
    <3>3. ASSUME NEW m \in Users(n), Sent(m, n)' PROVE Sent(m, n)
      <4>1. m # cur'
        <5>1. SUFFICES ASSUME NEW i \in DOMAIN inputs'[cur'], i < 1 PROVE FALSE
          BY <3>1, <3>3 DEF Sent
        <5> HIDE DEF inputs
        <5> QED BY <5>1, <3>2
      <4>2. ran[m] > 0
        <5>1. m \in Nodes /\ ran \in [Nodes -> Nat]
          BY <1>0 DEF Users, AutogradTypeOK
        <5> QED BY <5>1, <4>1, <3>1, <3>3 DEF Sent
      <4> QED BY <4>2, <3>1 DEF Sent
    <3>4. Senders(n)' \subseteq Senders(n)
      BY <3>3, <2>2 DEF Senders
    <3> QED BY <3>4, <2>8
  <2>11. CASE SilentEdge \/ Edge
    <3>1. /\ pc = "edges" /\ pc' = "edges" /\ at' = at + 1 /\ ran' = ran /\ cur' = cur
          /\ at \in DOMAIN inputs[cur]
      BY <2>11 DEF SilentEdge, Edge
    <3>2. ASSUME NEW m \in Users(n), Sent(m, n)', ~Sent(m, n)
          PROVE  m = cur /\ inputs[cur][at] = n
      <4>1. m = cur
        BY <3>1, <3>2 DEF Sent
      <4>2. PICK i \in DOMAIN inputs[cur] : i < at + 1 /\ inputs[cur][i] = n
        BY <3>1, <3>2, <4>1, <2>2 DEF Sent
      <4>3. ~ (i < at)
        BY <3>1, <3>2, <4>1, <4>2 DEF Sent
      <4>4. i = at
        BY <4>2, <4>3, <2>4, <2>5
      <4> QED BY <4>1, <4>2, <4>4
    <3>3. CASE inputs[cur][at] # n \/ SilentEdge
      <4>1. inputs[cur][at] # n
        <5>1. SilentEdge => inputs[cur][at] \in Leaves
          <6>1. SilentEdge => <<cur, at>> \in graph.silent
            BY DEF SilentEdge
          <6>2. \A a, b : <<a, b>> \in graph.silent => inputs[a][b] \in Leaves
            BY <2>3 DEF Quiet
          <6> QED BY <6>1, <6>2
        <5> QED BY <5>1, <3>3, AutogradAssumption
      <4>2. Senders(n)' \subseteq Senders(n)
        BY <4>1, <3>2, <2>2 DEF Senders
      <4> QED BY <4>2, <2>8
    <3>4. CASE inputs[cur][at] = n /\ Edge
      <4>1. received'[n] = received[n] + 1
        BY <3>4, <2>4 DEF Edge, NodeArrival
      <4>2. Senders(n)' \subseteq Senders(n) \cup {cur}
        BY <3>2, <2>2 DEF Senders
      <4>3. Cardinality(Senders(n)) \in Nat /\ IsFiniteSet(Senders(n))
        BY <1>0, SendersFinite
      <4>4. /\ IsFiniteSet(Senders(n) \cup {cur})
            /\ Cardinality(Senders(n) \cup {cur}) <= Cardinality(Senders(n)) + 1
        BY <4>3, FS_AddElement
      <4>5. /\ Cardinality(Senders(n)') <= Cardinality(Senders(n) \cup {cur})
            /\ IsFiniteSet(Senders(n)')
        BY <4>2, <4>4, FS_Subset
      <4>6. /\ Cardinality(Senders(n)') \in Nat /\ Cardinality(Senders(n) \cup {cur}) \in Nat
            /\ received[n] \in Nat
        BY <4>4, <4>5, FS_CardinalityType, <2>4
      <4> QED BY <4>1, <4>3, <4>4, <4>5, <4>6, <2>3
    <3> QED BY <3>3, <3>4, <2>11
  <2>12. CASE NodeDone
    <3>1. /\ pc = "edges" /\ pc' = "run" /\ at \notin DOMAIN inputs[cur] /\ ran' = ran
      BY <2>12 DEF NodeDone
    <3>2. ASSUME NEW m \in Users(n), Sent(m, n)' PROVE Sent(m, n)
      <4>1. ran[m] > 0
        BY <3>1, <3>2 DEF Sent
      <4>2. PICK i \in DOMAIN inputs[m] : inputs[m][i] = n
        BY <2>6
      <4>3. m = cur => i < at
        BY <3>1, <4>2, <2>4, <2>5
      <4> QED BY <4>1, <4>2, <4>3 DEF Sent
    <3>3. Senders(n)' \subseteq Senders(n)
      BY <3>2, <2>2 DEF Senders
    <3> QED BY <3>3, <2>8
  <2> QED BY <1>5, <2>9, <2>10, <2>11, <2>12 DEF RunStep
<1> QED
  BY <1>1, <1>2, <1>3, <1>4, <1>5 DEF AutogradNext, Backward, RunStep, Stop

-----------------------------------------------------------------------------
(* The steps of the account                                                *)

LEMMA FlowAt ==
  ASSUME graph \in Graphs, NEW d, NEW t, NEW e \in EdgesTo(t)
  PROVE  Flow(d)[e] =
           IF pc = "edges" /\ e[1] = cur /\ e[2] >= at THEN d[e[1]] - g ELSE d[e[1]]
<1>1. e \in Nodes \X Nat
  BY EdgeTo
<1> QED BY <1>1 DEF Flow

LEMMA FlowType ==
  ASSUME AutogradTypeOK, NEW d, RunWith(d), NEW t, NEW e \in EdgesTo(t)
  PROVE  Flow(d)[e] \in Nat
<1>1. graph \in Graphs /\ g \in Nat
  BY DEF AutogradTypeOK
<1>2. e[1] \in Nodes
  BY <1>1, EdgeTo
<1>3. d[e[1]] \in Nat
  BY <1>2 DEF RunWith
<1>4. pc = "edges" /\ e[1] = cur => d[e[1]] >= g
  BY <1>1, <1>3 DEF RunWith
<1>5. Flow(d)[e] =
        IF pc = "edges" /\ e[1] = cur /\ e[2] >= at THEN d[e[1]] - g ELSE d[e[1]]
  BY <1>1, FlowAt
<1>6. CASE pc = "edges" /\ e[1] = cur /\ e[2] >= at
  BY <1>1, <1>3, <1>4, <1>5, <1>6
<1>7. CASE ~ (pc = "edges" /\ e[1] = cur /\ e[2] >= at)
  BY <1>3, <1>5, <1>7
<1> QED BY <1>6, <1>7

LEMMA ToTypes ==
  ASSUME AutogradTypeOK, NEW d, RunWith(d), NEW t
  PROVE  /\ IsFiniteSet(Fed(t)) /\ Cardinality(Fed(t)) \in Nat
         /\ Along(d, t) \in Nat
         /\ ToNode(d, t) \in Nat /\ ToTensor(d, t) \in Nat
<1>1. IsFiniteSet(Fed(t))
  <2>1. outputs \in Seq(Tensors)
    BY DEF AutogradTypeOK
  <2>2. DOMAIN outputs = 1 .. Len(outputs) /\ Len(outputs) \in Nat
    BY <2>1
  <2>3. IsFiniteSet(DOMAIN outputs)
    BY <2>2, FS_Interval
  <2> QED BY <2>3, FS_Subset DEF Fed
<1>2. Cardinality(Fed(t)) \in Nat
  BY <1>1, FS_CardinalityType
<1>3. Along(d, t) \in Nat
  <2>1. IsFiniteSet(EdgesTo(t))
    BY EdgesFinite DEF AutogradTypeOK
  <2>2. \A e \in EdgesTo(t) : Flow(d)[e] \in Nat
    BY FlowType
  <2> QED BY <2>1, <2>2, TotalType DEF Along
<1> QED BY <1>1, <1>2, <1>3 DEF ToNode, ToTensor

\* The sum over the edges to t when the flow along each of them is the same.
LEMMA AlongSame ==
  ASSUME graph \in Graphs, graph' = graph, NEW d, NEW c, NEW t,
         \A e \in EdgesTo(t) : Flow(c)'[e] = Flow(d)[e]
  PROVE  Along(c, t)' = Along(d, t)
<1>1. IsFiniteSet(EdgesTo(t)) /\ EdgesTo(t)' = EdgesTo(t)
  BY EdgesFinite, SameEdges
<1>2. Total(Flow(c)', EdgesTo(t)) = Total(Flow(d), EdgesTo(t))
  BY <1>1, TotalSame
<1>3. Along(c, t)' = Total(Flow(c)', EdgesTo(t)')
  BY DEF Along
<1> QED BY <1>1, <1>2, <1>3 DEF Along

\* A step at which nothing arrives.
LEMMA AccountKeeps ==
  ASSUME AutogradTypeOK, NEW d, Passed(d), RunWith(d)',
         graph' = graph, accumulate' = accumulate, before' = before,
         grad' = grad, gradsMap' = gradsMap, nodeGrad' = nodeGrad,
         \A t : Fed(t)' = Fed(t),
         \A t : Along(d, t)' = Along(d, t)
  PROVE  Passed(d)'
<1>1. \A t : ToNode(d, t)' = ToNode(d, t) /\ ToTensor(d, t)' = ToTensor(d, t)
  BY DEF ToNode, ToTensor
<1>2. NodesPaid(d)'
  BY <1>1 DEF Passed, NodesPaid
<1>3. TensorsPaid(d)'
  BY <1>1 DEF Passed, TensorsPaid
<1> QED BY <1>2, <1>3 DEF Passed

\* v arrives at the node x.
LEMMA NodePaid ==
  ASSUME AutogradTypeOK, NEW d, Passed(d), NEW x \in Nodes, NEW v \in Nat, NodeArrival(x, v),
         \A n \in Nodes : ToNode(d, n)' = ToNode(d, n) + (IF n = x THEN v ELSE 0)
  PROVE  NodesPaid(d)'
<1>1. nodeGrad' = [nodeGrad EXCEPT ![x] = @ + v] /\ nodeGrad \in [Nodes -> Nat]
  BY DEF NodeArrival, AutogradTypeOK
<1>2. d \in [Nodes -> Nat] /\ NodesPaid(d)
  BY DEF Passed, RunWith
<1>3. ASSUME NEW n \in Nodes PROVE d[n] + nodeGrad'[n] = ToNode(d, n)'
  <2>1. d[n] + nodeGrad[n] = ToNode(d, n) /\ d[n] \in Nat /\ nodeGrad[n] \in Nat
    BY <1>1, <1>2 DEF NodesPaid
  <2>2. ToNode(d, n)' = ToNode(d, n) + (IF n = x THEN v ELSE 0)
    OBVIOUS
  <2>3. nodeGrad'[n] = IF n = x THEN nodeGrad[n] + v ELSE nodeGrad[n]
    BY <1>1
  <2>4. CASE n = x
    BY ONLY <2>1, <2>2, <2>3, <2>4, v \in Nat
  <2>5. CASE n # x
    BY ONLY <2>1, <2>2, <2>3, <2>5
  <2> QED BY <2>4, <2>5
<1> QED BY <1>3 DEF NodesPaid

\* v arrives at the tensor x.
LEMMA TensorPaid ==
  ASSUME AutogradTypeOK, NEW d, Passed(d), NEW x \in Tensors, NEW v \in Nat,
         TensorArrival(x, v), accumulate' = accumulate, before' = before,
         \A t \in Tensors : ToTensor(d, t)' = ToTensor(d, t) + (IF t = x THEN v ELSE 0)
  PROVE  TensorsPaid(d)'
<1>1. grad \in [Tensors -> Nat] /\ gradsMap \in [Tensors -> Nat] /\ before \in [Tensors -> Nat]
  BY DEF AutogradTypeOK
<1>2. TensorsPaid(d) /\ RunWith(d)
  BY DEF Passed
<1>3. \A t \in Tensors : ToTensor(d, t) \in Nat
  BY <1>2, ToTypes
<1>4. CASE accumulate
  <2>1. grad' = IF Accumulates(x) THEN [grad EXCEPT ![x] = @ + v] ELSE grad
    BY <1>4 DEF TensorArrival
  <2>2. ASSUME NEW t \in Leaves \cup Retained PROVE grad'[t] = before'[t] + ToTensor(d, t)'
    <3>1. t \in Tensors
      BY AutogradAssumption DEF Tensors
    <3>2. grad[t] = before[t] + ToTensor(d, t) /\ before[t] \in Nat /\ ToTensor(d, t) \in Nat
      BY <1>1, <1>2, <1>3, <1>4, <3>1 DEF TensorsPaid
    <3>3. ToTensor(d, t)' = ToTensor(d, t) + (IF t = x THEN v ELSE 0)
      BY <3>1
    <3>4. CASE t = x
      <4>1. Accumulates(x)
        BY <3>4 DEF Accumulates
      <4>2. grad'[t] = grad[t] + v
        BY <4>1, <2>1, <3>4, <1>1, <3>1
      <4> QED BY <4>2, <3>2, <3>3, <3>4
    <3>5. CASE t # x
      <4>1. grad'[t] = grad[t]
        BY <2>1, <3>5, <1>1, <3>1
      <4> QED BY <4>1, <3>2, <3>3, <3>5
    <3> QED BY <3>4, <3>5
  <2> QED BY <2>2, <1>4 DEF TensorsPaid
<1>5. CASE ~accumulate
  <2>1. gradsMap' = [gradsMap EXCEPT ![x] = @ + v]
    BY <1>5 DEF TensorArrival
  <2>2. ASSUME NEW t \in Tensors PROVE gradsMap'[t] = ToTensor(d, t)'
    <3>1. gradsMap[t] = ToTensor(d, t) /\ ToTensor(d, t) \in Nat
      BY <1>2, <1>3, <1>5 DEF TensorsPaid
    <3>2. ToTensor(d, t)' = ToTensor(d, t) + (IF t = x THEN v ELSE 0)
      OBVIOUS
    <3>3. CASE t = x
      BY <3>1, <3>2, <3>3, <2>1, <1>1
    <3>4. CASE t # x
      BY <3>1, <3>2, <3>4, <2>1, <1>1
    <3> QED BY <3>3, <3>4
  <2> QED BY <2>2, <1>5 DEF TensorsPaid
<1> QED BY <1>4, <1>5

LEMMA RootAccount ==
  ASSUME AutogradInv, Root, NEW d, Passed(d)
  PROVE  Passed(d)'
<1>1. /\ graph' = graph /\ outputs' = outputs /\ accumulate' = accumulate
      /\ before' = before /\ ran' = ran /\ pc = "roots" /\ pc' = "roots" /\ at' = at + 1
  BY DEF Root, argVars
<1>2. /\ AutogradTypeOK /\ graph \in Graphs /\ RunWith(d) /\ NodesPaid(d) /\ TensorsPaid(d)
  BY DEF AutogradInv, AutogradTypeOK, Passed
<1>3. /\ outputs \in Seq(Tensors) /\ at \in DOMAIN outputs /\ at \in Nat
  BY DEF Root, AutogradInv, AutogradTypeOK
<1>4. DOMAIN outputs = 1 .. Len(outputs) /\ Len(outputs) \in Nat /\ outputs[at] \in Tensors
  BY <1>3
<1>5. \A t : Along(d, t)' = Along(d, t)
  <2> SUFFICES ASSUME NEW t PROVE Along(d, t)' = Along(d, t)
    OBVIOUS
  <2>1. \A e \in EdgesTo(t) : Flow(d)'[e] = Flow(d)[e]
    BY <1>1 DEF Flow
  <2> QED BY <2>1, <1>1, <1>2, AlongSame
<1>6. RunWith(d)'
  BY <1>1, <1>2 DEF RunWith
<1>x. PICK x \in Tensors : x = outputs[at]
  BY <1>4
<1>7. \A t : t # x => Fed(t)' = Fed(t)
  <2> SUFFICES ASSUME NEW t, t # x PROVE Fed(t)' = Fed(t)
    OBVIOUS
  <2>1. \A k \in DOMAIN outputs : outputs[k] = t => (k < at + 1 <=> k < at)
    <3> SUFFICES ASSUME NEW k \in DOMAIN outputs, outputs[k] = t PROVE k < at + 1 <=> k < at
      OBVIOUS
    <3>1. k # at
      BY <1>x
    <3> QED BY <3>1, <1>3, <1>4
  <2> QED BY <2>1, <1>1 DEF Fed
<1>8. Fed(x)' = Fed(x) \cup {at} /\ at \notin Fed(x)
  <2>1. \A k \in DOMAIN outputs : k < at + 1 <=> k < at \/ k = at
    BY <1>3, <1>4
  <2>2. ~ (at < at)
    BY <1>3
  <2>3. Fed(x)' = {k \in DOMAIN outputs : outputs[k] = x /\ k < at + 1}
    BY <1>1 DEF Fed
  <2>4. Fed(x) = {k \in DOMAIN outputs : outputs[k] = x /\ k < at}
    BY <1>1 DEF Fed
  <2> QED BY <2>1, <2>2, <2>3, <2>4, <1>3, <1>x
<1>9. Cardinality(Fed(x)') = Cardinality(Fed(x)) + 1
  BY <1>2, <1>8, ToTypes, FS_AddElement
<1>10. \A t : t # x => ToNode(d, t)' = ToNode(d, t) /\ ToTensor(d, t)' = ToTensor(d, t)
  BY <1>5, <1>7 DEF ToNode, ToTensor
<1>11. /\ ToNode(d, x)' = ToNode(d, x) + 1
       /\ x \in Leaves => ToTensor(d, x)' = ToTensor(d, x) + 1
       /\ x \notin Leaves => ToTensor(d, x)' = ToTensor(d, x)
  <2>1. Cardinality(Fed(x)) \in Nat /\ Along(d, x) \in Nat
    BY <1>2, ToTypes
  <2>2. Cardinality(Fed(x))' = Cardinality(Fed(x)) + 1 /\ Along(d, x)' = Along(d, x)
    BY <1>5, <1>9
  <2>3. /\ ToNode(d, x)' = Cardinality(Fed(x))' + Along(d, x)'
        /\ ToNode(d, x) = Cardinality(Fed(x)) + Along(d, x)
        /\ ToTensor(d, x)' = (IF x \in Leaves THEN Cardinality(Fed(x))' ELSE 0) + Along(d, x)'
        /\ ToTensor(d, x) = (IF x \in Leaves THEN Cardinality(Fed(x)) ELSE 0) + Along(d, x)
    BY DEF ToNode, ToTensor
  <2>4. CASE x \in Leaves
    BY <2>1, <2>2, <2>3, <2>4
  <2>5. CASE x \notin Leaves
    BY <2>1, <2>2, <2>3, <2>5
  <2> QED BY <2>4, <2>5
<1>12. \A t : ToNode(d, t) \in Nat /\ ToTensor(d, t) \in Nat
  BY <1>2, ToTypes
<1>13. CASE x \in Leaves
  <2>1. TensorArrival(x, 1) /\ nodeGrad' = nodeGrad
    BY <1>13, <1>x DEF Root
  <2>2. \A t \in Tensors : ToTensor(d, t)' = ToTensor(d, t) + (IF t = x THEN 1 ELSE 0)
    BY <1>10, <1>11, <1>12, <1>13
  <2>3. TensorsPaid(d)'
    BY <2>1, <2>2, <1>1, <1>2, TensorPaid
  <2>4. \A n \in Nodes : ToNode(d, n)' = ToNode(d, n)
    BY <1>10, <1>13, AutogradAssumption
  <2>5. NodesPaid(d)'
    BY <2>1, <2>4, <1>2 DEF NodesPaid
  <2> QED BY <1>6, <2>3, <2>5 DEF Passed
<1>14. CASE x \notin Leaves
  <2>1. NodeArrival(x, 1) /\ grad' = grad /\ gradsMap' = gradsMap /\ x \in Nodes
    BY <1>14, <1>x DEF Root, Tensors
  <2>2. \A n \in Nodes : ToNode(d, n)' = ToNode(d, n) + (IF n = x THEN 1 ELSE 0)
    BY <1>10, <1>11, <1>12
  <2>3. NodesPaid(d)'
    BY <2>1, <2>2, <1>2, NodePaid
  <2>4. \A t : ToTensor(d, t)' = ToTensor(d, t)
    BY <1>10, <1>11, <1>14
  <2>5. TensorsPaid(d)'
    BY <2>1, <2>4, <1>1, <1>2 DEF TensorsPaid
  <2> QED BY <1>6, <2>3, <2>5 DEF Passed
<1> QED BY <1>13, <1>14

LEMMA EdgeAccount ==
  ASSUME AutogradInv, Edge, NEW d, Passed(d)
  PROVE  Passed(d)'
<1>1. /\ graph' = graph /\ outputs' = outputs /\ accumulate' = accumulate /\ g' = g
      /\ before' = before /\ ran' = ran /\ pc = "edges" /\ pc' = "edges" /\ at' = at + 1
      /\ cur' = cur
  BY DEF Edge, argVars
<1>2. /\ AutogradTypeOK /\ graph \in Graphs /\ RunWith(d) /\ NodesPaid(d) /\ TensorsPaid(d)
  BY DEF AutogradInv, AutogradTypeOK, Passed
<1>3. /\ inputs[cur] \in Seq(Tensors) /\ at \in DOMAIN inputs[cur] /\ at \in Nat
      /\ cur \in Nodes /\ g \in Nat /\ <<cur, at>> \notin graph.silent
  BY <1>2, GraphTypes DEF Edge, AutogradTypeOK
<1>x. PICK x \in Tensors : x = inputs[cur][at]
  <2> HIDE DEF inputs
  <2> QED BY <1>3
<1>e. PICK e : e = <<cur, at>>
  OBVIOUS
<1>4. e \in EdgesTo(x) /\ e[1] = cur /\ e[2] = at
  BY <1>e, <1>x, <1>3, ToEdge
<1>5. \A t : Fed(t)' = Fed(t)
  BY <1>1 DEF Fed
<1>6. RunWith(d)'
  BY <1>1, <1>2 DEF RunWith
<1>7. ASSUME NEW t, NEW f \in EdgesTo(t), f # e PROVE Flow(d)'[f] = Flow(d)[f]
  <2>1. EdgesTo(t)' = EdgesTo(t) /\ graph' \in Graphs
    BY <1>1, <1>2, SameEdges
  <2>2. f[1] = cur => f[2] # at
    BY <1>7, <1>2, <1>e, EdgeTo
  <2>3. f[2] \in Nat
    BY <1>7, <1>2, EdgeTo
  <2>4. f[1] = cur => (f[2] >= at + 1 <=> f[2] >= at)
    BY <2>2, <2>3, <1>3
  <2>5. f \in Nodes \X Nat
    BY <1>7, <1>2, EdgeTo
  <2> QED BY <2>4, <2>5, <1>1 DEF Flow
<1>8. Flow(d)'[e] = Flow(d)[e] + g
  <2>1. e \in Nodes \X Nat /\ at >= at /\ ~ (at >= at + 1)
    BY <1>e, <1>3
  <2>2. Flow(d)[e] = d[cur] - g
    BY <2>1, <1>1, <1>4 DEF Flow
  <2>3. Flow(d)'[e] = d[cur]
    BY <2>1, <1>1, <1>4 DEF Flow
  <2>4. d[cur] \in Nat
    BY <1>2, <1>3 DEF RunWith
  <2> QED BY ONLY <2>2, <2>3, <2>4, <1>3
<1>9. \A t : t # x => Along(d, t)' = Along(d, t)
  <2> SUFFICES ASSUME NEW t, t # x PROVE Along(d, t)' = Along(d, t)
    OBVIOUS
  <2>1. e \notin EdgesTo(t)
    BY <1>2, <1>4, <1>x, EdgeTo
  <2>2. \A f \in EdgesTo(t) : Flow(d)'[f] = Flow(d)[f]
    BY <2>1, <1>7
  <2> QED BY <2>2, <1>1, <1>2, AlongSame
<1>10. Along(d, x)' = Along(d, x) + g
  <2>1. IsFiniteSet(EdgesTo(x)) /\ EdgesTo(x)' = EdgesTo(x)
    BY <1>1, <1>2, EdgesFinite, SameEdges
  <2>2. \A f \in EdgesTo(x) : Flow(d)[f] \in Nat
    BY <1>2, FlowType
  <2>3. \A f \in EdgesTo(x) : f # e => Flow(d)'[f] = Flow(d)[f]
    BY <1>7
  <2>4. PICK v, w : v = Flow(d) /\ w = Flow(d)'
    OBVIOUS
  <2> DEFINE S == EdgesTo(x)
  <2>5. Total(w, S) = Total(v, S) + g
    <3>1. /\ \A f \in S : v[f] \in Nat
          /\ w[e] = v[e] + g
          /\ \A f \in S : f # e => w[f] = v[f]
      BY <2>2, <2>3, <2>4, <1>8
    <3>2. IsFiniteSet(S) /\ e \in S
      BY <2>1, <1>4
    <3>3. g \in Nat
      BY <1>3
    <3> HIDE DEF S
    <3> QED BY ONLY <3>1, <3>2, <3>3, TotalMore
  <2> QED BY <2>1, <2>4, <2>5 DEF Along
<1>11. \A t : ToNode(d, t) \in Nat /\ ToTensor(d, t) \in Nat
  BY <1>2, ToTypes
<1>12. \A t : t # x => ToNode(d, t)' = ToNode(d, t) /\ ToTensor(d, t)' = ToTensor(d, t)
  BY <1>5, <1>9 DEF ToNode, ToTensor
<1>13. ToNode(d, x)' = ToNode(d, x) + g /\ ToTensor(d, x)' = ToTensor(d, x) + g
  <2>1. Cardinality(Fed(x)) \in Nat /\ Along(d, x) \in Nat
    BY <1>2, ToTypes
  <2>2. Cardinality(Fed(x))' = Cardinality(Fed(x))
    BY <1>5
  <2>3. /\ ToNode(d, x)' = Cardinality(Fed(x))' + Along(d, x)'
        /\ ToNode(d, x) = Cardinality(Fed(x)) + Along(d, x)
        /\ ToTensor(d, x)' = (IF x \in Leaves THEN Cardinality(Fed(x))' ELSE 0) + Along(d, x)'
        /\ ToTensor(d, x) = (IF x \in Leaves THEN Cardinality(Fed(x)) ELSE 0) + Along(d, x)
    BY DEF ToNode, ToTensor
  <2>4. CASE x \in Leaves
    BY <2>1, <2>2, <2>3, <2>4, <1>10, <1>3
  <2>5. CASE x \notin Leaves
    BY <2>1, <2>2, <2>3, <2>5, <1>10, <1>3
  <2> QED BY <2>4, <2>5
<1>14. TensorsPaid(d)'
  <2>1. TensorArrival(x, g)
    BY <1>x DEF Edge
  <2>2. \A t \in Tensors : ToTensor(d, t)' = ToTensor(d, t) + (IF t = x THEN g ELSE 0)
    BY <1>11, <1>12, <1>13
  <2> QED BY <2>1, <2>2, <1>1, <1>2, <1>3, TensorPaid
<1>15. NodesPaid(d)'
  <2>1. CASE x \in Nodes
    <3>1. NodeArrival(x, g)
      BY <2>1, <1>x DEF Edge
    <3>2. \A n \in Nodes : ToNode(d, n)' = ToNode(d, n) + (IF n = x THEN g ELSE 0)
      BY <1>11, <1>12, <1>13
    <3> QED BY <2>1, <3>1, <3>2, <1>2, <1>3, NodePaid
  <2>2. CASE x \notin Nodes
    <3>1. nodeGrad' = nodeGrad
      BY <2>2, <1>x DEF Edge
    <3>2. \A n \in Nodes : ToNode(d, n)' = ToNode(d, n)
      BY <2>2, <1>12
    <3> QED BY <3>1, <3>2, <1>2 DEF NodesPaid
  <2> QED BY <2>1, <2>2
<1> QED BY <1>6, <1>14, <1>15 DEF Passed

\* A node is run with what it holds.
LEMMA RunAccount ==
  ASSUME AutogradInv, RunNode, NEW d, Passed(d)
  PROVE  \E c : Passed(c)'
<1>1. /\ graph' = graph /\ outputs' = outputs /\ accumulate' = accumulate
      /\ before' = before /\ pc = "run" /\ pc' = "edges" /\ at' = 1
      /\ grad' = grad /\ gradsMap' = gradsMap /\ ready # << >>
  BY DEF RunNode, Pop, argVars
<1>2. /\ AutogradTypeOK /\ graph \in Graphs /\ RunWith(d) /\ NodesPaid(d) /\ TensorsPaid(d)
  BY DEF AutogradInv, AutogradTypeOK, Passed
<1>3. PICK h \in Nodes : h = Head(ready)
  BY <1>1, <1>2, HeadTail DEF AutogradTypeOK
<1>4. /\ nodeGrad' = [nodeGrad EXCEPT ![h] = 0] /\ ran' = [ran EXCEPT ![h] = @ + 1]
      /\ cur' = h /\ g' = nodeGrad[h] /\ nodeGrad[h] # 0
  BY <1>3 DEF RunNode, Pop
<1>5. PICK v \in Nat : v = nodeGrad[h] /\ v > 0
  BY <1>2, <1>4 DEF AutogradTypeOK
<1>6. PICK c : c = [d EXCEPT ![h] = @ + v]
  OBVIOUS
<1>7. d \in [Nodes -> Nat] /\ nodeGrad \in [Nodes -> Nat] /\ ran \in [Nodes -> Nat]
  BY <1>2 DEF RunWith, AutogradTypeOK
<1>8. /\ c \in [Nodes -> Nat] /\ c[h] = d[h] + v /\ d[h] \in Nat
      /\ \A n \in Nodes : n # h => c[n] = d[n]
  BY <1>6, <1>7
<1>9. RunWith(c)'
  <2>1. \A n \in Nodes : c[n] > 0 <=> ran'[n] > 0
    <3> SUFFICES ASSUME NEW n \in Nodes PROVE c[n] > 0 <=> ran'[n] > 0
      OBVIOUS
    <3>1. CASE n = h
      <4>1. c[h] > 0
        BY <1>5, <1>8
      <4>2. ran'[h] > 0
        BY <1>4, <1>7
      <4> QED BY <4>1, <4>2, <3>1
    <3>2. CASE n # h
      BY <3>2, <1>2, <1>4, <1>7, <1>8 DEF RunWith
    <3> QED BY <3>1, <3>2
  <2>2. g' > 0 /\ g' <= c[cur']
    BY <1>4, <1>5, <1>8
  <2> QED BY <2>1, <2>2, <1>8 DEF RunWith
<1>10. \A t : Along(c, t)' = Along(d, t)
  <2> SUFFICES ASSUME NEW t, NEW e \in EdgesTo(t) PROVE Flow(c)'[e] = Flow(d)[e]
    BY <1>1, <1>2, AlongSame
  <2>1. e \in Nodes \X Nat /\ e[1] \in Nodes /\ e[2] >= 1
    BY <1>2, EdgeTo
  <2>2. Flow(d)[e] = d[e[1]]
    BY <2>1, <1>1 DEF Flow
  <2>3. Flow(c)'[e] = IF e[1] = h THEN c[e[1]] - v ELSE c[e[1]]
    BY <2>1, <1>1, <1>4, <1>5 DEF Flow
  <2>4. CASE e[1] = h
    BY <2>2, <2>3, <2>4, <1>5, <1>8
  <2>5. CASE e[1] # h
    BY <2>1, <2>2, <2>3, <2>5, <1>8
  <2> QED BY <2>4, <2>5
<1>11. \A t : Fed(t)' = Fed(t)
  BY <1>1 DEF Fed
<1>12. \A t : ToNode(c, t)' = ToNode(d, t) /\ ToTensor(c, t)' = ToTensor(d, t)
  BY <1>10, <1>11 DEF ToNode, ToTensor
<1>13. NodesPaid(c)'
  <2>1. ASSUME NEW n \in Nodes PROVE c[n] + nodeGrad'[n] = ToNode(d, n)
    <3>1. d[n] + nodeGrad[n] = ToNode(d, n) /\ d[n] \in Nat /\ nodeGrad[n] \in Nat
      BY <1>2, <1>7 DEF NodesPaid
    <3>2. CASE n = h
      BY <3>1, <3>2, <1>4, <1>5, <1>7, <1>8
    <3>3. CASE n # h
      BY <3>1, <3>3, <1>4, <1>7, <1>8
    <3> QED BY <3>2, <3>3
  <2> QED BY <2>1, <1>12 DEF NodesPaid
<1>14. TensorsPaid(c)'
  BY <1>1, <1>2, <1>12 DEF TensorsPaid
<1>15. Passed(c)'
  BY <1>9, <1>13, <1>14 DEF Passed
<1> QED BY <1>15

\* The account is opened.
LEMMA CountAccount ==
  ASSUME AutogradInv, Start, CountUsers
  PROVE  \E c : Passed(c)'
<1>1. /\ graph' = graph /\ outputs' = outputs /\ accumulate' = accumulate
      /\ before' = before /\ pc' = "roots" /\ at' = 1 /\ ran' = NoCount
      /\ nodeGrad' = NoCount /\ grad' = before' /\ gradsMap' = NoGrad
  BY DEF CountUsers, argVars, AutogradInv, Fresh, Start
<1>2. AutogradTypeOK /\ graph \in Graphs
  BY DEF AutogradInv, AutogradTypeOK
<1>3. PICK c : c = NoCount
  OBVIOUS
<1>4. \A t : Fed(t)' = {}
  <2>1. DOMAIN outputs = 1 .. Len(outputs)
    BY <1>2 DEF AutogradTypeOK
  <2>2. \A k \in DOMAIN outputs : ~ (k < 1)
    BY <2>1
  <2> QED BY <2>2, <1>1 DEF Fed
<1>5. \A t : Along(c, t)' = 0
  <2> SUFFICES ASSUME NEW t PROVE Along(c, t)' = 0
    OBVIOUS
  <2>1. IsFiniteSet(EdgesTo(t)) /\ EdgesTo(t)' = EdgesTo(t)
    BY <1>1, <1>2, EdgesFinite, SameEdges
  <2>2. \A e \in EdgesTo(t) : Flow(c)'[e] = 0
    <3> SUFFICES ASSUME NEW e \in EdgesTo(t) PROVE Flow(c)'[e] = 0
      OBVIOUS
    <3>1. e \in Nodes \X Nat /\ e[1] \in Nodes
      BY <1>2, EdgeTo
    <3> QED BY <3>1, <1>1, <1>3 DEF Flow, NoCount
  <2>3. Total(Flow(c)', EdgesTo(t)) = 0
    BY <2>1, <2>2, TotalZero
  <2> QED BY <2>1, <2>3 DEF Along
<1>6. \A t : ToNode(c, t)' = 0 /\ ToTensor(c, t)' = 0
  BY <1>4, <1>5, FS_EmptySet DEF ToNode, ToTensor
<1>7. RunWith(c)'
  BY <1>1, <1>3 DEF RunWith, NoCount
<1>8. NodesPaid(c)'
  BY <1>1, <1>3, <1>6 DEF NodesPaid, NoCount
<1>9. TensorsPaid(c)'
  <2>1. \A t \in Leaves \cup Retained : before'[t] + 0 = before'[t]
    BY <1>1, <1>2, AutogradAssumption DEF AutogradTypeOK, Tensors
  <2> QED BY <2>1, <1>1, <1>6, AutogradAssumption DEF TensorsPaid, NoGrad, Tensors
<1>10. Passed(c)'
  BY <1>7, <1>8, <1>9 DEF Passed
<1> QED BY <1>10

\* The steps that move on without an arrival.
LEMMA QuietAccount ==
  ASSUME AutogradInv, NEW d, Passed(d),
         UNCHANGED autogradVars \/ RootsDone \/ Skip \/ SilentEdge \/ NodeDone \/ RunDone
  PROVE  Passed(d)'
<1>1. /\ graph' = graph /\ outputs' = outputs /\ accumulate' = accumulate
      /\ before' = before /\ ran' = ran /\ nodeGrad' = nodeGrad
      /\ grad' = grad /\ gradsMap' = gradsMap /\ g' = g /\ cur' = cur
      /\ pc' = "edges" => pc = "edges"
  BY DEF autogradVars, argVars, taskVars, RootsDone, Skip, SilentEdge, NodeDone, RunDone
<1>2. /\ AutogradTypeOK /\ graph \in Graphs /\ RunWith(d)
  BY DEF AutogradInv, AutogradTypeOK, Passed
<1>3. RunWith(d)'
  BY <1>1, <1>2 DEF RunWith
<1>4. /\ at \in Nat \ {0} /\ outputs \in Seq(Tensors) /\ inputs[cur] \in Seq(Tensors)
      /\ cur \in Nodes
  BY <1>2, GraphTypes DEF AutogradTypeOK
<1>5. \A t : Fed(t)' = Fed(t)
  <2>1. \A k \in DOMAIN outputs : (pc' = "roots" => k < at') <=> (pc = "roots" => k < at)
    <3>1. CASE RootsDone
      <4>1. pc = "roots" /\ pc' # "roots" /\ at \notin DOMAIN outputs
        BY <3>1 DEF RootsDone
      <4>2. \A k \in DOMAIN outputs : k < at
        BY <4>1, <1>4
      <4> QED BY <4>1, <4>2
    <3>2. CASE ~RootsDone
      <4>1. pc' = "roots" <=> pc = "roots"
        BY <3>2 DEF autogradVars, Skip, SilentEdge, NodeDone, RunDone
      <4>2. pc = "roots" => at' = at
        BY <3>2 DEF autogradVars, Skip, SilentEdge, NodeDone, RunDone
      <4> QED BY <4>1, <4>2
    <3> QED BY <3>1, <3>2
  <2> QED BY <2>1, <1>1 DEF Fed
<1>6. \A t : Along(d, t)' = Along(d, t)
  <2> SUFFICES ASSUME NEW t, NEW e \in EdgesTo(t) PROVE Flow(d)'[e] = Flow(d)[e]
    BY <1>1, <1>2, AlongSame
  <2>1. /\ e \in Nodes \X Nat /\ e[2] \in Nat /\ e[2] \in DOMAIN inputs[e[1]]
        /\ e \notin graph.silent /\ e = <<e[1], e[2]>>
    BY <1>2, EdgeTo
  <2>2. CASE pc # "edges"
    BY <2>1, <2>2, <1>1 DEF Flow
  <2>3. CASE pc = "edges" /\ e[1] # cur
    BY <2>1, <2>3, <1>1 DEF Flow
  <2>4. CASE pc = "edges" /\ e[1] = cur
    <3>1. CASE NodeDone
      <4>1. pc' # "edges" /\ at \notin DOMAIN inputs[cur]
        BY <3>1 DEF NodeDone
      <4>2. ~ (e[2] >= at)
        <5>1. e[2] \in DOMAIN inputs[cur]
          BY <2>1, <2>4
        <5> HIDE DEF inputs
        <5> QED BY <5>1, <4>1, <1>4
      <4> QED BY <4>1, <4>2, <2>1 DEF Flow
    <3>2. CASE SilentEdge
      <4>1. pc' = "edges" /\ at' = at + 1 /\ <<cur, at>> \in graph.silent
        BY <3>2, <2>4 DEF SilentEdge
      <4>2. e[2] # at
        BY <4>1, <2>1, <2>4
      <4>3. e[2] >= at + 1 <=> e[2] >= at
        BY <4>2, <2>1, <1>4
      <4> QED BY <4>1, <4>3, <2>1, <1>1 DEF Flow
    <3>3. CASE UNCHANGED autogradVars
      BY <3>3, <1>1, <2>1 DEF Flow, autogradVars
    <3> QED BY <3>1, <3>2, <3>3, <2>4 DEF RootsDone, Skip, RunDone
  <2> QED BY <2>2, <2>3, <2>4
<1> QED BY <1>1, <1>2, <1>3, <1>5, <1>6, AccountKeeps

LEMMA AccountStep ==
  AutogradInv /\ Start /\ Account /\ [AutogradNext]_autogradVars => Account'
<1> SUFFICES ASSUME AutogradInv, Start, Account, [AutogradNext]_autogradVars, Live'
             PROVE  \E c : Passed(c)'
  BY DEF Account
<1>1. ASSUME NEW outs \in Outputs, NEW keep \in BOOLEAN, NEW acc \in BOOLEAN,
             Call(outs, keep, acc)
      PROVE  FALSE
  BY <1>1 DEF Call, Live
<1>2. CASE Visit \/ Return \/ Raise
  BY <1>2 DEF Visit, Return, Raise, Live
<1>3. CASE CountUsers
  BY <1>3, CountAccount
<1>4. CASE UNCHANGED autogradVars \/ (RunStep /\ ~Raise)
  <2>1. Live
    BY <1>4, RunStepKeeps DEF Live, autogradVars
  <2>2. PICK d : Passed(d)
    BY <2>1 DEF Account
  <2>3. CASE Root
    BY <2>2, <2>3, RootAccount
  <2>4. CASE Edge
    BY <2>2, <2>4, EdgeAccount
  <2>5. CASE RunNode
    BY <2>2, <2>5, RunAccount
  <2>6. CASE UNCHANGED autogradVars \/ RootsDone \/ Skip \/ SilentEdge \/ NodeDone \/ RunDone
    BY <2>2, <2>6, QuietAccount
  <2> QED BY <1>4, <2>3, <2>4, <2>5, <2>6 DEF RunStep
<1> QED
  BY <1>1, <1>2, <1>3, <1>4 DEF AutogradNext, Backward, RunStep, Stop

LEMMA InitWhole == AutogradInit => Whole
<1> SUFFICES ASSUME AutogradInit PROVE Whole
  OBVIOUS
<1>1. /\ pc = "idle" /\ at = 1 /\ gradsMap = NoGrad /\ nodeGrad = NoCount
  BY DEF AutogradInit
<1>2. Queued
  BY <1>1 DEF Queued, NoCount
<1>3. Account /\ Heard /\ Reached /\ Start /\ Owes
  BY <1>1 DEF Account, Heard, Live, Reached, Start, Owes
<1> QED BY <1>2, <1>3 DEF Whole

LEMMA WholeInvariance == AutogradSpec => []Whole
<1>1. AutogradInv /\ AutogradInv' /\ Whole /\ [AutogradNext]_autogradVars => Whole'
  BY AccountStep, QueuedStep, HeardStep, ReachedStep, StartStep, OwesStep
     DEF Whole, AutogradInv
<1> QED BY InitWhole, <1>1, AutogradInvariance, PTL DEF AutogradSpec

\* The end of a task: every node that was visited has been run, with all that
\* it was owed.
LEMMA AllRan ==
  ASSUME AutogradInv, Whole, pc = "done", Quiet, Acyclic
  PROVE  \A n \in visited : ran[n] > 0
<1> DEFINE U == {n \in visited : ran[n] = 0}
<1>1. /\ AutogradTypeOK /\ graph \in Graphs /\ visited \subseteq Nodes
      /\ ran \in [Nodes -> Nat] /\ nodeGrad \in [Nodes -> Nat] /\ received \in [Nodes -> Nat]
  BY DEF AutogradInv, AutogradTypeOK
<1> SUFFICES ASSUME U # {} PROVE FALSE
  BY <1>1
<1>2. Live /\ Running
  BY DEF Live, Running
<1>3. PICK n \in U : \A m \in U : n \notin GradFns(inputs[m])
  <2>1. U \in SUBSET Nodes
    BY <1>1
  <2> HIDE DEF U
  <2> QED BY <2>1 DEF Acyclic
<1>4. n \in visited /\ n \in Nodes /\ ran[n] = 0
  BY <1>1, <1>3
<1>5. \A m \in Users(n) : ran[m] > 0
  BY <1>1, <1>3 DEF Users
<1>6. Senders(n) = Users(n)
  BY <1>5 DEF Senders, Sent
<1>7. received[n] >= deps[n]
  <2>1. deps[n] = Cardinality(Users(n))
    BY <1>2, <1>4 DEF AutogradInv, Closed
  <2>2. Cardinality(Senders(n)) <= received[n]
    BY <1>2, <1>4 DEF Whole, Heard
  <2>3. Cardinality(Senders(n)) \in Nat /\ received[n] \in Nat
    BY <1>1, <1>4, SendersFinite
  <2> QED BY <2>1, <2>2, <2>3, <1>6
<1>8. PICK d : Passed(d)
  BY <1>2 DEF Whole, Account
<1>9. /\ RunWith(d) /\ d \in [Nodes -> Nat] /\ \A m \in Nodes : d[m] > 0 <=> ran[m] > 0
  BY <1>8 DEF Passed, RunWith
<1>10. ToNode(d, n) > 0
  <2>1. /\ IsFiniteSet(Fed(n)) /\ Cardinality(Fed(n)) \in Nat /\ Along(d, n) \in Nat
    BY <1>1, <1>9, ToTypes
  <2>2. Needed(n)
    BY <1>4 DEF Whole, Reached
  <2>3. CASE n \in GradFns(outputs)
    <3>1. Fed(n) # {}
      BY <2>3 DEF Fed, GradFns
    <3>2. Cardinality(Fed(n)) # 0
      BY <2>1, <3>1, FS_EmptySet
    <3> QED BY <2>1, <3>2 DEF ToNode
  <2>4. CASE n \notin GradFns(outputs)
    <3>1. PICK m \in visited : n \in Pushed(m)
      BY <2>2, <2>4 DEF Needed
    <3>2. PICK i \in DOMAIN inputs[m] : inputs[m][i] = n
      BY <3>1 DEF Pushed, GradFns
    <3>3. m \in Nodes /\ ran[m] > 0
      BY <1>1, <1>4, <1>5, <3>1 DEF Users, Pushed
    <3>4. PICK e : e = <<m, i>>
      OBVIOUS
    <3>5. e \notin graph.silent
      <4>1. e[1] = m /\ e[2] = i /\ inputs[m][i] \notin Leaves
        BY <3>2, <3>4, <1>4, AutogradAssumption
      <4> QED BY <4>1 DEF Quiet
    <3>6. e \in EdgesTo(n) /\ e[1] = m
      BY <3>2, <3>3, <3>4, <3>5, ToEdge
    <3>7. Flow(d)[e] = d[m]
      BY <3>6, <1>1, FlowAt
    <3>8. \A f \in EdgesTo(n) : Flow(d)[f] \in Nat
      BY <1>1, <1>9, FlowType
    <3>9. Flow(d)[e] <= Along(d, n)
      BY <1>1, <3>6, <3>8, EdgesFinite, TotalAtLeast DEF Along
    <3>10. d[m] > 0 /\ d[m] \in Nat
      BY <1>9, <3>3
    <3> QED BY <2>1, <3>7, <3>9, <3>10 DEF ToNode
  <2> QED BY <2>3, <2>4
<1>11. nodeGrad[n] # 0
  <2>1. d[n] + nodeGrad[n] = ToNode(d, n)
    BY <1>4, <1>8 DEF Passed, NodesPaid
  <2>2. d[n] = 0
    BY <1>4, <1>9
  <2> QED BY <2>1, <2>2, <1>10
<1>12. InReady(n)
  BY <1>4, <1>7, <1>11 DEF Whole, Queued
<1>13. ready = << >>
  BY DEF Whole, Start
<1> QED BY <1>12, <1>13 DEF InReady

LEMMA NothingHeld ==
  ASSUME AutogradInv, Whole, pc = "done", Quiet, Acyclic
  PROVE  \A n \in Nodes : nodeGrad[n] = 0
<1> SUFFICES ASSUME NEW n \in Nodes, nodeGrad[n] # 0 PROVE FALSE
  OBVIOUS
<1>1. /\ AutogradTypeOK /\ received \in [Nodes -> Nat] /\ Live /\ Running
  BY DEF AutogradInv, AutogradTypeOK, Live, Running
<1>2. deps[n] = IF n \in visited THEN Cardinality(Users(n)) ELSE 0
  BY <1>1 DEF AutogradInv, Closed
<1>3. received[n] >= deps[n]
  <2>1. CASE n \in visited
    <3>1. Senders(n) = Users(n)
      BY AllRan DEF Senders, Sent, Users
    <3>2. Cardinality(Senders(n)) <= received[n]
      BY <1>1 DEF Whole, Heard
    <3>3. Cardinality(Senders(n)) \in Nat /\ received[n] \in Nat
      BY <1>1, SendersFinite
    <3> QED BY <3>1, <3>2, <3>3, <2>1, <1>2
  <2>2. CASE n \notin visited
    BY <2>2, <1>1, <1>2
  <2> QED BY <2>1, <2>2
<1>4. InReady(n)
  BY <1>3 DEF Whole, Queued
<1>5. ready = << >>
  BY DEF Whole, Start
<1> QED BY <1>4, <1>5 DEF InReady

LEMMA WholeAtTheEnd ==
  ASSUME AutogradInv, Whole
  PROVE  GradientsComplete
<1> SUFFICES ASSUME pc = "done", Quiet, Acyclic
             PROVE  IF accumulate
                    THEN \A t \in Leaves \cup Retained : grad[t] = before[t] + target[t]
                    ELSE gradsMap = target
  BY DEF GradientsComplete
<1>1. /\ AutogradTypeOK /\ graph \in Graphs /\ gradsMap \in [Tensors -> Nat] /\ Live
  BY DEF AutogradInv, AutogradTypeOK, Live
<1>2. PICK d : Passed(d)
  BY <1>1 DEF Whole, Account
<1>3. d \in [Nodes -> Nat] /\ NodesPaid(d) /\ TensorsPaid(d) /\ RunWith(d)
  BY <1>2 DEF Passed, RunWith
<1>4. \A t : Cardinality(Fed(t)) = TimesIn(outputs, t)
  BY DEF Fed, TimesIn
<1>5. \A t : Along(d, t) = Total(Carry(d), EdgesTo(t))
  <2> SUFFICES ASSUME NEW t PROVE Along(d, t) = Total(Carry(d), EdgesTo(t))
    OBVIOUS
  <2>1. IsFiniteSet(EdgesTo(t))
    BY <1>1, EdgesFinite
  <2>2. \A e \in EdgesTo(t) : Flow(d)[e] = Carry(d)[e]
    BY <1>1, FlowAt, CarryAt
  <2>3. Total(Flow(d), EdgesTo(t)) = Total(Carry(d), EdgesTo(t))
    BY <2>1, <2>2, TotalSame
  <2> QED BY <2>3 DEF Along
<1>6. Solves(d, outputs)
  <2>1. ASSUME NEW n \in Nodes
        PROVE  d[n] = TimesIn(outputs, n) + Total(Carry(d), EdgesTo(n))
    <3>1. nodeGrad[n] = 0 /\ d[n] \in Nat
      BY <1>3, NothingHeld
    <3>2. d[n] + nodeGrad[n] = ToNode(d, n)
      BY <1>3 DEF NodesPaid
    <3>3. ToNode(d, n) = TimesIn(outputs, n) + Total(Carry(d), EdgesTo(n))
      BY <1>4, <1>5 DEF ToNode
    <3> QED BY ONLY <3>1, <3>2, <3>3
  <2> QED BY <1>3, <2>1 DEF Solves
<1>7. target = OwedBy(d, outputs)
  BY <1>6 DEF Whole, Owes
<1>8. \A t \in Tensors : target[t] = ToTensor(d, t)
  BY <1>4, <1>5, <1>7 DEF OwedBy, ToTensor
<1>9. CASE accumulate
  <2>1. Leaves \cup Retained \subseteq Tensors
    BY AutogradAssumption DEF Tensors
  <2> QED BY <2>1, <1>3, <1>8, <1>9 DEF TensorsPaid
<1>10. CASE ~accumulate
  <2>1. target = [t \in Tensors |-> target[t]]
    BY <1>7 DEF OwedBy
  <2>2. \A t \in Tensors : gradsMap[t] = target[t]
    BY <1>3, <1>8, <1>10 DEF TensorsPaid
  <2> QED BY <2>1, <2>2, <1>1, <1>10
<1> QED BY <1>9, <1>10

\* Where paths can be counted, in a graph without a cycle, a call that comes
\* to its end without a silent edge into a node has given every tensor the
\* gradient it was owed, one per path: also where the count of users let a
\* node run early and once more, for what it had already passed on is not
\* passed on again.
THEOREM GradientsWhole == AutogradSpec => []GradientsComplete
<1>1. AutogradInv /\ Whole => GradientsComplete
  BY WholeAtTheEnd
<1> QED BY <1>1, AutogradInvariance, WholeInvariance, PTL

\* In a graph without a cycle no node below the outputs waits for ever: what
\* _build_dependencies counts, it gets.
EveryNodeRuns == pc = "done" /\ Quiet /\ Acyclic => \A n \in visited : ran[n] > 0

\* A call that comes to its end, without a silent edge into a node, has run
\* every node below the outputs.
THEOREM NodesRun == AutogradSpec => []EveryNodeRuns
<1>1. AutogradInv /\ Whole => EveryNodeRuns
  BY AllRan DEF EveryNodeRuns
<1> QED BY <1>1, AutogradInvariance, WholeInvariance, PTL

=============================================================================
