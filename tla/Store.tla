------------------------------- MODULE Store --------------------------------
(***************************************************************************)
(* What a key-value store of a process group promises to the threads that  *)
(* share connections to it: a call takes effect at one moment between its  *)
(* start and its return.  set stores the value; get waits for its key and  *)
(* returns what the key holds; wait waits for its keys.  A call may fail   *)
(* instead.                                                                *)
(*                                                                         *)
(* After a call that gave up by itself, its connection is unsound: what it *)
(* answers means nothing, and a write asked for over it may come late.     *)
(* The others keep the promise.                                            *)
(***************************************************************************)
CONSTANTS Keys, Values, NoValue, Clients, Threads,
          ConnOf   \* the connection a thread uses

Idle == [cmd |-> "none"]
Calls == [cmd : {"set"}, key : Keys, val : Values]
         \cup [cmd : {"get"}, key : Keys] \cup [cmd : {"wait"}, keys : SUBSET Keys]

\* set and wait answer "ok"
OK == [tag |-> "ok"]
Value(v) == [tag |-> "value", val |-> v]

VARIABLES data,     \* the key-value map, NoValue where a key is not set
          op,       \* op[t]: the call of t, or Idle
          effect,   \* effect[t]: {} until the call takes effect, then its answer
          outcome,  \* outcome[t]: {} while t is in a call or failed, else its answer
          sound,    \* the connections on which no call gave up by itself
          asked     \* the writes asked for over each connection

storeVars == <<data, op, effect, outcome, sound, asked>>

StoreInit ==
  /\ data \in [Keys -> Values \cup {NoValue}]
  /\ op = [t \in Threads |-> Idle] /\ effect = [t \in Threads |-> {}]
  /\ outcome = [t \in Threads |-> {}]
  /\ sound = Clients
  /\ asked = [c \in Clients |-> {}]

Invoke(t, call) ==
  /\ op[t] = Idle
  /\ op' = [op EXCEPT ![t] = call]
  /\ outcome' = [outcome EXCEPT ![t] = {}]
  /\ asked' = IF call.cmd = "set"
              THEN [asked EXCEPT ![ConnOf[t]] = @ \cup {<<call.key, call.val>>}] ELSE asked
  /\ UNCHANGED <<data, effect, sound>>

TakeEffect(t) ==
  /\ op[t] # Idle /\ effect[t] = {}
  /\ \/ /\ op[t].cmd = "set"
        /\ data' = [data EXCEPT ![op[t].key] = op[t].val]
        /\ effect' = [effect EXCEPT ![t] = {OK}]
     \/ /\ op[t].cmd = "get" /\ data[op[t].key] # NoValue
        /\ effect' = [effect EXCEPT ![t] = {Value(data[op[t].key])}]
        /\ UNCHANGED data
     \/ /\ op[t].cmd = "wait" /\ \A k \in op[t].keys : data[k] # NoValue
        /\ effect' = [effect EXCEPT ![t] = {OK}]
        /\ UNCHANGED data
  /\ UNCHANGED <<op, outcome, sound, asked>>

Return(t) ==
  /\ op[t] # Idle
  /\ ConnOf[t] \in sound => effect[t] # {} /\ outcome'[t] = effect[t]
  /\ outcome' = [outcome EXCEPT ![t] = outcome'[t]]
  /\ op' = [op EXCEPT ![t] = Idle] /\ effect' = [effect EXCEPT ![t] = {}]
  /\ UNCHANGED <<data, sound, asked>>

Fail(t) ==
  /\ op[t] # Idle
  /\ op' = [op EXCEPT ![t] = Idle] /\ effect' = [effect EXCEPT ![t] = {}]
  /\ outcome' = [outcome EXCEPT ![t] = {}]
  /\ sound' \in {sound, sound \ {ConnOf[t]}}
  /\ UNCHANGED <<data, asked>>

LateWrite(c) ==
  /\ c \notin sound
  /\ \E w \in asked[c] : data' = [data EXCEPT ![w[1]] = w[2]]
  /\ UNCHANGED <<op, effect, outcome, sound, asked>>

StoreNext ==
  \/ \E t \in Threads : TakeEffect(t) \/ Return(t) \/ Fail(t)
                        \/ \E call \in Calls : Invoke(t, call)
  \/ \E c \in Clients : LateWrite(c)

StoreSpec == StoreInit /\ [][StoreNext]_storeVars

=============================================================================
