------------------------------ MODULE TCPStore ------------------------------
(***************************************************************************)
(* The TCP store of mindtorch_v2/distributed/_store.py.  Each TCPStore     *)
(* object holds one connection to the server, which runs a handler thread  *)
(* for it; the threads of a process take turns on the connection through   *)
(* the object's lock, which a call holds until it is answered.             *)
(*                                                                         *)
(* A connection is two FIFO channels.  A message is one element; of a      *)
(* value that is read as an answer of one byte the Rest stays.             *)
(***************************************************************************)
EXTENDS Integers, Sequences

CONSTANTS Keys, Values, NoValue,
          Clients,   \* TCPStore objects, and their connections
          Threads,   \* threads that call them
          ConnOf,    \* ConnOf[t]: the object t calls
          Offered,   \* the calls they make
          MaxCalls   \* bound on the number of calls

VARIABLES data,      \* _StoreServer._data
          closed,    \* _StoreServer._closed
          open,      \* connections whose handler runs
          up, down,  \* requests and answers under way
          pc,        \* pc[t]: "idle", or "sent" when it waits for an answer
          call,      \* call[t]: arguments of the call t is in
          outcome,   \* outcome[t]: what t's last call returned, {} if it raised
          calls,     \* how many calls were made
          sound,     \* history: connections no call gave up on
          asked      \* history: writes sent over each connection

tcpVars == <<data, closed, open, up, down, pc, call, outcome, calls, sound, asked>>

Contents == [Keys -> Values \cup {NoValue}]
Idle == [cmd |-> "none"]
Calls == [cmd : {"set"}, key : Keys, val : Values]
         \cup [cmd : {"get"}, key : Keys] \cup [cmd : {"wait"}, keys : SUBSET Keys]

ASSUME StoreAssumption == /\ NoValue \notin Values /\ ConnOf \in [Threads -> Clients]
                          /\ Offered \subseteq Calls /\ MaxCalls \in Nat

OK == [tag |-> "ok"]              \* _RESP_OK
Value(v) == [tag |-> "value", val |-> v]   \* _RESP_VALUE and the value
Rest == [tag |-> "rest"]

Sent(t) == pc[t] = "sent"
Op == [t \in Threads |-> IF Sent(t) THEN call[t] ELSE Idle]
Effect == [t \in Threads |->
             IF Sent(t) /\ ConnOf[t] \in sound /\ down[ConnOf[t]] # << >>
             THEN {Head(down[ConnOf[t]])} ELSE {}]
Abstract == INSTANCE Store WITH op <- Op, effect <- Effect

\* calls made before may have set any keys
TCPInit ==
  /\ data \in Contents
  /\ closed = FALSE /\ open = Clients
  /\ up = [c \in Clients |-> << >>] /\ down = [c \in Clients |-> << >>]
  /\ pc = [t \in Threads |-> "idle"] /\ call = [t \in Threads |-> Idle]
  /\ outcome = [t \in Threads |-> {}] /\ calls = 0
  /\ sound = Clients /\ asked = [c \in Clients |-> {}]

-----------------------------------------------------------------------------
(* TCPStore: set, get and wait                                             *)

\* `with self._lock`: one call at a time on a connection
LockFreeAny(c) == TRUE   \* mutant: no lock
LockFree(c) == \A t \in Threads : ConnOf[t] = c => ~Sent(t)

\* t has the lock and sends its request; to a handler that ended it is lost
Send(t, o) ==
  LET c == ConnOf[t]
  IN  /\ ~Sent(t) /\ calls < MaxCalls /\ LockFree(c)
      /\ pc' = [pc EXCEPT ![t] = "sent"] /\ call' = [call EXCEPT ![t] = o]
      /\ calls' = calls + 1
      /\ outcome' = [outcome EXCEPT ![t] = {}]
      /\ up' = IF c \in open THEN [up EXCEPT ![c] = Append(@, o)] ELSE up
      /\ asked' = IF o.cmd = "set"
                  THEN [asked EXCEPT ![c] = @ \cup {<<o.key, o.val>>}] ELSE asked
      /\ UNCHANGED <<data, closed, open, down, sound>>

Ends(t, answer) ==
  /\ pc' = [pc EXCEPT ![t] = "idle"] /\ call' = [call EXCEPT ![t] = Idle]
  /\ outcome' = [outcome EXCEPT ![t] = answer]
  /\ UNCHANGED <<data, closed, open, up, calls, asked>>

Expected(t, a) == a.tag = IF call[t].cmd = "get" THEN "value" ELSE "ok"

\* the answer, or RuntimeError for one of the other kind
Receive(t) ==
  LET c == ConnOf[t]
      a == Head(down[c])
  IN  /\ Sent(t) /\ down[c] # << >> /\ a # Rest
      /\ Ends(t, IF Expected(t, a) THEN {a} ELSE {})
      /\ down' = [down EXCEPT ![c] = IF a.tag = "value" /\ ~Expected(t, a)
                                     THEN <<Rest>> \o Tail(@) ELSE Tail(@)]
      /\ UNCHANGED sound

\* bytes of a value are taken for the byte of an answer
ReceiveRest(t) ==
  LET c == ConnOf[t]
  IN  /\ Sent(t) /\ down[c] # << >> /\ Head(down[c]) = Rest
      /\ \E answer \in {{}, {OK}} : Ends(t, IF Expected(t, OK) THEN answer ELSE {})
      /\ down' \in {down, [down EXCEPT ![c] = Tail(@)]}
      /\ UNCHANGED sound

\* the connection is closed: RuntimeError, or an error of the socket
Disconnected(t) ==
  /\ Sent(t) /\ ConnOf[t] \notin open /\ down[ConnOf[t]] = << >>
  /\ Ends(t, {})
  /\ UNCHANGED <<down, sound>>

\* socket.timeout, after the timeout given to wait or that of the object
GivesUp(t) ==
  /\ Sent(t) /\ down[ConnOf[t]] = << >>
  /\ Ends(t, {})
  /\ sound' = sound \ {ConnOf[t]}
  /\ UNCHANGED down

-----------------------------------------------------------------------------
(* _StoreServer                                                            *)

ReadyAny(o) == TRUE   \* mutant: does not wait
Ready(o) == \/ o.cmd = "set"
            \/ o.cmd = "get" /\ data[o.key] # NoValue
            \/ o.cmd = "wait" /\ \A k \in o.keys : data[k] # NoValue

\* _handle: the next request, when its condition holds
Serve(c) ==
  LET o == Head(up[c])
  IN  /\ c \in open /\ up[c] # << >> /\ Ready(o)
      /\ data' = IF o.cmd = "set" THEN [data EXCEPT ![o.key] = o.val] ELSE data
      /\ down' = [down EXCEPT ![c] =
                    Append(@, IF o.cmd = "get" THEN Value(data[o.key]) ELSE OK)]
      /\ up' = [up EXCEPT ![c] = Tail(@)]
      /\ UNCHANGED <<closed, open, pc, call, outcome, calls, sound, asked>>

Blocked(c) == up[c] # << >> /\ ~Ready(Head(up[c]))
StopsNever(c) == FALSE   \* mutant: no deadline
Stops(c) == closed \/ Blocked(c)

\* the deadline of a request, or the server closed: the handler ends
HandlerEnds(c) ==
  /\ c \in open /\ Stops(c)
  /\ open' = open \ {c} /\ up' = [up EXCEPT ![c] = << >>]
  /\ UNCHANGED <<data, closed, down, pc, call, outcome, calls, sound, asked>>

Close ==
  /\ ~closed /\ closed' = TRUE
  /\ UNCHANGED <<data, open, up, down, pc, call, outcome, calls, sound, asked>>

-----------------------------------------------------------------------------

Client(t) == Receive(t) \/ ReceiveRest(t) \/ Disconnected(t)
Server(c) == Serve(c) \/ HandlerEnds(c)

Terminated == (\A t \in Threads : pc[t] = "idle") /\ calls = MaxCalls
              /\ UNCHANGED tcpVars

TCPNext ==
  \/ \E t \in Threads : Client(t) \/ GivesUp(t) \/ \E o \in Offered : Send(t, o)
  \/ \E c \in Clients : Server(c)
  \/ Close \/ Terminated

TCPSpec == TCPInit /\ [][TCPNext]_tcpVars
FairTCP == TCPSpec /\ (\A t \in Threads : WF_tcpVars(Client(t)))
                   /\ (\A c \in Clients : WF_tcpVars(Server(c)))

-----------------------------------------------------------------------------
(* Properties                                                              *)

Answers == {OK, Rest} \cup {Value(v) : v \in Values}

\* Types.
TCPTypeOK ==
  /\ data \in Contents
  /\ closed \in BOOLEAN /\ open \subseteq Clients /\ sound \subseteq Clients
  /\ up \in [Clients -> Seq(Calls)] /\ down \in [Clients -> Seq(Answers)]
  /\ pc \in [Threads -> {"idle", "sent"}]
  /\ call \in [Threads -> Calls \cup {Idle}]
  /\ calls \in 0 .. MaxCalls
  /\ outcome \in [Threads -> SUBSET Answers]
  /\ asked \in [Clients -> SUBSET (Keys \X Values)]

\* The threads that use the store see a key-value map whose calls take effect one
\* at a time: a get returns what the last set before its effect stored, a set that
\* returned is seen by all, and a wait returns when its keys are there.  Only the
\* connection on which a call timed out is excepted (_store.py:187).
KeepsPromise == Abstract!StoreSpec

\* Every call returns or raises, and frees the lock: also a get whose key is never set
\* or is to be set by a thread that waits for the lock (_store.py:167), and a call on a
\* connection that is closed.
StoreCallsEnd == \A t \in Threads : Sent(t) ~> ~Sent(t)

=============================================================================
