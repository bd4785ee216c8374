---------------------------- MODULE StoreProofs -----------------------------
(***************************************************************************)
(* TCPStore implements Store, for any number of connections, threads, keys *)
(* and calls.  The invariant says what a connection carries while its lock *)
(* is held: on a sound one nothing, the request of the one thread that     *)
(* waits, or the answer to it.                                             *)
(***************************************************************************)
EXTENDS TCPStore, TLAPS

Types ==
  /\ data \in Contents
  /\ sound \subseteq Clients
  /\ up \in [Clients -> Seq(Calls)] /\ down \in [Clients -> Seq(Answers)]
  /\ pc \in [Threads -> {"idle", "sent"}]
  /\ call \in [Threads -> Calls \cup {Idle}]
  /\ outcome \in [Threads -> SUBSET Answers]
  /\ asked \in [Clients -> SUBSET (Keys \X Values)]

OnConn(t, c) == ConnOf[t] = c /\ Sent(t)

\* at most one thread waits on a connection
OneSent == \A t, u \in Threads : Sent(t) /\ Sent(u) /\ ConnOf[t] = ConnOf[u] => t = u
InCall == \A t \in Threads : Sent(t) => call[t] \in Calls

Requested(c) ==
  up[c] # << >> => /\ down[c] = << >> /\ Tail(up[c]) = << >>
                   /\ \E t \in Threads : OnConn(t, c) /\ call[t] = Head(up[c])
Answered(c) ==
  down[c] # << >> => /\ up[c] = << >> /\ Tail(down[c]) = << >> /\ Head(down[c]) # Rest
                     /\ \E t \in Threads : OnConn(t, c) /\ Expected(t, Head(down[c]))
Channels == \A c \in sound : Requested(c) /\ Answered(c)

\* every write under way was asked for
Known(c) == \A i \in 1 .. Len(up[c]) :
              up[c][i].cmd = "set" => <<up[c][i].key, up[c][i].val>> \in asked[c]
AllKnown == \A c \in Clients : Known(c)

\* a handler that ended leaves no request
Cleared == \A c \in Clients : c \notin open => up[c] = << >>

StoreInv == Types /\ OneSent /\ InCall /\ Channels /\ AllKnown /\ Cleared

-----------------------------------------------------------------------------
(* Sequences                                                               *)

LEMMA TailHead ==
  ASSUME NEW S, NEW s \in Seq(S), s # << >>
  PROVE  /\ Head(s) \in S /\ Tail(s) \in Seq(S) /\ Len(s) >= 1 /\ Head(s) = s[1]
         /\ Len(Tail(s)) = Len(s) - 1 /\ \A i \in 1 .. Len(s) - 1 : Tail(s)[i] = s[i + 1]
OBVIOUS

LEMMA AppendEmpty ==
  ASSUME NEW x
  PROVE  /\ Append(<< >>, x) # << >> /\ Head(Append(<< >>, x)) = x
         /\ Tail(Append(<< >>, x)) = << >>
OBVIOUS

-----------------------------------------------------------------------------
(* The invariant                                                           *)

LEMMA StoreInitially == TCPInit => StoreInv
<1> SUFFICES ASSUME TCPInit PROVE StoreInv
  OBVIOUS
<1>1. Types
  BY DEF TCPInit, Types
<1>2. \A t \in Threads : ~Sent(t)
  BY DEF TCPInit, Sent
<1>3. \A c \in Clients : up[c] = << >> /\ down[c] = << >>
  BY DEF TCPInit
<1> QED
  BY <1>1, <1>2, <1>3 DEF StoreInv, OneSent, InCall, Channels, Requested, Answered, AllKnown, Known, Types,
                         Cleared

LEMMA NobodySent ==
  ASSUME StoreInv, NEW c \in sound, \A u \in Threads : ConnOf[u] = c => ~Sent(u)
  PROVE  up[c] = << >> /\ down[c] = << >>
BY DEF StoreInv, Channels, Requested, Answered, OnConn

LEMMA CallKinds ==
  ASSUME NEW o \in Calls
  PROVE  /\ o # Idle
         /\ o.cmd = "set" => o.key \in Keys /\ o.val \in Values
         /\ o.cmd = "get" => o.key \in Keys
         /\ o.cmd \in {"set", "get", "wait"}
BY DEF Calls, Idle

LEMMA SendKeeps ==
  ASSUME StoreInv, NEW t \in Threads, NEW o \in Offered, Send(t, o)
  PROVE  StoreInv'
<1> DEFINE c0 == ConnOf[t]
<1>0. c0 \in Clients /\ o \in Calls
  BY StoreAssumption
<1>1. /\ ~Sent(t) /\ \A u \in Threads : ConnOf[u] = c0 => ~Sent(u)
      /\ pc' = [pc EXCEPT ![t] = "sent"] /\ call' = [call EXCEPT ![t] = o]
      /\ outcome' = [outcome EXCEPT ![t] = {}]
      /\ up' = IF c0 \in open THEN [up EXCEPT ![c0] = Append(@, o)] ELSE up
      /\ asked' = IF o.cmd = "set"
                  THEN [asked EXCEPT ![c0] = @ \cup {<<o.key, o.val>>}] ELSE asked
      /\ UNCHANGED <<data, down, sound>>
  BY DEF Send, LockFree
<1> HIDE DEF c0
<1>2. Types'
  <2>1. up' \in [Clients -> Seq(Calls)]
    BY <1>0, <1>1 DEF StoreInv, Types
  <2>2. asked' \in [Clients -> SUBSET (Keys \X Values)]
    BY <1>0, <1>1, CallKinds DEF StoreInv, Types
  <2> QED
    BY <1>0, <1>1, <2>1, <2>2 DEF StoreInv, Types
<1>3. \A u \in Threads : Sent(u)' <=> (u = t \/ Sent(u))
  BY <1>1 DEF StoreInv, Types, Sent
<1>4. \A u \in Threads : call'[u] = IF u = t THEN o ELSE call[u]
  BY <1>1 DEF StoreInv, Types
<1>5. OneSent' /\ InCall'
  BY <1>0, <1>1, <1>3, <1>4 DEF StoreInv, OneSent, InCall, c0
<1>6. \A c \in Clients : c # c0 => up'[c] = up[c] /\ asked'[c] = asked[c]
  BY <1>1 DEF StoreInv, Types
<1>7. Channels'
  <2> SUFFICES ASSUME NEW c \in sound PROVE Requested(c)' /\ Answered(c)'
    BY <1>1 DEF Channels
  <2>1. CASE c = c0
    <3>1. up[c] = << >> /\ down[c] = << >>
      BY <1>1, <2>1, NobodySent
    <3>2. up'[c] = << >> \/ up'[c] = Append(<< >>, o)
      BY <1>0, <1>1, <2>1, <3>1 DEF StoreInv, Types
    <3>3. OnConn(t, c)' /\ call'[t] = o
      BY <1>3, <1>4, <2>1 DEF OnConn, c0
    <3>4. Requested(c)'
      BY <1>1, <3>1, <3>2, <3>3, AppendEmpty DEF Requested
    <3> QED
      BY <1>1, <3>1, <3>4 DEF Answered
  <2>2. CASE c # c0
    <3>1. c \in Clients /\ up'[c] = up[c] /\ down'[c] = down[c]
      BY <1>1, <1>6, <2>2 DEF StoreInv, Types
    <3>2. \A u \in Threads : OnConn(u, c) => OnConn(u, c)' /\ call'[u] = call[u]
      BY <1>3, <1>4, <2>2 DEF OnConn, c0
    <3>3. Requested(c) /\ Answered(c)
      BY DEF StoreInv, Channels
    <3> QED
      BY <3>1, <3>2, <3>3 DEF Requested, Answered, Expected
  <2> QED
    BY <2>1, <2>2
<1>8. AllKnown'
  <2> SUFFICES ASSUME NEW c \in Clients PROVE Known(c)'
    BY DEF AllKnown
  <2>0. Known(c) /\ up[c] \in Seq(Calls)
    BY DEF StoreInv, AllKnown, Types
  <2>1. CASE c # c0
    BY <1>6, <2>0, <2>1 DEF Known
  <2>2. CASE c = c0
    <3>1. asked[c] \subseteq asked'[c] /\ (o.cmd = "set" => <<o.key, o.val>> \in asked'[c])
      BY <1>0, <1>1, <2>2 DEF StoreInv, Types
    <3>2. up'[c] = up[c] \/ up'[c] = Append(up[c], o)
      BY <1>0, <1>1, <2>2 DEF StoreInv, Types
    <3>3. CASE up'[c] = up[c]
      BY <2>0, <3>1, <3>3 DEF Known
    <3>4. CASE up'[c] = Append(up[c], o)
      <4> SUFFICES ASSUME NEW i \in 1 .. Len(up'[c]), up'[c][i].cmd = "set"
                   PROVE  <<up'[c][i].key, up'[c][i].val>> \in asked'[c]
        BY DEF Known
      <4>1. CASE i = Len(up[c]) + 1
        <5>1. up'[c][i] = o
          BY <2>0, <3>4, <4>1
        <5> QED
          BY <3>1, <5>1
      <4>2. CASE i # Len(up[c]) + 1
        <5>1. up'[c][i] = up[c][i] /\ i \in 1 .. Len(up[c])
          BY <2>0, <3>4, <4>2
        <5> QED
          BY <2>0, <3>1, <5>1 DEF Known
      <4> QED
        BY <4>1, <4>2
    <3> QED
      BY <3>2, <3>3, <3>4
  <2> QED
    BY <2>1, <2>2
<1>9. Cleared'
  BY <1>0, <1>1 DEF StoreInv, Cleared, Types, Send
<1> QED
  BY <1>2, <1>5, <1>7, <1>8, <1>9 DEF StoreInv

\* A call that ends leaves its connection empty, unless it leaves it unsound.
LEMMA EndKeeps ==
  ASSUME StoreInv, NEW t \in Threads, NEW answer \in SUBSET Answers, Ends(t, answer),
         Sent(t), sound' \subseteq sound, down' \in [Clients -> Seq(Answers)],
         \A c \in Clients : c # ConnOf[t] => down'[c] = down[c],
         ConnOf[t] \in sound' => up[ConnOf[t]] = << >> /\ down'[ConnOf[t]] = << >>
  PROVE  StoreInv'
<1>1. /\ pc' = [pc EXCEPT ![t] = "idle"] /\ call' = [call EXCEPT ![t] = Idle]
      /\ outcome' = [outcome EXCEPT ![t] = answer]
      /\ UNCHANGED <<data, open, up, asked>>
  BY DEF Ends
<1>2. Types'
  BY <1>1 DEF StoreInv, Types
<1>3. \A u \in Threads : Sent(u)' <=> (u # t /\ Sent(u))
  BY <1>1 DEF StoreInv, Types, Sent
<1>4. \A u \in Threads : u # t => call'[u] = call[u]
  BY <1>1 DEF StoreInv, Types
<1>5. OneSent' /\ InCall'
  BY <1>3, <1>4 DEF StoreInv, OneSent, InCall
<1>6. Channels'
  <2> SUFFICES ASSUME NEW c \in sound' PROVE Requested(c)' /\ Answered(c)'
    BY DEF Channels
  <2>1. CASE c = ConnOf[t]
    BY <1>1, <2>1 DEF Requested, Answered
  <2>2. CASE c # ConnOf[t]
    <3>1. c \in Clients /\ c \in sound /\ up'[c] = up[c] /\ down'[c] = down[c]
      BY <1>1, <2>2 DEF StoreInv, Types
    <3>2. \A u \in Threads : OnConn(u, c) => OnConn(u, c)' /\ call'[u] = call[u]
      BY <1>3, <1>4, <2>2 DEF OnConn
    <3>3. Requested(c) /\ Answered(c)
      BY <3>1 DEF StoreInv, Channels
    <3> QED
      BY <3>1, <3>2, <3>3 DEF Requested, Answered, Expected
  <2> QED
    BY <2>1, <2>2
<1>7. AllKnown' /\ Cleared'
  BY <1>1 DEF StoreInv, AllKnown, Known, Cleared
<1> QED
  BY <1>2, <1>5, <1>6, <1>7 DEF StoreInv

\* What t receives on a sound connection is the one answer there, and the expected one.
LEMMA Received ==
  ASSUME StoreInv, NEW t \in Threads, Sent(t), ConnOf[t] \in sound, down[ConnOf[t]] # << >>
  PROVE  /\ up[ConnOf[t]] = << >> /\ Tail(down[ConnOf[t]]) = << >>
         /\ Head(down[ConnOf[t]]) # Rest /\ Expected(t, Head(down[ConnOf[t]]))
<1> DEFINE c == ConnOf[t]
<1>1. /\ up[c] = << >> /\ Tail(down[c]) = << >> /\ Head(down[c]) # Rest
      /\ \E u \in Threads : OnConn(u, c) /\ Expected(u, Head(down[c]))
  BY DEF StoreInv, Channels, Answered
<1>2. PICK u \in Threads : OnConn(u, c) /\ Expected(u, Head(down[c]))
  BY <1>1
<1>3. u = t
  BY <1>2 DEF StoreInv, OneSent, OnConn
<1> QED
  BY <1>1, <1>2, <1>3

LEMMA TagsDiffer == OK # Rest /\ OK \in Answers /\ Rest \in Answers
BY DEF OK, Rest, Answers

LEMMA ReceiveKeeps ==
  ASSUME StoreInv, NEW t \in Threads, Receive(t)
  PROVE  StoreInv'
<1> DEFINE c == ConnOf[t]
           a == Head(down[c])
           rest == IF a.tag = "value" /\ ~Expected(t, a) THEN <<Rest>> \o Tail(down[c])
                   ELSE Tail(down[c])
<1>1. c \in Clients /\ down[c] \in Seq(Answers) /\ down[c] # << >> /\ Sent(t)
  BY StoreAssumption DEF Receive, StoreInv, Types
<1>2. a \in Answers /\ Tail(down[c]) \in Seq(Answers)
  BY <1>1, TailHead
<1>3. rest \in Seq(Answers)
  BY <1>2, TagsDiffer
<1>4. /\ Ends(t, IF Expected(t, a) THEN {a} ELSE {}) /\ sound' = sound
      /\ down' = [down EXCEPT ![c] = rest]
  BY DEF Receive
<1>5. (IF Expected(t, a) THEN {a} ELSE {}) \in SUBSET Answers
  BY <1>2
<1>6. c \in sound => up[c] = << >> /\ rest = << >>
  BY <1>1, Received
<1> HIDE DEF c, a, rest
<1>7. /\ down' \in [Clients -> Seq(Answers)] /\ down'[c] = rest
      /\ \A d \in Clients : d # c => down'[d] = down[d]
  BY <1>1, <1>3, <1>4 DEF StoreInv, Types
<1>8. c = ConnOf[t]
  BY DEF c
<1> QED
  BY <1>1, <1>4, <1>5, <1>6, <1>7, <1>8, EndKeeps

LEMMA RestKeeps ==
  ASSUME StoreInv, NEW t \in Threads, ReceiveRest(t)
  PROVE  StoreInv'
<1> DEFINE c == ConnOf[t]
<1>1. c \in Clients /\ down[c] \in Seq(Answers) /\ down[c] # << >> /\ Sent(t) /\ Head(down[c]) = Rest
  BY StoreAssumption DEF ReceiveRest, StoreInv, Types
<1>2. c \notin sound
  BY <1>1, Received
<1>3. PICK answer \in {{}, {OK}} : Ends(t, IF Expected(t, OK) THEN answer ELSE {})
  BY DEF ReceiveRest
<1>4. (IF Expected(t, OK) THEN answer ELSE {}) \in SUBSET Answers
  BY TagsDiffer
<1>5. Tail(down[c]) \in Seq(Answers)
  BY <1>1, TailHead
<1>6. sound' = sound /\ down' \in {down, [down EXCEPT ![c] = Tail(down[c])]}
  BY DEF ReceiveRest
<1>7. down' \in [Clients -> Seq(Answers)] /\ \A d \in Clients : d # c => down'[d] = down[d]
  BY <1>1, <1>5, <1>6 DEF StoreInv, Types
<1> QED
  BY <1>1, <1>2, <1>3, <1>4, <1>6, <1>7, EndKeeps

LEMMA NoAnswerKeeps ==
  ASSUME StoreInv, NEW t \in Threads, Disconnected(t) \/ GivesUp(t)
  PROVE  StoreInv'
<1>1. /\ Sent(t) /\ down[ConnOf[t]] = << >> /\ Ends(t, {}) /\ down' = down
      /\ \/ ConnOf[t] \notin open /\ sound' = sound
         \/ sound' = sound \ {ConnOf[t]}
  BY DEF Disconnected, GivesUp
<1>2. ConnOf[t] \in Clients
  BY StoreAssumption
<1>3. ConnOf[t] \in sound' => up[ConnOf[t]] = << >>
  BY <1>1, <1>2 DEF StoreInv, Cleared
<1>4. sound' \subseteq sound /\ down' \in [Clients -> Seq(Answers)]
  BY <1>1 DEF StoreInv, Types
<1>5. {} \in SUBSET Answers
  OBVIOUS
<1> QED
  BY <1>1, <1>3, <1>4, <1>5, EndKeeps

\* The handler of a sound connection serves the call of the one thread that waits on it.
LEMMA Served ==
  ASSUME StoreInv, NEW c \in sound, up[c] # << >>
  PROVE  /\ down[c] = << >> /\ Tail(up[c]) = << >>
         /\ \E t \in Threads : OnConn(t, c) /\ call[t] = Head(up[c])
BY DEF StoreInv, Channels, Requested

LEMMA ServeTypes ==
  ASSUME StoreInv, NEW c \in Clients, Serve(c)
  PROVE  /\ data' \in Contents
         /\ Head(up[c]) \in Calls /\ Tail(up[c]) \in Seq(Calls) /\ up[c] # << >>
         /\ Head(up[c]).cmd = "get" => Value(data[Head(up[c]).key]) \in Answers
<1> DEFINE o == Head(up[c])
<1>1. up[c] # << >> /\ up[c] \in Seq(Calls) /\ Ready(o)
  BY DEF Serve, StoreInv, Types
<1>2. o \in Calls /\ Tail(up[c]) \in Seq(Calls)
  BY <1>1, TailHead
<1>3. data' = IF o.cmd = "set" THEN [data EXCEPT ![o.key] = o.val] ELSE data
  BY DEF Serve
<1> HIDE DEF o
<1>4. data' \in Contents
  BY <1>2, <1>3, CallKinds DEF StoreInv, Types, Contents
<1>5. o.cmd = "get" => Value(data[o.key]) \in Answers
  <2> SUFFICES ASSUME o.cmd = "get" PROVE Value(data[o.key]) \in Answers
    OBVIOUS
  <2>1. o.key \in Keys /\ data[o.key] # NoValue
    BY <1>1, <1>2, CallKinds DEF Ready
  <2>2. data[o.key] \in Values
    BY <2>1 DEF StoreInv, Types, Contents
  <2> QED
    BY <2>2 DEF Answers
<1> QED
  BY <1>1, <1>2, <1>4, <1>5 DEF o

LEMMA ServeKeeps ==
  ASSUME StoreInv, NEW c0 \in Clients, Serve(c0)
  PROVE  StoreInv'
<1> DEFINE o == Head(up[c0])
           a == IF o.cmd = "get" THEN Value(data[o.key]) ELSE OK
<1>1. /\ data' \in Contents /\ o \in Calls /\ Tail(up[c0]) \in Seq(Calls)
      /\ up[c0] # << >> /\ up[c0] \in Seq(Calls)
  BY ServeTypes DEF StoreInv, Types
<1>2. a \in Answers
  BY ServeTypes, TagsDiffer
<1>3. /\ down' = [down EXCEPT ![c0] = Append(down[c0], a)]
      /\ up' = [up EXCEPT ![c0] = Tail(up[c0])]
      /\ UNCHANGED <<open, pc, call, outcome, sound, asked>>
  BY DEF Serve
<1>4. a # Rest /\ a.tag = IF o.cmd = "get" THEN "value" ELSE "ok"
  BY TagsDiffer DEF Value, OK, Rest
<1> HIDE DEF a
<1>5. Types'
  <2>1. Append(down[c0], a) \in Seq(Answers)
    BY <1>2 DEF StoreInv, Types
  <2> QED
    BY <1>1, <1>3, <2>1 DEF StoreInv, Types
<1>6. OneSent' /\ InCall'
  BY <1>3 DEF StoreInv, OneSent, InCall, Sent
<1>7. \A c \in Clients : c # c0 => up'[c] = up[c] /\ down'[c] = down[c]
  BY <1>3 DEF StoreInv, Types
<1>8. Channels'
  <2> SUFFICES ASSUME NEW c \in sound PROVE Requested(c)' /\ Answered(c)'
    BY <1>3 DEF Channels
  <2>1. CASE c = c0
    <3>1. down[c0] = << >> /\ Tail(up[c0]) = << >>
      BY <1>1, <2>1, Served
    <3>2. PICK t \in Threads : OnConn(t, c0) /\ call[t] = o
      BY <1>1, <2>1, Served
    <3>3. up'[c0] = << >> /\ down'[c0] = Append(<< >>, a)
      BY <1>3, <3>1 DEF StoreInv, Types
    <3>4. down'[c0] # << >> /\ Head(down'[c0]) = a /\ Tail(down'[c0]) = << >>
      BY <3>3, AppendEmpty
    <3>5. OnConn(t, c0)' /\ call'[t] = o
      BY <1>3, <3>2 DEF OnConn, Sent
    <3>6. Answered(c0)'
      BY <1>4, <3>3, <3>4, <3>5 DEF Answered, Expected
    <3> QED
      BY <2>1, <3>3, <3>6 DEF Requested
  <2>2. CASE c # c0
    <3>1. c \in Clients /\ Requested(c) /\ Answered(c)
      BY DEF StoreInv, Channels, Types
    <3> QED
      BY <1>3, <1>7, <2>2, <3>1 DEF Requested, Answered, Expected, OnConn, Sent
  <2> QED
    BY <2>1, <2>2
<1>9. AllKnown'
  <2> SUFFICES ASSUME NEW c \in Clients PROVE Known(c)'
    BY DEF AllKnown
  <2>1. Known(c)
    BY DEF StoreInv, AllKnown
  <2>2. CASE c # c0
    BY <1>3, <1>7, <2>1, <2>2 DEF Known
  <2>3. CASE c = c0
    <3>1. up'[c0] = Tail(up[c0])
      BY <1>3 DEF StoreInv, Types
    <3>2. /\ Len(Tail(up[c0])) = Len(up[c0]) - 1
          /\ \A i \in 1 .. Len(up[c0]) - 1 : Tail(up[c0])[i] = up[c0][i + 1]
      BY <1>1, TailHead
    <3> SUFFICES ASSUME NEW i \in 1 .. Len(up'[c0]), up'[c0][i].cmd = "set"
                 PROVE  <<up'[c0][i].key, up'[c0][i].val>> \in asked'[c0]
      BY <2>3 DEF Known
    <3>3. Len(up[c0]) \in Nat
      BY <1>1
    <3>4. i + 1 \in 1 .. Len(up[c0]) /\ up'[c0][i] = up[c0][i + 1]
      BY <3>1, <3>2, <3>3
    <3> QED
      BY <1>3, <2>1, <2>3, <3>4 DEF Known
  <2> QED
    BY <2>2, <2>3
<1>10. Cleared'
  BY <1>3, <1>7 DEF StoreInv, Cleared, Serve
<1> QED
  BY <1>5, <1>6, <1>8, <1>9, <1>10 DEF StoreInv

LEMMA HandlerKeeps ==
  ASSUME StoreInv, NEW c0 \in Clients, HandlerEnds(c0)
  PROVE  StoreInv'
<1>1. /\ up' = [up EXCEPT ![c0] = << >>] /\ open' = open \ {c0}
      /\ UNCHANGED <<data, down, pc, call, outcome, sound, asked>>
  BY DEF HandlerEnds
<1>2. \A c \in Clients : up'[c] = << >> \/ (up'[c] = up[c] /\ c # c0)
  BY <1>1 DEF StoreInv, Types
<1>3. Types'
  BY <1>1 DEF StoreInv, Types
<1>4. OneSent' /\ InCall'
  BY <1>1 DEF StoreInv, OneSent, InCall, Sent
<1>5. Channels'
  <2> SUFFICES ASSUME NEW c \in sound PROVE Requested(c)' /\ Answered(c)'
    BY <1>1 DEF Channels
  <2>1. c \in Clients /\ Requested(c) /\ Answered(c)
    BY DEF StoreInv, Channels, Types
  <2> QED
    BY <1>1, <1>2, <2>1 DEF Requested, Answered, Expected, OnConn, Sent
<1>6. AllKnown'
  BY <1>1, <1>2 DEF StoreInv, AllKnown, Known
<1>7. Cleared'
  BY <1>1, <1>2 DEF StoreInv, Cleared
<1> QED
  BY <1>3, <1>4, <1>5, <1>6, <1>7 DEF StoreInv

LEMMA StoreStep == StoreInv /\ [TCPNext]_tcpVars => StoreInv'
<1> SUFFICES ASSUME StoreInv, [TCPNext]_tcpVars PROVE StoreInv'
  OBVIOUS
<1>1. CASE Close \/ Terminated \/ UNCHANGED tcpVars
  <2>1. UNCHANGED <<data, open, up, down, pc, call, outcome, sound, asked>>
    BY <1>1 DEF Close, Terminated, tcpVars
  <2>2. Types' /\ OneSent' /\ InCall'
    BY <2>1 DEF StoreInv, Types, OneSent, InCall, Sent
  <2>3. Channels'
    BY <2>1 DEF StoreInv, Channels, Requested, Answered, Expected, OnConn, Sent
  <2>4. AllKnown' /\ Cleared'
    BY <2>1 DEF StoreInv, AllKnown, Known, Cleared
  <2> QED
    BY <2>2, <2>3, <2>4 DEF StoreInv
<1> QED
  BY <1>1, SendKeeps, ReceiveKeeps, RestKeeps, NoAnswerKeeps, ServeKeeps, HandlerKeeps
     DEF TCPNext, Client, Server

-----------------------------------------------------------------------------
(* The refinement                                                          *)

LEMMA OpAt == \A t \in Threads : Op[t] = IF Sent(t) THEN call[t] ELSE Idle
BY DEF Op

LEMMA EffectAt ==
  \A t \in Threads : Effect[t] = IF Sent(t) /\ ConnOf[t] \in sound /\ down[ConnOf[t]] # << >>
                                 THEN {Head(down[ConnOf[t]])} ELSE {}
BY DEF Effect

\* A step that touches neither threads nor answers leaves the abstract calls alone.
LEMMA SameCalls ==
  ASSUME UNCHANGED <<pc, call, down, sound>>
  PROVE  Op' = Op /\ Effect' = Effect
BY DEF Op, Effect, Sent

LEMMA SendInvokes ==
  ASSUME StoreInv, NEW t \in Threads, NEW o \in Offered, Send(t, o)
  PROVE  Abstract!Invoke(t, o)
<1>1. /\ ~Sent(t) /\ \A u \in Threads : ConnOf[u] = ConnOf[t] => ~Sent(u)
      /\ pc' = [pc EXCEPT ![t] = "sent"] /\ call' = [call EXCEPT ![t] = o]
      /\ UNCHANGED <<data, down, sound>>
  BY DEF Send, LockFree
<1>2. Op[t] = Idle
  BY <1>1, OpAt
<1>3. /\ \A u \in Threads : Sent(u)' <=> (u = t \/ Sent(u))
      /\ \A u \in Threads : call'[u] = IF u = t THEN o ELSE call[u]
  BY <1>1 DEF StoreInv, Types, Sent
<1>4. Op' = [Op EXCEPT ![t] = o]
  BY <1>3 DEF Op
<1>5. ConnOf[t] \in sound => down[ConnOf[t]] = << >>
  BY <1>1, NobodySent
<1>6. Effect' = Effect
  BY <1>1, <1>3, <1>5 DEF Effect
<1> QED
  BY <1>1, <1>2, <1>4, <1>6 DEF Abstract!Invoke, Abstract!Idle, Idle, Send

\* What a call that ends makes of the abstract calls.
LEMMA EndMaps ==
  ASSUME StoreInv, NEW t \in Threads, NEW answer, Ends(t, answer), Sent(t),
         sound' \subseteq sound, \A c \in Clients \ {ConnOf[t]} : down'[c] = down[c],
         \A c \in sound \ {ConnOf[t]} : c \in sound'
  PROVE  /\ Op[t] # Idle /\ Op' = [Op EXCEPT ![t] = Idle]
         /\ Effect' = [Effect EXCEPT ![t] = {}]
<1>1. pc' = [pc EXCEPT ![t] = "idle"] /\ call' = [call EXCEPT ![t] = Idle]
  BY DEF Ends
<1>2. /\ \A u \in Threads : Sent(u)' <=> (u # t /\ Sent(u))
      /\ \A u \in Threads : u # t => call'[u] = call[u]
  BY <1>1 DEF StoreInv, Types, Sent
<1>3. call[t] # Idle
  BY CallKinds DEF StoreInv, InCall
<1>4. Op[t] # Idle /\ Op' = [Op EXCEPT ![t] = Idle]
  BY <1>2, <1>3 DEF Op
<1>5. \A u \in Threads : u # t /\ Sent(u) => ConnOf[u] # ConnOf[t]
  BY DEF StoreInv, OneSent
<1>6. \A u \in Threads : u # t /\ Sent(u) =>
        (ConnOf[u] \in sound' <=> ConnOf[u] \in sound) /\ down'[ConnOf[u]] = down[ConnOf[u]]
  BY <1>5, StoreAssumption
<1>7. Effect' = [Effect EXCEPT ![t] = {}]
  BY <1>2, <1>6 DEF Effect
<1> QED
  BY <1>4, <1>7

LEMMA ReceiveReturns ==
  ASSUME StoreInv, NEW t \in Threads, Receive(t)
  PROVE  Abstract!Return(t)
<1> DEFINE a == Head(down[ConnOf[t]])
           answer == IF Expected(t, a) THEN {a} ELSE {}
<1>1. /\ Sent(t) /\ down[ConnOf[t]] # << >> /\ Ends(t, answer) /\ sound' = sound
  BY DEF Receive
<1>2. \A c \in Clients \ {ConnOf[t]} : down'[c] = down[c]
  BY DEF Receive, StoreInv, Types
<1>3. ConnOf[t] \in sound => Effect[t] # {} /\ answer = Effect[t]
  BY <1>1, Received, EffectAt
<1> HIDE DEF answer
<1>4. /\ Op[t] # Idle /\ Op' = [Op EXCEPT ![t] = Idle]
      /\ Effect' = [Effect EXCEPT ![t] = {}]
  BY <1>1, <1>2, EndMaps
<1>5. outcome' = [outcome EXCEPT ![t] = answer] /\ UNCHANGED <<data, asked>>
  BY <1>1 DEF Ends
<1>6. outcome'[t] = answer
  BY <1>5 DEF StoreInv, Types
<1> QED
  BY <1>1, <1>3, <1>4, <1>5, <1>6 DEF Abstract!Return, Abstract!Idle, Idle

LEMMA RestReturns ==
  ASSUME StoreInv, NEW t \in Threads, ReceiveRest(t)
  PROVE  Abstract!Return(t)
<1>1. Sent(t) /\ down[ConnOf[t]] # << >> /\ Head(down[ConnOf[t]]) = Rest /\ sound' = sound
  BY DEF ReceiveRest
<1>2. ConnOf[t] \notin sound
  BY <1>1, Received
<1>3. PICK answer : Ends(t, answer)
  BY DEF ReceiveRest
<1>4. \A c \in Clients \ {ConnOf[t]} : down'[c] = down[c]
  BY DEF ReceiveRest, StoreInv, Types
<1>5. /\ Op[t] # Idle /\ Op' = [Op EXCEPT ![t] = Idle]
      /\ Effect' = [Effect EXCEPT ![t] = {}]
  BY <1>1, <1>3, <1>4, EndMaps
<1>6. outcome' = [outcome EXCEPT ![t] = answer] /\ UNCHANGED <<data, asked>>
  BY <1>3 DEF Ends
<1>7. outcome'[t] = answer
  BY <1>6 DEF StoreInv, Types
<1> QED
  BY <1>1, <1>2, <1>5, <1>6, <1>7 DEF Abstract!Return, Abstract!Idle, Idle

LEMMA NoAnswerFails ==
  ASSUME StoreInv, NEW t \in Threads, Disconnected(t) \/ GivesUp(t)
  PROVE  Abstract!Fail(t)
<1>1. /\ Sent(t) /\ Ends(t, {}) /\ down' = down
      /\ sound' = sound \/ sound' = sound \ {ConnOf[t]}
  BY DEF Disconnected, GivesUp
<1>2. /\ Op[t] # Idle /\ Op' = [Op EXCEPT ![t] = Idle]
      /\ Effect' = [Effect EXCEPT ![t] = {}]
  BY <1>1, EndMaps
<1>3. outcome' = [outcome EXCEPT ![t] = {}] /\ UNCHANGED <<data, asked>>
  BY <1>1 DEF Ends
<1> QED
  BY <1>1, <1>2, <1>3 DEF Abstract!Fail, Abstract!Idle, Idle

\* On a sound connection the request that is served is the call in which its thread is.
LEMMA ServeTakesEffect ==
  ASSUME StoreInv, NEW c \in sound, Serve(c)
  PROVE  \E t \in Threads : Abstract!TakeEffect(t)
<1> DEFINE o == Head(up[c])
           a == IF o.cmd = "get" THEN Value(data[o.key]) ELSE OK
<1>1. c \in Clients /\ up[c] # << >> /\ o \in Calls
  BY ServeTypes DEF StoreInv, Types
<1>2. down[c] = << >>
  BY <1>1, Served
<1>3. PICK t \in Threads : OnConn(t, c) /\ call[t] = o
  BY <1>1, Served
<1>4. /\ data' = IF o.cmd = "set" THEN [data EXCEPT ![o.key] = o.val] ELSE data
      /\ down' = [down EXCEPT ![c] = Append(down[c], a)]
      /\ Ready(o)
      /\ UNCHANGED <<pc, call, outcome, sound, asked>>
  BY DEF Serve
<1> HIDE DEF o, a
<1>5. Op[t] = o /\ Op[t] # Idle /\ Effect[t] = {}
  BY <1>1, <1>2, <1>3, OpAt, EffectAt, CallKinds DEF OnConn
<1>6. Op' = Op
  BY <1>4 DEF Op, Sent
<1>7. down'[c] # << >> /\ Head(down'[c]) = a
  BY <1>1, <1>2, <1>4, AppendEmpty DEF StoreInv, Types
<1>8. \A d \in Clients : d # c => down'[d] = down[d]
  BY <1>4 DEF StoreInv, Types
<1>9. \A u \in Threads : Sent(u) /\ u # t => ConnOf[u] # c
  BY <1>3 DEF StoreInv, OneSent, OnConn
<1>10. Effect' = [Effect EXCEPT ![t] = {a}]
  <2>1. Effect'[t] = {a}
    BY <1>3, <1>4, <1>7 DEF Effect, Sent, OnConn
  <2>2. \A u \in Threads : u # t => Effect'[u] = Effect[u]
    BY <1>4, <1>8, <1>9, StoreAssumption DEF Effect, Sent
  <2> QED
    BY <2>1, <2>2 DEF Effect
<1>11. CASE o.cmd = "set"
  BY <1>4, <1>5, <1>6, <1>10, <1>11 DEF Abstract!TakeEffect, Abstract!Idle, Idle, Abstract!OK, OK, a
<1>12. CASE o.cmd = "get"
  BY <1>4, <1>5, <1>6, <1>10, <1>12 DEF Abstract!TakeEffect, Abstract!Idle, Idle, Abstract!Value, Value, a, Ready
<1>13. CASE o.cmd = "wait"
  BY <1>4, <1>5, <1>6, <1>10, <1>13 DEF Abstract!TakeEffect, Abstract!Idle, Idle, Abstract!OK, OK, a, Ready
<1> QED
  BY <1>1, <1>11, <1>12, <1>13, CallKinds

LEMMA ServeLate ==
  ASSUME StoreInv, NEW c \in Clients \ sound, Serve(c)
  PROVE  Abstract!LateWrite(c) \/ UNCHANGED Abstract!storeVars
<1> DEFINE o == Head(up[c])
<1>1. up[c] # << >> /\ up[c] \in Seq(Calls)
  BY DEF Serve, StoreInv, Types
<1>2. /\ data' = IF o.cmd = "set" THEN [data EXCEPT ![o.key] = o.val] ELSE data
      /\ UNCHANGED <<pc, call, outcome, sound, asked>>
      /\ \A d \in Clients : d # c => down'[d] = down[d]
  BY DEF Serve, StoreInv, Types
<1>3. Op' = Op
  BY <1>2 DEF Op, Sent
<1>4. Effect' = Effect
  BY <1>2, StoreAssumption DEF Effect, Sent
<1>5. o.cmd = "set" => <<o.key, o.val>> \in asked[c]
  <2>1. Len(up[c]) >= 1 /\ o = up[c][1] /\ Len(up[c]) \in Nat
    BY <1>1, TailHead
  <2>2. 1 \in 1 .. Len(up[c])
    BY <2>1
  <2> QED
    BY <2>1, <2>2 DEF StoreInv, AllKnown, Known
<1> HIDE DEF o
<1>6. CASE o.cmd = "set"
  <2>1. PICK w \in asked[c] : w = <<o.key, o.val>>
    BY <1>5, <1>6
  <2>2. data' = [data EXCEPT ![w[1]] = w[2]]
    BY <1>2, <1>6, <2>1
  <2> QED
    BY <1>2, <1>3, <1>4, <2>2 DEF Abstract!LateWrite
<1>7. CASE o.cmd # "set"
  BY <1>2, <1>3, <1>4, <1>7 DEF Abstract!storeVars
<1> QED
  BY <1>6, <1>7

LEMMA StepMaps ==
  StoreInv /\ [TCPNext]_tcpVars => [Abstract!StoreNext]_(Abstract!storeVars)
<1> SUFFICES ASSUME StoreInv, [TCPNext]_tcpVars
             PROVE  Abstract!StoreNext \/ UNCHANGED Abstract!storeVars
  OBVIOUS
<1>1. ASSUME NEW t \in Threads, NEW o \in Offered, Send(t, o) PROVE Abstract!StoreNext
  <2>1. o \in Abstract!Calls
    BY StoreAssumption DEF Calls, Abstract!Calls
  <2> QED
    BY <1>1, <2>1, SendInvokes DEF Abstract!StoreNext
<1>2. ASSUME NEW t \in Threads, Client(t) \/ GivesUp(t) PROVE Abstract!StoreNext
  <2>1. Abstract!Return(t) \/ Abstract!Fail(t)
    BY <1>2, ReceiveReturns, RestReturns, NoAnswerFails DEF Client
  <2> QED
    BY <2>1 DEF Abstract!StoreNext
<1>3. ASSUME NEW c \in Clients, Serve(c)
      PROVE  Abstract!StoreNext \/ UNCHANGED Abstract!storeVars
  <2>1. CASE c \in sound
    BY <1>3, <2>1, ServeTakesEffect DEF Abstract!StoreNext
  <2>2. CASE c \notin sound
    <3>1. Abstract!LateWrite(c) \/ UNCHANGED Abstract!storeVars
      BY <1>3, <2>2, ServeLate
    <3> QED
      BY <3>1 DEF Abstract!StoreNext
  <2> QED
    BY <2>1, <2>2
<1>4. ASSUME UNCHANGED <<data, pc, call, outcome, down, sound, asked>>
      PROVE  UNCHANGED Abstract!storeVars
  BY <1>4, SameCalls DEF Abstract!storeVars
<1>5. CASE (\E c \in Clients : HandlerEnds(c)) \/ Close \/ Terminated \/ UNCHANGED tcpVars
  BY <1>4, <1>5 DEF HandlerEnds, Close, Terminated, tcpVars
<1> QED
  BY <1>1, <1>2, <1>3, <1>5 DEF TCPNext, Server

LEMMA InitMaps == TCPInit => Abstract!StoreInit
<1> SUFFICES ASSUME TCPInit PROVE Abstract!StoreInit
  OBVIOUS
<1>1. \A t \in Threads : ~Sent(t)
  BY DEF TCPInit, Sent
<1>2. Op = [t \in Threads |-> Idle] /\ Effect = [t \in Threads |-> {}]
  BY <1>1 DEF Op, Effect
<1> QED
  BY <1>2 DEF TCPInit, Abstract!StoreInit, Abstract!Idle, Idle, Contents

\* Types.
THEOREM StoreTypes == TCPSpec => []TCPTypeOK
<1> DEFINE Others == closed \in BOOLEAN /\ open \subseteq Clients /\ calls \in 0 .. MaxCalls
<1>1. TCPInit => Others
  <2>1. TCPInit => closed \in BOOLEAN /\ open \subseteq Clients /\ calls = 0
    BY DEF TCPInit
  <2> QED BY <2>1, StoreAssumption
<1>2. Others /\ [TCPNext]_tcpVars => Others'
  <2> SUFFICES ASSUME Others, [TCPNext]_tcpVars PROVE Others'
    OBVIOUS
  <2>1. ASSUME NEW t \in Threads, NEW o \in Offered, Send(t, o) PROVE Others'
    BY <2>1, StoreAssumption DEF Send
  <2>2. ASSUME NEW t \in Threads, Client(t) \/ GivesUp(t) PROVE Others'
    BY <2>2 DEF Client, Receive, ReceiveRest, Disconnected, GivesUp, Ends
  <2>3. ASSUME NEW c \in Clients, Server(c) PROVE Others'
    BY <2>3 DEF Server, Serve, HandlerEnds
  <2>4. CASE Close \/ Terminated \/ UNCHANGED tcpVars
    BY <2>4 DEF Close, Terminated, tcpVars
  <2> QED
    BY <2>1, <2>2, <2>3, <2>4 DEF TCPNext
<1>3. StoreInv /\ Others => TCPTypeOK
  BY DEF StoreInv, Types, TCPTypeOK
<1> QED
  BY <1>1, <1>2, <1>3, StoreInitially, StoreStep, PTL DEF TCPSpec

\* Threads that share connections see one map, on which their calls take effect one at a
\* time, whatever is late, lost or closed on other connections (_store.py, TCPStore and
\* _StoreServer).
THEOREM StoreKeepsPromise == TCPSpec => KeepsPromise
<1>1. TCPSpec => []StoreInv
  BY StoreInitially, StoreStep, PTL DEF TCPSpec
<1> QED
  BY <1>1, InitMaps, StepMaps, PTL DEF TCPSpec, KeepsPromise, Abstract!StoreSpec

=============================================================================
