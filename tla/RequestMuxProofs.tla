-------------------------- MODULE RequestMuxProofs --------------------------
(* What RequestMux does for every set of callers, connections and requests *)
(* and every combination of faults.                                        *)
EXTENDS RequestMux, TLAPS

(* A reader meets messages, the hello and garbage; the three are distinct. *)
LEMMA StreamHead ==
  ASSUME TypeOK, NEW c \in Conns, fromDevice[c] # <<>>
  PROVE  /\ Tail(fromDevice[c]) \in Seq(Msg \cup {Hello, Garbage})
         /\ Len(fromDevice[c]) \in Nat \ {0}
         /\ Head(fromDevice[c]) = fromDevice[c][1]
         /\ Len(Tail(fromDevice[c])) = Len(fromDevice[c]) - 1
         /\ \A i \in 1..Len(fromDevice[c]) - 1 :
              Tail(fromDevice[c])[i] = fromDevice[c][i + 1]
BY DEF TypeOK

THEOREM TypeCorrect == Spec => []TypeOK
<1>1. Init => TypeOK
  BY CallsAssumption DEF Init, TypeOK, Live
<1>2. TypeOK /\ [Next]_vars => TypeOK'
  <2> SUFFICES ASSUME TypeOK, [Next]_vars PROVE TypeOK'
    OBVIOUS
  <2> USE CallsAssumption, UsesAssumption DEF TypeOK, Live, callerVars, connVars
  <2>1. ASSUME NEW g \in Callers, NEW r \in Requests, Call(g, r) PROVE TypeOK'
    <3>1. count[g] + 1 \in 1..MaxCalls
      BY <2>1 DEF Call
    <3>2. <<g, count[g] + 1>> \in Calls
      BY <3>1 DEF Calls
    <3>3. incoming' \in [Keys -> Calls \cup {None}]
      BY <2>1, <3>2 DEF Call, Register
    <3>4. QED
      BY <2>1, <3>1, <3>3 DEF Call
  <2>2. ASSUME NEW d \in deliveries, Deliver(d) PROVE TypeOK'
    BY <2>2 DEF Deliver
  <2>3. ASSUME NEW g \in Callers, Finish(g) PROVE TypeOK'
    BY <2>3 DEF Finish, Unregister
  <2>4. ASSUME NEW c \in Conns, Accept(c) PROVE TypeOK'
    BY <2>4 DEF Accept
  <2>5. ASSUME NEW c \in Conns, ReadHello(c) PROVE TypeOK'
    BY <2>5, StreamHead DEF ReadHello, Decode
  <2>6. ASSUME NEW c \in Conns, NEW m \in Msg, ReadAnswer(c, m) PROVE TypeOK'
    <3>1. KeyOf(m) \in Keys
      BY DEF KeyOf, Keys, Msg, Requests
    <3>2. Lookup(m) # None => [ch |-> Lookup(m), msg |-> m] \in [ch : Calls, msg : Msg]
      BY <3>1 DEF Lookup
    <3>3. QED
      BY <2>6, <3>2, StreamHead DEF ReadAnswer, Decode, Found
  <2>7. ASSUME NEW c \in Conns, ReadGarbage(c) PROVE TypeOK'
    BY <2>7, StreamHead DEF ReadGarbage, Decode
  <2>8. ASSUME NEW c \in Conns, ReadEnd(c) PROVE TypeOK'
    BY <2>8 DEF ReadEnd
  <2>9. ASSUME NEW c \in Conns, NEW queue \in {"internal", "appproxy"}, Choose(c, queue)
        PROVE  TypeOK'
    BY <2>9 DEF Choose
  <2>10. ASSUME NEW c \in Conns, NEW g \in Callers, Take(c, g) PROVE TypeOK'
    <3>1. Mine(g) \in Msg
      BY <2>10 DEF Take, Mine, Current, Msg, Calls, Requests
    <3>2. toDevice' \in [Conns -> SUBSET Msg]
      <4>1. toDevice[c] \cup {Mine(g)} \in SUBSET Msg
        BY <3>1
      <4>2. CASE toDevice' = [toDevice EXCEPT ![c] = @ \cup {Mine(g)}]
        BY <4>1, <4>2
      <4>3. CASE UNCHANGED toDevice
        BY <4>3
      <4>4. QED
        BY <2>10, <4>2, <4>3 DEF Take
    <3>3. QED
      BY <2>10, <3>2 DEF Take
  <2>11. ASSUME NEW c \in Conns, CloseWriter(c) PROVE TypeOK'
    BY <2>11 DEF CloseWriter
  <2>12. ASSUME NEW c \in Conns, SayHello(c) PROVE TypeOK'
    BY <2>12 DEF SayHello, Emit
  <2>13. ASSUME NEW c \in Conns, NEW m \in toDevice[c], Answer(c, m) PROVE TypeOK'
    BY <2>13 DEF Answer, Emit
  <2>14. ASSUME NEW c \in Conns, NEW m \in toDevice[c], Garble(c, m) PROVE TypeOK'
    BY <2>14 DEF Garble, Emit
  <2>15. ASSUME NEW c \in Conns, Hangup(c) PROVE TypeOK'
    BY <2>15 DEF Hangup
  <2>16. CASE UNCHANGED vars
    BY <2>16 DEF vars
  <2>17. QED
    BY <2>1, <2>2, <2>3, <2>4, <2>5, <2>6, <2>7, <2>8, <2>9, <2>10, <2>11, <2>12,
       <2>13, <2>14, <2>15, <2>16 DEF Next, Caller, Reader, Writer, Device
<1>3. QED
  BY <1>1, <1>2, PTL DEF Spec

-----------------------------------------------------------------------------
(* An open call has a message, a channel and a key.                        *)
LEMMA OpenCall ==
  ASSUME TypeOK, NEW g \in Callers, Live(g)
  PROVE  /\ Current(g) \in Calls
         /\ Mine(g) \in Msg
         /\ KeyOf(Mine(g)) \in Keys
<1>1. Current(g) \in Calls
  BY CallsAssumption DEF TypeOK, Current, Calls
<1>2. Mine(g) \in Msg
  BY <1>1, UsesAssumption DEF TypeOK, Mine, Msg
<1>3. KeyOf(Mine(g)) \in Keys
  BY <1>1, <1>2 DEF KeyOf, Keys, Mine
<1>4. QED
  BY <1>1, <1>2, <1>3

(* Two messages with one key have the same name, or are of the same call.  *)
LEMMA SameKey ==
  ASSUME NEW m \in Msg, NEW n \in Msg, KeyOf(m) = KeyOf(n)
  PROVE  \/ m.req \in Names /\ m.req = n.req
         \/ m.req \notin Names /\ n.req \notin Names /\ m.call = n.call
BY NamesAssumption DEF KeyOf, Msg

(* No other caller has a call open under the key of an exclusive call.     *)
LEMMA ExclusiveKey ==
  ASSUME TypeOK, NEW g \in Callers, NEW h \in Callers, Live(g), Live(h),
         Exclusive(Mine(g)), KeyOf(Mine(g)) = KeyOf(Mine(h))
  PROVE  g = h
<1>1. \/ req[g] \in Names /\ req[g] = req[h]
      \/ req[g] \notin Names /\ Current(g) = Current(h)
  BY SameKey, OpenCall DEF Mine
<1>2. CASE req[g] \in Names /\ req[g] = req[h]
  BY <1>2, NamesAssumption DEF TypeOK, Exclusive, Mine, Current
<1>3. CASE Current(g) = Current(h)
  BY <1>3 DEF Current
<1>4. QED
  BY <1>1, <1>2, <1>3

(* The answer that meets an exclusive call is the answer to its request.   *)
LEMMA OwnAnswer ==
  ASSUME IInv, NEW d \in deliveries, NEW g \in Callers, Live(g),
         d.ch = Current(g), Exclusive(Mine(g))
  PROVE  d.msg = Mine(g)
<1> DEFINE m == d.msg
<1>1. m \in Msg /\ InFlight(m)
  BY DEF IInv, TypeOK, InFlight
<1>2. KeyOf(Mine(g)) = KeyOf(m) /\ Mine(g) \in Msg
  BY OpenCall DEF IInv, DeliveryKeyed
<1>3. CASE m.req \in Names /\ m.req = req[g]
  <2>1. m.req \in Uses[m.call[1]] /\ m.call[1] \in Callers
    BY <1>1 DEF IInv, InFlightSent, Msg, Calls
  <2>2. req[g] # Command
    BY <1>3, NamesAssumption
  <2>3. m.call[1] = g
    BY <1>3, <2>1, <2>2 DEF Exclusive, Mine, Current
  <2>4. Exclusive(m)
    BY <1>3, <2>2, <2>3 DEF Exclusive, Mine, Current
  <2>5. m.call = Current(g)
    BY <2>4 DEF IInv, DeliveryKeyed
  <2>6. QED
    BY <1>1, <2>5 DEF IInv, InFlightSent
<1>4. CASE m.call = Current(g)
  BY <1>1, <1>4 DEF IInv, InFlightSent
<1>5. QED
  BY <1>1, <1>2, <1>3, <1>4, SameKey DEF Mine

-----------------------------------------------------------------------------
(* Steps of a connection that neither start a delivery nor touch a call:   *)
(* nothing new is in flight.                                               *)
LEMMA ConnStep ==
  ASSUME IInv, TypeOK', OneCopy',
         UNCHANGED <<count, req, pc, incoming, deliveries>>,
         \A m \in Msg : InFlight(m)' => InFlight(m)
  PROVE  IInv'
<1> USE DEF Live, Current, Mine
<1>1. RegistryLive'
  BY DEF IInv, RegistryLive
<1>2. ExclusiveRegistered'
  BY DEF IInv, ExclusiveRegistered, Exclusive
<1>3. InFlightSent'
  BY DEF IInv, InFlightSent, Exclusive, Waiting
<1>4. DeliveryKeyed'
  BY DEF IInv, DeliveryKeyed, Exclusive
<1>5. QED
  BY <1>1, <1>2, <1>3, <1>4 DEF IInv

(* Decoding takes the head of one stream.                                  *)
LEMMA ReadShrinks ==
  ASSUME IInv, NEW c \in Conns, NEW item, Decode(c, item), NEW e \in Conns
  PROVE  \/ fromDevice'[e] = fromDevice[e]
         \/ fromDevice[e] # <<>> /\ fromDevice'[e] = Tail(fromDevice[e])
BY DEF Decode, IInv, TypeOK

(* Reading, losing and closing only take messages out of the streams.      *)
LEMMA ConnShrinks ==
  ASSUME IInv, TypeOK',
         UNCHANGED <<count, req, pc, incoming, deliveries>>,
         \A c \in Conns : toDevice'[c] \subseteq toDevice[c],
         \A c \in Conns :
           \/ fromDevice'[c] = fromDevice[c]
           \/ fromDevice[c] # <<>> /\ fromDevice'[c] = Tail(fromDevice[c])
           \/ fromDevice'[c] = <<>>
  PROVE  IInv'
<1> DEFINE at(c, i) == IF fromDevice'[c] = fromDevice[c] THEN i ELSE i + 1
<1>1. ASSUME NEW c \in Conns, NEW i \in DOMAIN fromDevice'[c]
      PROVE  /\ i \in Nat
             /\ at(c, i) \in DOMAIN fromDevice[c]
             /\ fromDevice'[c][i] = fromDevice[c][at(c, i)]
  <2>1. CASE fromDevice'[c] = fromDevice[c]
    BY <1>1, <2>1 DEF IInv, TypeOK
  <2>2. CASE /\ fromDevice[c] # <<>> /\ fromDevice'[c] = Tail(fromDevice[c])
             /\ fromDevice'[c] # fromDevice[c]
    <3>1. DOMAIN fromDevice'[c] = 1..Len(fromDevice'[c])
      BY DEF TypeOK
    <3>2. i \in 1..Len(fromDevice[c]) - 1
      BY <1>1, <2>2, <3>1, StreamHead DEF IInv
    <3>3. DOMAIN fromDevice[c] = 1..Len(fromDevice[c]) /\ Len(fromDevice[c]) \in Nat
      BY DEF IInv, TypeOK
    <3>4. QED
      BY <2>2, <3>2, <3>3, StreamHead DEF IInv
  <2>3. CASE fromDevice'[c] = <<>>
    BY <1>1, <2>3
  <2>4. QED
    BY <2>1, <2>2, <2>3
<1>2. \A c \in Conns : Range(fromDevice'[c]) \subseteq Range(fromDevice[c])
  BY <1>1 DEF Range
<1>3. \A m \in Msg : InFlight(m)' => InFlight(m)
  BY <1>2 DEF InFlight
<1>4. OneCopy'
  <2> HIDE DEF at
  <2>1. ASSUME NEW c \in Conns, NEW e \in Conns,
               NEW i \in DOMAIN fromDevice'[c], NEW j \in DOMAIN fromDevice'[e],
               fromDevice'[c][i] \in Msg, fromDevice'[c][i] = fromDevice'[e][j]
        PROVE  c = e /\ i = j
    <3>1. c = e /\ at(c, i) = at(e, j)
      BY <1>1, <2>1 DEF IInv, OneCopy
    <3>2. QED
      BY <1>1, <3>1 DEF at
  <2>2. \A c, e \in Conns : \A m \in toDevice'[c] :
          (m \in toDevice'[e] => c = e) /\ m \notin Range(fromDevice'[e])
    BY <1>2 DEF IInv, OneCopy
  <2>3. \A d \in deliveries : \A c \in Conns :
          d.msg \notin toDevice'[c] /\ d.msg \notin Range(fromDevice'[c])
    BY <1>2 DEF IInv, OneCopy
  <2>4. QED
    BY <2>1, <2>2, <2>3 DEF OneCopy
<1>5. QED
  BY <1>3, <1>4, ConnStep

(* What a stream holds after the device has written to it.                 *)
LEMMA StreamAppend ==
  ASSUME TypeOK, NEW c \in Conns, NEW item \in Msg \cup {Hello, Garbage},
         fromDevice' = [fromDevice EXCEPT ![c] = Append(@, item)],
         NEW e \in Conns
  PROVE  /\ Len(fromDevice[e]) \in Nat
         /\ DOMAIN fromDevice[e] = 1..Len(fromDevice[e])
         /\ \A i \in DOMAIN fromDevice[e] :
              i \in DOMAIN fromDevice'[e] /\ fromDevice'[e][i] = fromDevice[e][i]
         /\ \A i \in DOMAIN fromDevice'[e] :
              i \notin DOMAIN fromDevice[e] =>
                e = c /\ i = Len(fromDevice[c]) + 1 /\ fromDevice'[e][i] = item
         /\ Range(fromDevice'[e]) \subseteq
              Range(fromDevice[e]) \cup (IF e = c THEN {item} ELSE {})
<1>1. Len(fromDevice[e]) \in Nat /\ DOMAIN fromDevice[e] = 1..Len(fromDevice[e])
  BY DEF TypeOK
<1>2. CASE e # c
  <2>1. fromDevice'[e] = fromDevice[e]
    BY <1>2 DEF TypeOK
  <2>2. QED
    BY <1>1, <1>2, <2>1
<1>3. CASE e = c
  <2>1. fromDevice'[e] = Append(fromDevice[c], item)
    BY <1>3 DEF TypeOK
  <2>2. /\ DOMAIN fromDevice'[e] = 1..Len(fromDevice[c]) + 1
        /\ \A i \in 1..Len(fromDevice[c]) : fromDevice'[e][i] = fromDevice[e][i]
        /\ fromDevice'[e][Len(fromDevice[c]) + 1] = item
    BY <1>1, <1>3, <2>1 DEF TypeOK
  <2>3. QED
    BY <1>1, <1>3, <2>2 DEF Range
<1>4. QED
  BY <1>2, <1>3

(* A hello and garbage are no messages in flight.                          *)
LEMMA EmitNoise ==
  ASSUME IInv, TypeOK', NEW c \in Conns, NEW item \in {Hello, Garbage},
         Emit(c, item), \A e \in Conns : toDevice'[e] \subseteq toDevice[e]
  PROVE  IInv'
<1>1. item \notin Msg
  BY StreamAssumption
<1>2. /\ fromDevice' = [fromDevice EXCEPT ![c] = Append(@, item)]
      /\ UNCHANGED <<count, req, pc, incoming, deliveries>>
  BY DEF Emit, callerVars
<1>3. \A e \in Conns : \A i \in DOMAIN fromDevice'[e] :
        fromDevice'[e][i] \in Msg =>
          i \in DOMAIN fromDevice[e] /\ fromDevice'[e][i] = fromDevice[e][i]
  BY <1>1, <1>2, StreamAppend DEF IInv
<1>4. \A e \in Conns : \A m \in Msg :
        m \in Range(fromDevice'[e]) => m \in Range(fromDevice[e])
  BY <1>3 DEF Range
<1>5. \A m \in Msg : InFlight(m)' => InFlight(m)
  BY <1>2, <1>4 DEF InFlight
<1>6. OneCopy'
  <2>1. \A e, f \in Conns : \A m \in toDevice'[e] :
          (m \in toDevice'[f] => e = f) /\ m \notin Range(fromDevice'[f])
    BY <1>4 DEF IInv, OneCopy, TypeOK
  <2>2. ASSUME NEW e \in Conns, NEW f \in Conns,
               NEW i \in DOMAIN fromDevice'[e], NEW j \in DOMAIN fromDevice'[f],
               fromDevice'[e][i] \in Msg, fromDevice'[e][i] = fromDevice'[f][j]
        PROVE  e = f /\ i = j
    BY <1>3, <2>2 DEF IInv, OneCopy
  <2>3. \A d \in deliveries : \A e \in Conns :
          d.msg \notin toDevice'[e] /\ d.msg \notin Range(fromDevice'[e])
    BY <1>4 DEF IInv, OneCopy, TypeOK
  <2>4. QED
    BY <1>2, <2>1, <2>2, <2>3 DEF OneCopy
<1>7. QED
  BY <1>2, <1>5, <1>6, ConnStep

(* An answer leaves the device and enters the stream.                      *)
LEMMA AnswerStep ==
  ASSUME IInv, TypeOK', NEW c \in Conns, NEW m \in toDevice[c], Answer(c, m)
  PROVE  IInv'
<1>1. /\ fromDevice' = [fromDevice EXCEPT ![c] = Append(@, m)]
      /\ toDevice' = [toDevice EXCEPT ![c] = @ \ {m}]
      /\ UNCHANGED <<count, req, pc, incoming, deliveries>>
      /\ m \in Msg
  BY DEF Answer, Emit, callerVars, IInv, TypeOK
<1>2. /\ \A e \in Conns : toDevice'[e] \subseteq toDevice[e]
      /\ \A e \in Conns : m \notin toDevice'[e]
  BY <1>1 DEF IInv, TypeOK, OneCopy
<1>3. \A e \in Conns : m \notin Range(fromDevice[e])
  BY DEF IInv, OneCopy
<1>4. \A e \in Conns : Range(fromDevice'[e]) \subseteq Range(fromDevice[e]) \cup {m}
  BY <1>1, StreamAppend DEF IInv
<1>5. \A n \in Msg : InFlight(n)' => InFlight(n)
  BY <1>1, <1>2, <1>4 DEF InFlight
<1>6. OneCopy'
  <2>1. \A e, f \in Conns : \A n \in toDevice'[e] :
          (n \in toDevice'[f] => e = f) /\ n \notin Range(fromDevice'[f])
    BY <1>2, <1>4 DEF IInv, OneCopy
  <2>2. ASSUME NEW e \in Conns, NEW f \in Conns,
               NEW i \in DOMAIN fromDevice'[e], NEW j \in DOMAIN fromDevice'[f],
               fromDevice'[e][i] \in Msg, fromDevice'[e][i] = fromDevice'[f][j]
        PROVE  e = f /\ i = j
    <3>1. CASE i \in DOMAIN fromDevice[e] /\ j \in DOMAIN fromDevice[f]
      BY <1>1, <2>2, <3>1, StreamAppend DEF IInv, OneCopy
    <3>2. CASE i \notin DOMAIN fromDevice[e] /\ j \notin DOMAIN fromDevice[f]
      BY <1>1, <3>2, StreamAppend DEF IInv
    <3>3. CASE i \in DOMAIN fromDevice[e] /\ j \notin DOMAIN fromDevice[f]
      <4>1. fromDevice'[e][i] = fromDevice[e][i] /\ fromDevice'[f][j] = m
        BY <1>1, <3>3, StreamAppend DEF IInv
      <4>2. QED
        BY <1>3, <2>2, <3>3, <4>1 DEF Range
    <3>4. CASE i \notin DOMAIN fromDevice[e] /\ j \in DOMAIN fromDevice[f]
      <4>1. fromDevice'[f][j] = fromDevice[f][j] /\ fromDevice'[e][i] = m
        BY <1>1, <3>4, StreamAppend DEF IInv
      <4>2. QED
        BY <1>3, <2>2, <3>4, <4>1 DEF Range
    <3>5. QED
      BY <3>1, <3>2, <3>3, <3>4
  <2>3. \A d \in deliveries : \A e \in Conns :
          d.msg \notin toDevice'[e] /\ d.msg \notin Range(fromDevice'[e])
    <3>1. \A d \in deliveries : d.msg # m
      BY DEF IInv, OneCopy
    <3>2. QED
      BY <1>2, <1>4, <3>1 DEF IInv, OneCopy
  <2>4. QED
    BY <1>1, <2>1, <2>2, <2>3 DEF OneCopy
<1>7. QED
  BY <1>1, <1>5, <1>6, ConnStep

(* An answer leaves the stream; a goroutine takes it to the channel found. *)
LEMMA ReadAnswerStep ==
  ASSUME IInv, TypeOK', NEW c \in Conns, NEW m \in Msg, ReadAnswer(c, m)
  PROVE  IInv'
<1> DEFINE new == [ch |-> Lookup(m), msg |-> m]
<1> USE DEF Live, Current, Mine
<1>1. /\ fromDevice[c] # <<>> /\ m = fromDevice[c][1]
      /\ 1 \in DOMAIN fromDevice[c]
      /\ fromDevice' = [fromDevice EXCEPT ![c] = Tail(@)]
      /\ UNCHANGED <<count, req, pc, incoming, toDevice>>
      /\ deliveries' \subseteq deliveries \cup {new}
      /\ new \in deliveries' => Lookup(m) # None \/ new \in deliveries
  BY StreamHead DEF ReadAnswer, Decode, Found, callerVars, IInv, TypeOK
<1>2. \A e \in Conns : \A i \in DOMAIN fromDevice'[e] :
        LET k == IF e = c THEN i + 1 ELSE i
        IN  i \in Nat \ {0} /\ k \in DOMAIN fromDevice[e] /\ fromDevice'[e][i] = fromDevice[e][k]
  <2> SUFFICES ASSUME NEW e \in Conns, NEW i \in DOMAIN fromDevice'[e]
               PROVE  LET k == IF e = c THEN i + 1 ELSE i
                      IN  /\ i \in Nat \ {0}
                          /\ k \in DOMAIN fromDevice[e]
                          /\ fromDevice'[e][i] = fromDevice[e][k]
    OBVIOUS
  <2>1. DOMAIN fromDevice[e] = 1..Len(fromDevice[e]) /\ Len(fromDevice[e]) \in Nat
    BY DEF IInv, TypeOK
  <2>2. CASE e # c
    BY <1>1, <2>1, <2>2 DEF IInv, TypeOK
  <2>3. CASE e = c
    <3>1. fromDevice'[e] = Tail(fromDevice[e])
      BY <1>1, <2>3 DEF IInv, TypeOK
    <3>2. DOMAIN fromDevice'[e] = 1..Len(fromDevice'[e])
      BY DEF TypeOK
    <3>3. /\ Len(fromDevice'[e]) = Len(fromDevice[e]) - 1
          /\ \A j \in 1..Len(fromDevice[e]) - 1 : fromDevice'[e][j] = fromDevice[e][j + 1]
      BY <1>1, <2>3, <3>1, StreamHead DEF IInv
    <3>4. QED
      BY <2>1, <2>3, <3>2, <3>3
  <2>4. QED
    BY <2>2, <2>3
<1>3. \A e \in Conns : Range(fromDevice'[e]) \subseteq Range(fromDevice[e])
  BY <1>2 DEF Range
<1>4. \A e \in Conns : m \notin Range(fromDevice'[e]) /\ m \notin toDevice[e]
  <2>1. \A e \in Conns : m \notin toDevice[e]
    BY <1>1 DEF IInv, OneCopy, Range
  <2>2. ASSUME NEW e \in Conns, NEW i \in DOMAIN fromDevice'[e], fromDevice'[e][i] = m
        PROVE  FALSE
    BY <1>1, <1>2, <2>2 DEF IInv, OneCopy
  <2>3. QED
    BY <2>1, <2>2 DEF Range
<1>5. InFlight(m)
  BY <1>1 DEF InFlight, Range
<1>6. \A n \in Msg : InFlight(n)' => InFlight(n)
  BY <1>1, <1>3, <1>5 DEF InFlight
<1>7. RegistryLive' /\ ExclusiveRegistered'
  BY <1>1 DEF IInv, RegistryLive, ExclusiveRegistered, Exclusive
<1>8. InFlightSent'
  BY <1>1, <1>6 DEF IInv, InFlightSent, Exclusive, Waiting
<1>9. OneCopy'
  <2>1. \A e, f \in Conns : \A n \in toDevice'[e] :
          (n \in toDevice'[f] => e = f) /\ n \notin Range(fromDevice'[f])
    BY <1>1, <1>3 DEF IInv, OneCopy
  <2>2. ASSUME NEW e \in Conns, NEW f \in Conns,
               NEW i \in DOMAIN fromDevice'[e], NEW j \in DOMAIN fromDevice'[f],
               fromDevice'[e][i] \in Msg, fromDevice'[e][i] = fromDevice'[f][j]
        PROVE  e = f /\ i = j
    <3> DEFINE k == IF e = c THEN i + 1 ELSE i
               l == IF f = c THEN j + 1 ELSE j
    <3>1. e = f /\ k = l
      BY <1>2, <2>2 DEF IInv, OneCopy
    <3>2. QED
      BY <1>2, <3>1
  <2>3. \A d \in deliveries' : \A e \in Conns :
          d.msg \notin toDevice'[e] /\ d.msg \notin Range(fromDevice'[e])
    <3>1. \A d \in deliveries' : d \in deliveries \/ d.msg = m
      BY <1>1
    <3>2. \A d \in deliveries : \A e \in Conns :
            d.msg \notin toDevice[e] /\ d.msg \notin Range(fromDevice[e])
      BY DEF IInv, OneCopy
    <3>3. toDevice' = toDevice
      BY <1>1
    <3> HIDE DEF new
    <3>4. QED
      BY <1>3, <1>4, <3>1, <3>2, <3>3
  <2>4. QED
    BY <2>1, <2>2, <2>3 DEF OneCopy
<1>10. DeliveryKeyed'
  <2>1. ASSUME Lookup(m) # None
        PROVE  /\ new.ch[2] <= count[new.ch[1]]
               /\ \A g \in Callers : (Live(g) /\ new.ch = Current(g)) =>
                    KeyOf(Mine(g)) = KeyOf(m)
               /\ Exclusive(m) => new.ch = m.call
    <3>1. KeyOf(m) \in Keys
      BY DEF KeyOf, Keys, Msg, Requests
    <3>2. PICK g \in Callers : /\ Live(g)
                               /\ Lookup(m) = Current(g)
                               /\ KeyOf(Mine(g)) = KeyOf(m)
      BY <2>1, <3>1 DEF IInv, RegistryLive, Lookup
    <3>3. new.ch[2] <= count[new.ch[1]]
      BY <3>2 DEF IInv, TypeOK
    <3>4. ASSUME Exclusive(m) PROVE new.ch = m.call
      <4>1. PICK h \in Callers : m = Mine(h) /\ pc[h] = "waiting"
        BY <1>5, <3>4 DEF IInv, InFlightSent, Waiting
      <4>2. QED
        BY <3>4, <4>1 DEF IInv, ExclusiveRegistered, Lookup
    <3>5. QED
      BY <3>2, <3>3, <3>4
  <2>2. QED
    BY <1>1, <2>1 DEF IInv, DeliveryKeyed, Exclusive
<1>11. QED
  BY <1>7, <1>8, <1>9, <1>10 DEF IInv

-----------------------------------------------------------------------------
(* Steps of a caller.                                                      *)

(* A new call takes its key over from whatever call had it.                *)
LEMMA CallStep ==
  ASSUME IInv, TypeOK', NEW g \in Callers, NEW r \in Requests, Call(g, r)
  PROVE  IInv'
<1> DEFINE m == [call |-> <<g, count[g] + 1>>, req |-> r]
<1> USE DEF Live
<1>1. /\ pc[g] = "idle" /\ r \in Uses[g]
      /\ Live(g)' /\ Mine(g)' = m /\ Current(g)' = m.call /\ req'[g] = r
      /\ \A h \in Callers : h # g =>
           /\ pc'[h] = pc[h] /\ req'[h] = req[h] /\ count'[h] = count[h]
           /\ Current(h)' = Current(h) /\ Mine(h)' = Mine(h)
      /\ count[g] \in Nat /\ count'[g] = count[g] + 1
      /\ UNCHANGED <<deliveries, toDevice, fromDevice>>
      /\ incoming' = IF r = Post THEN incoming
                     ELSE [incoming EXCEPT ![KeyOf(m)] = m.call]
  BY CallsAssumption DEF Call, Register, connVars, IInv, TypeOK, Current, Mine
<1>2. m \in Msg /\ KeyOf(m) \in Keys
  <2>1. m.call \in Calls
    BY <1>1, CallsAssumption DEF TypeOK, Calls
  <2>2. QED
    BY <2>1 DEF Msg, KeyOf, Keys
<1>3. \A n \in Msg : InFlight(n)' <=> InFlight(n)
  BY <1>1 DEF InFlight
<1>4. \A n : Exclusive(n)' <=> Exclusive(n)
  BY DEF Exclusive
<1> HIDE DEF m
<1>5. RegistryLive'
  <2> SUFFICES ASSUME NEW k \in Keys, incoming'[k] # None
               PROVE  \E h \in Callers : /\ Live(h)' /\ req'[h] # Post
                                        /\ incoming'[k] = Current(h)'
                                        /\ KeyOf(Mine(h)') = k
    BY DEF RegistryLive, KeyOf
  <2>1. CASE r # Post /\ k = KeyOf(m)
    BY <1>1, <1>2, <2>1 DEF IInv, TypeOK
  <2>2. CASE ~(r # Post /\ k = KeyOf(m))
    <3>1. incoming'[k] = incoming[k]
      BY <1>1, <1>2, <2>2 DEF IInv, TypeOK
    <3>2. PICK h \in Callers : /\ Live(h) /\ req[h] # Post
                               /\ incoming[k] = Current(h)
                               /\ KeyOf(Mine(h)) = k
      BY <3>1 DEF IInv, RegistryLive
    <3>3. h # g
      BY <1>1, <3>2
    <3>4. QED
      BY <1>1, <3>1, <3>2, <3>3
  <2>3. QED
    BY <2>1, <2>2
<1>6. ExclusiveRegistered'
  <2> SUFFICES ASSUME NEW h \in Callers, Live(h)', Exclusive(Mine(h)')
               PROVE  incoming'[KeyOf(Mine(h)')] = Current(h)'
    BY <1>4 DEF ExclusiveRegistered, KeyOf
  <2>1. CASE h = g
    <3>1. r # Post
      BY <1>1, <2>1, NamesAssumption DEF Exclusive, m
    <3>2. QED
      BY <1>1, <1>2, <2>1, <3>1 DEF IInv, TypeOK
  <2>2. CASE h # g
    <3>1. Live(h) /\ Mine(h)' = Mine(h) /\ Current(h)' = Current(h)
      BY <1>1, <2>2
    <3>2. KeyOf(Mine(h)) \in Keys /\ incoming[KeyOf(Mine(h))] = Current(h)
      BY <3>1, OpenCall DEF IInv, ExclusiveRegistered
    <3>3. KeyOf(Mine(h)) # KeyOf(m) \/ r = Post
      <4> SUFFICES ASSUME KeyOf(Mine(h)) = KeyOf(m) PROVE FALSE
        OBVIOUS
      <4>1. Mine(h) \in Msg /\ Exclusive(Mine(h))
        BY <3>1, OpenCall DEF IInv
      <4>2. \/ req[h] \in Names /\ req[h] = r
            \/ req[h] \notin Names /\ Current(h) = <<g, count[g] + 1>>
        BY <1>2, <4>1, SameKey DEF Mine, m
      <4>3. CASE req[h] \in Names /\ req[h] = r
        BY <1>1, <2>2, <4>1, <4>3, NamesAssumption DEF Exclusive, Mine, Current
      <4>4. CASE Current(h) = <<g, count[g] + 1>>
        BY <2>2, <4>4 DEF Current
      <4>5. QED
        BY <4>2, <4>3, <4>4
    <3>4. QED
      BY <1>1, <1>2, <3>1, <3>2, <3>3 DEF IInv, TypeOK
  <2>3. QED
    BY <2>1, <2>2
<1>7. InFlightSent'
  <2> SUFFICES ASSUME NEW n \in Msg, InFlight(n)
               PROVE  /\ n.call[2] <= count'[n.call[1]]
                      /\ n.req \in Uses[n.call[1]]
                      /\ \A h \in Callers : (Live(h)' /\ n.call = Current(h)') =>
                           n = Mine(h)' /\ pc'[h] # "sending"
                      /\ Exclusive(n) => Waiting(n)'
    BY <1>3, <1>4 DEF InFlightSent
  <2>1. /\ n.call[1] \in Callers /\ n.call[2] \in Nat /\ n.call[2] <= count[n.call[1]]
        /\ n.req \in Uses[n.call[1]]
        /\ count[n.call[1]] \in Nat
    BY DEF IInv, InFlightSent, Msg, Calls, TypeOK
  <2>2. n.call[2] <= count'[n.call[1]]
    BY <1>1, <2>1
  <2>3. n.call # Current(g)'
    BY <1>1, <2>1 DEF m
  <2>4. \A h \in Callers : (Live(h)' /\ n.call = Current(h)') =>
          n = Mine(h)' /\ pc'[h] # "sending"
    BY <1>1, <2>3 DEF IInv, InFlightSent
  <2>5. Exclusive(n) => Waiting(n)'
    BY <1>1 DEF IInv, InFlightSent, Waiting
  <2>6. QED
    BY <2>1, <2>2, <2>4, <2>5
<1>8. OneCopy'
  BY <1>1 DEF IInv, OneCopy
<1>9. DeliveryKeyed'
  <2> SUFFICES ASSUME NEW d \in deliveries
               PROVE  /\ d.ch[2] <= count'[d.ch[1]]
                      /\ \A h \in Callers : (Live(h)' /\ d.ch = Current(h)') =>
                           KeyOf(Mine(h)') = KeyOf(d.msg)
                      /\ Exclusive(d.msg) => d.ch = d.msg.call
    BY <1>1, <1>4 DEF DeliveryKeyed, KeyOf
  <2>1. /\ d.ch[1] \in Callers /\ d.ch[2] \in Nat /\ d.ch[2] <= count[d.ch[1]]
        /\ count[d.ch[1]] \in Nat
        /\ Exclusive(d.msg) => d.ch = d.msg.call
    BY DEF IInv, DeliveryKeyed, Calls, TypeOK
  <2>2. d.ch[2] <= count'[d.ch[1]]
    BY <1>1, <2>1
  <2>3. d.ch # Current(g)'
    BY <1>1, <2>1 DEF m
  <2>4. \A h \in Callers : (Live(h)' /\ d.ch = Current(h)') =>
          KeyOf(Mine(h)') = KeyOf(d.msg)
    BY <1>1, <2>3 DEF IInv, DeliveryKeyed
  <2>5. QED
    BY <2>1, <2>2, <2>4
<1>10. QED
  BY <1>5, <1>6, <1>7, <1>8, <1>9 DEF IInv

(* A caller that receives its answer leaves no other copy behind.          *)
LEMMA DeliverStep ==
  ASSUME IInv, TypeOK', NEW d \in deliveries, Deliver(d)
  PROVE  IInv'
<1> DEFINE g == d.ch[1]
<1> USE DEF Live
<1>1. /\ g \in Callers /\ d.ch = Current(g) /\ Live(g) /\ pc[g] = "waiting" /\ pc'[g] = "got"
      /\ \A h \in Callers : h # g => pc'[h] = pc[h]
      /\ \A h \in Callers : Live(h)' <=> Live(h)
      /\ \A h \in Callers : Current(h)' = Current(h) /\ Mine(h)' = Mine(h)
      /\ deliveries' = deliveries \ {d}
      /\ UNCHANGED <<count, req, incoming, toDevice, fromDevice>>
  BY DEF Deliver, connVars, IInv, TypeOK, Calls, Current, Mine
<1>2. \A n : Exclusive(n)' <=> Exclusive(n)
  BY DEF Exclusive
<1> HIDE DEF g
<1>3. RegistryLive' /\ ExclusiveRegistered'
  BY <1>1, <1>2 DEF IInv, RegistryLive, ExclusiveRegistered, KeyOf
<1>4. OneCopy'
  BY <1>1 DEF IInv, OneCopy
<1>5. DeliveryKeyed'
  BY <1>1, <1>2 DEF IInv, DeliveryKeyed, KeyOf
<1>6. ASSUME NEW n \in Msg, n = Mine(g), Exclusive(n) PROVE ~InFlight(n)'
  <2>1. d.msg = Mine(g)
    BY <1>1, <1>6, OwnAnswer
  <2>2. \A c \in Conns : Mine(g) \notin toDevice[c] /\ Mine(g) \notin Range(fromDevice[c])
    BY <2>1 DEF IInv, OneCopy
  <2>3. ASSUME NEW e \in deliveries, e.msg = Mine(g) PROVE e = d
    <3>1. e.ch = d.ch
      BY <1>6, <2>1, <2>3 DEF IInv, DeliveryKeyed
    <3>2. e \in [ch : Calls, msg : Msg] /\ d \in [ch : Calls, msg : Msg]
      BY DEF IInv, TypeOK
    <3>3. QED
      BY <2>1, <2>3, <3>1, <3>2
  <2>4. QED
    BY <1>1, <1>6, <2>2, <2>3 DEF InFlight
<1>7. InFlightSent'
  <2> SUFFICES ASSUME NEW n \in Msg, InFlight(n)'
               PROVE  /\ n.call[2] <= count'[n.call[1]]
                      /\ n.req \in Uses[n.call[1]]
                      /\ \A h \in Callers : (Live(h)' /\ n.call = Current(h)') =>
                           n = Mine(h)' /\ pc'[h] # "sending"
                      /\ Exclusive(n) => Waiting(n)'
    BY <1>2 DEF InFlightSent
  <2>1. InFlight(n)
    BY <1>1 DEF InFlight
  <2>2. ASSUME Exclusive(n) PROVE Waiting(n)'
    <3>1. PICK h \in Callers : n = Mine(h) /\ pc[h] = "waiting"
      BY <2>1, <2>2 DEF IInv, InFlightSent, Waiting
    <3>2. h # g
      BY <1>6, <2>2, <3>1
    <3>3. QED
      BY <1>1, <3>1, <3>2 DEF Waiting
  <2>3. QED
    BY <1>1, <2>1, <2>2 DEF IInv, InFlightSent
<1>8. QED
  BY <1>3, <1>4, <1>5, <1>7 DEF IInv

(* A call that ends, returning or after a Post was taken, with no message  *)
(* it has to wait for and with its entry gone.                             *)
LEMMA EndStep ==
  ASSUME IInv, TypeOK', NEW g \in Callers, Live(g), pc[g] # "waiting",
         pc' = [pc EXCEPT ![g] = "idle"],
         req' = [req EXCEPT ![g] = None],
         UNCHANGED <<count, deliveries>>,
         OneCopy',
         \/ incoming' = [incoming EXCEPT ![KeyOf(Mine(g))] = None]
         \/ incoming' = incoming /\ req[g] = Post,
         \A n \in Msg : InFlight(n)' => InFlight(n) \/ (n = Mine(g) /\ req[g] = Post)
  PROVE  IInv'
<1> USE DEF Live
<1>1. /\ pc'[g] = "idle"
      /\ \A h \in Callers : h # g =>
           pc'[h] = pc[h] /\ req'[h] = req[h] /\ Mine(h)' = Mine(h)
      /\ \A h \in Callers : Current(h)' = Current(h)
  BY DEF IInv, TypeOK, Current, Mine
<1>2. KeyOf(Mine(g)) \in Keys /\ Mine(g) \in Msg
  BY OpenCall DEF IInv
<1>3. \A n : Exclusive(n)' <=> Exclusive(n)
  BY DEF Exclusive
<1>4. RegistryLive'
  <2> SUFFICES ASSUME NEW k \in Keys, incoming'[k] # None
               PROVE  \E h \in Callers : /\ Live(h)' /\ req'[h] # Post
                                        /\ incoming'[k] = Current(h)'
                                        /\ KeyOf(Mine(h)') = k
    BY DEF RegistryLive, KeyOf
  <2>1. incoming'[k] = incoming[k] /\ (req[g] # Post => k # KeyOf(Mine(g)))
    BY <1>2 DEF IInv, TypeOK
  <2>2. PICK h \in Callers : /\ Live(h) /\ req[h] # Post
                             /\ incoming[k] = Current(h)
                             /\ KeyOf(Mine(h)) = k
    BY <2>1 DEF IInv, RegistryLive
  <2>3. h # g
    BY <2>1, <2>2
  <2>4. QED
    BY <1>1, <2>1, <2>2, <2>3
<1>5. ExclusiveRegistered'
  <2> SUFFICES ASSUME NEW h \in Callers, Live(h)', Exclusive(Mine(h)')
               PROVE  incoming'[KeyOf(Mine(h)')] = Current(h)'
    BY <1>3 DEF ExclusiveRegistered, KeyOf
  <2>1. h # g /\ Live(h) /\ Mine(h)' = Mine(h) /\ Current(h)' = Current(h)
    BY <1>1
  <2>2. KeyOf(Mine(h)) # KeyOf(Mine(g))
    BY <2>1, ExclusiveKey DEF IInv
  <2>3. KeyOf(Mine(h)) \in Keys /\ incoming[KeyOf(Mine(h))] = Current(h)
    BY <2>1, OpenCall DEF IInv, ExclusiveRegistered
  <2>4. QED
    BY <2>1, <2>2, <2>3 DEF IInv, TypeOK
<1>6. InFlightSent'
  <2> SUFFICES ASSUME NEW n \in Msg, InFlight(n)'
               PROVE  /\ n.call[2] <= count[n.call[1]]
                      /\ n.req \in Uses[n.call[1]]
                      /\ \A h \in Callers : (Live(h)' /\ n.call = Current(h)') =>
                           n = Mine(h)' /\ pc'[h] # "sending"
                      /\ Exclusive(n) => Waiting(n)'
    BY <1>3 DEF InFlightSent
  <2>1. CASE InFlight(n)
    <3>1. ASSUME Exclusive(n) PROVE Waiting(n)'
      <4>1. PICK h \in Callers : n = Mine(h) /\ pc[h] = "waiting"
        BY <2>1, <3>1 DEF IInv, InFlightSent, Waiting
      <4>2. QED
        BY <1>1, <4>1 DEF Waiting
    <3>2. QED
      BY <1>1, <2>1, <3>1 DEF IInv, InFlightSent
  <2>2. CASE n = Mine(g) /\ req[g] = Post
    <3>1. n.call = <<g, count[g]>> /\ n.req = Post /\ n.req \in Uses[g]
      BY <2>2 DEF Mine, Current, IInv, TypeOK
    <3>2. ~Exclusive(n)
      BY <3>1, NamesAssumption DEF Exclusive
    <3>3. \A h \in Callers : n.call = Current(h)' => h = g
      BY <1>1, <3>1 DEF Current
    <3>4. QED
      BY <1>1, <3>1, <3>2, <3>3 DEF IInv, TypeOK
  <2>3. QED
    BY <2>1, <2>2
<1>7. DeliveryKeyed'
  BY <1>1, <1>3 DEF IInv, DeliveryKeyed, KeyOf
<1>8. QED
  BY <1>4, <1>5, <1>6, <1>7 DEF IInv

(* A request enters the device, or is lost.                                *)
LEMMA TakeStep ==
  ASSUME IInv, TypeOK', NEW c \in Conns, NEW g \in Callers, Take(c, g)
  PROVE  IInv'
<1> USE DEF Live
<1>1. /\ pc[g] = "sending" /\ Live(g) /\ Mine(g) \in Msg
      /\ UNCHANGED <<count, incoming, deliveries, fromDevice>>
      /\ \A e \in Conns : toDevice'[e] \subseteq
           toDevice[e] \cup (IF e = c THEN {Mine(g)} ELSE {})
  BY OpenCall DEF Take, IInv, TypeOK
<1>2. \A n \in Msg : InFlight(n) => n.call # Current(g) /\ n # Mine(g)
  BY <1>1 DEF IInv, InFlightSent, Mine
<1>3. \A n \in Msg : InFlight(n)' => InFlight(n) \/ n = Mine(g)
  BY <1>1 DEF InFlight
<1>4. OneCopy'
  <2>1. \A e \in Conns : Mine(g) \notin toDevice[e] /\ Mine(g) \notin Range(fromDevice[e])
    BY <1>1, <1>2 DEF InFlight
  <2>2. \A d \in deliveries : d.msg # Mine(g)
    BY <1>1, <1>2 DEF InFlight
  <2>3. \A e, f \in Conns : \A n \in toDevice'[e] :
          (n \in toDevice'[f] => e = f) /\ n \notin Range(fromDevice[f])
    BY <1>1, <2>1 DEF IInv, OneCopy
  <2>4. \A d \in deliveries : \A e \in Conns :
          d.msg \notin toDevice'[e] /\ d.msg \notin Range(fromDevice[e])
    BY <1>1, <2>2 DEF IInv, OneCopy
  <2>5. QED
    BY <1>1, <2>3, <2>4 DEF IInv, OneCopy
<1>5. CASE req[g] = Post
  <2>1. pc' = [pc EXCEPT ![g] = "idle"] /\ req' = [req EXCEPT ![g] = None]
    BY <1>5 DEF Take
  <2>2. QED
    BY <1>1, <1>3, <1>4, <1>5, <2>1, EndStep
<1>6. CASE req[g] # Post
  <2>1. /\ req' = req /\ pc'[g] = "waiting"
        /\ \A h \in Callers : h # g => pc'[h] = pc[h]
        /\ \A h \in Callers : Live(h)' <=> Live(h)
        /\ \A h \in Callers : Current(h)' = Current(h) /\ Mine(h)' = Mine(h)
    BY <1>1, <1>6 DEF Take, IInv, TypeOK, Current, Mine
  <2>2. \A n : Exclusive(n)' <=> Exclusive(n)
    BY DEF Exclusive
  <2>3. RegistryLive' /\ ExclusiveRegistered' /\ DeliveryKeyed'
    BY <1>1, <2>1, <2>2
       DEF IInv, RegistryLive, ExclusiveRegistered, DeliveryKeyed, KeyOf
  <2>4. InFlightSent'
    <3> SUFFICES ASSUME NEW n \in Msg, InFlight(n)'
                 PROVE  /\ n.call[2] <= count[n.call[1]]
                        /\ n.req \in Uses[n.call[1]]
                        /\ \A h \in Callers : (Live(h) /\ n.call = Current(h)) =>
                             n = Mine(h) /\ pc'[h] # "sending"
                        /\ Exclusive(n) => Waiting(n)'
      BY <1>1, <2>1, <2>2 DEF InFlightSent
    <3>1. CASE InFlight(n)
      <4>1. Exclusive(n) => Waiting(n)'
        BY <1>1, <2>1, <3>1 DEF IInv, InFlightSent, Waiting
      <4>2. QED
        BY <2>1, <3>1, <4>1 DEF IInv, InFlightSent
    <3>2. CASE n = Mine(g)
      <4>1. n.call = <<g, count[g]>> /\ n.req \in Uses[g] /\ count[g] \in Nat
        BY <1>1, <3>2, CallsAssumption DEF Mine, Current, IInv, TypeOK
      <4>2. \A h \in Callers : n.call = Current(h) => h = g
        BY <4>1 DEF Current
      <4>3. Waiting(n)'
        BY <2>1, <3>2 DEF Waiting
      <4>4. QED
        BY <2>1, <3>2, <4>1, <4>2, <4>3
    <3>3. QED
      BY <1>3, <3>1, <3>2
  <2>5. QED
    BY <1>4, <2>3, <2>4 DEF IInv
<1>7. QED
  BY <1>5, <1>6

-----------------------------------------------------------------------------
(* The inductive invariant: the map, the messages in flight and the        *)
(* delivery goroutines agree with the calls in progress in every reachable *)
(* state.                                                                  *)
THEOREM Inductive == Spec => []IInv
<1>1. Init => IInv
  <2> SUFFICES ASSUME Init PROVE IInv
    OBVIOUS
  <2>1. TypeOK
    BY CallsAssumption DEF Init, TypeOK, Live
  <2>2. \A g \in Callers : ~Live(g)
    BY DEF Init, Live
  <2>3. \A c \in Conns : toDevice[c] = {} /\ DOMAIN fromDevice[c] = {}
    BY DEF Init
  <2>4. \A m : ~InFlight(m)
    BY <2>3 DEF Init, InFlight, Range
  <2>5. RegistryLive /\ ExclusiveRegistered /\ DeliveryKeyed
    BY <2>2 DEF Init, RegistryLive, ExclusiveRegistered, DeliveryKeyed
  <2>6. InFlightSent /\ OneCopy
    BY <2>3, <2>4 DEF Init, InFlightSent, OneCopy
  <2>7. QED
    BY <2>1, <2>5, <2>6 DEF IInv
<1>2. TypeOK' /\ IInv /\ [Next]_vars => IInv'
  <2> SUFFICES ASSUME TypeOK', IInv, [Next]_vars PROVE IInv'
    OBVIOUS
  <2>1. ASSUME NEW g \in Callers, NEW r \in Requests, Call(g, r) PROVE IInv'
    BY <2>1, CallStep
  <2>2. ASSUME NEW d \in deliveries, Deliver(d) PROVE IInv'
    BY <2>2, DeliverStep
  <2>3. ASSUME NEW g \in Callers, Finish(g) PROVE IInv'
    <3>1. /\ Live(g) /\ pc[g] = "got"
          /\ incoming' = [incoming EXCEPT ![KeyOf(Mine(g))] = None]
          /\ pc' = [pc EXCEPT ![g] = "idle"] /\ req' = [req EXCEPT ![g] = None]
          /\ UNCHANGED <<count, deliveries, toDevice, fromDevice>>
      BY <2>3 DEF Finish, Returning, Unregister, Live, connVars
    <3>2. OneCopy' /\ \A n \in Msg : InFlight(n)' => InFlight(n)
      BY <3>1 DEF IInv, OneCopy, InFlight
    <3>3. QED
      BY <3>1, <3>2, EndStep
  <2>4. ASSUME NEW c \in Conns, Accept(c) PROVE IInv'
    BY <2>4, ConnShrinks DEF Accept, callerVars
  <2>5. ASSUME NEW c \in Conns, ReadHello(c) PROVE IInv'
    BY <2>5, ReadShrinks, ConnShrinks DEF ReadHello, callerVars
  <2>6. ASSUME NEW c \in Conns, NEW m \in Msg, ReadAnswer(c, m) PROVE IInv'
    BY <2>6, ReadAnswerStep
  <2>7. ASSUME NEW c \in Conns, ReadGarbage(c) PROVE IInv'
    BY <2>7, ReadShrinks, ConnShrinks DEF ReadGarbage, callerVars
  <2>8. ASSUME NEW c \in Conns, ReadEnd(c) PROVE IInv'
    BY <2>8, ConnShrinks DEF ReadEnd, callerVars, IInv, TypeOK
  <2>9. ASSUME NEW c \in Conns, NEW queue \in {"internal", "appproxy"}, Choose(c, queue)
        PROVE  IInv'
    BY <2>9, ConnShrinks DEF Choose, callerVars
  <2>10. ASSUME NEW c \in Conns, NEW g \in Callers, Take(c, g) PROVE IInv'
    BY <2>10, TakeStep
  <2>11. ASSUME NEW c \in Conns, CloseWriter(c) PROVE IInv'
    BY <2>11, ConnShrinks DEF CloseWriter, callerVars, IInv, TypeOK
  <2>12. ASSUME NEW c \in Conns, SayHello(c) PROVE IInv'
    BY <2>12, EmitNoise DEF SayHello
  <2>13. ASSUME NEW c \in Conns, NEW m \in toDevice[c], Answer(c, m) PROVE IInv'
    BY <2>13, AnswerStep
  <2>14. ASSUME NEW c \in Conns, NEW m \in toDevice[c], Garble(c, m) PROVE IInv'
    BY <2>14, EmitNoise DEF Garble, IInv, TypeOK
  <2>15. ASSUME NEW c \in Conns, Hangup(c) PROVE IInv'
    BY <2>15, ConnShrinks DEF Hangup, callerVars, IInv, TypeOK
  <2>16. CASE UNCHANGED vars
    BY <2>16, ConnShrinks DEF vars
  <2>17. QED
    BY <2>1, <2>2, <2>3, <2>4, <2>5, <2>6, <2>7, <2>8, <2>9, <2>10, <2>11, <2>12,
       <2>13, <2>14, <2>15, <2>16 DEF Next, Caller, Reader, Writer, Device
<1>3. QED
  BY <1>1, <1>2, TypeCorrect, PTL DEF Spec

(* incomingQueues never keeps the channel of a call that is over, nor one  *)
(* under a key its call does not await.                                    *)
THEOREM NoLeftovers == Spec => []RegistryLive
<1>1. IInv => RegistryLive
  BY DEF IInv
<1>2. QED
  BY <1>1, Inductive, PTL

(* A call that alone uses its key stays registered until it returns.       *)
THEOREM StaysRegistered == Spec => []ExclusiveRegistered
<1>1. IInv => ExclusiveRegistered
  BY DEF IInv
<1>2. QED
  BY <1>1, Inductive, PTL

(* The goroutine delivering an exclusively awaited answer holds the right  *)
(* channel, and its receiver is blocked on it.                             *)
THEOREM DeliveryMeetsCaller == Spec => []ExclusiveDelivery
<1>1. IInv => ExclusiveDelivery
  <2> SUFFICES ASSUME IInv, NEW d \in deliveries, Exclusive(d.msg)
               PROVE  /\ d.ch = d.msg.call
                      /\ \E g \in Callers : d.ch = Current(g) /\ pc[g] = "waiting"
    BY DEF ExclusiveDelivery
  <2>1. d.msg \in Msg /\ InFlight(d.msg)
    BY DEF IInv, TypeOK, InFlight
  <2>2. PICK g \in Callers : d.msg = Mine(g) /\ pc[g] = "waiting"
    BY <2>1 DEF IInv, InFlightSent, Waiting
  <2>3. d.ch = d.msg.call
    BY DEF IInv, DeliveryKeyed
  <2>4. QED
    BY <2>2, <2>3 DEF Mine
<1>2. QED
  BY <1>1, Inductive, PTL

-----------------------------------------------------------------------------
(* Where a hello in time shows: only a process that says hello has one on  *)
(* its stream, so only such a connection is ready, and the queue a writer  *)
(* has chosen is the one of its process.                                   *)
GreetInv ==
  \A c \in Conns :
    /\ Hello \in Range(fromDevice[c]) => c \in HelloConns
    /\ ready[c] => c \in HelloConns
    /\ writer[c] = "internal" => c \in HelloConns
    /\ writer[c] = "appproxy" => c \notin HelloConns

(* Reading takes from the stream, so it brings no hello.                   *)
LEMMA ReadGreets ==
  ASSUME TypeOK, NEW c \in Conns, NEW item, Decode(c, item), NEW e \in Conns
  PROVE  /\ Hello \in Range(fromDevice'[e]) => Hello \in Range(fromDevice[e])
         /\ item \in Range(fromDevice[c])
<1>1. /\ fromDevice[c] # <<>>
      /\ fromDevice'[e] = IF e = c THEN Tail(fromDevice[c]) ELSE fromDevice[e]
      /\ item = Head(fromDevice[c])
  BY DEF Decode, TypeOK
<1>2. fromDevice[c] \in Seq(Msg \cup {Hello, Garbage})
  BY DEF TypeOK
<1>3. item = fromDevice[c][1] /\ 1 \in DOMAIN fromDevice[c]
  BY <1>1, <1>2, StreamHead
<1>4. \A i \in DOMAIN Tail(fromDevice[c]) :
        i + 1 \in DOMAIN fromDevice[c] /\ Tail(fromDevice[c])[i] = fromDevice[c][i + 1]
  BY <1>1, <1>2, StreamHead
<1>5. Hello \in Range(Tail(fromDevice[c])) => Hello \in Range(fromDevice[c])
  BY <1>4 DEF Range
<1>6. QED
  BY <1>1, <1>3, <1>5 DEF Range

(* What is emitted brings a hello only if it is one.                       *)
LEMMA EmitGreets ==
  ASSUME TypeOK, NEW c \in Conns, NEW item \in Msg \cup {Hello, Garbage},
         Emit(c, item), NEW e \in Conns, Hello \in Range(fromDevice'[e])
  PROVE  Hello \in Range(fromDevice[e]) \/ (e = c /\ item = Hello)
<1>1. fromDevice' = [fromDevice EXCEPT ![c] = Append(@, item)]
  BY DEF Emit
<1>2. PICK i \in DOMAIN fromDevice'[e] : fromDevice'[e][i] = Hello
  BY DEF Range
<1>3. \/ i \in DOMAIN fromDevice[e] /\ fromDevice'[e][i] = fromDevice[e][i]
      \/ e = c /\ fromDevice'[e][i] = item
  BY <1>1, <1>2, StreamAppend
<1>4. QED
  BY <1>2, <1>3 DEF Range

(* A request written goes to the queue's kind of process.                  *)
LEMMA TakePeer ==
  ASSUME TypeOK, GreetInv, RightPeer, NEW c \in Conns, NEW g \in Callers, Take(c, g)
  PROVE  GreetInv' /\ RightPeer'
<1>1. UNCHANGED <<ready, writer, fromDevice>> /\ writer[c] = QueueOf(req[g])
  BY DEF Take
<1>2. GreetInv'
  BY <1>1 DEF GreetInv
<1>3. QueueOf(req[g]) = "internal" <=> c \in HelloConns
  BY <1>1 DEF GreetInv, QueueOf
<1>4. \A e \in Conns : toDevice'[e] \subseteq
        toDevice[e] \cup (IF e = c THEN {Mine(g)} ELSE {})
  BY DEF Take, TypeOK
<1>5. Mine(g).req = req[g]
  BY DEF Mine
<1>6. RightPeer'
  BY <1>3, <1>4, <1>5 DEF RightPeer, QueueOf
<1>7. QED
  BY <1>2, <1>6

(* When every process that says hello does so within the second the writer *)
(* waits, no request reaches a process of the other kind.                  *)
THEOREM RightQueue ==
  ASSUME "lateHello" \notin Faults
  PROVE  Spec => []RightPeer
<1> DEFINE PeerInv == GreetInv /\ RightPeer
<1>1. Init => PeerInv
  <2> SUFFICES ASSUME Init PROVE PeerInv
    OBVIOUS
  <2>1. \A c \in Conns : fromDevice[c] = <<>> /\ toDevice[c] = {}
    BY DEF Init
  <2>2. \A c \in Conns : Hello \notin Range(fromDevice[c])
    BY <2>1 DEF Range
  <2>3. QED
    BY <2>1, <2>2 DEF Init, GreetInv, RightPeer
<1>2. TypeOK /\ PeerInv /\ [Next]_vars => PeerInv'
  <2> SUFFICES ASSUME TypeOK, GreetInv, RightPeer, [Next]_vars
               PROVE  GreetInv' /\ RightPeer'
    OBVIOUS
  <2> DEFINE Taken == \A e \in Conns : toDevice'[e] \subseteq toDevice[e]
             Quiet == \A e \in Conns :
                        Hello \in Range(fromDevice'[e]) => Hello \in Range(fromDevice[e])
  <2>1. ASSUME Taken PROVE RightPeer'
    BY <2>1 DEF RightPeer, QueueOf
  <2>2. ASSUME Quiet, UNCHANGED <<ready, writer>> PROVE GreetInv'
    BY <2>2 DEF GreetInv
  <2>3. ASSUME UNCHANGED <<ready, writer, toDevice, fromDevice>>
        PROVE  GreetInv' /\ RightPeer'
    BY <2>1, <2>2, <2>3
  <2>4. \A c \in Conns : Range(<<>>) = {}
    BY DEF Range
  <2>5. ASSUME NEW g \in Callers, Caller(g) PROVE GreetInv' /\ RightPeer'
    BY <2>3, <2>5 DEF Caller, Call, Deliver, Finish, connVars
  <2>6. ASSUME NEW c \in Conns, Accept(c) PROVE GreetInv' /\ RightPeer'
    <3>1. Taken /\ UNCHANGED <<ready, fromDevice>>
          /\ writer' = [writer EXCEPT ![c] = "choosing"]
      BY <2>6 DEF Accept
    <3>2. QED
      BY <2>1, <3>1 DEF GreetInv, TypeOK
  <2>7. ASSUME NEW c \in Conns, ReadHello(c) PROVE GreetInv' /\ RightPeer'
    <3>1. Taken /\ UNCHANGED writer /\ ready' = [ready EXCEPT ![c] = TRUE]
          /\ Decode(c, Hello)
      BY <2>7 DEF ReadHello
    <3>2. Quiet /\ c \in HelloConns
      BY <3>1, ReadGreets DEF GreetInv
    <3>3. QED
      BY <2>1, <3>1, <3>2 DEF GreetInv, TypeOK
  <2>8. ASSUME NEW c \in Conns, NEW m \in Msg, ReadAnswer(c, m)
        PROVE  GreetInv' /\ RightPeer'
    <3>1. Taken /\ UNCHANGED <<ready, writer>> /\ Decode(c, m)
      BY <2>8 DEF ReadAnswer
    <3>2. QED
      BY <2>1, <2>2, <3>1, ReadGreets
  <2>9. ASSUME NEW c \in Conns, ReadGarbage(c) PROVE GreetInv' /\ RightPeer'
    <3>1. Taken /\ UNCHANGED <<ready, writer>> /\ Decode(c, Garbage)
      BY <2>9 DEF ReadGarbage
    <3>2. QED
      BY <2>1, <2>2, <3>1, ReadGreets
  <2>10. ASSUME NEW c \in Conns, ReadEnd(c) PROVE GreetInv' /\ RightPeer'
    <3>1. Taken /\ UNCHANGED <<ready, writer>>
          /\ fromDevice' = [fromDevice EXCEPT ![c] = <<>>]
      BY <2>10 DEF ReadEnd
    <3>2. Quiet
      BY <2>4, <3>1 DEF TypeOK
    <3>3. QED
      BY <2>1, <2>2, <3>1, <3>2
  <2>11. ASSUME NEW c \in Conns, NEW queue \in {"internal", "appproxy"}, Choose(c, queue)
         PROVE  GreetInv' /\ RightPeer'
    <3>1. /\ Taken /\ UNCHANGED <<ready, fromDevice>>
          /\ writer' = [writer EXCEPT ![c] = queue]
          /\ queue = "internal" => ready[c]
          /\ queue = "appproxy" => c \notin HelloConns
      BY <2>11, "lateHello" \notin Faults DEF Choose, TimerFires
    <3>2. QED
      BY <2>1, <3>1 DEF GreetInv, TypeOK
  <2>12. ASSUME NEW c \in Conns, NEW g \in Callers, Take(c, g)
         PROVE  GreetInv' /\ RightPeer'
    BY <2>12, TakePeer
  <2>13. ASSUME NEW c \in Conns, CloseWriter(c) PROVE GreetInv' /\ RightPeer'
    <3>1. /\ UNCHANGED ready /\ writer' = [writer EXCEPT ![c] = "done"]
          /\ fromDevice' = [fromDevice EXCEPT ![c] = <<>>]
          /\ toDevice' = [toDevice EXCEPT ![c] = {}]
      BY <2>13 DEF CloseWriter
    <3>2. Quiet /\ Taken
      BY <2>4, <3>1 DEF TypeOK
    <3>3. QED
      BY <2>1, <3>1, <3>2 DEF GreetInv, TypeOK
  <2>14. ASSUME NEW c \in Conns, SayHello(c) PROVE GreetInv' /\ RightPeer'
    <3>1. Taken /\ UNCHANGED <<ready, writer>> /\ c \in HelloConns /\ Emit(c, Hello)
      BY <2>14 DEF SayHello, Emit
    <3>2. \A e \in Conns : Hello \in Range(fromDevice'[e]) =>
            Hello \in Range(fromDevice[e]) \/ e = c
      BY <3>1, EmitGreets
    <3>3. QED
      BY <2>1, <3>1, <3>2 DEF GreetInv
  <2>15. ASSUME NEW c \in Conns, NEW m \in toDevice[c], Answer(c, m) \/ Garble(c, m)
         PROVE  GreetInv' /\ RightPeer'
    <3>1. PICK item \in {m, Garbage} : Emit(c, item)
      BY <2>15 DEF Answer, Garble
    <3>2. Taken /\ UNCHANGED <<ready, writer>>
      BY <2>15 DEF Answer, Garble, Emit, TypeOK
    <3>3. m \in Msg
      BY DEF TypeOK
    <3>4. item \in Msg \cup {Hello, Garbage} /\ item # Hello
      BY <3>3, StreamAssumption
    <3>5. Quiet
      BY <3>1, <3>4, EmitGreets
    <3>6. QED
      BY <2>1, <2>2, <3>2, <3>5
  <2>16. ASSUME NEW c \in Conns, Hangup(c) PROVE GreetInv' /\ RightPeer'
    <3>1. Taken /\ UNCHANGED <<ready, writer, fromDevice>>
      BY <2>16 DEF Hangup, TypeOK
    <3>2. QED
      BY <2>1, <2>2, <3>1
  <2>17. CASE UNCHANGED vars
    BY <2>3, <2>17 DEF vars
  <2>18. QED
    BY <2>5, <2>6, <2>7, <2>8, <2>9, <2>10, <2>11, <2>12, <2>13, <2>14, <2>15,
       <2>16, <2>17 DEF Next, Reader, Writer, Device
<1>3. PeerInv => RightPeer
  OBVIOUS
<1>4. QED
  BY <1>1, <1>2, <1>3, TypeCorrect, PTL DEF Spec
=============================================================================
