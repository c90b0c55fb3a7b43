------------------------ MODULE RequestMuxRefinement ------------------------
(* RequestMux implements CallReply: every step of the goroutines and the   *)
(* connections is a step of the promise, or changes nothing it can see.    *)
EXTENDS RequestMuxProofs

(* An answer is read from one stream, once: no two goroutines deliver it.  *)
DeliveredOnce == \A d, e \in deliveries : d.msg = e.msg => d = e

LEMMA OnceStep ==
  ASSUME IInv, DeliveredOnce, [Next]_vars
  PROVE  DeliveredOnce'
<1>1. CASE deliveries' \subseteq deliveries
  BY <1>1 DEF DeliveredOnce
<1>2. ASSUME NEW c \in Conns, NEW m \in Msg, ReadAnswer(c, m), Found(m)
      PROVE  DeliveredOnce'
  <2>1. m \in Range(fromDevice[c])
    <3>1. fromDevice[c] # <<>> /\ m = Head(fromDevice[c])
      BY <1>2 DEF ReadAnswer, Decode
    <3>2. m = fromDevice[c][1] /\ 1 \in DOMAIN fromDevice[c]
      BY <3>1, StreamHead DEF IInv, TypeOK
    <3>3. QED
      BY <3>2 DEF Range
  <2>2. \A d \in deliveries : d.msg # m
    BY <2>1 DEF IInv, OneCopy
  <2>3. deliveries' = deliveries \cup {[ch |-> Lookup(m), msg |-> m]}
    BY <1>2 DEF ReadAnswer
  <2>4. QED
    BY <2>2, <2>3 DEF DeliveredOnce
<1>3. deliveries' \subseteq deliveries
        \/ \E c \in Conns, m \in Msg : ReadAnswer(c, m) /\ Found(m)
  BY DEF Next, Caller, Reader, Writer, Device, Call, Deliver, Finish, Accept, ReadHello,
         ReadAnswer, ReadGarbage, ReadEnd, Choose, Take, CloseWriter, SayHello, Answer,
         Garble, Emit, Hangup, vars
<1>4. QED
  BY <1>1, <1>2, <1>3

-----------------------------------------------------------------------------
(* What an answer is, before and after a step.                             *)
InStream(m)  == \E c \in Conns : m \in Range(fromDevice[c]) /\ m \in Msg
Delivered(m) == \E d \in deliveries : m = d.msg

LEMMA IsAnswer ==
  /\ \A m : m \in Answers <=> InStream(m) \/ Delivered(m)
  /\ \A m : m \in Answers' <=> InStream(m)' \/ Delivered(m)'
<1>1. \A m : m \in Answers <=> InStream(m) \/ Delivered(m)
  <2> DEFINE S == UNION {Range(fromDevice[c]) \cap Msg : c \in Conns}
             D == {d.msg : d \in deliveries}
  <2>1. \A m : m \in S <=> InStream(m)
    BY DEF InStream
  <2>2. \A m : m \in D <=> Delivered(m)
    BY DEF Delivered
  <2>3. Answers = S \cup D
    BY DEF Answers
  <2> HIDE DEF S, D
  <2>4. QED
    BY <2>1, <2>2, <2>3
<1>2. \A m : m \in Answers' <=> InStream(m)' \/ Delivered(m)'
  <2> DEFINE S == UNION {Range(fromDevice'[c]) \cap Msg : c \in Conns}
             D == {d.msg : d \in deliveries'}
  <2>1. \A m : m \in S <=> InStream(m)'
    BY DEF InStream
  <2>2. \A m : m \in D <=> Delivered(m)'
    BY DEF Delivered
  <2>3. Answers' = S \cup D
    BY DEF Answers
  <2> HIDE DEF S, D
  <2>4. QED
    BY <2>1, <2>2, <2>3
<1>3. QED
  BY <1>1, <1>2

(* CallReply means the same by its requests, keys and exclusive answers.   *)
LEMMA SameNotions ==
  /\ Promise!Requests = Requests
  /\ \A m : Promise!KeyOf(m) = KeyOf(m) /\ (Promise!Exclusive(m) <=> Exclusive(m))
  /\ \A g : Promise!Mine(g) = Mine(g)
BY DEF Promise!Requests, Requests, Promise!KeyOf, KeyOf, Promise!Exclusive, Exclusive,
       Promise!Mine, Mine, Current

(* Steps that at most lose requests and answers.                           *)
LEMMA LoseStep ==
  ASSUME UNCHANGED callerVars, Asked' \subseteq Asked, Answers' \subseteq Answers
  PROVE  Promise!Next
<1>1. Promise!Lose
  BY DEF Promise!Lose, callerVars
<1>2. QED
  BY <1>1 DEF Promise!Next

(* What a stream is left with when messages are taken out of it.           *)
LEMMA TailRange ==
  ASSUME TypeOK, NEW c \in Conns, fromDevice[c] # <<>>
  PROVE  Range(Tail(fromDevice[c])) \subseteq Range(fromDevice[c])
<1>1. DOMAIN Tail(fromDevice[c]) = 1..Len(fromDevice[c]) - 1
  BY StreamHead
<1>2. \A i \in 1..Len(fromDevice[c]) - 1 :
        Tail(fromDevice[c])[i] = fromDevice[c][i + 1] /\ i + 1 \in DOMAIN fromDevice[c]
  BY StreamHead DEF TypeOK
<1>3. QED
  BY <1>1, <1>2 DEF Range

(* What it is left with when the device adds something.                    *)
LEMMA AppendRange ==
  ASSUME TypeOK, NEW c \in Conns, NEW item \in Msg \cup {Hello, Garbage}
  PROVE  Range(Append(fromDevice[c], item)) = Range(fromDevice[c]) \cup {item}
<1> DEFINE s == fromDevice[c]  t == Append(s, item)
<1>1. s \in Seq(Msg \cup {Hello, Garbage})
  BY DEF TypeOK
<1>2. /\ Len(s) \in Nat /\ DOMAIN s = 1..Len(s) /\ DOMAIN t = 1..Len(s) + 1
      /\ t[Len(s) + 1] = item
      /\ \A i \in 1..Len(s) : t[i] = s[i]
  BY <1>1
<1>3. \A i \in 1..Len(s) + 1 : i = Len(s) + 1 \/ i \in 1..Len(s)
  BY <1>2
<1>4. Len(s) + 1 \in 1..Len(s) + 1 /\ 1..Len(s) \subseteq 1..Len(s) + 1
  BY <1>2
<1>5. QED
  BY <1>2, <1>3, <1>4 DEF Range

(* A connection whose stream and requests only shrink.                     *)
LEMMA ShrinkStep ==
  ASSUME UNCHANGED callerVars, UNCHANGED deliveries,
         \A c \in Conns : toDevice'[c] \subseteq toDevice[c],
         \A c \in Conns : Range(fromDevice'[c]) \cap Msg \subseteq Range(fromDevice[c])
  PROVE  Promise!Next
<1>1. Asked' \subseteq Asked
  BY DEF Asked
<1>2. \A m : (InStream(m)' => InStream(m)) /\ (Delivered(m)' => Delivered(m))
  BY DEF InStream, Delivered
<1>3. Answers' \subseteq Answers
  BY <1>2, IsAnswer
<1>4. QED
  BY <1>1, <1>3, LoseStep

-----------------------------------------------------------------------------
(* The steps of the goroutines and devices, one by one.                    *)

LEMMA CallSimulated ==
  ASSUME NEW g \in Callers, NEW r \in Requests, Call(g, r)
  PROVE  Promise!Next
<1>1. Asked' = Asked /\ Answers' = Answers
  BY DEF Call, connVars, Asked, Answers
<1>2. Promise!Call(g, r)
  BY <1>1 DEF Call, Promise!Call
<1>3. QED
  BY <1>2, SameNotions DEF Promise!Next

LEMMA TakeSimulated ==
  ASSUME TypeOK, NEW c \in Conns, NEW g \in Callers, Take(c, g)
  PROVE  Promise!Next
<1>1. Answers' = Answers
  BY DEF Take, Answers
<1>2. Promise!Mine(g) = Mine(g)
  BY SameNotions
<1>3. Asked' \in {Asked, Asked \cup {Mine(g)}}
  <2>1. CASE toDevice' = [toDevice EXCEPT ![c] = @ \cup {Mine(g)}]
    <3>2. /\ toDevice'[c] = toDevice[c] \cup {Mine(g)}
          /\ \A e \in Conns : e # c => toDevice'[e] = toDevice[e]
      BY <2>1 DEF TypeOK
    <3>3. \A m : m \in Asked' <=> m \in Asked \/ m = Mine(g)
      BY <3>2 DEF Asked
    <3>4. QED
      BY <3>3
  <2>2. CASE toDevice' = toDevice
    BY <2>2 DEF Asked
  <2>3. QED
    BY <2>1, <2>2 DEF Take
<1>4. Promise!Send(g)
  BY <1>1, <1>2, <1>3 DEF Take, Promise!Send
<1>5. QED
  BY <1>4 DEF Promise!Next

(* The channel of the waiting call gets an answer under its key, and its   *)
(* own if the key is its own.                                              *)
LEMMA DeliverSimulated ==
  ASSUME IInv, DeliveredOnce, NEW d \in deliveries, Deliver(d)
  PROVE  Promise!Next
<1> DEFINE g == d.ch[1]  m == d.msg
<1>1. /\ g \in Callers /\ m \in Msg /\ d.ch = Current(g) /\ Live(g) /\ pc[g] = "waiting"
      /\ deliveries' = deliveries \ {d}
      /\ UNCHANGED <<count, req, incoming, toDevice, fromDevice>>
  BY DEF Deliver, IInv, TypeOK, Calls, Live, connVars
<1>2. Promise!Mine(g) = Mine(g)
  BY SameNotions
<1>3. m \in Answers
  BY IsAnswer DEF Delivered
<1>4. KeyOf(m) = KeyOf(Mine(g))
  BY <1>1 DEF IInv, DeliveryKeyed
<1>5. Exclusive(m) => m = Mine(g)
  <2>1. InFlight(m)
    BY DEF InFlight
  <2>2. Exclusive(m) => m.call = Current(g)
    BY <1>1 DEF IInv, DeliveryKeyed
  <2>3. QED
    BY <1>1, <2>1, <2>2 DEF IInv, InFlightSent
<1>6. \A c \in Conns : m \notin Range(fromDevice[c])
  BY DEF IInv, OneCopy
<1>7. Answers' = Answers \ {m}
  <2>1. \A n : Delivered(n)' <=> Delivered(n) /\ n # m
    BY <1>1 DEF Delivered, DeliveredOnce
  <2>2. \A n : InStream(n)' <=> InStream(n) /\ n # m
    BY <1>1, <1>6 DEF InStream
  <2>3. \A n : n \in Answers' <=> n \in Answers /\ n # m
    BY <2>1, <2>2, IsAnswer
  <2>4. QED
    BY <2>3
<1>8. Asked' = Asked
  BY <1>1 DEF Asked
<1>9. Promise!Receive(g, m)
  BY <1>1, <1>2, <1>4, <1>5, <1>7, <1>8, SameNotions DEF Promise!Receive, Deliver
<1>10. QED
  BY <1>1, <1>3, <1>9 DEF Promise!Next

LEMMA FinishSimulated ==
  ASSUME NEW g \in Callers, Finish(g)
  PROVE  Promise!Next
<1>1. Asked' = Asked /\ Answers' = Answers
  BY DEF Finish, connVars, Asked, Answers
<1>2. Promise!Return(g)
  BY <1>1 DEF Finish, Returning, Promise!Return
<1>3. QED
  BY <1>2 DEF Promise!Next

LEMMA ReadAnswerSimulated ==
  ASSUME TypeOK, NEW c \in Conns, NEW m \in Msg, ReadAnswer(c, m)
  PROVE  Promise!Next
<1>1. /\ fromDevice[c] # <<>> /\ m = Head(fromDevice[c])
      /\ fromDevice' = [fromDevice EXCEPT ![c] = Tail(@)]
      /\ UNCHANGED callerVars /\ UNCHANGED toDevice
      /\ \A d \in deliveries' : d \in deliveries \/ d.msg = m
  BY DEF ReadAnswer, Decode
<1>2. m \in Range(fromDevice[c])
  BY <1>1, StreamHead DEF Range, TypeOK
<1>3. \A e \in Conns : Range(fromDevice'[e]) \subseteq Range(fromDevice[e])
  BY <1>1, TailRange DEF TypeOK
<1>4. Answers' \subseteq Answers
  <2>1. InStream(m)
    BY <1>2 DEF InStream
  <2>2. \A n : InStream(n)' => InStream(n)
    BY <1>3 DEF InStream
  <2>3. \A n : Delivered(n)' => Delivered(n) \/ n = m
    BY <1>1 DEF Delivered
  <2>4. QED
    BY <2>1, <2>2, <2>3, IsAnswer
<1>5. Asked' \subseteq Asked
  BY <1>1 DEF Asked
<1>6. QED
  BY <1>1, <1>4, <1>5, LoseStep

LEMMA AnswerSimulated ==
  ASSUME IInv, NEW c \in Conns, NEW m \in toDevice[c], Answer(c, m)
  PROVE  Promise!Next
<1>1. /\ fromDevice' = [fromDevice EXCEPT ![c] = Append(@, m)]
      /\ toDevice' = [toDevice EXCEPT ![c] = @ \ {m}]
      /\ UNCHANGED <<callerVars, deliveries>>
      /\ m \in Msg
  BY DEF Answer, Emit, IInv, TypeOK
<1>2. \A e \in Conns : e # c => m \notin toDevice[e]
  BY DEF IInv, OneCopy
<1>3. /\ toDevice'[c] = toDevice[c] \ {m}
      /\ \A e \in Conns : e # c => toDevice'[e] = toDevice[e]
  BY <1>1 DEF IInv, TypeOK
<1>4. \A n : n \in Asked' <=> n \in Asked /\ n # m
  BY <1>2, <1>3 DEF Asked
<1>5. /\ Range(fromDevice'[c]) = Range(fromDevice[c]) \cup {m}
      /\ \A e \in Conns : e # c => fromDevice'[e] = fromDevice[e]
  BY <1>1, AppendRange DEF IInv, TypeOK
<1>6. \A n : n \in Answers' <=> n \in Answers \/ n = m
  <2>1. \A n : InStream(n)' <=> InStream(n) \/ n = m
    BY <1>1, <1>5 DEF InStream
  <2>2. \A n : Delivered(n)' <=> Delivered(n)
    BY <1>1 DEF Delivered
  <2>3. QED
    BY <2>1, <2>2, IsAnswer
<1>7. m \in Asked /\ Promise!Reply(m)
  BY <1>1, <1>4, <1>6 DEF Asked, Promise!Reply, callerVars
<1>8. QED
  BY <1>7 DEF Promise!Next

(* The steps of a connection that answer nobody.                           *)
LEMMA NoiseSimulated ==
  ASSUME TypeOK, NEW c \in Conns,
         \/ Accept(c) \/ ReadHello(c) \/ ReadGarbage(c) \/ ReadEnd(c)
         \/ \E queue \in {"internal", "appproxy"} : Choose(c, queue)
         \/ CloseWriter(c) \/ SayHello(c) \/ \E m \in toDevice[c] : Garble(c, m)
         \/ Hangup(c)
  PROVE  Promise!Next
<1>1. UNCHANGED callerVars /\ UNCHANGED deliveries
  BY DEF Accept, ReadHello, ReadGarbage, ReadEnd, Choose, CloseWriter, SayHello, Garble,
         Emit, Hangup
<1>2. \A e \in Conns : toDevice'[e] \subseteq toDevice[e]
  BY DEF Accept, ReadHello, ReadGarbage, ReadEnd, Choose, CloseWriter, SayHello, Garble,
         Hangup, TypeOK
<1>3. \/ fromDevice' = fromDevice
      \/ fromDevice[c] # <<>> /\ fromDevice' = [fromDevice EXCEPT ![c] = Tail(@)]
      \/ fromDevice' = [fromDevice EXCEPT ![c] = <<>>]
      \/ \E item \in {Hello, Garbage} :
           fromDevice' = [fromDevice EXCEPT ![c] = Append(@, item)]
  BY DEF Accept, ReadHello, ReadGarbage, Decode, ReadEnd, Choose, CloseWriter, SayHello,
         Garble, Emit, Hangup
<1>4. \A e \in Conns : Range(fromDevice'[e]) \cap Msg \subseteq Range(fromDevice[e])
  <2>1. CASE fromDevice' = fromDevice
    BY <2>1
  <2>2. CASE fromDevice[c] # <<>> /\ fromDevice' = [fromDevice EXCEPT ![c] = Tail(@)]
    BY <2>2, TailRange DEF TypeOK
  <2>3. CASE fromDevice' = [fromDevice EXCEPT ![c] = <<>>]
    BY <2>3 DEF TypeOK, Range
  <2>4. ASSUME NEW item \in {Hello, Garbage},
               fromDevice' = [fromDevice EXCEPT ![c] = Append(@, item)]
        PROVE  \A e \in Conns : Range(fromDevice'[e]) \cap Msg \subseteq Range(fromDevice[e])
    BY <2>4, AppendRange, StreamAssumption DEF TypeOK
  <2>5. QED
    BY <1>3, <2>1, <2>2, <2>3, <2>4
<1>5. QED
  BY <1>1, <1>2, <1>4, ShrinkStep

LEMMA StepSimulated ==
  ASSUME IInv, DeliveredOnce, [Next]_vars
  PROVE  [Promise!Next]_(Promise!vars)
<1>1. TypeOK
  BY DEF IInv
<1>2. CASE UNCHANGED vars
  BY <1>2 DEF vars, Promise!vars, Asked, Answers
<1>3. ASSUME NEW g \in Callers, Caller(g) PROVE Promise!Next
  BY <1>3, CallSimulated, DeliverSimulated, FinishSimulated DEF Caller
<1>4. ASSUME NEW c \in Conns, Reader(c) PROVE Promise!Next
  BY <1>1, <1>4, ReadAnswerSimulated, NoiseSimulated DEF Reader
<1>5. ASSUME NEW c \in Conns, Writer(c) PROVE Promise!Next
  BY <1>1, <1>5, TakeSimulated, NoiseSimulated DEF Writer
<1>6. ASSUME NEW c \in Conns, Device(c) PROVE Promise!Next
  BY <1>1, <1>6, AnswerSimulated, NoiseSimulated DEF Device
<1>7. ASSUME NEW c \in Conns, Accept(c) PROVE Promise!Next
  BY <1>1, <1>7, NoiseSimulated
<1>8. QED
  BY <1>2, <1>3, <1>4, <1>5, <1>6, <1>7 DEF Next

(* The multiplexer keeps its promise: a call returns only with an answer   *)
(* under its key, an answer serves one call, and a caller that alone       *)
(* awaits a key gets the answer to its own request, for any number of      *)
(* callers, connections and calls, and whatever is lost on the way.        *)
THEOREM Refinement == Spec => ImplementsCallReply
<1>1. Init => Promise!Init /\ DeliveredOnce
  <2> SUFFICES ASSUME Init PROVE Promise!Init /\ DeliveredOnce
    OBVIOUS
  <2>1. Asked = {}
    BY DEF Init, Asked
  <2>2. \A c \in Conns : Range(fromDevice[c]) = {}
    BY DEF Init, Range
  <2>3. Answers = {}
    BY <2>2 DEF Init, Answers
  <2>4. QED
    BY <2>1, <2>3 DEF Init, Promise!Init, DeliveredOnce
<1>2. IInv /\ DeliveredOnce /\ [Next]_vars => DeliveredOnce' /\ [Promise!Next]_(Promise!vars)
  BY OnceStep, StepSimulated
<1>3. QED
  BY <1>1, <1>2, Inductive, PTL DEF Spec, ImplementsCallReply, Promise!Spec
=============================================================================
