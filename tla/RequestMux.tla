----------------------------- MODULE RequestMux -----------------------------
(***************************************************************************)
(* rocklet's request multiplexer (pkg/rockrobo/rockrobo.go, retrieve, and  *)
(* pkg/rockrobo/local_connection.go, handle).                              *)
(*                                                                         *)
(* Goroutines of rocklet call the firmware of the vacuum through retrieve: *)
(* register a fresh channel in the map incomingQueues, hand the request to *)
(* the writer goroutine of some local TCP connection, block on the channel *)
(* and unregister on return.  Every connection has a reader goroutine that *)
(* looks the answer up in the map and starts a goroutine to deliver it.    *)
(***************************************************************************)
EXTENDS DeviceCalls, Sequences, Functions

CONSTANTS
  Conns,      \* TCP connections the device's processes open
  HelloConns, \* the connections whose process says hello (internal ones)
  Faults,     \* what may go wrong: a subset of AllFaults
  Hello,      \* the hello message on a connection's stream
  Garbage     \* input the decoder rejects on a connection's stream

AllFaults == {"lateHello", "hangup", "garble", "lose"}

ASSUME StreamAssumption == Hello # Garbage /\ {Hello, Garbage} \cap Msg = {}
ASSUME EnvAssumption    == HelloConns \subseteq Conns /\ Faults \subseteq AllFaults

VARIABLES
  count,      \* count[g]: calls g has begun
  req,        \* req[g]: the request of g's current call, or None
  pc,         \* pc[g]: where g stands in its call
  incoming,   \* incomingQueues: key -> the call whose channel is registered
  deliveries, \* goroutines blocked in dataCh <- &method
  link,       \* link[c]: the TCP connection
  ready,      \* ready[c]: readyCh of c is closed
  reader,     \* reader[c]: the reader goroutine
  writer,     \* writer[c]: the writer goroutine and the queue it serves
  toDevice,   \* toDevice[c]: requests written and not answered
  fromDevice  \* fromDevice[c]: the byte stream towards the reader

callerVars == <<count, req, pc>>
connVars   == <<link, ready, reader, writer, toDevice, fromDevice>>
vars       == <<count, req, pc, incoming, deliveries, link, ready, reader,
                writer, toDevice, fromDevice>>

Init ==
  /\ count = [g \in Callers |-> 0]
  /\ req = [g \in Callers |-> None]
  /\ pc = [g \in Callers |-> "idle"]
  /\ incoming = [k \in Keys |-> None]
  /\ deliveries = {}
  /\ link = [c \in Conns |-> "new"]
  /\ ready = [c \in Conns |-> FALSE]
  /\ reader = [c \in Conns |-> "off"]
  /\ writer = [c \in Conns |-> "off"]
  /\ toDevice = [c \in Conns |-> {}]
  /\ fromDevice = [c \in Conns |-> <<>>]

-----------------------------------------------------------------------------
(* Calls, messages and the keys they are registered and looked up under.   *)

Current(g) == <<g, count[g]>>
Mine(g)    == [call |-> Current(g), req |-> req[g]]
Live(g)    == pc[g] # "idle"

(* The reader's lookup: the ID, otherwise the name.  An answer with an ID  *)
(* has a name nobody registers, so that the second look finds nothing.     *)
LookupLatest(m) ==      \* variant: the newest entry whatever its key
  LET open == {k \in Keys : incoming[k] # None}
  IN  IF open = {} THEN None ELSE incoming[CHOOSE k \in open : TRUE]
Lookup(m) == incoming[KeyOf(m)]

-----------------------------------------------------------------------------
(* The callers.                                                            *)

(* retrieve up to the send: a fresh channel replaces whatever the key held.*)
RegisterNames(g, r) ==  \* variant: answers are looked up by name only
  incoming' = IF r \in Names THEN [incoming EXCEPT ![r] = <<g, count[g] + 1>>]
              ELSE incoming
Register(g, r) ==
  LET m == [call |-> <<g, count[g] + 1>>, req |-> r]
  IN  incoming' = IF r = Post THEN incoming
                  ELSE [incoming EXCEPT ![KeyOf(m)] = m.call]

Call(g, r) ==
  /\ pc[g] = "idle"
  /\ count[g] < MaxCalls
  /\ r \in Uses[g]
  /\ Register(g, r)
  /\ count' = [count EXCEPT ![g] = @ + 1]
  /\ req' = [req EXCEPT ![g] = r]
  /\ pc' = [pc EXCEPT ![g] = "sending"]
  /\ UNCHANGED <<deliveries, connVars>>

(* resp := <-dataCh, the rendezvous with one of the delivery goroutines.   *)
DeliverAgain(d) ==      \* variant: the delivering goroutine sends in a loop
  LET g == d.ch[1]
  IN  /\ d.ch = Current(g)
      /\ pc[g] = "waiting"
      /\ pc' = [pc EXCEPT ![g] = "got"]
      /\ UNCHANGED <<count, req, incoming, deliveries, connVars>>
Deliver(d) ==
  LET g == d.ch[1]
  IN  /\ d.ch = Current(g)
      /\ pc[g] = "waiting"
      /\ pc' = [pc EXCEPT ![g] = "got"]
      /\ deliveries' = deliveries \ {d}
      /\ UNCHANGED <<count, req, incoming, connVars>>

(* The deferred deletes remove the key whoever it is registered to now.    *)
UnregisterNone(g) ==    \* variant: an entry outlives its call
  UNCHANGED incoming
Unregister(g) ==
  incoming' = [incoming EXCEPT ![KeyOf(Mine(g))] = None]

ReturningOnTimeout(g) == \* variant: the TODO timeout, added as a bare return
  pc[g] \in {"waiting", "got"}
Returning(g) == pc[g] = "got"
Finish(g) ==
  /\ Returning(g)
  /\ Unregister(g)
  /\ req' = [req EXCEPT ![g] = None]
  /\ pc' = [pc EXCEPT ![g] = "idle"]
  /\ UNCHANGED <<count, deliveries, connVars>>

-----------------------------------------------------------------------------
(* The reader goroutine of a connection.                                   *)

Accept(c) ==
  /\ link[c] = "new"
  /\ link' = [link EXCEPT ![c] = "up"]
  /\ reader' = [reader EXCEPT ![c] = "reading"]
  /\ writer' = [writer EXCEPT ![c] = "choosing"]
  /\ UNCHANGED <<callerVars, incoming, deliveries, ready, toDevice, fromDevice>>

(* A message is decoded: it leaves the stream.                             *)
Decode(c, item) ==
  /\ reader[c] = "reading"
  /\ fromDevice[c] # <<>>
  /\ item = Head(fromDevice[c])
  /\ fromDevice' = [fromDevice EXCEPT ![c] = Tail(@)]

(* readyCh is closed by the first hello; later ones change nothing.        *)
ReadHello(c) ==
  /\ Decode(c, Hello)
  /\ ready' = [ready EXCEPT ![c] = TRUE]
  /\ UNCHANGED <<callerVars, incoming, deliveries, link, reader, writer, toDevice>>

(* An answer nobody is registered for is dropped; otherwise a goroutine    *)
(* takes it to the channel the map held at this moment.                    *)
Found(m) == Lookup(m) # None
ReadAnswer(c, m) ==
  /\ Decode(c, m)
  /\ deliveries' = IF Found(m) THEN deliveries \cup {[ch |-> Lookup(m), msg |-> m]}
                   ELSE deliveries
  /\ UNCHANGED <<callerVars, incoming, link, ready, reader, writer, toDevice>>

(* A decode error (an unknown field is one) ends the reader: closeCh.      *)
ReadGarbage(c) ==
  /\ Decode(c, Garbage)
  /\ reader' = [reader EXCEPT ![c] = "done"]
  /\ UNCHANGED <<callerVars, incoming, deliveries, link, ready, writer, toDevice>>

(* EOF or a reset, which loses what was not read yet.                      *)
ReadEnd(c) ==
  /\ reader[c] = "reading"
  /\ link[c] = "gone"
  /\ reader' = [reader EXCEPT ![c] = "done"]
  /\ fromDevice' = [fromDevice EXCEPT ![c] = <<>>]
  /\ UNCHANGED <<callerVars, incoming, deliveries, link, ready, writer, toDevice>>

-----------------------------------------------------------------------------
(* The writer goroutine of a connection.                                   *)

(* Without the fault "lateHello" a process that says hello does so within  *)
(* the second the writer waits for it.                                     *)
TimerAlways(c) ==       \* variant: no wait for the hello
  TRUE
TimerNever(c) ==        \* variant: a connection without a hello is not served
  FALSE
TimerFires(c) == c \notin HelloConns \/ "lateHello" \in Faults

Choose(c, queue) ==
  /\ writer[c] = "choosing"
  /\ \/ queue = "internal" /\ ready[c]
     \/ queue = "appproxy" /\ TimerFires(c)
  /\ writer' = [writer EXCEPT ![c] = queue]
  /\ UNCHANGED <<callerVars, incoming, deliveries, link, ready, reader,
                 toDevice, fromDevice>>

(* The unbuffered queue: sender and writer meet.  An error of the encoder, *)
(* certain on a dead connection, is only logged: the message is lost.      *)
Take(c, g) ==
  /\ pc[g] = "sending"
  /\ writer[c] = QueueOf(req[g])
  /\ \/ link[c] = "up" /\ toDevice' = [toDevice EXCEPT ![c] = @ \cup {Mine(g)}]
     \/ (link[c] # "up" \/ "lose" \in Faults) /\ UNCHANGED toDevice
  /\ IF req[g] = Post
       THEN /\ pc' = [pc EXCEPT ![g] = "idle"]
            /\ req' = [req EXCEPT ![g] = None]
       ELSE /\ pc' = [pc EXCEPT ![g] = "waiting"]
            /\ UNCHANGED req
  /\ UNCHANGED <<count, incoming, deliveries, link, ready, reader, writer, fromDevice>>

(* Both goroutines are over, so handle returns and closes the connection.  *)
CloseWriter(c) ==
  /\ reader[c] = "done"
  /\ writer[c] # "done"
  /\ writer' = [writer EXCEPT ![c] = "done"]
  /\ link' = [link EXCEPT ![c] = "gone"]
  /\ toDevice' = [toDevice EXCEPT ![c] = {}]
  /\ fromDevice' = [fromDevice EXCEPT ![c] = <<>>]
  /\ UNCHANGED <<callerVars, incoming, deliveries, ready, reader>>

-----------------------------------------------------------------------------
(* The processes of the vacuum's firmware (external).                      *)

Emit(c, item) ==
  /\ link[c] = "up"
  /\ fromDevice' = [fromDevice EXCEPT ![c] = Append(@, item)]
  /\ UNCHANGED <<callerVars, incoming, deliveries, link, ready, reader, writer>>

SayHello(c) ==
  /\ c \in HelloConns
  /\ Hello \notin Range(fromDevice[c])
  /\ Emit(c, Hello)
  /\ UNCHANGED toDevice

Answer(c, m) ==
  /\ m \in toDevice[c]
  /\ Emit(c, m)
  /\ toDevice' = [toDevice EXCEPT ![c] = @ \ {m}]

Garble(c, m) ==
  /\ "garble" \in Faults
  /\ m \in toDevice[c]
  /\ Emit(c, Garbage)
  /\ toDevice' = [toDevice EXCEPT ![c] = @ \ {m}]

Hangup(c) ==
  /\ "hangup" \in Faults
  /\ link[c] = "up"
  /\ link' = [link EXCEPT ![c] = "gone"]
  /\ toDevice' = [toDevice EXCEPT ![c] = {}]
  /\ UNCHANGED <<callerVars, incoming, deliveries, ready, reader, writer, fromDevice>>

-----------------------------------------------------------------------------
Caller(g) ==
  \/ \E r \in Requests : Call(g, r)
  \/ \E d \in deliveries : d.ch[1] = g /\ Deliver(d)
  \/ Finish(g)

Reader(c) ==
  \/ ReadHello(c)
  \/ \E m \in Msg : ReadAnswer(c, m)
  \/ ReadGarbage(c)
  \/ ReadEnd(c)

Writer(c) ==
  \/ \E queue \in {"internal", "appproxy"} : Choose(c, queue)
  \/ \E g \in Callers : Take(c, g)
  \/ CloseWriter(c)

Device(c) ==
  \/ SayHello(c)
  \/ \E m \in toDevice[c] : Answer(c, m) \/ Garble(c, m)
  \/ Hangup(c)

Next ==
  \/ \E g \in Callers : Caller(g)
  \/ \E c \in Conns : Accept(c) \/ Reader(c) \/ Writer(c) \/ Device(c)

Spec == Init /\ [][Next]_vars

(* Runnable goroutines run, and the firmware connects, greets and answers. *)
(* A caller is not obliged to call, nor a fault to happen.                 *)
Fairness ==
  /\ \A g \in Callers :
       /\ WF_vars(\E d \in deliveries : d.ch[1] = g /\ Deliver(d))
       /\ WF_vars(Finish(g))
       /\ WF_vars(\E c \in Conns : Take(c, g))
  /\ \A c \in Conns :
       /\ WF_vars(Accept(c))
       /\ WF_vars(Reader(c))
       /\ WF_vars(\E queue \in {"internal", "appproxy"} : Choose(c, queue))
       /\ WF_vars(CloseWriter(c))
       /\ WF_vars(~ready[c] /\ SayHello(c))
       /\ WF_vars(\E m \in toDevice[c] : Answer(c, m))

FairSpec == Spec /\ Fairness

-----------------------------------------------------------------------------
(* Properties.                                                             *)

(* Every variable has its type, and an open call has a number and one of   *)
(* its caller's requests.                                                  *)
TypeOK ==
  /\ count \in [Callers -> 0..MaxCalls]
  /\ req \in [Callers -> Requests \cup {None}]
  /\ pc \in [Callers -> {"idle", "sending", "waiting", "got"}]
  /\ incoming \in [Keys -> Calls \cup {None}]
  /\ deliveries \subseteq [ch : Calls, msg : Msg]
  /\ link \in [Conns -> {"new", "up", "gone"}]
  /\ ready \in [Conns -> BOOLEAN]
  /\ reader \in [Conns -> {"off", "reading", "done"}]
  /\ writer \in [Conns -> {"off", "choosing", "internal", "appproxy", "done"}]
  /\ toDevice \in [Conns -> SUBSET Msg]
  /\ fromDevice \in [Conns -> Seq(Msg \cup {Hello, Garbage})]
  /\ \A g \in Callers : Live(g) => count[g] > 0 /\ req[g] \in Uses[g]

(* incomingQueues holds no leftovers: an entry belongs to a call that is   *)
(* still in progress and awaits that very key, although the deferred       *)
(* deletes of retrieve remove and replace entries without looking whose    *)
(* they are.                                                               *)
RegistryLive ==
  \A k \in Keys : incoming[k] # None =>
    \E g \in Callers : /\ Live(g) /\ req[g] # Post
                       /\ incoming[k] = Current(g)
                       /\ KeyOf(Mine(g)) = k

(* From before its request is handed over until it returns, a call whose   *)
(* key no other goroutine uses is registered under it: no reader can miss  *)
(* it, whatever the other callers register and delete.                     *)
ExclusiveRegistered ==
  \A g \in Callers :
    (Live(g) /\ Exclusive(Mine(g))) => incoming[KeyOf(Mine(g))] = Current(g)

(* A goroutine started to deliver an exclusively awaited answer holds the  *)
(* channel of the call that asked, and that call is blocked on it: the     *)
(* goroutine can never leak.                                               *)
ExclusiveDelivery ==
  \A d \in deliveries : Exclusive(d.msg) =>
    /\ d.ch = d.msg.call
    /\ \E g \in Callers : d.ch = Current(g) /\ pc[g] = "waiting"

(* "retrieve correct channel" (local_connection.go:193), taken for every   *)
(* answer: the channel found is that of the call that asked.  Only         *)
(* exclusive keys have it: see ExclusiveDelivery.                          *)
CorrectChannel == \A d \in deliveries : d.ch = d.msg.call

(* "outgoing channel to app proxy" (rockrobo.go:50): what is put on that   *)
(* queue reaches no internal connection, and the other way round.          *)
RightPeer ==
  \A c \in Conns : \A m \in toDevice[c] :
    QueueOf(m.req) = "internal" <=> c \in HelloConns

(* An exclusive call returns, however the other goroutines' calls, lookups *)
(* and deliveries interleave, as long as the device answers.  So does one  *)
(* that awaits nothing: LocalSetStatus, with which the cloud loop reports  *)
(* its state (local_connection.go:349), stands still until a process that  *)
(* stays silent is taken for an app proxy and takes its request.           *)
CallsReturn ==
  \A g \in Callers :
    (Live(g) /\ (Exclusive(Mine(g)) \/ req[g] = Post)) ~> pc[g] = "idle"

-----------------------------------------------------------------------------
(* The inductive invariant.                                                *)

(* m is somewhere between the writer that took it and the caller.          *)
InFlight(m) ==
  \/ \E c \in Conns : m \in toDevice[c] \/ m \in Range(fromDevice[c])
  \/ \E d \in deliveries : d.msg = m

Waiting(m) == \E g \in Callers : m = Mine(g) /\ pc[g] = "waiting"

(* A message in flight was sent by a call its caller may make; if the call *)
(* is still open the message is its request, and only a call that waits    *)
(* has an exclusively awaited message in flight.                           *)
InFlightSent ==
  \A m \in Msg : InFlight(m) =>
    /\ m.call[2] <= count[m.call[1]]
    /\ m.req \in Uses[m.call[1]]
    /\ \A g \in Callers : (Live(g) /\ m.call = Current(g)) =>
         m = Mine(g) /\ pc[g] # "sending"
    /\ Exclusive(m) => Waiting(m)

(* No message is in two places.                                            *)
OneCopy ==
  /\ \A c, e \in Conns : \A m \in toDevice[c] :
       /\ m \in toDevice[e] => c = e
       /\ m \notin Range(fromDevice[e])
  /\ \A c, e \in Conns : \A i \in DOMAIN fromDevice[c], j \in DOMAIN fromDevice[e] :
       (fromDevice[c][i] \in Msg /\ fromDevice[c][i] = fromDevice[e][j]) =>
         c = e /\ i = j
  /\ \A d \in deliveries : \A c \in Conns :
       d.msg \notin toDevice[c] /\ d.msg \notin Range(fromDevice[c])

(* A delivery goes to a channel that was made, an open call only gets      *)
(* answers with its key, and an exclusively awaited answer goes home.      *)
DeliveryKeyed ==
  \A d \in deliveries :
    /\ d.ch[2] <= count[d.ch[1]]
    /\ \A g \in Callers : (Live(g) /\ d.ch = Current(g)) =>
         KeyOf(Mine(g)) = KeyOf(d.msg)
    /\ Exclusive(d.msg) => d.ch = d.msg.call

(* The facts about the multiplexer that every step preserves together: the *)
(* map, the messages in flight and the delivery goroutines agree with the  *)
(* calls in progress.                                                      *)
IInv ==
  /\ TypeOK
  /\ RegistryLive
  /\ ExclusiveRegistered
  /\ InFlightSent
  /\ OneCopy
  /\ DeliveryKeyed

-----------------------------------------------------------------------------
(* The multiplexer implements CallReply: what the sockets hold towards the *)
(* device is asked; what they hold towards rocklet and what the delivery   *)
(* goroutines hold are the answers.                                        *)
Asked   == UNION {toDevice[c] : c \in Conns}
Answers == (UNION {Range(fromDevice[c]) \cap Msg : c \in Conns})
             \cup {d.msg : d \in deliveries}
Promise == INSTANCE CallReply WITH asked <- Asked, answers <- Answers
ImplementsCallReply == Promise!Spec
=============================================================================
