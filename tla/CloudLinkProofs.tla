--------------------------- MODULE CloudLinkProofs --------------------------
(* What CloudLink does for every set of servers and IDs, every capacity    *)
(* and number of attempts, and every combination of events.                *)
EXTENDS CloudLink, TLAPS

(* The keep-alive loop is between a connection and its next failure.       *)
Trying == kpc \in {"hello", "internet", "info", "otc", "connected", "idle"}

(* Types, and what the goroutines hold where they stand: the receiver a    *)
(* packet it handles, the loop an endpoint, the ID of its call, and        *)
(* attempts to spare.                                                      *)
Typed ==
  /\ TypeOK
  /\ rpc \in {"keepalive", "send"} => got \in Packet
  /\ kpc \in {"session"} \cup {"hello", "internet", "info", "otc", "connected", "idle"}
       => remote \in Hosts
  /\ kpc = "otc" => otcId \in Ids
  /\ Trying => failed <= MaxAttempts

LEMMA PacketFields ==
  /\ \A p \in Packet : p.host \in Hosts /\ p.id \in Ids \cup {None}
                         /\ (p.kind = "hello" => p.id = None)
  /\ \A h \in Hosts : HelloTo(h) \in Packet /\ HelloTo(h).id = None
  /\ \A h \in Hosts, id \in Ids : OTCTo(h, id) \in Packet /\ OTCTo(h, id).id = id
BY DEF Packet, HelloTo, OTCTo

LEMMA InitTyped == Init => Typed
<1> SUFFICES ASSUME Init PROVE Typed
  OBVIOUS
<1>1. keepAliveCh \in Seq(Hosts) /\ Len(keepAliveCh) <= Cap
  BY CloudAssumption DEF Init
<1>2. toRocklet \subseteq Packet
  BY CloudAssumption DEF Init
<1>3. 0 \in 0..MaxAttempts + 1 /\ 0 \in 0..MaxLate
  BY CloudAssumption
<1>4. TypeOK
  BY <1>1, <1>2, <1>3 DEF Init, TypeOK
<1>5. QED
  BY <1>4 DEF Init, Typed, Trying

(* A failure may use up the last attempt and leads back to SessionLoop.    *)
LEMMA FailsTyped ==
  ASSUME Typed, Trying, Fails(1)
  PROVE  failed' \in 0..MaxAttempts + 1 /\ kpc' = "session"
BY CloudAssumption DEF Typed, TypeOK, Trying, Fails

LEMMA KeepAliveTyped == Typed /\ KeepAlive => Typed'
<1> SUFFICES ASSUME Typed, KeepAlive PROVE Typed'
  OBVIOUS
<1> USE CloudAssumption DEF Typed, TypeOK, Trying, deviceVars, keepAliveVars,
                            receiverVars, netVars, AtSession
<1>1. CASE Connect
  <2>1. PICK found \in SUBSET Hosts :
          /\ endpoints' = found
          /\ \/ UNCHANGED <<kpc, remote, failed, nextStatus>>
             \/ remote' \in found /\ kpc' = "session" /\ failed' = 0 /\ nextStatus' = "zero"
    BY <1>1 DEF Connect
  <2>2. /\ kpc = "connect" /\ queue' = FALSE
        /\ UNCHANGED <<deviceVars, receiverVars, netVars, keepAliveCh, sessions, otcId, late>>
    BY <1>1 DEF Connect
  <2>3. remote' \in Hosts \cup {None} /\ (kpc' = "session" => remote' \in Hosts)
    BY <2>1, <2>2
  <2>4. failed' \in 0..MaxAttempts + 1 /\ kpc' \in {"connect", "session"}
    BY <2>1, <2>2
  <2>5. nextStatus' \in {"zero", "due", "future"} /\ endpoints' \subseteq Hosts
    BY <2>1
  <2>6. QED
    BY <2>2, <2>3, <2>4, <2>5
<1>2. CASE GiveUp
  BY <1>2 DEF GiveUp
<1>3. CASE SendHello
  BY <1>3, PacketFields DEF SendHello, Fails
<1>4. CASE HelloAnswered
  <2>1. keepAliveCh' \in Seq(Hosts) /\ Len(keepAliveCh') <= Cap
    BY <1>4 DEF HelloAnswered
  <2>2. NextAfterHello \in {"internet", "info", "idle"}
    BY DEF NextAfterHello
  <2>3. failed' \in 0..MaxAttempts + 1 /\ failed' <= MaxAttempts
    BY <1>4 DEF HelloAnswered
  <2>4. kpc' \in {"session", "internet", "info", "idle"} /\ queue' \in BOOLEAN
    BY <1>4, <2>2 DEF HelloAnswered
  <2>5. QED
    BY <1>4, <2>1, <2>3, <2>4 DEF HelloAnswered
<1>5. CASE HelloTimeout
  BY <1>5, FailsTyped DEF HelloTimeout, Timeout
<1>6. CASE ReportInternet
  BY <1>6 DEF ReportInternet
<1>7. ASSUME NEW id \in Ids, CallOTC(id) PROVE Typed'
  <2>1. Fails(1) => failed' \in 0..MaxAttempts + 1 /\ kpc' = "session"
    BY <1>7, FailsTyped DEF CallOTC
  <2>2. QED
    BY <1>7, <2>1, PacketFields DEF CallOTC, RegisterID
<1>8. CASE InfoFails
  BY <1>8, FailsTyped DEF InfoFails
<1>9. CASE OTCAnswered
  BY <1>9 DEF OTCAnswered, Meet, AddEndpoints
<1>10. CASE OTCRejected
  BY <1>10, FailsTyped DEF OTCRejected, Meet
<1>11. CASE OTCTimeout
  BY <1>11, FailsTyped DEF OTCTimeout, Timeout
<1>12. CASE ReportCloud
  BY <1>12 DEF ReportCloud
<1>13. CASE Forward
  <2>1. Fails(1) => failed' \in 0..MaxAttempts + 1 /\ kpc' = "session"
    BY <1>13, FailsTyped DEF Forward
  <2>2. QED
    BY <1>13, <2>1 DEF Forward
<1>14. CASE Idle
  BY <1>14 DEF Idle
<1>15. QED
  BY <1>1, <1>2, <1>3, <1>4, <1>5, <1>6, <1>7, <1>8, <1>9, <1>10, <1>11, <1>12,
     <1>13, <1>14 DEF KeepAlive

LEMMA ReceiverTyped == Typed /\ Receiver => Typed'
<1> SUFFICES ASSUME Typed, Receiver PROVE Typed'
  OBVIOUS
<1> USE CloudAssumption DEF Typed, TypeOK, Trying, deviceVars, keepAliveVars,
                            receiverVars, netVars
<1>1. ASSUME NEW p \in Packet, Receive(p) PROVE Typed'
  <2>1. toRocklet' \subseteq Packet
    BY <1>1 DEF Receive, Consume
  <2>2. CASE deviceID
    <3>1. PICK m \in ReadAs(p) : Handle(m)
      BY <1>1, <2>2 DEF Receive
    <3>2. /\ rpc' \in {"read", "keepalive", "send"} /\ sessions' \subseteq sessions
          /\ rpc' # "read" => got' \in Packet
          /\ got' \in Packet \cup {None}
      BY <1>1, <3>1, PacketFields DEF Receive, ReadAs, Handle, EndSession
    <3>3. QED
      BY <1>1, <2>1, <2>2, <3>2 DEF Receive
  <2>3. CASE ~deviceID
    BY <1>1, <2>1, <2>3 DEF Receive
  <2>4. QED
    BY <2>2, <2>3
<1>2. CASE PutKeepAlive
  <2>1. got.host \in Hosts
    BY <1>2, PacketFields DEF PutKeepAlive
  <2>2. keepAliveCh' \in Seq(Hosts) /\ Len(keepAliveCh') = Len(keepAliveCh) + 1
    BY <1>2, <2>1 DEF PutKeepAlive
  <2>3. QED
    BY <1>2, <2>2 DEF PutKeepAlive, Room
<1>3. CASE ReceiverEnds
  BY <1>3 DEF ReceiverEnds
<1>4. QED
  BY <1>1, <1>2, <1>3 DEF Receiver

LEMMA NextTyped == Typed /\ [Next]_vars => Typed'
<1> SUFFICES ASSUME Typed, [Next]_vars PROVE Typed'
  OBVIOUS
<1> USE DEF Typed, TypeOK, Trying, deviceVars, keepAliveVars, receiverVars, netVars
<1>1. CASE LearnDeviceID
  BY <1>1 DEF LearnDeviceID
<1>2. CASE DeviceReady
  BY <1>2 DEF DeviceReady
<1>3. CASE KeepAlive \/ Receiver
  BY <1>3, KeepAliveTyped, ReceiverTyped
<1>4. CASE StatusDue
  BY <1>4 DEF StatusDue
<1>5. CASE Stop
  BY <1>5 DEF Stop
<1>6. ASSUME NEW p \in toCloud, CloudAnswers(p) PROVE Typed'
  BY <1>6 DEF CloudAnswers, Consume
<1>7. CASE Lose
  BY <1>7 DEF Lose
<1>8. CASE UNCHANGED vars
  BY <1>8 DEF vars
<1>9. QED
  BY <1>1, <1>2, <1>3, <1>4, <1>5, <1>6, <1>7, <1>8 DEF Next

(* The variables of CloudLink keep their types for every value of the      *)
(* constants; in particular an endpoint is given up after MaxAttempts + 1  *)
(* failures and cloudKeepAliveCh never holds more than its capacity.       *)
THEOREM TypeCorrect == Spec => []TypeOK
<1>1. Typed => TypeOK
  BY DEF Typed
<1>2. QED
  BY <1>1, InitTyped, NextTyped, PTL DEF Spec

-----------------------------------------------------------------------------
(* Before the loop has seen the device ready only packets for an earlier   *)
(* run of the process are on the wire, and a ready device keeps its ID.    *)
KeyInv ==
  /\ ready => deviceID /\ rpc # "panic"
  /\ ~ready => /\ toCloud = {} /\ toRocklet \subseteq Leftover
               /\ kpc \in {"connect", "session", "gone"}

LEMMA KeepAliveKey == KeyInv /\ KeepAlive => KeyInv'
<1> SUFFICES ASSUME KeyInv, KeepAlive PROVE KeyInv'
  OBVIOUS
<1> USE DEF KeyInv, deviceVars, receiverVars, netVars, AtSession
<1>1. CASE Connect
  <2>1. /\ kpc = "connect" /\ kpc' \in {kpc, "session"}
        /\ UNCHANGED <<deviceVars, receiverVars, netVars>>
    BY <1>1 DEF Connect
  <2>2. QED
    BY <2>1
<1>2. CASE GiveUp \/ SendHello
  BY <1>2 DEF GiveUp, SendHello, Fails
<1>3. CASE HelloAnswered
  <2>1. kpc = "hello" /\ UNCHANGED <<deviceVars, receiverVars, netVars>>
    BY <1>3 DEF HelloAnswered
  <2>2. QED
    BY <2>1
<1>4. CASE HelloTimeout \/ OTCTimeout
  BY <1>4 DEF HelloTimeout, OTCTimeout, Timeout
<1>5. CASE ReportInternet \/ InfoFails \/ ReportCloud \/ Idle
  BY <1>5 DEF ReportInternet, InfoFails, ReportCloud, Idle
<1>6. CASE Forward
  BY <1>6 DEF Forward
<1>7. ASSUME NEW id \in Ids, CallOTC(id) PROVE KeyInv'
  BY <1>7 DEF CallOTC
<1>8. CASE OTCAnswered \/ OTCRejected
  BY <1>8 DEF OTCAnswered, OTCRejected, Meet
<1>9. QED
  BY <1>1, <1>2, <1>3, <1>4, <1>5, <1>6, <1>7, <1>8 DEF KeepAlive

LEMMA NextKey == KeyInv /\ [Next]_vars => KeyInv'
<1> SUFFICES ASSUME KeyInv, [Next]_vars PROVE KeyInv'
  OBVIOUS
<1> USE DEF KeyInv, deviceVars, keepAliveVars, receiverVars, netVars
<1>1. CASE LearnDeviceID \/ DeviceReady
  BY <1>1 DEF LearnDeviceID, DeviceReady
<1>2. CASE KeepAlive
  BY <1>2, KeepAliveKey
<1>3. ASSUME NEW p \in Packet, Receive(p) PROVE KeyInv'
  <2>1. toRocklet' \subseteq toRocklet /\ UNCHANGED <<deviceID, ready, toCloud>> /\ kpc' \in {kpc, "gone"}
    BY <1>3 DEF Receive, Consume
  <2>2. deviceID => rpc' # "panic"
    BY <1>3 DEF Receive, Handle
  <2>3. QED
    BY <2>1, <2>2
<1>4. CASE PutKeepAlive \/ ReceiverEnds
  BY <1>4 DEF PutKeepAlive, ReceiverEnds
<1>5. CASE StatusDue \/ Stop
  BY <1>5 DEF StatusDue, Stop
<1>6. ASSUME NEW p \in toCloud, CloudAnswers(p) PROVE KeyInv'
  BY <1>6 DEF CloudAnswers, Consume
<1>7. CASE Lose
  BY <1>7 DEF Lose
<1>8. CASE UNCHANGED vars
  BY <1>8 DEF vars
<1>9. QED
  BY <1>1, <1>2, <1>3, <1>4, <1>5, <1>6, <1>7, <1>8 DEF Next, Receiver

(* Whatever packets an earlier run of the process left on the wire, the    *)
(* receiver panics for want of the device's key (cloud.go:325) only before *)
(* the device is ready and this run has sent anything: a process that has  *)
(* come up does not.                                                       *)
THEOREM KeyKnown ==
  Spec => [](KeyOnceReady /\ (rpc = "panic" => toCloud = {} /\ toRocklet \subseteq Leftover))
<1>1. Init => KeyInv
  BY DEF Init, KeyInv
<1>2. KeyInv => KeyOnceReady /\ (rpc = "panic" => toCloud = {} /\ toRocklet \subseteq Leftover)
  BY DEF KeyInv, KeyOnceReady
<1>3. QED
  BY <1>1, <1>2, NextKey, PTL DEF Spec

(* A connection always has its endpoint in its list of endpoints.          *)
LEMMA NextRemote ==
  ASSUME RemoteIsEndpoint, [Next]_vars
  PROVE  RemoteIsEndpoint'
<1> USE DEF RemoteIsEndpoint, deviceVars, keepAliveVars, receiverVars, netVars
<1>1. CASE Connect
  BY <1>1 DEF Connect
<1>2. CASE GiveUp \/ SendHello
  BY <1>2 DEF GiveUp, SendHello, AtSession, Fails
<1>3. CASE HelloAnswered
  BY <1>3 DEF HelloAnswered
<1>4. CASE HelloTimeout \/ OTCTimeout
  BY <1>4 DEF HelloTimeout, OTCTimeout, Timeout
<1>5. CASE ReportInternet \/ InfoFails \/ ReportCloud \/ Idle
  BY <1>5 DEF ReportInternet, InfoFails, ReportCloud, Idle
<1>6. CASE Forward
  BY <1>6 DEF Forward
<1>7. ASSUME NEW id \in Ids, CallOTC(id) PROVE RemoteIsEndpoint'
  BY <1>7 DEF CallOTC
<1>8. CASE OTCAnswered \/ OTCRejected
  BY <1>8 DEF OTCAnswered, OTCRejected, Meet, AddEndpoints
<1>9. ASSUME NEW p \in Packet, Receive(p) PROVE RemoteIsEndpoint'
  BY <1>9 DEF Receive
<1>10. CASE PutKeepAlive \/ ReceiverEnds
  BY <1>10 DEF PutKeepAlive, ReceiverEnds
<1>11. CASE LearnDeviceID \/ DeviceReady \/ StatusDue \/ Stop
  BY <1>11 DEF LearnDeviceID, DeviceReady, StatusDue, Stop
<1>12. ASSUME NEW p \in toCloud, CloudAnswers(p) PROVE RemoteIsEndpoint'
  BY <1>12 DEF CloudAnswers
<1>13. CASE Lose
  BY <1>13 DEF Lose
<1>14. CASE UNCHANGED vars
  BY <1>14 DEF vars
<1>15. QED
  BY <1>1, <1>2, <1>3, <1>4, <1>5, <1>6, <1>7, <1>8, <1>9, <1>10, <1>11, <1>12,
     <1>13, <1>14 DEF Next, KeepAlive, Receiver

(* Whatever lists of endpoints the cloud sends, a connection is only kept  *)
(* to an endpoint in the list, and giving one up removes the one in use.   *)
THEOREM RemoteListed == Spec => []RemoteIsEndpoint
<1>1. Init => RemoteIsEndpoint
  BY DEF Init, RemoteIsEndpoint
<1>2. RemoteIsEndpoint /\ [Next]_vars => RemoteIsEndpoint'
  BY NextRemote
<1>3. QED
  BY <1>1, <1>2, PTL DEF Spec

-----------------------------------------------------------------------------
(* If no answer is late, the session of a packet under way is the one of   *)
(* the call in progress, and a packet the receiver passes on is the only   *)
(* one the call waits for: its session is gone, and it is not timed out    *)
(* while the packet is there.                                              *)
AwaitInv ==
  /\ Typed
  /\ closed => toCloud = {} /\ toRocklet = {}
  /\ rpc = "send" => kpc = "otc" /\ got = OTCTo(remote, otcId) /\ otcId \notin sessions
  /\ rpc # "panic" => SessionsAwaited
  /\ rpc = "panic" => kpc = "gone"

(* No session that is not waited for has a packet under way.               *)
LEMMA NobodyWaits ==
  ASSUME AwaitInv, rpc # "panic", kpc # "otc"
  PROVE  rpc # "send" /\ \A p \in UnderWay : p.id \notin sessions
BY DEF AwaitInv, SessionsAwaited

(* Steps that neither begin nor end a call nor put a packet under way.     *)
LEMMA StillAwaited ==
  ASSUME SessionsAwaited, UnderWay' \subseteq UnderWay, sessions' = sessions,
         kpc' = kpc, remote' = remote, otcId' = otcId
  PROVE  SessionsAwaited'
BY DEF SessionsAwaited, OTCTo

(* Steps of the loop outside a call that send nothing.                     *)
LEMMA OutsideCall ==
  ASSUME AwaitInv, Typed', rpc # "panic", kpc # "otc", kpc' # "otc",
         UNCHANGED <<receiverVars, netVars, sessions>>
  PROVE  AwaitInv'
<1> USE DEF receiverVars, netVars
<1>1. rpc' # "send" /\ \A p \in UnderWay : p.id \notin sessions
  BY NobodyWaits
<1>2. UnderWay' = UnderWay
  BY DEF UnderWay
<1>3. SessionsAwaited'
  BY <1>1, <1>2 DEF SessionsAwaited
<1>4. QED
  BY <1>1, <1>3 DEF AwaitInv

LEMMA HelloAwait ==
  ASSUME AwaitInv, Typed', rpc # "panic", SendHello
  PROVE  AwaitInv'
<1> USE DEF deviceVars, receiverVars, netVars, AtSession
<1>1. /\ kpc = "session" /\ kpc' \in {"hello", "session"}
      /\ UNCHANGED <<rpc, got, sessions, toRocklet, closed>>
      /\ remote \in Hosts
  BY DEF SendHello, Fails, AwaitInv, Typed
<1>2. rpc' # "send" /\ \A p \in UnderWay : p.id \notin sessions
  BY <1>1, NobodyWaits
<1>3. toCloud' \subseteq toCloud \cup {HelloTo(remote)} /\ (closed => toCloud' = toCloud)
  BY DEF SendHello, Sendable
<1>4. HelloTo(remote).id \notin sessions
  BY <1>1, PacketFields, CloudAssumption DEF AwaitInv, Typed, TypeOK
<1>5. UnderWay' \subseteq UnderWay \cup {HelloTo(remote)}
  BY <1>1, <1>3 DEF UnderWay
<1>6. SessionsAwaited'
  BY <1>1, <1>2, <1>4, <1>5 DEF SessionsAwaited
<1>7. QED
  BY <1>1, <1>2, <1>3, <1>6 DEF AwaitInv

(* A call's ID is one that no packet carries.                              *)
LEMMA CallAwait ==
  ASSUME AwaitInv, Typed', rpc # "panic", NEW id \in Ids, CallOTC(id)
  PROVE  AwaitInv'
<1> USE DEF deviceVars, receiverVars, netVars
<1>1. /\ kpc = "info" /\ sessions' = sessions \cup {id}
      /\ UNCHANGED <<rpc, got, toRocklet, closed, remote>>
      /\ remote \in Hosts
  BY DEF CallOTC, RegisterID, AwaitInv, Typed
<1>2. rpc' # "send" /\ \A p \in UnderWay : p.id \notin sessions
  BY <1>1, NobodyWaits
<1>3. \A p \in UnderWay : p.id \notin sessions'
  BY <1>1, <1>2 DEF CallOTC, Drawable, UnderWay
<1>4. CASE kpc' = "session" /\ toCloud' = toCloud
  <2>1. UnderWay' = UnderWay
    BY <1>1, <1>4 DEF UnderWay
  <2>2. SessionsAwaited'
    BY <1>3, <2>1 DEF SessionsAwaited
  <2>3. QED
    BY <1>1, <1>2, <1>4, <2>2 DEF AwaitInv
<1>5. CASE ~closed /\ kpc' = "otc" /\ otcId' = id /\ toCloud' = toCloud \cup {OTCTo(remote, id)}
  <2>1. UnderWay' \subseteq UnderWay \cup {OTCTo(remote', otcId')}
    BY <1>1, <1>5 DEF UnderWay
  <2>2. SessionsAwaited'
    BY <1>3, <1>5, <2>1 DEF SessionsAwaited
  <2>3. QED
    BY <1>1, <1>2, <1>5, <2>2 DEF AwaitInv
<1>6. QED
  BY <1>4, <1>5 DEF CallOTC, Sendable, Fails

(* The channel of the call is used once: its session is gone by then.      *)
LEMMA MeetAwait ==
  ASSUME AwaitInv, Typed', rpc # "panic", Meet, kpc' # "otc"
  PROVE  AwaitInv'
<1> USE DEF deviceVars, netVars
<1>1. /\ rpc = "send" /\ rpc' = "read" /\ kpc = "otc"
      /\ UNCHANGED <<toCloud, toRocklet, closed, sessions>>
      /\ otcId \notin sessions
  BY DEF Meet, AwaitInv
<1>2. UnderWay' = UnderWay
  BY <1>1 DEF UnderWay
<1>3. otcId \in Ids /\ remote \in Hosts
  BY <1>1 DEF AwaitInv, Typed
<1>4. \A p \in UnderWay : p.id \notin sessions
  BY <1>1, <1>3, PacketFields DEF AwaitInv, SessionsAwaited
<1>5. SessionsAwaited'
  BY <1>1, <1>2, <1>4 DEF SessionsAwaited
<1>6. QED
  BY <1>1, <1>5 DEF AwaitInv

(* A call times out when its answer neither comes nor is being passed on.  *)
LEMMA TimeoutAwait ==
  ASSUME MaxLate = 0, AwaitInv, Typed', rpc # "panic", OTCTimeout
  PROVE  AwaitInv'
<1> USE DEF deviceVars, receiverVars, netVars
<1> DEFINE q == OTCTo(remote, otcId)
<1>1. /\ kpc = "otc" /\ kpc' = "session" /\ ~Coming(q)
      /\ UNCHANGED <<rpc, got, toCloud, toRocklet, closed, sessions>>
  <2>1. late = 0
    BY DEF AwaitInv, Typed, TypeOK
  <2>2. QED
    BY <2>1 DEF OTCTimeout, Timeout, Fails
<1>2. q.id = otcId
  BY <1>1, PacketFields DEF AwaitInv, Typed
<1>3. ~Stranded
  BY <1>2 DEF Stranded, AwaitInv
<1>4. rpc # "send"
  BY <1>1, <1>3 DEF Coming, AwaitInv
<1>5. closed \/ q \notin UnderWay
  BY <1>1, <1>3 DEF Coming, UnderWay
<1>6. \A p \in UnderWay : p.id \notin sessions
  BY <1>5 DEF AwaitInv, SessionsAwaited, UnderWay
<1>7. UnderWay' = UnderWay
  BY <1>1 DEF UnderWay
<1>8. SessionsAwaited'
  BY <1>1, <1>6, <1>7 DEF SessionsAwaited
<1>9. QED
  BY <1>1, <1>4, <1>8 DEF AwaitInv

(* The receiver takes the session of the packet it passes on.              *)
LEMMA ReceiveAwait ==
  ASSUME AwaitInv, Typed', NEW p \in Packet, Receive(p)
  PROVE  AwaitInv'
<1> USE DEF deviceVars
<1>1. /\ rpc = "read" /\ ~closed /\ p \in toRocklet /\ toRocklet' \subseteq toRocklet
      /\ UNCHANGED <<toCloud, closed, remote, otcId>>
  BY DEF Receive, Consume
<1>2. UnderWay' \subseteq UnderWay /\ p \in UnderWay
  BY <1>1 DEF UnderWay
<1>3. CASE ~deviceID
  BY <1>1, <1>3 DEF Receive, AwaitInv
<1>4. CASE deviceID
  <2>1. PICK m \in {p, HelloTo(p.host), None} : Handle(m)
    BY <1>4 DEF Receive, ReadAs
  <2>2. CASE m # None /\ m.kind # "hello" /\ m.id \in sessions
    <3>1. m = p
      BY <2>1, <2>2, PacketFields DEF HelloTo
    <3>2. kpc = "otc" /\ p = OTCTo(remote, otcId) /\ p.id = otcId
      BY <1>1, <1>2, <2>2, <3>1, PacketFields DEF AwaitInv, SessionsAwaited, Typed
    <3>3. rpc' = "send" /\ got' = p /\ sessions' = sessions \ {p.id} /\ kpc' = kpc
      BY <1>4, <2>1, <2>2, <3>1 DEF Receive, Handle, EndSession
    <3>4. SessionsAwaited'
      BY <1>1, <1>2, <3>3 DEF SessionsAwaited, AwaitInv, OTCTo
    <3>5. QED
      BY <1>1, <3>2, <3>3, <3>4 DEF AwaitInv, OTCTo
  <2>3. CASE ~(m # None /\ m.kind # "hello" /\ m.id \in sessions)
    <3>1. rpc' \in {"keepalive", "read"} /\ sessions' = sessions /\ kpc' = kpc
      BY <1>1, <1>4, <2>1, <2>3 DEF Receive, Handle
    <3>2. SessionsAwaited'
      BY <1>1, <1>2, <3>1, StillAwaited DEF AwaitInv
    <3>3. QED
      BY <1>1, <3>1, <3>2 DEF AwaitInv
  <2>4. QED
    BY <2>2, <2>3
<1>5. QED
  BY <1>3, <1>4

LEMMA KeepAliveAwait ==
  ASSUME MaxLate = 0, AwaitInv, Typed', KeepAlive
  PROVE  AwaitInv'
<1>1. rpc # "panic"
  BY DEF AwaitInv, KeepAlive, Connect, GiveUp, AtSession, SendHello, HelloAnswered,
         HelloTimeout, ReportInternet, CallOTC, InfoFails, OTCAnswered, OTCRejected,
         Meet, OTCTimeout, ReportCloud, Forward, Idle
<1>2. CASE Connect
  <2>1. /\ kpc = "connect" /\ kpc' \in {"connect", "session"}
        /\ UNCHANGED <<receiverVars, netVars, sessions>>
    BY <1>2 DEF Connect
  <2>2. QED
    BY <1>1, <2>1, OutsideCall
<1>3. CASE GiveUp
  BY <1>1, <1>3, OutsideCall DEF GiveUp, AtSession
<1>4. CASE HelloAnswered
  <2>1. /\ kpc = "hello" /\ UNCHANGED <<receiverVars, netVars, sessions>>
        /\ kpc' = "session" \/ kpc' = NextAfterHello
    BY <1>4 DEF HelloAnswered
  <2>2. NextAfterHello # "otc"
    BY DEF NextAfterHello, AwaitInv, Typed, TypeOK
  <2>3. QED
    BY <1>1, <2>1, <2>2, OutsideCall
<1>5. CASE HelloTimeout \/ ReportInternet \/ InfoFails \/ ReportCloud \/ Forward \/ Idle
  <2>1. /\ kpc # "otc" /\ kpc' \in {"session", "info", "idle"}
        /\ UNCHANGED <<receiverVars, netVars, sessions>>
    BY <1>5 DEF HelloTimeout, Timeout, Fails, ReportInternet, InfoFails, ReportCloud,
                Forward, Idle
  <2>2. QED
    BY <1>1, <2>1, OutsideCall
<1>6. CASE SendHello
  BY <1>1, <1>6, HelloAwait
<1>7. ASSUME NEW id \in Ids, CallOTC(id) PROVE AwaitInv'
  BY <1>1, <1>7, CallAwait
<1>8. CASE OTCAnswered \/ OTCRejected
  BY <1>1, <1>8, MeetAwait DEF OTCAnswered, OTCRejected, Fails
<1>9. CASE OTCTimeout
  BY <1>1, <1>9, TimeoutAwait
<1>10. QED
  BY <1>2, <1>3, <1>4, <1>5, <1>6, <1>7, <1>8, <1>9 DEF KeepAlive

LEMMA NextAwait ==
  ASSUME MaxLate = 0, AwaitInv, [Next]_vars
  PROVE  AwaitInv'
<1> USE DEF deviceVars, keepAliveVars, receiverVars, netVars
<1>1. Typed'
  BY NextTyped DEF AwaitInv
<1>2. CASE KeepAlive
  BY <1>1, <1>2, KeepAliveAwait
<1>3. ASSUME NEW p \in Packet, Receive(p) PROVE AwaitInv'
  BY <1>1, <1>3, ReceiveAwait
<1>4. CASE LearnDeviceID \/ DeviceReady \/ StatusDue \/ PutKeepAlive \/ ReceiverEnds
  <2>1. /\ UNCHANGED <<kpc, remote, otcId, sessions, toCloud, toRocklet, closed>>
        /\ rpc' = "send" => rpc = "send" /\ got' = got
        /\ (rpc' = "panic") <=> (rpc = "panic")
    BY <1>4 DEF LearnDeviceID, DeviceReady, StatusDue, PutKeepAlive, ReceiverEnds
  <2>2. UnderWay' = UnderWay
    BY <2>1 DEF UnderWay
  <2>3. rpc' # "panic" => SessionsAwaited'
    BY <2>1, <2>2, StillAwaited DEF AwaitInv
  <2>4. QED
    BY <1>1, <2>1, <2>3 DEF AwaitInv, OTCTo
<1>5. CASE Stop \/ (\E p \in toCloud : CloudAnswers(p)) \/ Lose
  <2>1. /\ UNCHANGED <<kpc, remote, otcId, sessions, rpc, got>>
        /\ UnderWay' \subseteq UnderWay
    BY <1>5 DEF Stop, CloudAnswers, Consume, Lose, UnderWay
  <2>2. closed' => toCloud' = {} /\ toRocklet' = {}
    BY <1>5 DEF Stop, CloudAnswers, Lose, AwaitInv
  <2>3. rpc # "panic" => SessionsAwaited'
    BY <2>1, StillAwaited DEF AwaitInv
  <2>4. QED
    BY <1>1, <2>1, <2>2, <2>3 DEF AwaitInv, OTCTo
<1>6. CASE UNCHANGED vars
  <2>1. UnderWay' = UnderWay /\ UNCHANGED <<kpc, remote, otcId, sessions, rpc>>
    BY <1>6 DEF vars, UnderWay
  <2>2. rpc # "panic" => SessionsAwaited'
    BY <2>1, StillAwaited DEF AwaitInv
  <2>3. QED
    BY <1>1, <1>6, <2>2 DEF AwaitInv, OTCTo, vars
<1>7. QED
  BY <1>2, <1>3, <1>4, <1>5, <1>6 DEF Next, Receiver

LEMMA AwaitInductive ==
  ASSUME MaxLate = 0
  PROVE  Spec => []AwaitInv
<1>1. Init => AwaitInv
  BY InitTyped DEF Init, AwaitInv, SessionsAwaited
<1>2. AwaitInv /\ [Next]_vars => AwaitInv'
  BY NextAwait
<1>3. QED
  BY <1>1, <1>2, PTL DEF Spec

(* If no OTC answer comes later than its timeout, the receiver never       *)
(* blocks in ch <- msg.Body (cloud.go:349) with nobody to receive,         *)
(* whatever is lost, duplicated, rejected or left over.                    *)
THEOREM NotStranded ==
  ASSUME MaxLate = 0
  PROVE  Spec => []ReceiverNotStranded
<1>1. AwaitInv => ReceiverNotStranded
  BY PacketFields DEF AwaitInv, ReceiverNotStranded, Typed
<1>2. QED
  BY <1>1, AwaitInductive, PTL

(* The session of every packet under way is awaited, unless the process is *)
(* gone.                                                                   *)
THEOREM Awaited ==
  ASSUME MaxLate = 0
  PROVE  Spec => [](rpc # "panic" => SessionsAwaited)
<1>1. AwaitInv => (rpc # "panic" => SessionsAwaited)
  BY DEF AwaitInv
<1>2. QED
  BY <1>1, AwaitInductive, PTL

-----------------------------------------------------------------------------
(* The format of packets.                                                  *)

(* There is always padding: a body of whole blocks is padded by a block.   *)
LEMMA PaddingRange ==
  ASSUME NEW body \in Seq(Nat)
  PROVE  Padding(body) \in 1..Block
<1>1. Len(body) \in Nat /\ Block \in Nat \ {0}
  BY CodecAssumption
<1>2. Len(body) % Block \in 0..(Block - 1)
  BY <1>1
<1>3. QED
  BY <1>1, <1>2 DEF Padding

LEMMA PadBytes ==
  ASSUME NEW body \in Seq(Nat)
  PROVE  /\ pad(body) \in Seq(Nat)
         /\ Len(pad(body)) = Len(body) + Padding(body)
         /\ \A i \in 1..Len(body) : pad(body)[i] = body[i]
         /\ pad(body)[Len(pad(body))] = Padding(body)
<1> DEFINE tail == [i \in 1..Padding(body) |-> Padding(body)]
<1>1. Padding(body) \in Nat /\ Padding(body) >= 1
  BY PaddingRange, CodecAssumption
<1>2. tail \in Seq(Nat) /\ Len(tail) = Padding(body) /\ \A i \in 1..Padding(body) : tail[i] = Padding(body)
  BY <1>1
<1>3. pad(body) = body \o tail
  BY DEF pad
<1> HIDE DEF tail
<1>4. Len(body) \in Nat
  OBVIOUS
<1>5. pad(body) \in Seq(Nat) /\ Len(pad(body)) = Len(body) + Padding(body)
  <2>1. body \o tail \in Seq(Nat)
    BY <1>2
  <2>2. Len(body \o tail) = Len(body) + Len(tail)
    BY <1>2
  <2>3. QED
    BY <1>2, <1>3, <2>1, <2>2
<1>6. \A i \in 1..Len(body) : pad(body)[i] = body[i]
  BY <1>2, <1>3, <1>4
<1>7. pad(body)[Len(body) + Padding(body)] = tail[Padding(body)]
  BY <1>1, <1>2, <1>3, <1>4
<1>8. QED
  BY <1>1, <1>2, <1>5, <1>6, <1>7

(* The last byte tells how much padding there is.                          *)
LEMMA UnpadPad ==
  ASSUME NEW body \in Seq(Nat)
  PROVE  unpad(pad(body)) = [ok |-> TRUE, body |-> body]
<1>1. Padding(body) \in Nat /\ Padding(body) >= 1 /\ Len(body) \in Nat
  BY PaddingRange, CodecAssumption
<1>2. Last(pad(body)) = Padding(body)
  BY PadBytes DEF Last
<1>3. /\ ~(Last(pad(body)) > Len(pad(body)))
      /\ Len(pad(body)) - Last(pad(body)) = Len(body)
  BY <1>1, <1>2, PadBytes
<1>4. SubSeq(pad(body), 1, Len(body)) = body
  <2> DEFINE s == SubSeq(pad(body), 1, Len(body))
  <2>1. s \in Seq(Nat) /\ Len(s) = Len(body) /\ \A i \in 1..Len(body) : s[i] = pad(body)[i]
    BY <1>1, PadBytes
  <2> HIDE DEF s
  <2>2. \A i \in 1..Len(body) : s[i] = body[i]
    BY <2>1, PadBytes
  <2>3. s = body
    BY <2>1, <2>2
  <2>4. QED
    BY <2>3 DEF s
<1>5. QED
  BY <1>3, <1>4 DEF unpad

LEMMA DecryptEncrypt ==
  ASSUME NEW s \in Seq(Nat), NEW k
  PROVE  /\ Decrypt(Encrypt(s, k), k) = s
         /\ Len(Encrypt(s, k)) = Len(s)
         /\ Encrypt(s, k) \in Seq([by : {k}, byte : Nat])
<1>0. DOMAIN s = 1..Len(s) /\ Len(s) \in Nat /\ \A i \in 1..Len(s) : s[i] \in Nat
  OBVIOUS
<1>1. Encrypt(s, k) = [i \in 1..Len(s) |-> [by |-> k, byte |-> s[i]]]
  BY <1>0 DEF Encrypt
<1>2. Encrypt(s, k) \in Seq([by : {k}, byte : Nat]) /\ Len(Encrypt(s, k)) = Len(s)
  BY <1>0, <1>1
<1>3. Decrypt(Encrypt(s, k), k) = [i \in 1..Len(s) |-> s[i]]
  BY <1>0, <1>1 DEF Decrypt
<1>4. QED
  BY <1>0, <1>2, <1>3

(* Only whole multiples of the length's range look like a bare header.     *)
LEMMA LengthOfHeader ==
  ASSUME NEW n \in Nat
  PROVE  /\ HeaderSize % Word = HeaderSize
         /\ (HeaderSize + n) % Word = HeaderSize <=> n % Word = 0
<1> DEFINE r == n % Word   q == n \div Word
<1>1. Word \in Nat /\ Word > 0 /\ HeaderSize \in Nat /\ HeaderSize < Word
  BY CodecAssumption
<1>2. n = Word * q + r /\ r \in 0..(Word - 1) /\ q \in Nat
  BY <1>1
<1>3. HeaderSize % Word = HeaderSize
  BY <1>1
<1>4. CASE HeaderSize + r < Word
  <2>1. HeaderSize + n = Word * q + (HeaderSize + r)
    BY <1>1, <1>2
  <2>2. (HeaderSize + n) % Word = HeaderSize + r
    BY <1>1, <1>2, <1>4, <2>1
  <2>3. QED
    BY <1>1, <1>2, <1>3, <2>2
<1>5. CASE HeaderSize + r >= Word
  <2>1. HeaderSize + n = Word * (q + 1) + (HeaderSize + r - Word)
    BY <1>1, <1>2
  <2>2. (HeaderSize + n) % Word = HeaderSize + r - Word
    <3> DEFINE k == q + 1   c == HeaderSize + r - Word   a == HeaderSize + n
    <3>1. k \in Nat /\ c \in Nat /\ c < Word /\ a = Word * k + c /\ a \in Nat /\ Word \in Nat
      BY <1>1, <1>2, <1>5, <2>1
    <3> HIDE DEF k, c, a
    <3>2. a % Word = c
      BY <3>1
    <3>3. QED
      BY <3>2 DEF a, c
  <2>3. QED
    BY <1>1, <1>2, <1>3, <1>5, <2>2
<1>6. QED
  BY <1>1, <1>2, <1>4, <1>5

LEMMA TrimOfNothing == Trim(<<>>) = <<>>
BY DEF Trim

LEMMA WithoutBody ==
  ASSUME NEW k, NEW l
  PROVE  LET m == [device |-> 1, body |-> <<>>]
         IN Read(Write(m, k), l) = [ok |-> TRUE, device |-> 1, body |-> <<>>]
<1> DEFINE m == [device |-> 1, body |-> <<>>]   p == Write(m, k)
<1>1. p.body = <<>> /\ p.header.length = (HeaderSize + 0) % Word /\ p.header.device = 1
  BY DEF Write
<1>2. HeaderSize + 0 = HeaderSize /\ HeaderSize % Word = HeaderSize
  BY LengthOfHeader, CodecAssumption
<1>3. Sized(p) /\ p.header.length = HeaderSize
  BY <1>1, <1>2 DEF Sized
<1> HIDE DEF p
<1>4. Read(p, l) = [ok |-> TRUE, device |-> 1, body |-> <<>>]
  BY <1>1, <1>3 DEF Read
<1>5. QED
  BY <1>4 DEF p

LEMMA WithBody ==
  ASSUME NEW body \in Bodies, body # <<>>, ~Wraps(body), NEW k, NEW l
  PROVE  LET m == [device |-> 1, body |-> body]
         IN Read(Write(m, k), l) = IF k = l THEN [ok |-> TRUE, device |-> 1, body |-> Trim(body)]
                                   ELSE Fail
<1> DEFINE m == [device |-> 1, body |-> body]   p == Write(m, k)
           sealed == Encrypt(pad(body), k)
<1>1. body \in Seq(Nat)
  BY CodecAssumption
<1>2. pad(body) \in Seq(Nat) /\ Len(pad(body)) \in Nat /\ Len(pad(body)) % Word # 0
  BY <1>1, PadBytes DEF Wraps
<1>3. Len(pad(body)) > 0
  BY <1>1, PadBytes, PaddingRange, CodecAssumption
<1>4. Len(sealed) = Len(pad(body)) /\ Decrypt(sealed, k) = pad(body) /\ sealed # <<>>
  <2>1. Len(sealed) = Len(pad(body)) /\ Decrypt(sealed, k) = pad(body)
    BY <1>2, DecryptEncrypt
  <2>2. sealed # <<>>
    <3> HIDE DEF sealed
    <3>1. QED
      BY <1>3, <2>1
  <2>3. QED
    BY <2>1, <2>2
<1> HIDE DEF sealed
<1>5. /\ p.body = sealed
      /\ p.header.length = (HeaderSize + Len(sealed)) % Word
      /\ p.header.device = 1
      /\ p.checksum = Checksum(p.header, k, sealed)
  BY <1>4 DEF Write, sealed
<1> HIDE DEF p
<1>6. Sized(p) /\ p.header.length # HeaderSize
  BY <1>2, <1>4, <1>5, LengthOfHeader DEF Sized
<1>7. CASE k = l
  <2>1. Verified(p, l)
    BY <1>5, <1>7 DEF Verified
  <2>2. unpad(Decrypt(p.body, l)) = [ok |-> TRUE, body |-> body]
    BY <1>1, <1>4, <1>5, <1>7, UnpadPad
  <2>3. Read(p, l) = [ok |-> TRUE, device |-> 1, body |-> Trim(body)]
    BY <1>5, <1>6, <2>1, <2>2 DEF Read
  <2>4. QED
    BY <1>7, <2>3 DEF p
<1>8. CASE k # l
  <2>1. ~Verified(p, l)
    BY <1>5, <1>8 DEF Verified, Checksum
  <2>2. Read(p, l) = Fail
    BY <1>6, <2>1 DEF Read
  <2>3. QED
    BY <1>8, <2>2 DEF p
<1>9. QED
  BY <1>7, <1>8

(* Trimming takes nothing from a body without zero bytes at its ends.      *)
LEMMA TrimKeeps ==
  ASSUME NEW body \in Seq(Nat), body # <<>>, body[1] # 0, body[Len(body)] # 0
  PROVE  Trim(body) = body
<1> DEFINE kept == {i \in DOMAIN body : body[i] # 0}
           first == CHOOSE i \in kept : \A j \in kept : i <= j
           last == CHOOSE i \in kept : \A j \in kept : j <= i
<1>1. DOMAIN body = 1..Len(body) /\ Len(body) \in Nat /\ Len(body) >= 1
  OBVIOUS
<1>2. kept \subseteq 1..Len(body) /\ 1 \in kept /\ Len(body) \in kept
  BY <1>1
<1>3. first = 1
  <2>1. \A j \in kept : 1 <= j
    BY <1>2
  <2>2. first \in kept /\ first <= 1
    BY <1>2, <2>1
  <2>3. QED
    BY <1>2, <2>2
<1>4. last = Len(body)
  <2>1. \A j \in kept : j <= Len(body)
    BY <1>1, <1>2
  <2>2. last \in kept /\ Len(body) <= last
    BY <1>2, <2>1
  <2>3. QED
    BY <1>1, <1>2, <2>2
<1>5. Trim(body) = SubSeq(body, 1, Len(body))
  BY <1>2, <1>3, <1>4 DEF Trim
<1>6. QED
  BY <1>1, <1>5

(* A packet is read as it was written, whatever the size of a block, of    *)
(* the length and of the header, and not at all with another key.          *)
THEOREM PacketRead == ReadAsWritten
<1> SUFFICES ASSUME NEW body \in Bodies, NEW k \in Keys, NEW l \in Keys, ~Wraps(body)
             PROVE  LET m == [device |-> 1, body |-> body]
                        r == Read(Write(m, k), l)
                    IN IF k = l \/ body = <<>>
                         THEN r = [ok |-> TRUE, device |-> 1, body |-> Trim(body)]
                         ELSE r = Fail
  BY DEF ReadAsWritten
<1>1. CASE body = <<>>
  BY <1>1, WithoutBody, TrimOfNothing
<1>2. CASE body # <<>>
  BY <1>2, WithBody
<1>3. QED
  BY <1>1, <1>2

(* A body without zero bytes at its ends, as JSON is, arrives unchanged.   *)
THEOREM JSONArrives ==
  ASSUME NEW k \in Keys, NEW body \in Bodies, ~Wraps(body),
         body # <<>>, body[1] # 0, body[Len(body)] # 0
  PROVE  Read(Write([device |-> 1, body |-> body], k), k) = [ok |-> TRUE, device |-> 1, body |-> body]
<1>1. Trim(body) = body
  BY TrimKeeps, CodecAssumption
<1>2. QED
  BY <1>1, WithBody

(* Every packet on its way can be read by the holder of its key and by     *)
(* nobody else (cloud.go:54, 106).                                         *)
THEOREM PacketsRoundTrip == Spec => []RoundTrip
<1>1. RoundTrip
  BY PacketRead DEF RoundTrip
<1>2. QED
  BY <1>1, PTL
=============================================================================
