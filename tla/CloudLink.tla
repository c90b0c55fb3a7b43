------------------------------ MODULE CloudLink -----------------------------
(***************************************************************************)
(* The connection to the vendor's cloud (pkg/rockrobo/cloud.go): the       *)
(* keep-alive goroutine (runCloudKeepAlive with CloudOTCInfo), the         *)
(* receiver goroutine (runCloudReceiver), the UDP packets between them and *)
(* the cloud, and the device initialisation both depend on                 *)
(* (runLocalDeviceInit).  The goroutines share the channel of keep-alive   *)
(* answers, the map cloudSessions and the device ID.                       *)
(*                                                                         *)
(* Time is abstract: a timer may fire when no answer can come any more,    *)
(* and up to MaxLate times although an answer is on its way.  The ID of an *)
(* OTC call is one that no packet carries (rand.Int draws 63 bits, 31      *)
(* where int is 32 bits wide); an entry of cloudSessions whose answer was  *)
(* lost is overwritten when its ID is drawn again, where the code keeps it *)
(* for ever.  What packets say matters to CloudCodec only, their format;   *)
(* here a packet that cannot be decoded is one that was damaged.           *)
(***************************************************************************)
EXTENDS CloudCodec

CONSTANTS
  Hosts,       \* addresses of cloud servers
  DNSHosts,    \* what the name ot.io.mi.com resolves to
  OTCHosts,    \* the endpoints a server lists in its OTC answer
  Dead,        \* servers that do not answer
  Ids,         \* IDs of OTC calls
  Cap,         \* capacity of cloudKeepAliveCh (16)
  MaxAttempts, \* failed attempts an endpoint survives (5)
  MaxLate,     \* bound: answers that come after their timeout
  Leftover,    \* packets under way to an earlier run of the process
  Events,      \* what may happen besides answers: a subset of AllEvents
  None         \* no server, no ID

Packet    == [kind : {"hello"}, host : Hosts, id : {None}]
               \cup [kind : {"otc"}, host : Hosts, id : Ids]
AllEvents == {"loss", "dup", "damage", "write", "info", "stop", "forward", "reject"}

ASSUME CloudAssumption ==
  /\ DNSHosts \subseteq Hosts /\ OTCHosts \subseteq Hosts /\ Dead \subseteq Hosts
  /\ Cap \in Nat \ {0} /\ MaxAttempts \in Nat /\ MaxLate \in Nat
  /\ Leftover \subseteq Packet /\ Events \subseteq AllEvents
  /\ None \notin Hosts \cup Ids

VARIABLES
  deviceID,    \* r.deviceID is set
  ready,       \* localDeviceReadyCh is closed
  kpc,         \* where the keep-alive goroutine stands
  endpoints,   \* cloudEndpoints
  remote,      \* the endpoint of the connection, or None
  failed,      \* failedAttemps
  nextStatus,  \* nextStatus: zero, in the future, or due
  queue,       \* the "cloud" entry of incomingQueues exists
  otcId,       \* the ID of the OTC call in progress
  rpc,         \* where the receiver goroutine stands
  got,         \* the packet the receiver handles
  keepAliveCh, \* the addresses in cloudKeepAliveCh
  sessions,    \* the IDs in cloudSessions
  toCloud,     \* packets to the cloud
  toRocklet,   \* packets to rocklet, on the wire or in the socket
  closed,      \* the UDP socket is closed: stopCh was
  late         \* answers that came too late

deviceVars    == <<deviceID, ready>>
keepAliveVars == <<kpc, endpoints, remote, failed, nextStatus, queue, otcId, late>>
receiverVars  == <<rpc, got>>
netVars       == <<toCloud, toRocklet, closed>>
vars          == <<deviceVars, keepAliveVars, receiverVars, netVars,
                   keepAliveCh, sessions>>

HelloTo(h)   == [kind |-> "hello", host |-> h, id |-> None]
OTCTo(h, id) == [kind |-> "otc", host |-> h, id |-> id]

Init ==
  /\ deviceID = FALSE /\ ready = FALSE
  /\ kpc = "connect" /\ endpoints = {} /\ remote = None
  /\ failed = 0 /\ nextStatus = "zero" /\ queue = FALSE /\ otcId = None
  /\ rpc = "read" /\ got = None
  /\ keepAliveCh = <<>> /\ sessions = {}
  /\ toCloud = {} /\ toRocklet = Leftover /\ closed = FALSE
  /\ late = 0

-----------------------------------------------------------------------------
(* The device initialisation: the device ID is stored at the start of each *)
(* attempt, nil when asking for it failed.                                 *)

LearnAgain ==           \* variant: the device ID is asked for for ever
  /\ rpc # "panic"
  /\ deviceID' \in BOOLEAN
  /\ UNCHANGED <<ready, keepAliveVars, receiverVars, netVars, keepAliveCh, sessions>>
LearnDeviceID ==
  /\ ~ready /\ rpc # "panic"
  /\ deviceID' \in BOOLEAN
  /\ UNCHANGED <<ready, keepAliveVars, receiverVars, netVars, keepAliveCh, sessions>>

DeviceReady ==
  /\ deviceID /\ rpc # "panic"
  /\ ready' = TRUE
  /\ UNCHANGED <<deviceID, keepAliveVars, receiverVars, netVars, keepAliveCh, sessions>>

-----------------------------------------------------------------------------
(* The keep-alive goroutine: ConnectionLoop.                               *)

(* Endpoints are looked up when none is left; one of them is tried.  When  *)
(* none is found, or the address of the one chosen is not resolved, the    *)
(* loop starts again.                                                      *)
Connect ==
  /\ kpc = "connect"
  /\ queue' = FALSE
  /\ \E found \in IF endpoints = {} THEN {{}, DNSHosts} ELSE {endpoints} :
       /\ endpoints' = found
       /\ \/ UNCHANGED <<kpc, remote, failed, nextStatus>>
          \/ remote' \in found /\ kpc' = "session" /\ failed' = 0 /\ nextStatus' = "zero"
  /\ UNCHANGED <<deviceVars, receiverVars, netVars, keepAliveCh, sessions, otcId, late>>

(* SessionLoop waits for the device, and gives an endpoint up after too    *)
(* many failures in a row.                                                 *)
AtSession       == kpc = "session" /\ ready

GiveUp ==
  /\ AtSession
  /\ failed > MaxAttempts
  /\ endpoints' = endpoints \ {remote}
  /\ kpc' = "connect"
  /\ UNCHANGED <<deviceVars, receiverVars, netVars, keepAliveCh, sessions,
                 remote, failed, nextStatus, queue, otcId, late>>

Sendable == ~closed
Fails(n) == failed' = failed + n /\ kpc' = "session"

SendHello ==
  /\ AtSession
  /\ failed <= MaxAttempts
  /\ \/ Sendable /\ toCloud' = toCloud \cup {HelloTo(remote)}
        /\ kpc' = "hello" /\ UNCHANGED failed
     \/ (closed \/ "write" \in Events) /\ Fails(1) /\ UNCHANGED toCloud
  /\ UNCHANGED <<deviceVars, receiverVars, keepAliveCh, sessions, toRocklet, closed,
                 endpoints, remote, nextStatus, queue, otcId, late>>

(* After the answer: a new connection reports its status first, one whose  *)
(* report is due reports again, another one is just kept alive.            *)
NextAfterHello ==
  CASE nextStatus = "zero"   -> "internet"
    [] nextStatus = "due"    -> "info"
    [] nextStatus = "future" -> "idle"

HelloAnswered ==
  /\ kpc = "hello"
  /\ keepAliveCh # <<>>
  /\ keepAliveCh' = Tail(keepAliveCh)
  /\ IF Head(keepAliveCh) = remote
       THEN /\ queue' = TRUE
            /\ kpc' = NextAfterHello
            /\ failed' = IF NextAfterHello = "idle" THEN 0 ELSE failed
       ELSE kpc' = "session" /\ UNCHANGED <<queue, failed>>
  /\ UNCHANGED <<deviceVars, receiverVars, netVars, sessions, endpoints, remote,
                 nextStatus, otcId, late>>

(* Something that will still become an answer to p.                        *)
Stranded == rpc = "send" /\ ~(kpc = "otc" /\ otcId = got.id)
Coming(p) ==
  \/ p.kind = "hello" /\ Contains(keepAliveCh, p.host)
  \/ ~Stranded /\ got = p
  \/ /\ ~Stranded /\ ~closed
     /\ p \in toRocklet \/ (p \in toCloud /\ p.host \notin Dead)

Timeout(p) ==
  /\ Fails(1)
  /\ IF Coming(p) THEN late < MaxLate /\ late' = late + 1 ELSE UNCHANGED late
  /\ UNCHANGED <<deviceVars, receiverVars, netVars, keepAliveCh, sessions,
                 endpoints, remote, nextStatus, queue, otcId>>

HelloTimeout == kpc = "hello" /\ Timeout(HelloTo(remote))

(* LocalSetStatus(internet_connected), then a second's sleep.              *)
ReportInternet ==
  /\ kpc = "internet"
  /\ kpc' = "info"
  /\ UNCHANGED <<deviceVars, receiverVars, netVars, keepAliveCh, sessions,
                 endpoints, remote, failed, nextStatus, queue, otcId, late>>

-----------------------------------------------------------------------------
(* CloudOTCInfo.                                                           *)

Drawable(id) ==
  /\ \A p \in toCloud \cup toRocklet : p.id # id
  /\ got # None => got.id # id

(* GetInternalInfo succeeded: register a channel under the ID and send.    *)
OTCUnregistered(id) ==  \* variant: the answer's channel is not registered
  UNCHANGED sessions
RegisterID(id) == sessions' = sessions \cup {id}

CallOTC(id) ==
  /\ kpc = "info"
  /\ Drawable(id)
  /\ RegisterID(id)
  /\ \/ Sendable /\ toCloud' = toCloud \cup {OTCTo(remote, id)}
        /\ otcId' = id /\ kpc' = "otc" /\ UNCHANGED failed
     \/ (closed \/ "write" \in Events) /\ Fails(1) /\ UNCHANGED <<toCloud, otcId>>
  /\ UNCHANGED <<deviceVars, receiverVars, keepAliveCh, toRocklet, closed,
                 endpoints, remote, nextStatus, queue, late>>

InfoFails ==
  /\ "info" \in Events
  /\ kpc = "info"
  /\ Fails(1)
  /\ UNCHANGED <<deviceVars, receiverVars, netVars, keepAliveCh, sessions,
                 endpoints, remote, nextStatus, queue, otcId, late>>

(* The receiver's send on the channel of the call meets the call.  The     *)
(* answer schedules the next report and brings new endpoints.              *)
ReplaceEndpoints ==     \* variant: the list sent replaces the one kept
  endpoints' = OTCHosts
AddEndpoints == endpoints' = endpoints \cup OTCHosts

Meet ==
  /\ kpc = "otc" /\ rpc = "send" /\ got.id = otcId
  /\ rpc' = "read" /\ got' = None
  /\ otcId' = None
  /\ UNCHANGED <<deviceVars, netVars, keepAliveCh, sessions, remote, queue, late>>

OTCAnswered ==
  /\ Meet
  /\ nextStatus' = "future"
  /\ AddEndpoints
  /\ kpc' = "connected"
  /\ UNCHANGED failed

(* The answer holds no result.                                             *)
OTCRejected ==
  /\ "reject" \in Events
  /\ Meet
  /\ Fails(1)
  /\ UNCHANGED <<nextStatus, endpoints>>

OTCTimeout == kpc = "otc" /\ Timeout(OTCTo(remote, otcId))

(* LocalSetStatus(cloud_connected).                                        *)
ReportCloud ==
  /\ kpc = "connected"
  /\ kpc' = "idle"
  /\ failed' = 0
  /\ UNCHANGED <<deviceVars, receiverVars, netVars, keepAliveCh, sessions,
                 endpoints, remote, nextStatus, queue, otcId, late>>

(* A message in the "cloud" queue is sent on; nobody waits for an answer.  *)
Forward ==
  /\ "forward" \in Events
  /\ kpc = "idle" /\ queue
  /\ \/ Sendable /\ kpc' = "session" /\ UNCHANGED failed
     \/ (closed \/ "write" \in Events) /\ Fails(1)
  /\ UNCHANGED <<deviceVars, receiverVars, netVars, keepAliveCh, sessions,
                 endpoints, remote, nextStatus, queue, otcId, late>>

(* 15 seconds without a message to forward.                                *)
Idle ==
  /\ kpc = "idle"
  /\ kpc' = "session"
  /\ UNCHANGED <<deviceVars, receiverVars, netVars, keepAliveCh, sessions,
                 endpoints, remote, failed, nextStatus, queue, otcId, late>>

StatusDue ==
  /\ nextStatus = "future"
  /\ nextStatus' = "due"
  /\ UNCHANGED <<deviceVars, receiverVars, netVars, keepAliveCh, sessions,
                 kpc, endpoints, remote, failed, queue, otcId, late>>

-----------------------------------------------------------------------------
(* The receiver goroutine.                                                 *)

(* A packet taken from the wire may stay there once more.                  *)
Consume(packets, p) == {packets \ {p}} \cup (IF "dup" \in Events THEN {packets} ELSE {})

(* What the receiver makes of packet p.  One that fails to decode (cut at  *)
(* the 4096 bytes of the buffer, wrong in size, checksum or padding) is    *)
(* only logged and handled as far as it was read: its length may still be  *)
(* that of a header, else its body is cipher text and holds no ID.         *)
ReadAs(p) == {p} \cup (IF "damage" \in Events THEN {HelloTo(p.host), None} ELSE {})

(* The header alone is a keep-alive answer; a body goes to the channel     *)
(* registered under its ID, which is unregistered, or nowhere.             *)
KeepSession(id) ==      \* variant: the entry is not deleted
  UNCHANGED sessions
EndSession(id) == sessions' = sessions \ {id}

Handle(m) ==
  IF m # None /\ m.kind = "hello"
    THEN rpc' = "keepalive" /\ got' = m /\ UNCHANGED sessions
    ELSE IF m # None /\ m.id \in sessions
           THEN rpc' = "send" /\ got' = m /\ EndSession(m.id)
           ELSE UNCHANGED <<rpc, got, sessions>>

(* Decoding needs the key of the device: without a device ID the process   *)
(* panics.                                                                 *)
Receive(p) ==
  /\ rpc = "read" /\ ~closed
  /\ p \in toRocklet
  /\ toRocklet' \in Consume(toRocklet, p)
  /\ IF deviceID THEN UNCHANGED kpc /\ \E m \in ReadAs(p) : Handle(m)
                 ELSE rpc' = "panic" /\ kpc' = "gone" /\ UNCHANGED <<got, sessions>>
  /\ UNCHANGED <<deviceVars, endpoints, remote, failed, nextStatus, queue, otcId,
                 late, keepAliveCh, toCloud, closed>>

RoomForOneMore ==       \* variant: the capacity is one larger
  Len(keepAliveCh) <= Cap
Room == Len(keepAliveCh) < Cap

PutKeepAlive ==
  /\ rpc = "keepalive"
  /\ Room
  /\ keepAliveCh' = Append(keepAliveCh, got.host)
  /\ rpc' = "read" /\ got' = None
  /\ UNCHANGED <<deviceVars, keepAliveVars, netVars, sessions>>

SeesAnyError ==         \* variant: every read error is retried
  FALSE
SeesClose == closed
ReceiverEnds ==
  /\ rpc = "read" /\ SeesClose
  /\ rpc' = "done"
  /\ UNCHANGED <<deviceVars, keepAliveVars, netVars, got, keepAliveCh, sessions>>

-----------------------------------------------------------------------------
(* The network and the cloud (external), and the signal that closes the    *)
(* socket.                                                                 *)

CloudAnswers(p) ==
  /\ p \in toCloud
  /\ p.host \notin Dead
  /\ ~closed
  /\ toCloud' \in Consume(toCloud, p)
  /\ toRocklet' = toRocklet \cup {p}
  /\ UNCHANGED <<deviceVars, keepAliveVars, receiverVars, closed, keepAliveCh, sessions>>

Lose ==
  /\ \/ "loss" \in Events /\ \E p \in toCloud : toCloud' = toCloud \ {p} /\ UNCHANGED toRocklet
     \/ "loss" \in Events /\ \E p \in toRocklet : toRocklet' = toRocklet \ {p} /\ UNCHANGED toCloud
     \/ \E p \in toCloud : p.host \in Dead /\ toCloud' = toCloud \ {p} /\ UNCHANGED toRocklet
  /\ UNCHANGED <<deviceVars, keepAliveVars, receiverVars, closed, keepAliveCh, sessions>>

Stop ==
  /\ "stop" \in Events
  /\ ~closed /\ rpc # "panic"
  /\ closed' = TRUE
  /\ toCloud' = {} /\ toRocklet' = {}
  /\ UNCHANGED <<deviceVars, keepAliveVars, receiverVars, keepAliveCh, sessions>>

-----------------------------------------------------------------------------
KeepAlive ==
  \/ Connect \/ GiveUp \/ SendHello \/ HelloAnswered \/ HelloTimeout
  \/ ReportInternet \/ (\E id \in Ids : CallOTC(id)) \/ InfoFails
  \/ OTCAnswered \/ OTCRejected \/ OTCTimeout \/ ReportCloud \/ Forward \/ Idle

Receiver ==
  \/ \E p \in Packet : Receive(p)
  \/ PutKeepAlive
  \/ ReceiverEnds

Next ==
  \/ LearnDeviceID \/ DeviceReady
  \/ KeepAlive \/ Receiver
  \/ StatusDue \/ Stop
  \/ (\E p \in toCloud : CloudAnswers(p))
  \/ Lose

Spec == Init /\ [][Next]_vars

(* Goroutines that can run do; the device comes up; DNS works now and then *)
(* and servers answer.  A timer that has run out fires.                    *)
Fairness ==
  /\ WF_vars(LearnDeviceID /\ deviceID')
  /\ SF_vars(DeviceReady)
  /\ SF_vars(Connect /\ kpc' # "connect")
  /\ WF_vars((KeepAlive /\ late' = late))
  /\ WF_vars(Receiver)
  /\ WF_vars(\E p \in toCloud : CloudAnswers(p))

FairSpec == Spec /\ Fairness

-----------------------------------------------------------------------------
(* Properties.                                                             *)

(* Every variable has its type.                                            *)
TypeOK ==
  /\ deviceID \in BOOLEAN /\ ready \in BOOLEAN
  /\ kpc \in {"connect", "session", "hello", "internet", "info", "otc",
              "connected", "idle", "gone"}
  /\ endpoints \subseteq Hosts
  /\ remote \in Hosts \cup {None}
  /\ failed \in 0..MaxAttempts + 1
  /\ nextStatus \in {"zero", "due", "future"}
  /\ queue \in BOOLEAN
  /\ otcId \in Ids \cup {None}
  /\ rpc \in {"read", "keepalive", "send", "done", "panic"}
  /\ got \in Packet \cup {None}
  /\ keepAliveCh \in Seq(Hosts) /\ Len(keepAliveCh) <= Cap
  /\ sessions \subseteq Ids
  /\ toCloud \subseteq Packet /\ toRocklet \subseteq Packet
  /\ closed \in BOOLEAN
  /\ late \in 0..MaxLate

(* As long as no OTC answer is later than its timeout, the receiver only   *)
(* blocks in ch <- msg.Body while the call of that ID is waiting for it,   *)
(* however packets are lost and duplicated.                                *)
ReceiverNotStranded == rpc = "send" => kpc = "otc" /\ otcId = got.id

(* As long as no OTC answer is late, an entry of cloudSessions whose       *)
(* answer is on its way belongs to the call in progress: entries that were *)
(* left behind by lost answers are never hit.                              *)
UnderWay == toRocklet \cup {p \in toCloud : p.host \notin Dead}
SessionsAwaited ==
  \A p \in UnderWay : p.id \in sessions =>
    kpc = "otc" /\ p = OTCTo(remote, otcId)

(* The endpoint in use stays in the list until it is given up, whatever    *)
(* lists the cloud sends; so a connection is never made to nowhere.        *)
RemoteIsEndpoint == kpc \notin {"connect", "gone"} => remote \in endpoints

(* "wait for a ready device" (cloud.go:411), which the receiver does not:  *)
(* once the device is ready its key stays known, and no packet, whoever    *)
(* sent it and whenever, makes the receiver panic any more (cloud.go:325). *)
KeyOnceReady == ready => rpc # "panic"

(* The bodies of the packets on their way are read as they were written,   *)
(* by the holder of the key only (cloud.go:54, 106).                       *)
RoundTrip == toCloud \cup toRocklet # {} => ReadAsWritten

(* "keep alive cloud connection" (rockrobo.go:345): if some endpoint       *)
(* answers, the connection is up again and again.                          *)
KeepsAlive == []<>(kpc = "idle" \/ closed)

(* "stop the run of rockrobo" (rockrobo.go:41): once the socket is closed  *)
(* the receiver, which Run waits for, ends, whatever packets were lost,    *)
(* damaged or came twice, unless it has one more answer for a full         *)
(* cloudKeepAliveCh than anybody will take (cloud.go:331).                 *)
StopEndsUnlessFull == closed ~> (rpc = "done" \/ (rpc = "keepalive" /\ ~Room))
=============================================================================
