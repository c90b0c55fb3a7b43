# Verification of rocklet

rocklet is a daemon on a robot vacuum. It takes the place of the vendor's cloud
client: it speaks JSON to the firmware's processes on a local TCP port, keeps a
UDP connection to the vendor's cloud alive, watches the robot's maps, and
presents the robot to a Kubernetes cluster as a node that runs pods. This
directory holds TLA+ models of it, checked with TLC, and proofs checked with
TLAPS. Paths below are relative to the repository (`src/`).

## Inventory

| component | code | state it keeps | operations | how it meets the others |
|---|---|---|---|---|
| request multiplexer | `pkg/rockrobo/rockrobo.go` `retrieve*`, `local_connection.go` `handle`, `runLocalConnectionHandler` | `incomingQueues` (key -> channel), `outgoingQueueInternal`, `outgoingQueueAppProxy`, per connection `readyCh`, `closeCh`, the choice of queue | register, hand over, wait, deferred delete; accept, read hello, read answer, choose queue, write, close | called by device init, status loop, cloud loop, RPC handlers, pod actions |
| local device operations | `rockrobo.go` 183-303, `local_connection.go` 269-453 | `appRCSequenceNumber` (not modelled) | GetInternalInfo, GetToken, LocalDeviceID, LocalGetStatus, Wifi status, AppCommand, set status, remote control | all through the multiplexer |
| device initialisation | `local_connection.go` 475-505 | `deviceID`, `dToken`, `localDeviceReadyCh` | retry until the device told ID, token and version | cloud link and status loop wait for it |
| cloud link | `cloud.go` 220-528 | `cloudEndpoints`, attempts, next status, `cloudKeepAliveCh`, `cloudSessions`, the UDP socket | keep-alive loop, OTC call, receiver | device ID from init; GetInternalInfo and LocalSetStatus through the multiplexer; a "cloud" entry in `incomingQueues` |
| cloud message codec | `cloud.go` 21-220 | none | read, write, encrypt, checksum | cloud link |
| daemon life cycle | `rockrobo.go` 80-180, 305-505 | `stopCh`, `waitGroup`, listeners | listen, signal, start, wait | starts everything |
| status updates | `rockrobo.go` 380-440 | last status | poll, convert, publish | multiplexer, maps, metrics, vacuum object |
| RPC server and client UI | `rpc.go`, `cmd/ui.go` | the remote control session | start, move, end, app command | local device operations |
| pod controller | `pkg/kubernetes/pods_controller.go` | informer cache, work queue, the running action | watch, take, act, report, retry | AppCommand; API server |
| node registration | `node_status.go`, `kubernetes.go` | `registrationCompleted` | register, update status, fake pods | API server |
| vacuum object | `vacuum_status.go` | cached object | create, compare, update | API server; status updates |
| cleaning upload | `cleanings.go`, `kubernetes.go` 115-131, `rockrobo.go` 360-380 | `cleaningCh` | list, send, create | robot database; API server |
| exec server | `server.go` | none | stream a pty | - |
| navigation maps | `pkg/navmap/navmap.go` | `latestMap`, `positions` | look up files, tail the SLAM log, serve | status updates |
| robot database | `robotdb.go` | none | decode maps and paths | cleaning upload |
| metrics, flags, API types, generated client | `pkg/metrics`, `pkg/api`, `pkg/apis`, `pkg/client` | gauges | - | - |

What is hard in it, and what makes each component correct:

* **Multiplexer.** One map shared by every caller and every reader, looked up
  under a lock and used after it; entries keyed by response *names* that two
  callers may share; no timeout. Correct: no leftovers in the map; the answer of
  a call that alone uses its key reaches that call and no other; it is never
  unregistered by somebody else's deferred delete; each answer serves one call;
  a request goes to the right kind of process.
* **Cloud link.** UDP loses, repeats and delays; every wait has a timeout; the
  receiver hands answers over unbuffered channels to a loop that may have given
  up. Correct: the receiver never waits for somebody who left; the link comes
  up again and again; it ends at shutdown; nothing is decoded before the key is
  known; the endpoint in use is one of the list.
* **Remote control.** Key handlers, a ticker and the main goroutine share a flag
  that only two of the handlers lock. Correct: no moves after the end; no
  session left behind.
* **Pod controller.** An informer cache that lags, a queue that coalesces, an
  action that is abandoned but goes on. Correct: no pending pod is overlooked;
  a pod's commands run in one goroutine unless one was given up, not again after success; retries are
  bounded; the status tells the truth and is written once; every pod is
  finished.
* **Life cycle.** Signals before the start is finished, goroutines that wait for
  each other at the end.
* **Node, vacuum object, cleanings.** State cached over external changes;
  several API calls of which one fails; a bounded channel whose reader may be
  stuck.
* **Maps and database.** Two goroutines over one slice; off-by-one in the used
  area; malformed input.

`PROJECT.json` lists each hazard with its line and the properties aimed at it.

## Modules

| module | models |
|---|---|
| `DeviceCalls` | callers, requests, messages and their keys, shared by the next two |
| `CallReply` | abstract: what the multiplexer promises a caller |
| `RequestMux` | `retrieve`, the map, the connections' readers and writers, the firmware processes; shown to implement `CallReply` |
| `RequestMuxProofs` | theorems about `RequestMux` |
| `RequestMuxRefinement` | proof that `RequestMux` implements `CallReply` |
| `CloudLink` | keep-alive loop, OTC call, receiver, the network, device initialisation as far as they need it; extends `CloudCodec` |
| `CloudCodec` | operators: padding, encryption, checksum, reading and writing of a packet |
| `CloudLinkProofs` | theorems about `CloudLink` and `CloudCodec` |
| `PodJobs` | abstract: what the controller promises whoever gives this node a pod |
| `PodController` | informer, work queue, worker, action goroutines, API server; shown to implement `PodJobs` |
| `PodControllerProofs` | theorems about `PodController` |
| `RobotDatabase` | operators: what is made of the robot's database, from blocks of bytes to placed paths |
| `KubeLoop` | the kubernetes goroutine: registration, fake pod, Ready condition, cleanings and their reader; extends `RobotDatabase` |
| `KubeLoopProofs` | theorems about `KubeLoop` and `RobotDatabase` |
| `NavMap` | map lookup, SLAM watcher, `LatestPositionsMap`, the geometry of a map |
| `StatusLoop` | polling goroutine and vacuum object, composed with `NavMap` |
| `StatusLoopProofs` | theorems about `StatusLoop` and `NavMap` |
| `Lifecycle` | listen, start, signal and end; the closers, the servers and `waitGroup` |
| `LifecycleProofs` | theorems about `Lifecycle` |
| `RemoteControl` | user interface, RPC handlers and remote control operations, composed with `Lifecycle` |
| `RemoteControlProofs` | theorems about `RemoteControl` |
| `MC...` | the instances TLC checks |

Definitions marked `variant` in a comment are not part of the models: they are
plausible mistakes, and substituting one for the definition below it breaks the
property `PROJECT.json` names with it.

### RequestMux

`pc[g]` follows a goroutine through `retrieve`: `idle` -> `sending` (channel
registered, blocked on the outgoing queue) -> `waiting` (blocked on its channel)
-> `got` -> `idle` (deferred delete). `incoming` is the map; a channel is named
by the call that made it, `<<goroutine, number>>`. Handing a request to a
connection's writer (`Take`) is one step, as on an unbuffered channel; a message
that cannot be encoded or written is lost, on a dead connection or (event
`lose`) a live one. A lookup whose key has no entry, by ID or by name, ends like
the code's two lookups: nothing is delivered. The "cloud" entry is not used by
any local message. A reader's step is read, decode, lookup under the
lock and start of a delivery goroutine; `deliveries` holds those goroutines
until they meet their receiver. The second of waiting for the hello is
`TimerFires`, which without `lateHello` fires only for processes that send none.
The firmware answers each request once, drops what it likes, hangs up or sends
garbage if `Faults` says so. A request's key is an ID of its own for `Command`
(taken as unique: the code draws 63 random bits, or 31 where `int` has 32 bits,
from one generator that goroutines share without a lock, and neither collisions
nor a damaged generator are modelled), its response name
otherwise, none for fire-and-forget `Post`. `Uses` says which goroutine may make
which request; a key only one goroutine uses is *exclusive*.

Bounds: calls per goroutine (`MaxCalls` = 2: one call and the next one that can
meet the leftovers of the first), three goroutines (one that uses its key alone
beside two that share theirs), one process of each kind.

### CloudLink

`kpc` is the keep-alive loop: `connect`, `session` (top of SessionLoop), `hello`
(waiting for the keep-alive answer), `internet` (LocalSetStatus and sleep),
`info` (about to call CloudOTCInfo), `otc` (waiting for its answer),
`connected`, `idle` (15 s of forwarding). `rpc` is the receiver: `read`,
`keepalive` (blocked on `cloudKeepAliveCh`), `send` (blocked on the session's
channel), `done`, `panic`. Packets are sets, so they are reordered freely; a
consumed packet may stay (duplication) or vanish (loss). Time is abstract: a
timer fires when its answer cannot come any more; up to `MaxLate` times it fires
although the answer is on its way. `Leftover` holds packets sent to an earlier
process of the same robot, which reuses addresses and keys: they may arrive
before there is a device ID, and the receiver panics then. A packet that cannot
be decoded, or is cut at the 4096 bytes read, is handled nevertheless
(cloud.go 326-353): what the receiver makes of it, `ReadAs`, is with the event
`damage` a keep-alive answer, a message without an ID it knows, or what was sent.
Calls to the device are steps that may fail; LocalSetStatus, which blocks while
no app proxy is connected, is taken to return.

Bounds: two endpoints, two OTC IDs (one in use, one left behind), a channel of 1
or 2 instead of 16 and 1 or 2 attempts instead of 5: full, not full and given up
are all reached with the small numbers. `cloud_safety` also checks a liveness
property, and has the smaller ones for it. Failures never count beyond `MaxAttempts` + 1,
so only `late` needs a bound.

### PodController

`server`, `watch` and `cache` are the API server's pods, the changes under way
to the informer, in order, and its copies. A pod has a UID and a version;
updates of a stale copy are refused, as the API server does. `queue`, `dirty`,
`delayed`, `requeues` are client-go's work queue. `wpc` follows
`processNextItem`: `sync` (before the cache is synced), `idle`, `lookup`,
`wait` (the select), `update`, `handle` (handleErr), `done`, `ended`. `actions`
logs every action goroutine: the copy it acts on, the next container, its
result, and whether it runs, wants to send on `done`, or was met. The action a
worker waits for is the last one started; one it gave up stays where it is and
goes on. `GetByKey` of the in-memory store does not fail and the handlers' key
functions do not either, so these error returns are left out. `AppCommand`
returns no error today, but the interface allows one: event `cmdErr`.

`PodJobs` knows the pods there are and which jobs have been done or refused, a
job being a pod of one UID. `ImplementsPodJobs` maps its pods to the API
server's without their versions, and its jobs to those of the actions that got
to the end or had a command refused. So a status update is a step `Settle` of
the pod it was made for or nothing, whichever copy it is made from.

Bounds: one or two pods, one or two containers, `MaxWrites` changes by others,
`MaxTimeouts`, two requeues instead of five (one in `pod_faults`): a key is
retried, dropped and forgotten with the small numbers, too.

### CloudCodec

A packet is a record of header, checksum and body; a byte is a number, and an
encrypted byte one tagged with its key, so that it is undone by that key only.
What is kept is what can go wrong: the padding of whole blocks, the number
`unpad` removes and when it refuses, the zero bytes `bytes.Trim` takes off both
ends, the 16 bits of the length, and that a packet whose length is that of a
header is not verified. Hash and cipher themselves are taken to be injective.
The packets of `CloudLink` do not say what is in them; the format is a matter of
constants, and `RoundTrip` claims it as soon as there is a packet.

Bounds: a block of 4 bytes instead of 16, a header of 3 instead of 32, a length
field of 8 values instead of 2^16, so that it wraps; two keys; every body of up
to four bytes out of three, and bodies of 5 to 13 bytes.

### KubeLoop

`pc` follows the main loop: `start` -> `loop` (the select of `Run`) -> `create`,
`compare`, `replace` (tryRegisterWithAPIServer) -> `fakeDelete`, `fakeGet`,
`fakeCreate`, `fakeStatus` (ensureFakePods) -> `nodeGet`, `nodeUpdate`
(tryUpdateNodeStatus) -> `loop`. Each API call is one step. It may fail with or
without effect (`Call`, `CallLost`), and others change nodes and pods between
any two. Nobody else makes a node of ours: that is done by this loop only, and a
second process of the machine cannot bind its sockets. `stale` says that the object read last has changed since: the server
refuses its update then. A time is modelled by what is asked of it: whether it
is that of the change of the condition, later or earlier. `reader`, `toSend`,
`cleaningCh` and `uploads` are the way of a cleaning; `uploads` logs every
uploading goroutine. `db` is what is read of the database: the code never asks
`rows.Err`, so an error amid the rows is taken for their end (`Rows`), and either
table may be cut. `kept` and `lost` remember that the last attempt to delete the
old fake pod failed and that the registered node was deleted, two things the code never
notices: `recordNodeStatusEvent` and the contents of nodes and pods are left out.

`RobotDatabase` computes what is uploaded. A map is a sequence of blocks in any
order, which may be cut; `drawMap` fills the image from the bottom row up,
`positionInMapDimensions` turns millimetres into picture coordinates, and
`AddMap` gives a map to the last record of its time or makes the list fail.

Bounds: a channel of 1 instead of 16 and two attempts instead of five, so that
both limits are met with two records; two faults among failing calls and
changes by others, so that both attempts of an update fail, or a call fails
after somebody else's change; every cut of either table (these are not counted);
maps of six cells with four points, one of them outside; two maps of one
record, two records of one time.

### StatusLoop and NavMap

`files` are the map files, written in two steps so that one may be found half
written, removed or replaced. `lookup` is the file the map loop has found and
not opened yet. `positions` is what the watcher makes of the log's lines. A line
`parseSlamLine` refuses is dereferenced, sets `panicked` and so ends the process;
an estimate too short for coordinates is not refused (navmap.go 502-532), its
position is the centre of the image (`Where`). The charger is taken to be at the
first position.
`reading` and `header` split `LatestPositionsMap` where the watcher can come in
between: a slice's header is read in two halves without the lock, so its data
and length may be of two slices, and the result a part of one or `Garbage`.
`NewMap` computes used area, picture and origin pixel by pixel.
`spc` follows the polling goroutine: `wait` (device not ready) -> `info` ->
`poll` -> `map`, `positions` -> `publish`, `get`, `create`, `update`
(tryUpdateVaccumStatus) -> `select`. `hung` is a retrieve without an answer.
`current` says that the cached copy has the version the server would accept.

Bounds: two map files and two changes of them, pictures of four by three
pixels, a log of four lines with a halt and a reset, one fault. TLC starts
either with changing files and no faults, or with one fault or change by others
and files at rest: the two meet only in the status published. A map file's time
changes whenever its content does.

### Lifecycle and RemoteControl

Each socket has a closer and a server. `pc` follows `Listen` and `Run`: one
value per socket to bind, per server to start, then `receive` (the read of the
field stopCh), `waiting`, `join`, `returned`. `field` and `closed` are apart
because the handler closes the channel and then sets the field to nil: who reads
the field later is `stuck` or, for `Run`, at `never`. A panic and an error end
the process at `panicked` and `error`. `Strand` stands for the receiver that
blocks on an abandoned call, which `CloudLink` explains.
In `RemoteControl`, `ui` follows the main goroutine of the interface and `call`
the RPC of each goroutine: those of the key handlers, which termui starts for
each key and of which a and d hold `remoteControlLock` (`LockFree`), the
ticker's and the deferred end, which do not. `Alive` keeps them going until the
process of the interface ends. Fatal in a handler, on an error or a broken
connection, ends it without the deferred function (`KeyFails`). `startAtExit` is
history: a start was under way when q was pressed, or got the lock later.
Steering, gauges and the numbers of the messages are left out.

Bounds: three key handlers at once, two that compete for the lock and another
command. TLC starts either the daemon alone, from
`Listen`, or the interface beside a daemon that runs: it may lose servers or
panic then, but gets no signal. The proofs have no such split.

## Runs

| run | shows |
|---|---|
| `mux_faults` | status and cloud loop share GetInternalInfo, init has its own key; late hellos, hangups, garbage, lost messages. Map, messages and calls agree (`IInv`); no leftovers; the exclusive caller is always registered and gets its answer; refinement of `CallReply` |
| `mux_apart` | nobody shares a key, hellos are in time: requests reach the right process, every call returns, and a command nobody awaits is taken by a silent process |
| `mux_correct_channel` | *violation*: with a shared response name, an answer is handed to the wrong caller |
| `cloud_safety` | loss, duplication, damage, leftovers, failing writes, rejects, shutdown: the receiver is never stranded, the endpoint is listed, the key stays known once the device is ready; closing the socket ends the receiver unless it holds an answer for a full channel; a packet is read as it was written and with another key not at all (`RoundTrip`) |
| `cloud_alive` | one dead and one live endpoint: up again and again |
| `cloud_late_alive` | *violation*: one OTC answer later than 5 s leaves the receiver blocked for ever and the link never comes up again (with "stop" among the events Run never ends, either) |
| `pod_faults` | everything may fail, one pod: no pending pod is overlooked, Succeeded is true, only actions given up overlap; refinement of `PodJobs` |
| `pod_calm` | two pods nobody else writes to, no timeouts, failing commands and status updates: never again after success |
| `pod_finishes` | a pod changed by others and timing out now and then is finished in the end |
| `kube` | failing calls, a foreign node, deletions by others, shutdown: our node is Ready again and again and never deleted, the time of its condition is true, the fake pod is this process's, no cleaning is lost, doubled or overtaken, the loop ends at shutdown; from databases in any order, cut anywhere, charger and each point of a cleaning's path lie on their cell's pixel |
| `status` | changing map files, a log read meanwhile, conflicts and failing calls: the newest map is shown in the end, a path is that of the log and lies on its picture, the cached object is the server's, the latest status is there again and again |
| `daemon` | failing sockets, signals at any moment, the interface beside it: `waitGroup` counts what runs, a signal makes Run return, one move at most follows the end of remote control, and quitting leaves a session behind only if a start is under way |

Behaviour of the code that the properties take as given, nearly always because
no comment, document or test promises the contrary; the comments that do are
quoted:

* A packet that comes before the device is initialised ends the process with a
  nil dereference: the keep-alive loop waits for the device (cloud.go:411), the
  receiver does not. `KeyOnceReady` is claimed from then on.
* Repeated hello answers may fill `cloudKeepAliveCh` with the receiver blocked on
  one more when the socket is closed; nobody takes it, and Run waits for ever
  (`StopEndsUnlessFull`).
* After a timeout the retry runs beside the action given up, although a comment
  says that pods with the same key are never processed in parallel
  (pods_controller.go:85). `OverlapBounded` says how far that goes.
* With q pressed before a start has returned, the interface leaves the robot in
  remote control, although a comment says "on exit disable remote control"
  (ui.go:90). `LeftOnlyByStart` says that nothing else does.
* A process whose hello is later than a second is taken for an app proxy and
  gets its queue. `RightPeer` is claimed for hellos in time.
* A lost request or answer leaves its caller waiting for ever. `CallReply` lets
  it wait; `CallsReturn` is claimed without losses.
* A status update of a pod that fails is not retried ("TODO retry update
  status"). `Finishes` is claimed without API errors.
* Fatal in a key handler ends the interface and leaves the session as it is; the
  properties speak of an interface that was quit. A connection that breaks
  leaves the session, too (`Connected` in `LeftOnlyByStart`).
* The numbers of remote control moves are handed out without a lock and are sent
  out of order when calls overlap: a move begun before a start may be told after
  it with its old number. Nothing says what they must do.
* The area of a picture ends before the last used column and row. `OnPicture`
  takes the bounds as they are.
* A map that cannot be read makes the whole list of cleanings fail, an upload
  that fails is not tried again (`Uploaded` counts both as done with), and rows
  an error keeps from being read are missing without a word.
* A change to a pod delivered between `queue.Get` and `GetByKey` is acted on,
  but its key is queued again, and until the status update is delivered the copy
  is still pending, so the commands run twice. `NoRunAfterSuccess` is claimed
  for pods nobody else writes to.
* A registered node that is deleted is not registered again (`lost` in
  `KeepsReady`), and a fake pod whose deletion failed is kept (`kept`).
* A signal that comes before `Run` and the closers have read `stopCh`, or while
  the receiver is stranded, is missed (`Missed` in `SignalEnds`).
* A line of the SLAM log that is refused, an update of the vacuum object before
  its client is made, and a status that cannot be read end the
  process; an answer that is lost leaves the polling goroutine waiting
  (`panicked` and `hung` in `MapCatchesUp` and `Converges`).
* A path read while the watcher assigns the slice may have memory behind it
  (`Garbage`); nothing is claimed of it.

## Fairness

`Spec` has none, and safety needs none. `FairSpec` of each module adds:

* *RequestMux*: weak fairness for each goroutine (Go's scheduler runs what can
  run) and for the firmware's hello and answers. Each caller's hand-over is fair
  by itself: goroutines that wait on one unbuffered channel are served first in,
  first out. Liveness is only claimed without faults, where requests and answers
  are not lost.
* *CloudLink*: weak fairness for both goroutines and for answering servers;
  strong fairness that device initialisation, retried for ever, succeeds in the
  end, and that a DNS lookup does.  A step of the loop that is too early for its
  answer is not fair: nothing forces an answer to be late.
* *PodController*: weak fairness for the worker, the actions, the watch and the
  rate limiter. Timeouts, errors and others' writes are never forced.
* *KubeLoop*: weak fairness for the main loop, the reader and the uploading
  goroutines; strong fairness for each ready case of the select (stop, cleaning,
  tick), among which Go chooses at random. Faults are bounded, so the API server
  comes back; none is forced.
* *StatusLoop*: weak fairness for the map loop, the polling goroutine and the
  making of the clients; strong fairness for the ticker that polls, as it is one
  case of a select. Nothing forces the watcher, the robot or others.
* *Lifecycle* and *RemoteControl*: weak fairness for Run and for each socket's
  goroutines. No signal and no key need come.

## Proofs

For all values of the constants that satisfy the modules' `ASSUME`s:

* `RequestMuxProofs`. `TypeCorrect`, then `Inductive`: `IInv`, of which `TypeOK` is a part, holds always.
  None of the properties is inductive alone. That the map has no leftovers
  (`NoLeftovers`) and that an exclusive caller stays registered
  (`StaysRegistered`) go together: a deferred delete only hurts another's entry
  if both use the key. That a delivery meets its caller
  (`DeliveryMeetsCaller`) also needs where every message is: sent by a call
  already begun, in one place only (`OneCopy`), and, if exclusive, while its
  call waits (`InFlightSent`); otherwise a second copy could be delivered after
  the call had returned. The proof has one lemma per kind of step.
* `RequestMuxRefinement`. `Refinement`: the initial states map to those of
  `CallReply` and every step to a step of a caller or a stutter, from `IInv` and
  from the fact that no two goroutines deliver the same answer
  (`DeliveredOnce`).
* `CloudLinkProofs`. `TypeCorrect` by `Typed`, which adds what the goroutines
  hold where they stand. `KeyKnown`, for every `Leftover`: nothing is sent
  before the loop has seen the device ready, so what can arrive before is left
  over, and from then on the device ID stays (`KeyInv`). `RemoteListed`: the list
  is only replaced or thinned where the loop is about to choose again, or keeps
  the endpoint in use. `NotStranded` and `Awaited` assume `MaxLate = 0`; their invariant
  `AwaitInv` says that a session a packet under way can hit belongs to the call
  in progress, that the packet being passed on has taken that session with it,
  and that the socket is empty once closed. The call then cannot time out while
  its answer is there, and no second copy finds a session. `cloud_late_alive`
  shows that the second assumption is needed. `PacketRead` is about the format
  alone, for any sizes of header, block and length field: padding is never empty
  and its last byte tells its length, so `unpad` gives the body back; encryption
  keeps the length; and since a header is shorter than the length field's range,
  a packet looks like a bare header only if the length of its body wraps
  (`LengthOfHeader`). What remains is trimmed, which takes nothing from JSON
  (`JSONArrives`). `PacketsRoundTrip` says so of the packets of `CloudLink`.
* `PodControllerProofs`. `TypeCorrect` needs that the queue is the dirty keys
  without the one being processed (`QueueInv`): otherwise Done could queue a key
  twice. `PendingSeen` then follows from the invariant that a pending version
  nothing was started for is dirty or about to be looked up (`MissInv`).
  `Truthful` needs that an action that ended well got to its last container,
  that the worker writes for the action it met (`ActionInv`), and that the log
  of actions keeps what it says (`LogGrows`). `GivenUpOnly`, for any number of
  timeouts: an action that is started is waited for, and what is not waited for
  any more was met or given up. `NotAgain` assumes `MaxTimeouts = 0`, so that all
  actions but the one waited for are over, and that nobody modifies or deletes
  pods. A pod then has two versions at most, so that the watch is one behind at
  most (`WatchInv`), a pending pod's key is in one place only (`TokenInv`), and
  what the server has under the version of a pending copy is pending
  (`VersionInv`). So when a success is written the key is nowhere but with the
  worker, whose error is none, and until the success is delivered nothing queues
  it (`SettledInv`). `JobsSettled`, that the controller implements `PodJobs`,
  has no such assumptions. Its invariant `CopyInv` says that a version stands
  for one state of one pod: what informer, watch or an action hold under the
  server's version is what the server has (`CopyOf`). So an update is accepted
  only if the pod is still the pending one the action was started for
  (`AcceptedPending`), and a new pod's UID is above all that actions know.
* `KubeLoopProofs`. `Truthful` and `OwnKept` rest on `NodeInv`: a condition
  about to be written is that of the node as it is unless the copy is stale, and
  a node about to be deleted is another machine's. `PodFresh` needs the same of
  the fake pod while it is taken care of (`PodInv`). `NoneLost`: what has been started, what is in
  the channel and what is yet to be sent are the list, in this order
  (`PassedOn`: an element taken off one sequence and added to the one before
  leaves the whole as it is); what travels are cleanings of the list (`ListInv`).
  `CleaningsPlaced`: everything at the server is of the list (`FromList`), and
  the list is right. For that, `Settled` says what the list is after n maps: the
  last record of a time has the last map of that time, drawn and placed, and the
  other records none; there is no least n that breaks it (`AllSettled`). Nor is
  there a least n for which the recursive function `Lists` is not defined
  (`ListsAre`). `CellDrawn` and `PositionDrawn` are the geometry: a cell's pixel
  is its own, and a position in millimetres lies on the pixel of its cell.
  `DatabaseAssumption` says that tables and maps are sequences and numbers
  unsigned, and `RowsTyped` that they still are where a table is cut; TLC evaluates
  the former. `TypeCorrect` adds where the loop stands
  (`PlaceInv`) and that the channel stays within `Cap` (`ChannelInv`).
* `StatusLoopProofs`. `CopyIsCurrent` from `CopyInv`: nothing is cached while
  the object is read or created, and what is about to be sent is the status
  composed. `PathIsReal` from `PathInv`: the positions are all moves of
  the lines read since the last reset, and the last one of them is where the
  robot was last; a slice whose header is being read has all moves of some moment
  before. `PathOnPicture` from `PictureInv`: every map that is the latest, is
  being put together or has been returned is one of an image of a file
  (`MapOf`), and the path returned is that of the trail in its own map; `AreaInside` and
  `PointOnPicture` are the geometry. `LogAssumption` and `ImageAssumption` say
  that positions are pairs of numbers and that images are rectangles.
* `LifecycleProofs`. `Counts` needs that each server and closer is started once
  and in order (`OrderInv`), or an `Add` could count one twice. `Joins`: when Run
  returns the counter is zero, so no counted goroutine is left, all four servers
  have ended and the RPC socket is closed (`JoinInv`).
* `RemoteControlProofs`. `Quiet` and `SessionLeft` for every daemon, with any
  signal and failure, where TLC splits the cases, and for any number of key
  handlers at once. Both need the lock: one start or end is under way at most
  (`LockInv`). `QuietInv` says that once an end has returned the flag is off and
  nobody starts, so only the move under way can come. `SessionInv` says that a
  session at the robot has the flag set or a start under way as long as the
  interface lives, and that a deferred end told in vain met a start. That quitting leaves
  no session at all is false: the deferred function may read the flag before a start sets it.

Induction is by least counterexamples: the library's induction theorems take an
operator as a parameter, which the provers cannot instantiate, but that a
nonempty set of numbers has a least one (`Least`) follows from its theorem that
`<` is well-founded, and what holds of no least number holds of none.

Only model-checked: liveness (it needs fairness and ENABLED, which the prover
does not handle: `CallsReturn`, `KeepsAlive`, `StopEndsUnlessFull`,
`Finishes`, `KeepsReady`, `LoopEnds`, `Uploaded`, `MapCatchesUp`, `Converges`,
`SignalEnds`). Every other property of the passing runs is a theorem.

## Not modelled

* The composition of device initialisation with the multiplexer: `CloudLink` and
  `StatusLoop` take it as steps that succeed in the end. `LocalSetStatus` blocks
  while no app proxy is connected, which would stop the cloud loop; `RequestMux`
  has that wait (a `Post` in `sending`: `CallsReturn`), `CloudLink` takes it for returning.
* The polling goroutine's own end at `stopCh`: it reads the field each time
  round and may find it nil; it is not counted by `waitGroup`.
* The HTTP handlers that serve map and positions, beyond `LatestPositionsMap`.
* The remote control's steering axes, gauges and sequence numbers; `recordNodeStatusEvent`.
* The random generator of message IDs, and what unsynchronised use makes of it.
* The exec server (it copies bytes between a pty and a stream), metrics (gauges
  that are set and never read), flags, API types, the generated client, TLS and
  file handling of the command line; logging and the wording of messages.
