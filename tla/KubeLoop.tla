------------------------------- MODULE KubeLoop -----------------------------
(***************************************************************************)
(* The kubernetes goroutine (pkg/kubernetes/kubernetes.go, node_status.go, *)
(* cleanings.go) and the goroutine of Run that reads historic cleanings    *)
(* for it (rockrobo.go).  The main loop registers the node, keeps a fake   *)
(* pod and the node's Ready condition up to date, and starts an uploading  *)
(* goroutine for every cleaning that comes through cleaningCh.             *)
(*                                                                         *)
(* The API server refuses an update of a copy that is not current.  A call *)
(* that fails may have had its effect.  Others change nodes and pods, too; *)
(* failures and changes are bounded together by MaxFaults.                 *)
(***************************************************************************)
EXTENDS RobotDatabase, FiniteSets

CONSTANTS
  Databases,  \* what the robot's database may hold
  Cap,        \* capacity of cleaningCh (16)
  Retries,    \* attempts to update the node's status (5)
  MaxFaults,  \* bound: failing calls, and changes by others
  Events,     \* what may happen: a subset of AllEvents
  None        \* no such object

AllEvents == {"apiErr", "badConfig", "dbErr", "nodeDelete", "foreignNode", "unknown",
              "podDelete", "stop"}

ASSUME KubeAssumption ==
  /\ Cap \in Nat \ {0} /\ Retries \in Nat \ {0} /\ MaxFaults \in Nat
  /\ Events \subseteq AllEvents

VARIABLES
  node,       \* the node object at the API server
  pod,        \* the fake pod there
  created,    \* the cleanings there
  pc,         \* where the main loop stands
  registered, \* registrationCompleted
  fakeDone,   \* fakePodsCompleted
  copy,       \* the Ready condition about to be written
  stale,      \* the object read last has changed since
  tries,      \* attempts of updateNodeStatus
  kept,       \* the last attempt to delete an earlier fake pod failed
  db,         \* the rows read from the robot's database
  listing,    \* what ListCleanings makes of it
  reader,     \* where the reading goroutine stands
  toSend,     \* cleanings it has yet to send
  cleaningCh, \* the channel
  uploads,    \* the uploading goroutines
  stopped,    \* stopCh is closed
  lost,       \* the node was deleted after it had been registered
  faults      \* faults so far

serverVars  == <<node, pod, created, stale, faults, lost>>
loopVars    == <<pc, registered, fakeDone, copy, tries, kept>>
uploadVars  == <<db, listing, reader, toSend, cleaningCh, uploads>>
vars        == <<serverVars, loopVars, uploadVars, stopped>>

(* When the status of a condition last changed, seen from its timestamp:   *)
(* at that change, later or earlier.                                       *)
Condition == [status : {"True", "Unknown"}, since : {"change", "later", "earlier"}]
Node      == [ext : {"mine", "other"}, ready : Condition \cup {None}]
Pod       == [fresh : BOOLEAN, running : BOOLEAN]

(* Tables are lists of rows, and a map is a list of blocks.                *)
ASSUME DatabaseAssumption ==
  \A d \in Databases :
    /\ d.records \in Seq(ToSet(d.records)) /\ d.maps \in Seq(ToSet(d.maps))
    /\ \A j \in DOMAIN d.maps :
         LET blocks == d.maps[j].blocks
         IN blocks \in Seq(ToSet(blocks)) /\ \A i \in DOMAIN blocks : WellTyped(blocks[i])

(* An error amid the rows is taken for their end, as rows.Err is never     *)
(* asked (robotdb.go:69, 108).                                             *)
Rows(d) ==
  IF "dbErr" \in Events
    THEN {[records |-> SubSeq(d.records, 1, i), maps |-> SubSeq(d.maps, 1, j)] :
            i \in 0..Len(d.records), j \in 0..Len(d.maps)}
    ELSE {[records |-> d.records, maps |-> d.maps]}

ASSUME NoneAssumption == None \notin Condition \cup Node \cup Pod

Init ==
  /\ node \in {None, [ext |-> "other", ready |-> None],
               [ext |-> "mine", ready |-> [status |-> "Unknown", since |-> "change"]]}
  /\ pod \in {None, [fresh |-> FALSE, running |-> TRUE]}
  /\ created = {}
  /\ pc = "start" /\ registered = FALSE /\ fakeDone = FALSE
  /\ copy = None /\ stale = FALSE /\ tries = 0 /\ kept = FALSE
  /\ \E d \in Databases : db \in Rows(d)
  /\ listing = ListCleanings(db) /\ reader = "list" /\ toSend = <<>>
  /\ cleaningCh = <<>> /\ uploads = <<>>
  /\ stopped = FALSE /\ lost = FALSE /\ faults = 0

-----------------------------------------------------------------------------
(* The API server (external).                                              *)

Fault(e) == e \in Events /\ faults < MaxFaults /\ faults' = faults + 1

(* A call has its effect and the answer arrives, or it does not.           *)
Call(effect, answered, failed) ==
  \/ effect /\ answered /\ UNCHANGED faults
  \/ effect /\ failed /\ Fault("apiErr")
CallLost(unchanged, failed) == unchanged /\ failed /\ Fault("apiErr")

NodeChanged == stale' = (stale \/ pc = "nodeUpdate")

DeleteNode ==
  /\ node # None /\ Fault("nodeDelete")
  /\ node' = None /\ NodeChanged
  /\ lost' = (lost \/ registered)
  /\ UNCHANGED <<pod, created, loopVars, uploadVars, stopped>>

(* A machine of the same name registers.  A second process of this machine *)
(* does not get that far, as it cannot bind the sockets (rockrobo.go:355). *)
CreateForeignNode ==
  /\ node = None /\ Fault("foreignNode")
  /\ node' = [ext |-> "other", ready |-> None] /\ NodeChanged
  /\ UNCHANGED <<pod, created, lost, loopVars, uploadVars, stopped>>

(* The node controller has not seen an update for too long.                *)
MarkUnknown ==
  /\ node # None /\ node.ready # None /\ node.ready.status = "True" /\ Fault("unknown")
  /\ node' = [node EXCEPT !.ready = [status |-> "Unknown", since |-> "change"]]
  /\ NodeChanged
  /\ UNCHANGED <<pod, created, lost, loopVars, uploadVars, stopped>>

DeletePod ==
  /\ pod # None /\ Fault("podDelete")
  /\ pod' = None /\ stale' = (stale \/ pc = "fakeStatus")
  /\ UNCHANGED <<node, created, lost, loopVars, uploadVars, stopped>>

-----------------------------------------------------------------------------
(* kubernetes.Run: without a configuration it returns at once.             *)

Start ==
  /\ pc = "start"
  /\ pc' \in {"loop"} \cup (IF "badConfig" \in Events THEN {"failed"} ELSE {})
  /\ UNCHANGED <<serverVars, registered, fakeDone, copy, tries, kept, uploadVars, stopped>>

AfterReversed ==        \* variant: the test for the first run is the wrong way round
  IF fakeDone THEN "fakeDelete" ELSE "fakeGet"
AfterRegistration == IF fakeDone THEN "fakeGet" ELSE "fakeDelete"

(* syncNodeStatus, every 15 seconds.                                       *)
Tick ==
  /\ pc = "loop"
  /\ pc' = IF registered THEN AfterRegistration ELSE "create"
  /\ UNCHANGED <<serverVars, registered, fakeDone, copy, tries, kept, uploadVars, stopped>>

SpawnShared(c) ==       \* variant: the goroutines share the loop's variable
  uploads' = Append([i \in DOMAIN uploads |->
    IF uploads[i].state = "get" THEN [uploads[i] EXCEPT !.c = c] ELSE uploads[i]],
    [c |-> c, state |-> "get"])
Spawn(c) == uploads' = Append(uploads, [c |-> c, state |-> "get"])

TakeCleaning ==
  /\ pc = "loop" /\ cleaningCh # <<>>
  /\ Spawn(Head(cleaningCh))
  /\ cleaningCh' = Tail(cleaningCh)
  /\ UNCHANGED <<serverVars, loopVars, db, listing, reader, toSend, stopped>>

End ==
  /\ pc = "loop" /\ stopped
  /\ pc' = "ended"
  /\ UNCHANGED <<serverVars, registered, fakeDone, copy, tries, kept, uploadVars, stopped>>

-----------------------------------------------------------------------------
(* registerWithAPIServer: create the node; one that exists is ours already *)
(* or is deleted, and creating it is tried again, for ever.                *)

NewNode == [ext |-> "mine", ready |-> [status |-> "True", since |-> "change"]]

Registered == registered' = TRUE /\ pc' = AfterRegistration
AgainNever ==           \* variant: one attempt is made
  registered' = TRUE /\ pc' = AfterRegistration
Again == pc' = "create" /\ UNCHANGED registered

CreateNode ==
  /\ pc = "create"
  /\ \/ node = None /\ Call(node' = NewNode, Registered, Again)
     \/ node # None /\ UNCHANGED <<node, registered, faults>> /\ pc' = "compare"
     \/ CallLost(UNCHANGED node, Again)
  /\ UNCHANGED <<pod, created, stale, lost, fakeDone, copy, tries, kept, uploadVars, stopped>>

SameOrNot(n) ==         \* variant: the comparison is the wrong way round
  n # None /\ n.ext = "other"
Ours(n) == n # None /\ n.ext = "mine"

CompareNode ==
  /\ pc = "compare"
  /\ \/ /\ UNCHANGED faults
        /\ \/ Ours(node) /\ Registered
           \/ node = None /\ Again
           \/ node # None /\ ~Ours(node) /\ pc' = "replace" /\ UNCHANGED registered
     \/ CallLost(TRUE, Again)
  /\ UNCHANGED <<node, pod, created, stale, lost, fakeDone, copy, tries, kept, uploadVars, stopped>>

KeepNode ==             \* variant: the foreign node is not deleted
  /\ pc = "replace"
  /\ Again
  /\ UNCHANGED <<serverVars, fakeDone, copy, tries, kept, uploadVars, stopped>>
ReplaceNode ==
  /\ pc = "replace"
  /\ Call(node' = None, Again, Again) \/ CallLost(UNCHANGED node, Again)
  /\ UNCHANGED <<pod, created, stale, lost, fakeDone, copy, tries, kept, uploadVars, stopped>>

-----------------------------------------------------------------------------
(* ensureFakePods: at the first run the pod is deleted, whatever becomes   *)
(* of it, then read or created, and its status set.                        *)

Continue == pc' = "nodeGet" /\ tries' = 0

DeleteFakePod ==
  /\ pc = "fakeDelete" /\ pc' = "fakeGet"
  /\ \/ Call(pod' = None, TRUE, TRUE) /\ kept' = FALSE
     \/ CallLost(UNCHANGED pod, TRUE) /\ kept' = (kept \/ pod # None)
  /\ UNCHANGED <<node, created, stale, lost, registered, fakeDone, copy, tries, uploadVars, stopped>>

GetFakePod ==
  /\ pc = "fakeGet"
  /\ \/ fakeDone' = (fakeDone \/ pod # None) /\ UNCHANGED <<tries, faults>> /\ stale' = FALSE
        /\ pc' = IF pod = None THEN "fakeCreate" ELSE "fakeStatus"
     \/ CallLost(UNCHANGED <<fakeDone, stale>>, Continue)
  /\ UNCHANGED <<node, pod, created, lost, registered, copy, kept, uploadVars, stopped>>

CreateFakePod ==
  /\ pc = "fakeCreate"
  /\ \/ Call(pod' = [fresh |-> TRUE, running |-> FALSE],
             fakeDone' = TRUE /\ pc' = "fakeStatus" /\ stale' = FALSE /\ UNCHANGED tries,
             Continue /\ UNCHANGED <<fakeDone, stale>>)
     \/ CallLost(UNCHANGED pod, Continue /\ UNCHANGED <<fakeDone, stale>>)
  /\ UNCHANGED <<node, created, lost, registered, copy, kept, uploadVars, stopped>>

UpdateFakePod ==
  /\ pc = "fakeStatus" /\ Continue
  /\ \/ pod # None /\ ~stale /\ Call(pod' = [pod EXCEPT !.running = TRUE], TRUE, TRUE)
     \/ (pod = None \/ stale) /\ UNCHANGED <<pod, faults>>
     \/ CallLost(UNCHANGED pod, TRUE)
  /\ UNCHANGED <<node, created, stale, lost, registered, fakeDone, copy, kept, uploadVars, stopped>>

-----------------------------------------------------------------------------
(* updateNodeStatus: read, set the condition, write; again if that fails.  *)

RetryOnceMore ==        \* variant: one attempt more
  IF tries < Retries THEN pc' = "nodeGet" /\ tries' = tries + 1
                     ELSE pc' = "loop" /\ UNCHANGED tries
Retry ==
  IF tries + 1 < Retries THEN pc' = "nodeGet" /\ tries' = tries + 1
                         ELSE pc' = "loop" /\ UNCHANGED tries

(* A condition that was True keeps its time, another one gets the present. *)
ConditionNow(ready) ==  \* variant: every heartbeat sets the time
  [keep |-> FALSE, since |-> "change"]
ReadyCondition(ready) ==
  IF ready # None /\ ready.status = "True"
    THEN [keep |-> TRUE, since |-> ready.since]
    ELSE [keep |-> FALSE, since |-> "change"]

GetNode ==
  /\ pc = "nodeGet"
  /\ \/ /\ node # None /\ UNCHANGED <<faults, tries>>
        /\ copy' = ReadyCondition(node.ready) /\ stale' = FALSE
        /\ pc' = "nodeUpdate"
     \/ node = None /\ Retry /\ UNCHANGED <<copy, stale, faults>>
     \/ CallLost(UNCHANGED <<copy, stale>>, Retry)
  /\ UNCHANGED <<node, pod, created, lost, registered, fakeDone, kept, uploadVars, stopped>>

(* What the time written means for the condition the server has.           *)
Since(ready) ==
  LET true == ready # None /\ ready.status = "True"
  IN CASE copy.keep /\ true   -> copy.since
       [] copy.keep /\ ~true  -> "earlier"
       [] ~copy.keep /\ true  -> "later"
       [] ~copy.keep /\ ~true -> "change"

Accepts == node # None /\ ~stale

UpdateNode ==
  /\ pc = "nodeUpdate"
  /\ \/ /\ Accepts
        /\ Call(node' = [node EXCEPT !.ready = [status |-> "True", since |-> Since(node.ready)]],
                pc' = "loop" /\ UNCHANGED tries, Retry)
     \/ ~Accepts /\ Retry /\ UNCHANGED <<node, faults>>
     \/ CallLost(UNCHANGED node, Retry)
  /\ copy' = None
  /\ UNCHANGED <<pod, created, stale, lost, registered, fakeDone, kept, uploadVars, stopped>>

-----------------------------------------------------------------------------
(* The reading goroutine: it lists the cleanings once and sends them.      *)

ReadDatabase ==
  /\ reader = "list"
  /\ \/ /\ listing.ok
        /\ toSend' = listing.list /\ reader' = "send"
     \/ /\ ~listing.ok \/ "dbErr" \in Events
        /\ reader' = "failed" /\ UNCHANGED toSend
  /\ UNCHANGED <<serverVars, loopVars, db, listing, cleaningCh, uploads, stopped>>

SendOrDrop ==           \* variant: a full channel does not block
  cleaningCh' = IF Len(cleaningCh) < Cap THEN Append(cleaningCh, Head(toSend)) ELSE cleaningCh
SendOneLess ==          \* variant: the last place stays empty
  Len(cleaningCh) < Cap - 1 /\ cleaningCh' = Append(cleaningCh, Head(toSend))
Send == Len(cleaningCh) < Cap /\ cleaningCh' = Append(cleaningCh, Head(toSend))

SendCleaning ==
  /\ reader = "send" /\ toSend # <<>>
  /\ Send
  /\ toSend' = Tail(toSend)
  /\ UNCHANGED <<serverVars, loopVars, db, listing, reader, uploads, stopped>>

(* ensureCleaning: get it, create it if it is not there.                   *)
Upload(i, state) == uploads' = [uploads EXCEPT ![i].state = state]
Exists(c) == \E x \in created : x.name = c.name

GetCleaning(i) ==
  /\ uploads[i].state = "get"
  /\ \/ Upload(i, IF Exists(uploads[i].c) THEN "done" ELSE "create") /\ UNCHANGED faults
     \/ CallLost(TRUE, Upload(i, "failed"))
  /\ UNCHANGED <<node, pod, created, stale, lost, loopVars, db, listing, reader, toSend, cleaningCh, stopped>>

CreateCleaning(i) ==
  /\ uploads[i].state = "create"
  /\ \/ ~Exists(uploads[i].c)
        /\ Call(created' = created \cup {uploads[i].c}, Upload(i, "done"), Upload(i, "failed"))
     \/ Exists(uploads[i].c) /\ Upload(i, "failed") /\ UNCHANGED <<created, faults>>
     \/ CallLost(UNCHANGED created, Upload(i, "failed"))
  /\ UNCHANGED <<node, pod, stale, lost, loopVars, db, listing, reader, toSend, cleaningCh, stopped>>

Stop ==
  /\ "stop" \in Events /\ ~stopped
  /\ stopped' = TRUE
  /\ UNCHANGED <<serverVars, loopVars, uploadVars>>

-----------------------------------------------------------------------------
Others == DeleteNode \/ CreateForeignNode \/ MarkUnknown \/ DeletePod

Registration == CreateNode \/ CompareNode \/ ReplaceNode
FakePods     == DeleteFakePod \/ GetFakePod \/ CreateFakePod \/ UpdateFakePod
NodeStatus   == GetNode \/ UpdateNode
MainLoop     == Start \/ Tick \/ TakeCleaning \/ End \/ Registration \/ FakePods \/ NodeStatus
Reader       == ReadDatabase \/ SendCleaning
Uploader     == \E i \in DOMAIN uploads : GetCleaning(i) \/ CreateCleaning(i)

Next == Others \/ MainLoop \/ Reader \/ Uploader \/ Stop

Spec == Init /\ [][Next]_vars

(* Goroutines that can run do; select takes each ready case now and then,  *)
(* as Go chooses among them at random.                                     *)
Fairness ==
  /\ WF_vars(MainLoop) /\ WF_vars(Reader) /\ WF_vars(Uploader)
  /\ SF_vars(TakeCleaning) /\ SF_vars(End) /\ SF_vars(Tick)

FairSpec == Spec /\ Fairness

-----------------------------------------------------------------------------
(* Properties.                                                             *)

(* Every variable has its type; an update is tried Retries times at most.  *)
TypeOK ==
  /\ node \in Node \cup {None} /\ pod \in Pod \cup {None}
  /\ pc \in {"start", "failed", "loop", "ended", "create", "compare", "replace", "fakeDelete",
             "fakeGet", "fakeCreate", "fakeStatus", "nodeGet", "nodeUpdate"}
  /\ copy \in [keep : BOOLEAN, since : {"change", "later", "earlier"}] \cup {None}
  /\ tries \in 0..Retries - 1 /\ faults \in 0..MaxFaults
  /\ reader \in {"list", "send", "failed"}
  /\ Len(cleaningCh) <= Cap
  /\ \A i \in DOMAIN uploads : uploads[i].state \in {"get", "create", "done", "failed"}
  /\ {registered, fakeDone, stale, kept, stopped, lost} \subseteq BOOLEAN

(* LastTransitionTime of the Ready condition is when its status changed    *)
(* (node_status.go:295-313), though heartbeats are written in between and  *)
(* the node controller changes it while rocklet holds a copy.              *)
SinceTruthful == node # None /\ node.ready # None => node.ready.since = "change"

(* What the loop knows of the node: a condition about to be written is     *)
(* that of the node as it is, and a node about to be deleted is another's. *)
NodeInv ==
  /\ node \in Node \cup {None}
  /\ pc = "nodeUpdate" /\ node # None /\ ~stale => copy = ReadyCondition(node.ready)
  /\ pc = "replace" /\ node # None => node.ext = "other"

(* A node is deleted to make room (node_status.go:198-205) only if it is   *)
(* another machine's, whatever happened since it was read.                 *)
OwnNodeKept == [][pc = "replace" /\ pc' = "create" /\ node' # node => node.ext = "other"]_vars

(* "remove any existing pod at first run" (node_status.go:132): once the   *)
(* fake pod is taken care of, the one there is of this process, unless     *)
(* deleting the old one failed, an error the code ignores.                 *)
FakePodFresh == fakeDone /\ pod # None /\ ~kept => pod.fresh

(* The same while the fake pod is being taken care of.                     *)
PodInv ==
  /\ pod \in Pod \cup {None}
  /\ pc \in {"fakeGet", "fakeCreate", "fakeStatus"} /\ ~kept => pod = None \/ pod.fresh

(* No cleaning of the list gets lost, doubled or overtaken between the     *)
(* reader, the channel, the main loop and the uploading goroutines, and    *)
(* what is done is at the server (rockrobo.go:373, kubernetes.go:118).     *)
Started == [i \in DOMAIN uploads |-> uploads[i].c]
Accounted ==
  reader = "send" =>
    /\ Started \o cleaningCh \o toSend = listing.list
    /\ \A i \in DOMAIN uploads : uploads[i].state = "done" => Exists(uploads[i].c)

(* What travels are cleanings of the list; before it is read none does.    *)
Listed == IF listing.ok THEN ToSet(listing.list) ELSE {}
Uploading == [c : Listed, state : {"get", "create", "done", "failed"}]
ListInv ==
  /\ listing.ok => listing.list \in Seq(Listed)
  /\ reader = "send" => listing.ok
  /\ reader = "list" => toSend = <<>> /\ cleaningCh = <<>> /\ uploads = <<>>
  /\ toSend \in Seq(Listed) /\ cleaningCh \in Seq(Listed) /\ uploads \in Seq(Uploading)

(* A cleaning at the server shows robot and charger where they were: the   *)
(* charger and each point of the path lie on the pixel that shows their    *)
(* cell of its own map (robotdb.go:213, 296-304, 311), when the last map   *)
(* of the time it began, of those read, has cells and a path.  Of two      *)
(* cleanings that began at the same time the last one has the map.         *)
CellOf(b, p) == <<p.x \div Cell - b.left, p.y \div Cell - b.top>>
PixelAt(p)   == <<p.x \div Cell, -((-p.y) \div Cell) - 1>>
CellColour(b, cell) ==
  LET pos == cell[2] * b.width + cell[1]
  IN IF pos < Len(b.data) THEN Colour(b.data[pos + 1]) ELSE "unknown"

(* The position at shows the place p of the robot on a map of cells b.     *)
Shows(c, b, p, at) ==
  LET cell == CellOf(b, p)
  IN cell \in (0..b.width - 1) \X (0..b.height - 1) =>
       /\ PixelAt(at) \in DOMAIN c.map.image
       /\ c.map.image[PixelAt(at)] = CellColour(b, cell)

Pictured(c, blocks) ==
  LET b == blocks[LastOf(blocks, 2)]
      points == parsePath(blocks[LastOf(blocks, 3)])
      charger == LastOf(blocks, 1)
  IN /\ DOMAIN c.path = DOMAIN points
     /\ \A i \in DOMAIN points : Shows(c, b, points[i], c.path[i])
     /\ charger # 0 => /\ DOMAIN c.charger = {1}
                       /\ Shows(c, b, blocks[charger].at, c.charger[1])

LastMap(d, j) == \A k \in DOMAIN d.maps : k > j => d.maps[k].begin # d.maps[j].begin
OnlyRecord(d, begin) ==
  \A i, k \in DOMAIN d.records :
    d.records[i].begin = begin /\ d.records[k].begin = begin => i = k

Placed ==
  \A c \in created, j \in DOMAIN db.maps :
    LET m == db.maps[j]
    IN /\ m.begin = c.name /\ LastMap(db, j)
       /\ LastOf(m.blocks, 2) # 0 /\ LastOf(m.blocks, 3) # 0
       /\ OnlyRecord(db, c.name) \/ c.map # NoMap
       => Pictured(c, m.blocks)

(* The node is Ready with our external ID again and again, after failing   *)
(* calls, foreign nodes and deletions, unless it is deleted when it has    *)
(* been registered: registrationCompleted is never reset.                  *)
KeepsReady ==
  []<>(\/ Ours(node) /\ node.ready # None /\ node.ready.status = "True"
       \/ lost \/ stopped \/ pc = "failed")

(* Closing stopCh ends the main loop, though neither registering nor       *)
(* retrying looks at it, as long as the API server comes back.             *)
LoopEnds == stopped ~> pc \in {"ended", "failed"}

(* Every cleaning that can be listed is at the server some time or its     *)
(* upload has failed, though the channel is full while the loop registers. *)
Uploaded ==
  <>(\/ stopped \/ pc = "failed" \/ reader = "failed"
     \/ /\ reader = "send" /\ toSend = <<>> /\ cleaningCh = <<>>
        /\ \A i \in DOMAIN uploads : uploads[i].state \in {"done", "failed"})
=============================================================================
