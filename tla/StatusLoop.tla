------------------------------ MODULE StatusLoop ----------------------------
(***************************************************************************)
(* The goroutine of Run that polls the robot and keeps the vacuum object   *)
(* up to date (rockrobo.go 386-470, kubernetes/vacuum_status.go), beside   *)
(* the navigation maps it includes in the status.                          *)
(*                                                                         *)
(* The vacuum object is cached between polls.  The API server refuses an   *)
(* update of a copy that is not current; current says whether the cached   *)
(* copy has the version of the object there.  A call that fails may have   *)
(* had its effect.                                                         *)
(***************************************************************************)
EXTENDS NavMap

CONSTANTS
  Robots,      \* what the robot may report: a state code and whether it has a map
  StateHash,   \* VacuumStateHash: the names of state codes
  MaxFaults,   \* bound: failing or lost calls, and changes by others
  Events       \* what may happen: a subset of AllEvents

AllEvents == {"apiErr", "edit", "delete", "badConfig", "noStatus", "lost"}

ASSUME StatusAssumption ==
  /\ Robots \subseteq [code : Nat, map : BOOLEAN] /\ Robots # {}
  /\ DOMAIN StateHash \subseteq Nat /\ MaxFaults \in Nat /\ Events \subseteq AllEvents

VARIABLES
  robot,      \* what the robot would report
  client,     \* the API clients: kubernetes.Run makes them
  obj,        \* the status of the vacuum object at the API server
  cached,     \* that of vacuumObj
  current,    \* vacuumObj has the version the server has
  spc,        \* where the goroutine stands
  status,     \* the status composed last
  faults      \* faults so far

loopVars   == <<spc, status>>
objVars    == <<obj, cached, current>>
statusVars == <<robot, client, objVars, loopVars, faults>>
vars       == <<navVars, statusVars>>

Edited ==     \* a status somebody else wrote
  [state |-> "edited", map |-> None, path |-> <<>>, charger |-> None]

Init ==
  /\ NavInit
  /\ robot \in Robots /\ client = "none"
  /\ obj \in {None, Edited} /\ cached = None /\ current = FALSE
  /\ spc = "wait" /\ status = None
  /\ faults \in 0..MaxFaults

-----------------------------------------------------------------------------
(* The robot, kubernetes.Run and others at the API server.                 *)

Report ==
  /\ robot' \in Robots \ {robot}
  /\ UNCHANGED <<navVars, client, objVars, loopVars, faults>>

MakeClient ==
  /\ client = "none"
  /\ client' \in {"ready"} \cup (IF "badConfig" \in Events THEN {"failed"} ELSE {})
  /\ UNCHANGED <<navVars, robot, objVars, loopVars, faults>>

Fault(e) == e \in Events /\ faults < MaxFaults /\ faults' = faults + 1

Edit ==
  /\ obj # None /\ Fault("edit")
  /\ obj' = Edited /\ current' = FALSE
  /\ UNCHANGED <<navVars, robot, client, cached, loopVars>>

DeleteVacuum ==
  /\ obj # None /\ Fault("delete")
  /\ obj' = None /\ current' = FALSE
  /\ UNCHANGED <<navVars, robot, client, cached, loopVars>>

-----------------------------------------------------------------------------
(* The polling goroutine.  An answer of the robot that is lost leaves it   *)
(* waiting in retrieve for ever.                                           *)

DeviceReady ==
  /\ spc = "wait" /\ spc' = "info"
  /\ UNCHANGED <<navVars, robot, client, objVars, status, faults>>

(* The internal info is data of the status, which lacks it after an error. *)
(* The first status follows the first internal info.                       *)
AfterInfo == IF status = None THEN "poll" ELSE "select"

GetInternalInfo ==
  /\ spc = "info"
  /\ \/ spc' = AfterInfo /\ UNCHANGED faults
     \/ spc' = "hung" /\ Fault("lost")
  /\ UNCHANGED <<navVars, robot, client, objVars, status>>

Unknown == "Unknown"
State(code) == IF code \in DOMAIN StateHash THEN StateHash[code] ELSE Unknown

(* A status that cannot be read is nil and dereferenced.                   *)
LocalGetStatus ==
  /\ spc = "poll"
  /\ result' = None
  /\ UNCHANGED <<fileVars, mapVars, logVars, reading, header, robot, client, objVars>>
  /\ \/ /\ status' = [state |-> State(robot.code), map |-> None, path |-> <<>>, charger |-> None]
        /\ spc' = IF robot.map THEN "map" ELSE "publish"
        /\ UNCHANGED <<panicked, faults>>
     \/ panicked' = TRUE /\ Fault("noStatus") /\ UNCHANGED <<spc, status>>
     \/ spc' = "hung" /\ Fault("lost") /\ UNCHANGED <<status, panicked>>

LookAtMap ==
  /\ spc = "map"
  /\ \/ LatestMap /\ spc' = "positions"
     \/ latestMap = None /\ spc' = "publish" /\ UNCHANGED navVars
  /\ UNCHANGED <<robot, client, objVars, status, faults>>

TakePositions ==
  /\ spc = "positions"
  /\ \/ ReadHeader /\ UNCHANGED <<spc, status>>
     \/ /\ LatestPositions /\ spc' = "publish"
        /\ status' = [status EXCEPT !.map = result'.map, !.path = result'.path,
                                     !.charger = result'.charger]
  /\ UNCHANGED <<robot, client, objVars, faults>>

-----------------------------------------------------------------------------
(* tryUpdateVaccumStatus.                                                  *)

(* The copy at hand is cached if it has the status already; otherwise the  *)
(* new status is written into it and sent.                                 *)
CompareNever(v) ==      \* variant: a copy is taken to be up to date
  "select"
AfterCompare(v) == IF v = status THEN "select" ELSE "update"
Compare(v) == cached' = status /\ spc' = AfterCompare(v)

(* Without clients the method call on a nil interface panics.              *)
Publish ==
  /\ spc = "publish"
  /\ IF client # "ready"
       THEN panicked' = TRUE /\ UNCHANGED <<spc, cached>>
       ELSE UNCHANGED panicked /\ IF cached = None THEN spc' = "get" /\ UNCHANGED cached
                                                   ELSE Compare(cached)
  /\ UNCHANGED <<fileVars, mapVars, logVars, readVars, robot, client, obj, current,
                 status, faults>>

GetVacuum ==
  /\ spc = "get"
  /\ \/ obj # None /\ Compare(obj) /\ current' = TRUE /\ UNCHANGED faults
     \/ obj = None /\ spc' = "create" /\ UNCHANGED <<cached, current, faults>>
     \/ Fault("apiErr") /\ spc' = "select" /\ UNCHANGED <<cached, current>>
  /\ UNCHANGED <<navVars, robot, client, obj, status>>

(* An object that is there already, or an error, is left for the next poll.*)
CreateVacuum ==
  /\ spc = "create" /\ spc' = "select"
  /\ \/ obj = None /\ obj' = status /\ cached' = status /\ current' = TRUE /\ UNCHANGED faults
     \/ obj # None /\ UNCHANGED <<objVars, faults>>
     \/ /\ Fault("apiErr") /\ obj' \in {obj} \cup (IF obj = None THEN {status} ELSE {})
        /\ UNCHANGED <<cached, current>>
  /\ UNCHANGED <<navVars, robot, client, status>>

KeepCopy == UNCHANGED cached    \* variant: the copy that was refused is kept
DropCopy == cached' = None

UpdateVacuum ==
  /\ spc = "update" /\ spc' = "select"
  /\ \/ current /\ obj' = status /\ UNCHANGED <<cached, current, faults>>
     \/ ~current /\ DropCopy /\ UNCHANGED <<obj, current, faults>>
     \/ /\ Fault("apiErr") /\ DropCopy
        /\ obj' \in {obj} \cup (IF current THEN {status} ELSE {})
        /\ current' = (current /\ obj' = obj)
  /\ UNCHANGED <<navVars, robot, client, status>>

(* The goroutine reads the field stopCh each time and may find it nil: it  *)
(* need not end before the process does, which Lifecycle ends.             *)
Select ==
  /\ spc = "select"
  /\ spc' \in {"info", "poll"}
  /\ UNCHANGED <<navVars, robot, client, objVars, status, faults>>

-----------------------------------------------------------------------------
Nav ==
  /\ Firmware \/ MapLoop \/ Watcher
  /\ UNCHANGED statusVars
Server == ~panicked /\ (MakeClient \/ Edit \/ DeleteVacuum)
Poll   == LookAtMap \/ TakePositions \/ LocalGetStatus
Vacuum == Publish \/ GetVacuum \/ CreateVacuum \/ UpdateVacuum
Loop   == ~panicked /\ (DeviceReady \/ GetInternalInfo \/ Poll \/ Vacuum \/ Select)

Next == Nav \/ Server \/ Loop \/ (~panicked /\ Report)

Spec == Init /\ [][Next]_vars

(* The loop of maps, the polling goroutine and kubernetes.Run go on, and   *)
(* the ticker for the status fires again and again.                        *)
Fairness ==
  /\ WF_vars(MapLoop /\ UNCHANGED statusVars)
  /\ WF_vars(Loop) /\ WF_vars(~panicked /\ MakeClient)
  /\ SF_vars(~panicked /\ Select /\ spc' = "poll")

FairSpec == Spec /\ Fairness

-----------------------------------------------------------------------------
(* Properties.                                                             *)

(* Every variable has its type; faults and changes stay within bounds.     *)
TypeOK ==
  /\ robot \in Robots /\ client \in {"none", "ready", "failed"}
  /\ spc \in {"wait", "info", "poll", "hung", "map", "positions", "publish", "get", "create",
              "update", "select"}
  /\ {current, panicked} \subseteq BOOLEAN
  /\ faults \in 0..MaxFaults /\ changes \in 0..MaxChanges

(* The cached object while the goroutine is at work.                       *)
CopyInv ==
  /\ spc \in {"get", "create"} => cached = None
  /\ spc = "update" => cached = status

(* Between two polls, the cached object is the one the server has as long  *)
(* as nobody else writes: a failed update leaves no copy behind, which     *)
(* would be taken for written (vacuum_status.go:50-59).                    *)
CopyCurrent == cached # None /\ current /\ spc # "update" => obj = cached

(* The status of the vacuum object is again and again the one composed     *)
(* last, if that is news again and again: in spite of conflicts, deletions *)
(* and failing calls (vacuum_status.go:23, 57).  Without news, a change by *)
(* others stays.                                                           *)
Converges ==
  []<>(spc = "publish" /\ status # cached) =>
    []<>((spc = "select" /\ obj = status) \/ panicked \/ spc = "hung")
=============================================================================
