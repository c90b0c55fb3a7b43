---------------------------- MODULE PodController ---------------------------
(***************************************************************************)
(* The pod controller (pkg/kubernetes/pods_controller.go): a pod assigned  *)
(* to this node is a list of commands for the robot, one per container.    *)
(* The informer copies pods from the API server and puts their keys on a   *)
(* rate limited work queue; one worker takes keys and lets a goroutine of  *)
(* its own run the commands of a pending pod, waits five seconds for it    *)
(* and writes the outcome to the pod's status.  A goroutine that is waited *)
(* for no longer goes on by itself.                                        *)
(*                                                                         *)
(* The API server rejects an update of a copy whose version is not the     *)
(* current one.  The queue is client-go's: a key is dirty from Add to Get, *)
(* and a key added while it is processed is queued again by Done.          *)
(***************************************************************************)
EXTENDS Naturals, Sequences, SequencesExt, FiniteSets

CONSTANTS
  Pods,        \* keys of pods
  Mirror,      \* those that carry the mirror annotation
  Containers,  \* containers of a pod
  MaxRetries,  \* requeues after which a key is dropped (5)
  MaxTimeouts, \* bound: actions that take longer than five seconds
  MaxWrites,   \* bound: writes of others to the API server
  Events,      \* what may happen besides: a subset of AllEvents
  None         \* no pod

AllEvents == {"cmdErr", "apiErr", "modify", "delete", "stop"}

ASSUME PodAssumption ==
  /\ Mirror \subseteq Pods
  /\ Containers \in Nat \ {0} /\ MaxRetries \in Nat
  /\ MaxTimeouts \in Nat /\ MaxWrites \in Nat
  /\ Events \subseteq AllEvents
  /\ None \notin Pods

VARIABLES
  server,    \* the pods at the API server
  watch,     \* changes of each pod the informer has not seen yet
  cache,     \* the informer's copies
  version,   \* the version the server gave last
  writes,    \* writes of others so far
  queue,     \* keys waiting for the worker
  dirty,     \* keys added and not yet taken
  delayed,   \* keys waiting for their rate limit
  requeues,  \* requeues[p]: NumRequeues(p)
  wpc,       \* where the worker stands
  cur,       \* the key it processes
  err,       \* the error of sendNotify, as a Boolean
  actions,   \* the goroutines started for pods, in order
  timeouts,  \* timeouts so far
  stopped    \* stopCh is closed and the queue shuts down

apiVars    == <<server, version, writes>>
queueVars  == <<queue, dirty, delayed, requeues>>
workerVars == <<wpc, cur, err>>
vars       == <<apiVars, watch, cache, queueVars, workerVars, actions, timeouts, stopped>>

Pod == [uid : Nat, ver : Nat, phase : {"Pending", "Succeeded", "Failed"}]

ASSUME NoPodAssumption ==
  /\ None \notin Pod
  /\ None \notin [uid : Nat, phase : {"Pending", "Succeeded", "Failed"}]

(* The informer starts with a list of the pods there are.                  *)
Init ==
  /\ server \in [Pods -> {None, [uid |-> 0, ver |-> 0, phase |-> "Pending"]}]
  /\ watch = [p \in Pods |-> IF server[p] = None THEN <<>> ELSE <<server[p]>>]
  /\ cache = [p \in Pods |-> None]
  /\ version = 0 /\ writes = 0
  /\ queue = <<>> /\ dirty = {} /\ delayed = {}
  /\ requeues = [p \in Pods |-> 0]
  /\ wpc = "sync" /\ cur = None /\ err = FALSE
  /\ actions = <<>>
  /\ timeouts = 0 /\ stopped = FALSE

-----------------------------------------------------------------------------
(* The API server (external).  A write produces a version of its own; the  *)
(* informer gets to know of every one, later and in order.                 *)

Write(p, pod) ==
  /\ version' = version + 1
  /\ server' = [server EXCEPT ![p] = pod]
  /\ watch' = [watch EXCEPT ![p] = Append(@, pod)]

Others(p, pod) ==
  /\ writes < MaxWrites
  /\ writes' = writes + 1
  /\ Write(p, pod)
  /\ UNCHANGED <<cache, queueVars, workerVars, actions, timeouts, stopped>>

Create(p) ==
  /\ server[p] = None
  /\ Others(p, [uid |-> version + 1, ver |-> version + 1, phase |-> "Pending"])

Modify(p) ==
  /\ "modify" \in Events
  /\ server[p] # None
  /\ Others(p, [server[p] EXCEPT !.ver = version + 1])

Delete(p) ==
  /\ "delete" \in Events
  /\ server[p] # None
  /\ Others(p, None)

-----------------------------------------------------------------------------
(* The work queue (external) and the informer's handlers.                  *)

Add(p) ==
  IF stopped \/ p \in dirty
    THEN UNCHANGED <<queue, dirty>>
    ELSE /\ dirty' = dirty \cup {p}
         /\ queue' = IF cur = p THEN queue ELSE Append(queue, p)

NotifyOnAdd(p) ==       \* variant: changes of a known pod are not queued
  IF cache[p] = None THEN Add(p) ELSE UNCHANGED <<queue, dirty>>
Notify(p) == Add(p)

Deliver(p) ==
  /\ watch[p] # <<>>
  /\ cache' = [cache EXCEPT ![p] = Head(watch[p])]
  /\ watch' = [watch EXCEPT ![p] = Tail(@)]
  /\ Notify(p)
  /\ UNCHANGED <<apiVars, delayed, requeues, workerVars, actions, timeouts, stopped>>

(* The rate limit of a key has passed.                                     *)
Requeue(p) ==
  /\ p \in delayed /\ ~stopped
  /\ delayed' = delayed \ {p}
  /\ Add(p)
  /\ UNCHANGED <<apiVars, watch, cache, requeues, workerVars, actions, timeouts, stopped>>

-----------------------------------------------------------------------------
(* The worker.                                                             *)

(* Run starts it when the informer has delivered the initial list.         *)
StartWorker ==
  /\ wpc = "sync" /\ ~stopped
  /\ \A p \in Pods : \A i \in DOMAIN watch[p] : watch[p][i] # None => watch[p][i].ver # 0
  /\ wpc' = "idle"
  /\ UNCHANGED <<apiVars, watch, cache, queueVars, cur, err, actions, timeouts, stopped>>

Get ==
  /\ wpc = "idle" /\ queue # <<>>
  /\ cur' = Head(queue)
  /\ queue' = Tail(queue)
  /\ dirty' = dirty \ {Head(queue)}
  /\ wpc' = "lookup"
  /\ UNCHANGED <<apiVars, watch, cache, delayed, requeues, err, actions, timeouts, stopped>>

(* sendNotify: a pod that is gone, mirrored or not pending needs nothing;  *)
(* for another one the action starts.                                      *)
SkippedGone(p) ==       \* variant: the phase is not looked at
  cache[p] = None \/ p \in Mirror
Skipped(p) == cache[p] = None \/ p \in Mirror \/ cache[p].phase # "Pending"

NoWait     == "handle"  \* variant: the goroutine is started and not waited for
AfterStart == "wait"

SendNotify ==
  /\ wpc = "lookup"
  /\ IF Skipped(cur)
       THEN wpc' = "handle" /\ err' = FALSE /\ UNCHANGED actions
       ELSE /\ wpc' = AfterStart
            /\ actions' = Append(actions,
                 [pod |-> cur, copy |-> cache[cur], pos |-> 1, state |-> "run", ok |-> TRUE])
            /\ UNCHANGED err
  /\ UNCHANGED <<apiVars, watch, cache, queueVars, cur, timeouts, stopped>>

(* The worker's action is the one started last.                            *)
Current == Len(actions)

(* The select of sendNotify: the action sends its result on done ...       *)
Meet ==
  /\ wpc = "wait" /\ actions[Current].state = "send"
  /\ actions' = [actions EXCEPT ![Current].state = "met"]
  /\ wpc' = "update"
  /\ UNCHANGED <<apiVars, watch, cache, queueVars, cur, err, timeouts, stopped>>

(* ... or five seconds pass.                                               *)
Timeout ==
  /\ wpc = "wait" /\ timeouts < MaxTimeouts
  /\ timeouts' = timeouts + 1
  /\ wpc' = "handle" /\ err' = TRUE
  /\ UNCHANGED <<apiVars, watch, cache, queueVars, cur, actions, stopped>>

(* updatePodStatus; a failure is only logged.                              *)
Accepted(copy) == server[cur] # None /\ server[cur].ver = copy.ver

UpdatePodStatus ==
  /\ wpc = "update"
  /\ LET a == actions[Current]
         phase == IF a.ok THEN "Succeeded" ELSE "Failed"
     IN \/ /\ Accepted(a.copy)
           /\ Write(cur, [a.copy EXCEPT !.ver = version + 1, !.phase = phase])
        \/ /\ ~Accepted(a.copy) \/ "apiErr" \in Events
           /\ UNCHANGED <<server, watch, version>>
  /\ err' = ~actions[Current].ok
  /\ wpc' = "handle"
  /\ UNCHANGED <<writes, cache, queueVars, cur, actions, timeouts, stopped>>

(* handleErr: Forget, or AddRateLimited while there are retries left.      *)
RetriableOnceMore(p) == \* variant: one retry more
  requeues[p] <= MaxRetries
NeverRetriable(p) ==    \* variant: errors are not retried
  FALSE
Retriable(p) == requeues[p] < MaxRetries

HandleErr ==
  /\ wpc = "handle"
  /\ IF err /\ Retriable(cur)
       THEN /\ requeues' = [requeues EXCEPT ![cur] = @ + 1]
            /\ delayed' = IF stopped THEN delayed ELSE delayed \cup {cur}
       ELSE /\ requeues' = [requeues EXCEPT ![cur] = 0]
            /\ UNCHANGED delayed
  /\ wpc' = "done"
  /\ UNCHANGED <<apiVars, watch, cache, queue, dirty, cur, err, actions, timeouts, stopped>>

(* The deferred queue.Done.                                                *)
Done ==
  /\ wpc = "done"
  /\ queue' = IF cur \in dirty THEN Append(queue, cur) ELSE queue
  /\ cur' = None
  /\ wpc' = "idle"
  /\ UNCHANGED <<apiVars, watch, cache, dirty, delayed, requeues, err, actions, timeouts, stopped>>

(* Get tells to quit when the queue shuts down and is drained.             *)
Quit ==
  /\ wpc \in {"sync", "idle"} /\ stopped /\ (wpc = "idle" => queue = <<>>)
  /\ wpc' = "ended"
  /\ UNCHANGED <<apiVars, watch, cache, queueVars, cur, err, actions, timeouts, stopped>>

Stop ==
  /\ "stop" \in Events /\ ~stopped
  /\ stopped' = TRUE
  /\ UNCHANGED <<apiVars, watch, cache, queueVars, workerVars, actions, timeouts>>

-----------------------------------------------------------------------------
(* An action goroutine: AppCommand for each container until one fails.     *)

ResultBreak(a, ok) ==   \* variant: an error leaves the loop, and true is sent
  IF ok THEN [a EXCEPT !.pos = @ + 1, !.state = IF a.pos = Containers THEN "send" ELSE "run"]
        ELSE [a EXCEPT !.state = "send"]
Result(a, ok) ==
  IF ok THEN [a EXCEPT !.pos = @ + 1, !.state = IF a.pos = Containers THEN "send" ELSE "run"]
        ELSE [a EXCEPT !.ok = FALSE, !.state = "send"]

AppCommand(i) ==
  /\ actions[i].state = "run"
  /\ \E ok \in {TRUE} \cup (IF "cmdErr" \in Events THEN {FALSE} ELSE {}) :
       actions' = [actions EXCEPT ![i] = Result(@, ok)]
  /\ UNCHANGED <<apiVars, watch, cache, queueVars, workerVars, timeouts, stopped>>

-----------------------------------------------------------------------------
Worker ==
  \/ StartWorker \/ Get \/ SendNotify \/ Meet \/ Timeout
  \/ UpdatePodStatus \/ HandleErr \/ Done \/ Quit

Next ==
  \/ \E p \in Pods : Create(p) \/ Modify(p) \/ Delete(p) \/ Deliver(p) \/ Requeue(p)
  \/ Worker
  \/ \E i \in DOMAIN actions : AppCommand(i)
  \/ Stop

Spec == Init /\ [][Next]_vars

(* Goroutines that can run do, rate limits pass, the watch delivers, and   *)
(* the robot answers commands.                                             *)
Fairness ==
  /\ \A p \in Pods : WF_vars(Deliver(p)) /\ WF_vars(Requeue(p))
  /\ WF_vars(Worker)
  /\ WF_vars(\E i \in DOMAIN actions : AppCommand(i))

FairSpec == Spec /\ Fairness

-----------------------------------------------------------------------------
(* Properties.                                                             *)

(* Every variable has its type; a key is dropped after MaxRetries requeues *)
(* and is queued once at most.                                             *)
TypeOK ==
  /\ server \in [Pods -> Pod \cup {None}]
  /\ watch \in [Pods -> Seq(Pod \cup {None})]
  /\ cache \in [Pods -> Pod \cup {None}]
  /\ version \in Nat /\ writes \in 0..MaxWrites /\ timeouts \in 0..MaxTimeouts
  /\ queue \in Seq(Pods) /\ IsInjective(queue)
  /\ dirty \subseteq Pods /\ delayed \subseteq Pods
  /\ requeues \in [Pods -> 0..MaxRetries]
  /\ wpc \in {"sync", "idle", "lookup", "wait", "update", "handle", "done", "ended"}
  /\ cur \in Pods \cup {None}
  /\ err \in BOOLEAN /\ stopped \in BOOLEAN
  /\ actions \in Seq([pod : Pods, copy : Pod, pos : 1..Containers + 1,
                      state : {"run", "send", "met"}, ok : BOOLEAN])

Started(p, pod) == \E i \in DOMAIN actions : actions[i].pod = p /\ actions[i].copy = pod

(* The handlers queue every change (pods_controller.go:38-58), so a        *)
(* pending pod is not overlooked: while the queue is open, a version the   *)
(* informer has and nothing was started for has its key queued, or the     *)
(* worker has yet to look it up, even if it came while its key was being   *)
(* processed.                                                              *)
NothingMissed ==
  \A p \in Pods :
    ~stopped /\ ~Skipped(p) /\ ~Started(p, cache[p]) =>
      Contains(queue, p) \/ (cur = p /\ (wpc = "lookup" \/ p \in dirty))

(* The status written at line 143 tells the truth whatever fails, times    *)
(* out or changes meanwhile: a pod that is Succeeded had all its commands  *)
(* accepted, in one action for this very pod, not one of the same name.    *)
SucceededTruly ==
  \A p \in Pods : server[p] # None /\ server[p].phase = "Succeeded" =>
    \E i \in DOMAIN actions :
      /\ actions[i].pod = p /\ actions[i].copy.uid = server[p].uid
      /\ actions[i].ok /\ actions[i].pos = Containers + 1

(* "two pods with the same key are never processed in parallel"            *)
(* (pods_controller.go:85) is true of the worker, but not of the commands: *)
(* an action given up runs beside its retry.  The goroutines that steer    *)
(* the robot, or hang in done <- with nobody to receive                    *)
(* (pods_controller.go:114-131), beside the one the worker waits for are   *)
(* no more than the actions it gave up after five seconds.                 *)
Unmet == {i \in DOMAIN actions : actions[i].state # "met"}
OverlapBounded == Cardinality(Unmet) <= timeouts + (IF wpc = "wait" THEN 1 ELSE 0)

(* The robot does not do a job again that the pod's status reports done:   *)
(* for a pod nobody else writes to, and actions that do not time out, no   *)
(* stale copy in the informer makes the worker start it again.  (A write   *)
(* delivered between queue.Get and GetByKey does: its key is queued again, *)
(* and the copy stays pending until the status update is delivered.)       *)
NoRunAfterSuccess ==
  \A i \in DOMAIN actions :
    LET p == actions[i].pod IN
      actions[i].state = "run" /\ server[p] # None /\ server[p].uid = actions[i].copy.uid
        => server[p].phase # "Succeeded"

(* A pending pod is finished or deleted some time, though others write to  *)
(* it and actions time out now and then, as long as the API server takes   *)
(* status updates and there are retries left.                              *)
Finishes ==
  \A p \in Pods \ Mirror :
    []<>(server[p] = None \/ server[p].phase # "Pending")

(* The controller implements PodJobs, whatever fails, times out or changes *)
(* meanwhile: the status written at line 143 goes to the pod whose         *)
(* commands were run, once, and says how they went; a stale copy, a second *)
(* action left behind by a timeout, or a pod recreated under its name      *)
(* changes nothing of that.                                                *)
Record(pod) == IF pod = None THEN None ELSE [uid |-> pod.uid, phase |-> pod.phase]
JobOf(a)    == <<a.pod, a.copy.uid>>
AllAccepted(a) == a.ok /\ a.pos = Containers + 1
DoneJobs    == {JobOf(actions[i]) : i \in {j \in DOMAIN actions : AllAccepted(actions[j])}}
RefusedJobs == {JobOf(actions[i]) : i \in {j \in DOMAIN actions : ~actions[j].ok}}

Jobs == INSTANCE PodJobs
          WITH pods <- [p \in Pods |-> Record(server[p])],
               done <- DoneJobs, refused <- RefusedJobs
ImplementsPodJobs == Jobs!Spec
=============================================================================
