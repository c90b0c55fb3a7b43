------------------------- MODULE PodControllerProofs ------------------------
(* What PodController does for every set of pods, number of containers,    *)
(* limit of retries, and combination of events.                            *)
EXTENDS PodController, FiniteSetTheorems, TLAPS

-----------------------------------------------------------------------------
(* Sequences without repetition, as the work queue is one.                 *)

LEMMA AppendDistinct ==
  ASSUME NEW S, NEW q \in Seq(S), NEW e \in S, IsInjective(q), e \notin Range(q)
  PROVE  /\ Append(q, e) \in Seq(S) /\ IsInjective(Append(q, e))
         /\ Range(Append(q, e)) = Range(q) \cup {e}
<1> DEFINE t == Append(q, e)
<1>1. /\ t \in Seq(S) /\ Len(q) \in Nat
      /\ DOMAIN q = 1..Len(q) /\ DOMAIN t = 1..Len(q) + 1
      /\ t[Len(q) + 1] = e /\ \A i \in 1..Len(q) : t[i] = q[i]
  OBVIOUS
<1>2. /\ Len(q) + 1 \in DOMAIN t /\ DOMAIN q \subseteq DOMAIN t
      /\ \A i \in DOMAIN t : i = Len(q) + 1 \/ i \in DOMAIN q
  BY <1>1
<1>3. Range(t) = Range(q) \cup {e}
  BY <1>1, <1>2 DEF Range
<1>4. \A i \in DOMAIN q : q[i] # e
  BY DEF Range
<1>5. IsInjective(t)
  BY <1>1, <1>2, <1>4 DEF IsInjective
<1>6. QED
  BY <1>1, <1>3, <1>5

LEMMA TailDistinct ==
  ASSUME NEW S, NEW q \in Seq(S), IsInjective(q), q # <<>>
  PROVE  /\ Tail(q) \in Seq(S) /\ IsInjective(Tail(q)) /\ Head(q) \in S
         /\ Range(Tail(q)) = Range(q) \ {Head(q)} /\ Head(q) \in Range(q)
<1>1. /\ Tail(q) \in Seq(S) /\ Len(q) \in Nat \ {0}
      /\ DOMAIN q = 1..Len(q) /\ DOMAIN Tail(q) = 1..Len(q) - 1
      /\ \A i \in 1..Len(q) - 1 : Tail(q)[i] = q[i + 1]
      /\ Head(q) = q[1] /\ Head(q) \in S
  OBVIOUS
<1>2. /\ 1 \in DOMAIN q
      /\ \A i \in DOMAIN Tail(q) : i + 1 \in DOMAIN q /\ i + 1 # 1
      /\ \A i \in DOMAIN q : i = 1 \/ (i - 1 \in DOMAIN Tail(q) /\ Tail(q)[i - 1] = q[i])
  BY <1>1
<1>3. \A i, j \in DOMAIN q : q[i] = q[j] => i = j
  BY DEF IsInjective
<1>4. Range(Tail(q)) = Range(q) \ {Head(q)}
  <2>1. ASSUME NEW x \in Range(Tail(q)) PROVE x \in Range(q) \ {Head(q)}
    <3>1. PICK i \in DOMAIN Tail(q) : Tail(q)[i] = x
      BY <2>1 DEF Range
    <3>2. x = q[i + 1] /\ i + 1 \in DOMAIN q /\ i + 1 # 1
      BY <1>1, <1>2, <3>1
    <3>3. QED
      BY <1>1, <1>2, <1>3, <3>2 DEF Range
  <2>2. ASSUME NEW x \in Range(q) \ {Head(q)} PROVE x \in Range(Tail(q))
    <3>1. PICK i \in DOMAIN q : q[i] = x
      BY <2>2 DEF Range
    <3>2. i - 1 \in DOMAIN Tail(q) /\ Tail(q)[i - 1] = x
      BY <1>1, <1>2, <2>2, <3>1
    <3>3. QED
      BY <3>2 DEF Range
  <2>3. QED
    BY <2>1, <2>2
<1>5. IsInjective(Tail(q))
  <2> SUFFICES ASSUME NEW i \in DOMAIN Tail(q), NEW j \in DOMAIN Tail(q),
                      Tail(q)[i] = Tail(q)[j]
               PROVE  i = j
    BY DEF IsInjective
  <2>1. q[i + 1] = q[j + 1] /\ i + 1 \in DOMAIN q /\ j + 1 \in DOMAIN q
    BY <1>1, <1>2
  <2>2. i + 1 = j + 1
    BY <1>3, <2>1
  <2>3. QED
    BY <1>1, <2>2
<1>6. QED
  BY <1>1, <1>2, <1>4, <1>5 DEF Range

-----------------------------------------------------------------------------
(* Types.  The queue holds the dirty keys except the one being processed,  *)
(* which Done queues again; and the worker has a key except when it waits  *)
(* for one.                                                                *)
Action == [pod : Pods, copy : Pod, pos : 1..Containers + 1,
           state : {"run", "send", "met"}, ok : BOOLEAN]

QueueInv ==
  /\ TypeOK
  /\ Range(queue) = dirty \ {cur}
  /\ cur = None <=> wpc \in {"sync", "idle", "ended"}

(* The worker's action is the last one, and for its key.  An action runs   *)
(* until its last container, and ends well only then.                      *)
ActionInv ==
  /\ wpc \in {"wait", "update"} => actions # <<>> /\ actions[Current].pod = cur
  /\ wpc = "update" => actions[Current].state = "met"
  /\ \A i \in DOMAIN actions :
       /\ actions[i].state = "run" => actions[i].pos <= Containers
       /\ actions[i].state # "run" /\ actions[i].ok => actions[i].pos = Containers + 1

LEMMA ActionTypes ==
  ASSUME TypeOK
  PROVE  /\ actions \in Seq(Action) /\ Len(actions) \in Nat
         /\ DOMAIN actions = 1..Len(actions)
         /\ \A i \in DOMAIN actions : actions[i] \in Action
         /\ actions # <<>> => Current \in DOMAIN actions
<1>1. actions \in Seq(Action)
  BY DEF TypeOK, Action
<1> HIDE DEF Action
<1>2. QED
  BY <1>1 DEF Current

(* queue.Add of any key, in any state of the worker.                       *)
LEMMA AddKeeps ==
  ASSUME QueueInv, NEW p \in Pods, Add(p)
  PROVE  /\ queue' \in Seq(Pods) /\ IsInjective(queue')
         /\ dirty' \subseteq Pods /\ Range(queue') = dirty' \ {cur}
         /\ ~stopped => p \in dirty'
         /\ dirty \subseteq dirty'
<1>1. queue \in Seq(Pods) /\ IsInjective(queue) /\ Range(queue) = dirty \ {cur}
  BY DEF QueueInv, TypeOK
<1>2. CASE stopped \/ p \in dirty
  BY <1>1, <1>2 DEF Add, QueueInv, TypeOK
<1>3. CASE ~(stopped \/ p \in dirty)
  <2>1. p \notin Range(queue)
    BY <1>1, <1>3
  <2>2. dirty' = dirty \cup {p}
    BY <1>3 DEF Add
  <2>3. CASE cur = p
    BY <1>1, <1>3, <2>2, <2>3 DEF Add, QueueInv, TypeOK
  <2>4. CASE cur # p
    <3>1. queue' = Append(queue, p)
      BY <1>3, <2>4 DEF Add
    <3>2. Range(queue') = Range(queue) \cup {p} /\ queue' \in Seq(Pods) /\ IsInjective(queue')
      BY <1>1, <2>1, <3>1, AppendDistinct
    <3>3. QED
      BY <1>1, <2>2, <2>4, <3>2 DEF QueueInv, TypeOK
  <2>5. QED
    BY <2>3, <2>4
<1>4. QED
  BY <1>2, <1>3

-----------------------------------------------------------------------------
(* Each step keeps the types and the queue.                                *)

LEMMA InitQueue == Init => QueueInv /\ ActionInv
<1> SUFFICES ASSUME Init PROVE QueueInv /\ ActionInv
  OBVIOUS
<1>1. server \in [Pods -> Pod \cup {None}]
  BY DEF Init, Pod
<1>2. watch \in [Pods -> Seq(Pod \cup {None})]
  <2> SUFFICES ASSUME NEW p \in Pods
               PROVE  (IF server[p] = None THEN <<>> ELSE <<server[p]>>) \in Seq(Pod \cup {None})
    BY DEF Init
  <2>1. CASE server[p] = None
    BY <2>1
  <2>2. CASE server[p] # None
    <3>1. server[p] \in Pod
      BY <1>1, <2>2
    <3> HIDE DEF Pod
    <3>2. QED
      BY <2>2, <3>1
  <2>3. QED
    BY <2>1, <2>2
<1>3. queue \in Seq(Pods) /\ IsInjective(queue) /\ Range(queue) = {}
  BY DEF Init, IsInjective, Range
<1>4. requeues \in [Pods -> 0..MaxRetries] /\ 0 \in 0..MaxWrites /\ 0 \in 0..MaxTimeouts
  BY PodAssumption DEF Init
<1>5. actions \in Seq([pod : Pods, copy : Pod, pos : 1..Containers + 1,
                       state : {"run", "send", "met"}, ok : BOOLEAN])
  BY DEF Init
<1>6. TypeOK
  BY <1>1, <1>2, <1>3, <1>4, <1>5 DEF Init, TypeOK
<1>7. QED
  BY <1>3, <1>6 DEF Init, QueueInv, ActionInv

LEMMA WriteTypes ==
  ASSUME TypeOK, NEW p \in Pods, NEW pod \in Pod \cup {None}, Write(p, pod)
  PROVE  /\ server' \in [Pods -> Pod \cup {None}]
         /\ watch' \in [Pods -> Seq(Pod \cup {None})]
         /\ version' \in Nat
<1>1. Append(watch[p], pod) \in Seq(Pod \cup {None})
  BY DEF TypeOK
<1>2. QED
  BY <1>1 DEF TypeOK, Write

LEMMA OthersQueue ==
  ASSUME QueueInv, ActionInv, NEW p \in Pods, Create(p) \/ Modify(p) \/ Delete(p)
  PROVE  QueueInv' /\ ActionInv'
<1>1. PICK pod \in Pod \cup {None} : Others(p, pod)
  <2>1. version + 1 \in Nat /\ server[p] \in Pod \cup {None}
    BY DEF QueueInv, TypeOK
  <2>2. QED
    BY <2>1 DEF Create, Modify, Delete, Pod
<1>2. writes' \in 0..MaxWrites
  BY <1>1, PodAssumption DEF Others, QueueInv, TypeOK
<1>3. TypeOK'
  BY <1>1, <1>2, WriteTypes DEF Others, QueueInv, TypeOK, queueVars, workerVars
<1>4. QED
  BY <1>1, <1>3 DEF Others, QueueInv, ActionInv, queueVars, workerVars, Current

LEMMA DeliverQueue ==
  ASSUME QueueInv, ActionInv, NEW p \in Pods, Deliver(p)
  PROVE  QueueInv' /\ ActionInv'
<1>1. Head(watch[p]) \in Pod \cup {None} /\ Tail(watch[p]) \in Seq(Pod \cup {None})
  BY DEF Deliver, QueueInv, TypeOK
<1>2. cache' \in [Pods -> Pod \cup {None}] /\ watch' \in [Pods -> Seq(Pod \cup {None})]
  BY <1>1 DEF Deliver, QueueInv, TypeOK
<1>3. /\ queue' \in Seq(Pods) /\ IsInjective(queue')
      /\ dirty' \subseteq Pods /\ Range(queue') = dirty' \ {cur}
  BY AddKeeps DEF Deliver, Notify
<1>4. TypeOK'
  BY <1>2, <1>3 DEF Deliver, QueueInv, TypeOK, apiVars, workerVars
<1>5. QED
  BY <1>3, <1>4 DEF Deliver, QueueInv, ActionInv, workerVars, Current

LEMMA RequeueQueue ==
  ASSUME QueueInv, ActionInv, NEW p \in Pods, Requeue(p)
  PROVE  QueueInv' /\ ActionInv'
<1>1. /\ queue' \in Seq(Pods) /\ IsInjective(queue')
      /\ dirty' \subseteq Pods /\ Range(queue') = dirty' \ {cur}
  BY AddKeeps DEF Requeue
<1>2. TypeOK'
  BY <1>1 DEF Requeue, QueueInv, TypeOK, apiVars, workerVars
<1>3. QED
  BY <1>1, <1>2 DEF Requeue, QueueInv, ActionInv, workerVars, Current

LEMMA GetQueue ==
  ASSUME QueueInv, ActionInv, Get
  PROVE  QueueInv' /\ ActionInv'
<1>1. queue \in Seq(Pods) /\ IsInjective(queue) /\ queue # <<>> /\ cur = None
  BY DEF Get, QueueInv, TypeOK
<1>2. /\ Tail(queue) \in Seq(Pods) /\ IsInjective(Tail(queue)) /\ Head(queue) \in Pods
      /\ Range(Tail(queue)) = Range(queue) \ {Head(queue)}
  BY <1>1, TailDistinct
<1>3. Range(queue) = dirty
  BY <1>1, PodAssumption DEF QueueInv, TypeOK
<1>4. Range(queue') = dirty' \ {cur'}
  BY <1>2, <1>3 DEF Get
<1>5. TypeOK'
  BY <1>2 DEF Get, QueueInv, TypeOK, apiVars
<1>6. QED
  BY <1>2, <1>4, <1>5, PodAssumption DEF Get, QueueInv, ActionInv

LEMMA SendNotifyQueue ==
  ASSUME QueueInv, ActionInv, SendNotify
  PROVE  QueueInv' /\ ActionInv'
<1>1. cur \in Pods
  BY PodAssumption DEF SendNotify, QueueInv, TypeOK
<1>2. CASE Skipped(cur)
  <2>1. TypeOK'
    BY <1>2 DEF SendNotify, QueueInv, TypeOK, apiVars, queueVars
  <2>2. QED
    BY <1>2, <2>1 DEF SendNotify, QueueInv, ActionInv, queueVars
<1>3. CASE ~Skipped(cur)
  <2> DEFINE new == [pod |-> cur, copy |-> cache[cur], pos |-> 1, state |-> "run", ok |-> TRUE]
  <2>1. actions' = Append(actions, new) /\ wpc' = "wait"
    BY <1>3 DEF SendNotify, AfterStart
  <2>2. new \in Action /\ 1 <= Containers
    BY <1>1, <1>3, PodAssumption DEF Skipped, QueueInv, TypeOK, Action
  <2>3. actions \in Seq(Action)
    BY ActionTypes DEF QueueInv
  <2> HIDE DEF new
  <2>4. /\ actions' \in Seq(Action) /\ Len(actions') = Len(actions) + 1
        /\ DOMAIN actions' = 1..Len(actions) + 1 /\ Len(actions) \in Nat
        /\ actions'[Len(actions')] = new
        /\ \A i \in 1..Len(actions) : actions'[i] = actions[i]
    BY <2>1, <2>2, <2>3
  <2>5. \A i \in DOMAIN actions' : i \in DOMAIN actions \/ actions'[i] = new
    BY <2>3, <2>4
  <2>6. TypeOK'
    BY <1>3, <2>4 DEF SendNotify, AfterStart, QueueInv, TypeOK, Action, apiVars, queueVars
  <2>7. QueueInv'
    BY <1>3, <2>6 DEF SendNotify, AfterStart, QueueInv, queueVars
  <2>8. ActionInv'
    <3>1. actions' # <<>> /\ actions'[Current'].pod = cur'
      BY <2>4 DEF SendNotify, new, Current
    <3>2. \A i \in DOMAIN actions : actions'[i] = actions[i]
      BY <2>3, <2>4
    <3>3. new.state = "run" /\ new.pos = 1
      BY DEF new
    <3>4. QED
      BY <2>1, <2>2, <2>5, <3>1, <3>2, <3>3 DEF ActionInv
  <2>9. QED
    BY <2>7, <2>8
<1>4. QED
  BY <1>2, <1>3

(* An action changes its position, result and state only.                  *)
LEMMA ActionStep ==
  ASSUME QueueInv, NEW i \in DOMAIN actions, NEW a \in Action,
         actions' = [actions EXCEPT ![i] = a], a.pod = actions[i].pod
  PROVE  /\ actions' \in Seq(Action) /\ DOMAIN actions' = DOMAIN actions
         /\ Current' = Current /\ (actions # <<>> => actions' # <<>>)
         /\ actions'[i] = a
         /\ \A j \in DOMAIN actions : j # i => actions'[j] = actions[j]
<1>1. actions \in Seq(Action)
  BY ActionTypes DEF QueueInv
<1> HIDE DEF Action
<1>2. QED
  BY <1>1 DEF Current

LEMMA MeetQueue ==
  ASSUME QueueInv, ActionInv, Meet
  PROVE  QueueInv' /\ ActionInv'
<1> DEFINE a == [actions[Current] EXCEPT !.state = "met"]
<1>1. Current \in DOMAIN actions /\ actions[Current] \in Action /\ actions # <<>>
  BY ActionTypes DEF Meet, QueueInv, ActionInv
<1>2. /\ a \in Action /\ a.pod = actions[Current].pod /\ a.state = "met"
      /\ a.pos = actions[Current].pos /\ a.ok = actions[Current].ok
  BY <1>1 DEF Action
<1>3. actions' = [actions EXCEPT ![Current] = a]
  BY DEF Meet
<1> HIDE DEF a
<1>4. /\ actions' \in Seq(Action) /\ DOMAIN actions' = DOMAIN actions
      /\ Current' = Current /\ actions' # <<>> /\ actions'[Current] = a
      /\ \A j \in DOMAIN actions : j # Current => actions'[j] = actions[j]
  BY <1>1, <1>2, <1>3, ActionStep
<1>5. TypeOK'
  BY <1>4 DEF Meet, QueueInv, TypeOK, Action, apiVars, queueVars
<1>6. QueueInv'
  BY <1>5 DEF Meet, QueueInv, queueVars
<1>7. actions[Current].state = "send" /\ wpc = "wait" /\ wpc' = "update" /\ cur' = cur
  BY DEF Meet
<1>8. ActionInv'
  BY <1>1, <1>2, <1>4, <1>7 DEF ActionInv
<1>9. QED
  BY <1>6, <1>8

LEMMA AppCommandQueue ==
  ASSUME QueueInv, ActionInv, NEW i \in DOMAIN actions, AppCommand(i)
  PROVE  QueueInv' /\ ActionInv'
<1>1. actions[i] \in Action /\ actions[i].state = "run" /\ actions[i].pos <= Containers
  BY ActionTypes DEF AppCommand, QueueInv, ActionInv
<1>2. PICK ok \in BOOLEAN : actions' = [actions EXCEPT ![i] = Result(actions[i], ok)]
  BY DEF AppCommand
<1> DEFINE a == Result(actions[i], ok)
<1>3. /\ a \in Action /\ a.pod = actions[i].pod
      /\ a.state = "run" => a.pos <= Containers
      /\ a.state # "run" /\ a.ok => a.pos = Containers + 1
      /\ a.state # "met"
  <2>1. actions[i].pos \in Nat \ {0} /\ Containers \in Nat
    BY <1>1, PodAssumption DEF Action
  <2>2. CASE ok
    <3>1. actions[i].pos + 1 \in 1..Containers + 1
      BY <1>1, <2>1
    <3>2. CASE actions[i].pos = Containers
      <4>1. a = [actions[i] EXCEPT !.pos = Containers + 1, !.state = "send"]
        BY <2>2, <3>2 DEF Result
      <4>2. QED
        BY <1>1, <2>1, <3>1, <3>2, <4>1 DEF Action
    <3>3. CASE actions[i].pos # Containers
      <4>1. a = [actions[i] EXCEPT !.pos = @ + 1, !.state = "run"]
        BY <2>2, <3>3 DEF Result
      <4>2. actions[i].pos + 1 <= Containers
        BY <1>1, <2>1, <3>3
      <4>3. QED
        BY <1>1, <2>1, <3>1, <4>1, <4>2 DEF Action
    <3>4. QED
      BY <3>2, <3>3
  <2>3. CASE ~ok
    BY <1>1, <2>1, <2>3 DEF Result, Action
  <2>4. QED
    BY <2>2, <2>3
<1> HIDE DEF a
<1>4. /\ actions' \in Seq(Action) /\ DOMAIN actions' = DOMAIN actions
      /\ Current' = Current /\ (actions # <<>> => actions' # <<>>) /\ actions'[i] = a
      /\ \A j \in DOMAIN actions : j # i => actions'[j] = actions[j]
  BY <1>2, <1>3, ActionStep DEF a
<1>5. TypeOK'
  BY <1>4 DEF AppCommand, QueueInv, TypeOK, Action, apiVars, queueVars, workerVars
<1>6. QueueInv'
  BY <1>5 DEF AppCommand, QueueInv, queueVars, workerVars
<1>7. ActionInv'
  BY <1>1, <1>3, <1>4 DEF AppCommand, ActionInv, workerVars
<1>8. QED
  BY <1>6, <1>7

LEMMA UpdateQueue ==
  ASSUME QueueInv, ActionInv, UpdatePodStatus
  PROVE  QueueInv' /\ ActionInv'
<1>1. Current \in DOMAIN actions /\ actions[Current] \in Action /\ cur \in Pods
  BY ActionTypes, PodAssumption DEF UpdatePodStatus, QueueInv, ActionInv, TypeOK
<1>2. /\ server' \in [Pods -> Pod \cup {None}]
      /\ watch' \in [Pods -> Seq(Pod \cup {None})] /\ version' \in Nat
  <2>1. CASE UNCHANGED <<server, watch, version>>
    BY <2>1 DEF QueueInv, TypeOK
  <2>2. ASSUME NEW phase \in {"Succeeded", "Failed"},
               Write(cur, [actions[Current].copy EXCEPT !.ver = version + 1, !.phase = phase])
        PROVE  /\ server' \in [Pods -> Pod \cup {None}]
               /\ watch' \in [Pods -> Seq(Pod \cup {None})] /\ version' \in Nat
    <3>1. [actions[Current].copy EXCEPT !.ver = version + 1, !.phase = phase] \in Pod
      <4>1. actions[Current].copy \in Pod
        BY <1>1 DEF Action
      <4>2. version + 1 \in Nat
        BY DEF QueueInv, TypeOK
      <4>3. QED
        BY <4>1, <4>2 DEF Pod
    <3>2. QED
      BY <1>1, <2>2, <3>1, WriteTypes DEF QueueInv
  <2>3. QED
    BY <2>1, <2>2 DEF UpdatePodStatus
<1>3. err' \in BOOLEAN
  BY DEF UpdatePodStatus
<1>4. TypeOK'
  BY <1>2, <1>3 DEF UpdatePodStatus, QueueInv, TypeOK, queueVars
<1>5. QED
  BY <1>4 DEF UpdatePodStatus, QueueInv, ActionInv, queueVars

LEMMA DoneQueue ==
  ASSUME QueueInv, ActionInv, Done
  PROVE  QueueInv' /\ ActionInv'
<1>1. cur \in Pods /\ queue \in Seq(Pods) /\ IsInjective(queue) /\ Range(queue) = dirty \ {cur}
  BY PodAssumption DEF Done, QueueInv, TypeOK
<1>2. queue' \in Seq(Pods) /\ IsInjective(queue') /\ Range(queue') = dirty \ {None}
  <2>1. None \notin dirty
    BY PodAssumption DEF QueueInv, TypeOK
  <2>2. CASE cur \in dirty
    BY <1>1, <2>1, <2>2, AppendDistinct DEF Done
  <2>3. CASE cur \notin dirty
    BY <1>1, <2>1, <2>3 DEF Done
  <2>4. QED
    BY <2>2, <2>3
<1>3. TypeOK'
  BY <1>2 DEF Done, QueueInv, TypeOK, apiVars
<1>4. QED
  BY <1>2, <1>3 DEF Done, QueueInv, ActionInv

LEMMA HandleErrQueue ==
  ASSUME QueueInv, ActionInv, HandleErr
  PROVE  QueueInv' /\ ActionInv'
<1>1. cur \in Pods
  BY PodAssumption DEF HandleErr, QueueInv, TypeOK
<1>2. requeues' \in [Pods -> 0..MaxRetries] /\ delayed' \subseteq Pods
  <2>1. requeues \in [Pods -> 0..MaxRetries] /\ delayed \subseteq Pods
    BY DEF QueueInv, TypeOK
  <2>2. CASE err /\ Retriable(cur)
    <3>1. requeues[cur] + 1 \in 0..MaxRetries
      BY <1>1, <2>1, <2>2, PodAssumption DEF Retriable
    <3>2. requeues' = [requeues EXCEPT ![cur] = requeues[cur] + 1]
      BY <2>2 DEF HandleErr
    <3>3. delayed' \subseteq delayed \cup {cur}
      BY <2>2 DEF HandleErr
    <3>4. QED
      BY <1>1, <2>1, <3>1, <3>2, <3>3
  <2>3. CASE ~(err /\ Retriable(cur))
    BY <1>1, <2>1, <2>3, PodAssumption DEF HandleErr
  <2>4. QED
    BY <2>2, <2>3
<1>3. TypeOK'
  BY <1>2 DEF HandleErr, QueueInv, TypeOK, apiVars
<1>4. QED
  BY <1>3 DEF HandleErr, QueueInv, ActionInv

LEMMA OtherQueue ==
  ASSUME QueueInv, ActionInv,
         StartWorker \/ Timeout \/ Quit \/ Stop \/ UNCHANGED vars
  PROVE  QueueInv' /\ ActionInv'
<1> USE DEF apiVars, queueVars, workerVars, vars, StartWorker, Timeout, Quit, Stop
<1>1. timeouts' \in 0..MaxTimeouts
  BY PodAssumption DEF QueueInv, TypeOK
<1>2. wpc' = wpc \/ wpc' \in {"idle", "handle", "ended"}
  OBVIOUS
<1>3. TypeOK'
  BY <1>1, <1>2 DEF QueueInv, TypeOK
<1>4. QueueInv'
  BY <1>3 DEF QueueInv
<1>5. ActionInv'
  BY <1>2 DEF ActionInv, Current
<1>6. QED
  BY <1>4, <1>5

LEMMA NextQueue == QueueInv /\ ActionInv /\ [Next]_vars => QueueInv' /\ ActionInv'
BY OthersQueue, DeliverQueue, RequeueQueue, GetQueue, SendNotifyQueue, MeetQueue,
   AppCommandQueue, UpdateQueue, DoneQueue, HandleErrQueue, OtherQueue DEF Next, Worker

(* Types, and that a key is in the queue once and requeued MaxRetries      *)
(* times at most.                                                          *)
THEOREM TypeCorrect == Spec => []TypeOK
<1>1. QueueInv => TypeOK
  BY DEF QueueInv
<1>2. QED
  BY <1>1, InitQueue, NextQueue, PTL DEF Spec

-----------------------------------------------------------------------------
(* How a step changes the log of actions: it stays, one is added, or the   *)
(* state of one changes.                                                   *)

LEMMA LogGrows ==
  ASSUME QueueInv, ActionInv, [Next]_vars, NEW i \in DOMAIN actions
  PROVE  /\ i \in DOMAIN actions'
         /\ actions'[i].pod = actions[i].pod /\ actions'[i].copy = actions[i].copy
         /\ actions[i].ok /\ actions[i].pos = Containers + 1
              => actions'[i].ok /\ actions'[i].pos = Containers + 1
<1>0. actions \in Seq(Action) /\ actions[i] \in Action
  BY ActionTypes DEF QueueInv
<1>1. CASE UNCHANGED actions
  BY <1>1
<1>2. CASE SendNotify
  <2>1. CASE Skipped(cur)
    BY <1>2, <2>1 DEF SendNotify
  <2>2. CASE ~Skipped(cur)
    <3> DEFINE new == [pod |-> cur, copy |-> cache[cur], pos |-> 1, state |-> "run", ok |-> TRUE]
    <3>1. actions' = Append(actions, new)
      BY <1>2, <2>2 DEF SendNotify
    <3> HIDE DEF new, Action
    <3>2. i \in DOMAIN actions' /\ actions'[i] = actions[i]
      BY <1>0, <3>1
    <3>3. QED
      BY <3>2
  <2>3. QED
    BY <2>1, <2>2
<1>3. CASE Meet
  <2>1. DOMAIN actions' = DOMAIN actions
    BY <1>3 DEF Meet
  <2>2. CASE i = Current
    BY <1>0, <1>3, <2>1, <2>2 DEF Meet, Action
  <2>3. CASE i # Current
    BY <1>0, <1>3, <2>1, <2>3 DEF Meet
  <2>4. QED
    BY <2>2, <2>3
<1>4. ASSUME NEW j \in DOMAIN actions, AppCommand(j)
      PROVE  /\ i \in DOMAIN actions'
             /\ actions'[i].pod = actions[i].pod /\ actions'[i].copy = actions[i].copy
             /\ actions[i].ok /\ actions[i].pos = Containers + 1
                  => actions'[i].ok /\ actions'[i].pos = Containers + 1
  <2>1. PICK ok \in BOOLEAN : actions' = [actions EXCEPT ![j] = Result(actions[j], ok)]
    BY <1>4 DEF AppCommand
  <2>2. DOMAIN actions' = DOMAIN actions
    BY <2>1
  <2>3. CASE i = j
    <3>1. actions[i].pos # Containers + 1
      <4>1. actions[i].pos <= Containers
        BY <1>4, <2>3 DEF AppCommand, ActionInv
      <4>2. actions[i].pos \in Nat /\ Containers \in Nat
        BY <1>0, PodAssumption DEF Action
      <4>3. QED
        BY <4>1, <4>2
    <3>2. actions'[i] = Result(actions[i], ok)
      BY <2>1, <2>3
    <3>3. Result(actions[i], ok).pod = actions[i].pod /\ Result(actions[i], ok).copy = actions[i].copy
      BY <1>0 DEF Result, Action
    <3>4. QED
      BY <2>2, <3>1, <3>2, <3>3
  <2>4. CASE i # j
    BY <2>1, <2>2, <2>4
  <2>5. QED
    BY <2>3, <2>4
<1>5. QED
  BY <1>1, <1>2, <1>3, <1>4
     DEF Next, Worker, Create, Modify, Delete, Others, Deliver, Requeue, StartWorker, Get,
         Timeout, UpdatePodStatus, HandleErr, Done, Quit, Stop, vars

-----------------------------------------------------------------------------
(* No pending pod is overlooked.                                           *)

MissInv ==
  \A p \in Pods :
    ~stopped /\ ~Skipped(p) /\ ~Started(p, cache[p]) =>
      p \in dirty \/ (cur = p /\ wpc = "lookup")

(* What was started stays started.                                         *)
LEMMA StartedStays ==
  ASSUME QueueInv, ActionInv, [Next]_vars, NEW p \in Pods, NEW pod, Started(p, pod)
  PROVE  \E i \in DOMAIN actions' : actions'[i].pod = p /\ actions'[i].copy = pod
<1>1. PICK i \in DOMAIN actions : actions[i].pod = p /\ actions[i].copy = pod
  BY DEF Started
<1>2. QED
  BY <1>1, LogGrows

LEMMA NextMiss == QueueInv /\ ActionInv /\ MissInv /\ [Next]_vars => MissInv'
<1> SUFFICES ASSUME QueueInv, ActionInv, MissInv, [Next]_vars, NEW p \in Pods,
                    (~stopped /\ ~Skipped(p) /\ ~Started(p, cache[p]))'
             PROVE  p \in dirty' \/ (cur' = p /\ wpc' = "lookup")
  BY DEF MissInv
<1>1. ~Started(p, cache'[p])
  BY StartedStays DEF Started
<1>2. CASE cache'[p] # cache[p]
  <2>1. Deliver(p)
    BY <1>2 DEF Next, Worker, Create, Modify, Delete, Others, Deliver, Requeue, StartWorker, Get,
         SendNotify, Meet, AppCommand,
         Timeout, UpdatePodStatus, HandleErr, Done, Quit, Stop, vars, QueueInv, TypeOK
  <2>2. ~stopped
    BY <2>1 DEF Deliver
  <2>3. QED
    BY <2>1, <2>2, AddKeeps DEF Deliver, Notify
<1>3. CASE cache'[p] = cache[p]
  <2>1. ~stopped /\ ~Skipped(p) /\ ~Started(p, cache[p])
    <3>1. ~stopped
      BY DEF Next, Worker, Create, Modify, Delete, Others, Deliver, Requeue, StartWorker, Get,
         SendNotify, Meet, AppCommand,
         Timeout, UpdatePodStatus, HandleErr, Done, Quit, Stop, vars
    <3>2. QED
      BY <1>1, <1>3, <3>1 DEF Skipped
  <2>2. p \in dirty \/ (cur = p /\ wpc = "lookup")
    BY <2>1 DEF MissInv
  <2>3. CASE \E q \in Pods : Deliver(q) \/ Requeue(q)
    <3>1. PICK q \in Pods : Deliver(q) \/ Requeue(q)
      BY <2>3
    <3>2. dirty \subseteq dirty' /\ cur' = cur /\ wpc' = wpc
      BY <3>1, AddKeeps DEF Deliver, Notify, Requeue, workerVars
    <3>3. QED
      BY <2>2, <3>2
  <2>4. CASE Get
    BY <2>2, <2>4 DEF Get
  <2>5. CASE SendNotify
    <3>1. CASE cur = p
      <4> DEFINE new == [pod |-> cur, copy |-> cache[cur], pos |-> 1, state |-> "run", ok |-> TRUE]
      <4>1. actions' = Append(actions, new) /\ actions \in Seq(Action)
        BY <2>1, <2>5, <3>1, ActionTypes DEF SendNotify, QueueInv
      <4>2. new.pod = p /\ new.copy = cache[p]
        BY <3>1
      <4> HIDE DEF new, Action
      <4>3. Len(actions) + 1 \in DOMAIN actions' /\ actions'[Len(actions) + 1] = new
        BY <4>1
      <4>4. Started(p, cache[p])'
        BY <1>3, <4>2, <4>3 DEF Started
      <4>5. QED
        BY <4>4
    <3>2. CASE cur # p
      BY <2>2, <2>5, <3>2 DEF SendNotify, queueVars
    <3>3. QED
      BY <3>1, <3>2
  <2>6. CASE UNCHANGED dirty /\ (UNCHANGED <<wpc, cur>> \/ wpc # "lookup")
    BY <2>2, <2>6
  <2>7. QED
    BY <2>3, <2>4, <2>5, <2>6
       DEF Next, Worker, Create, Modify, Delete, Others, StartWorker, Meet, AppCommand,
           Timeout, UpdatePodStatus, HandleErr, Done, Quit, Stop,
           vars, queueVars, workerVars
<1>4. QED
  BY <1>2, <1>3

(* While the queue is open, a pending pod the informer knows is queued,    *)
(* started, or about to be looked up, whatever fails or comes meanwhile.   *)
THEOREM PendingSeen == Spec => []NothingMissed
<1>1. Init => MissInv
  BY DEF Init, MissInv, Skipped
<1>2. QueueInv /\ MissInv => NothingMissed
  <2> SUFFICES ASSUME QueueInv, MissInv, NEW p \in Pods,
                      ~stopped /\ ~Skipped(p) /\ ~Started(p, cache[p])
               PROVE  Contains(queue, p) \/ (cur = p /\ (wpc = "lookup" \/ p \in dirty))
    BY DEF NothingMissed
  <2>1. p \in dirty \/ (cur = p /\ wpc = "lookup")
    BY DEF MissInv
  <2>2. CASE p \in dirty /\ cur # p
    <3>1. p \in Range(queue) /\ DOMAIN queue = 1..Len(queue)
      BY <2>2 DEF QueueInv, TypeOK
    <3>2. QED
      BY <3>1 DEF Range, Contains
  <2>3. QED
    BY <2>1, <2>2
<1>3. QED
  BY <1>1, <1>2, InitQueue, NextQueue, NextMiss, PTL DEF Spec

-----------------------------------------------------------------------------
(* The status tells the truth.  UpdatePodStatus writes for an action that  *)
(* was met, and the log keeps what the action did.                         *)

LEMMA NextTruly ==
  QueueInv /\ ActionInv /\ SucceededTruly /\ [Next]_vars => SucceededTruly'
<1> SUFFICES ASSUME QueueInv, ActionInv, SucceededTruly, [Next]_vars, NEW p \in Pods,
                    server'[p] # None, server'[p].phase = "Succeeded"
             PROVE  \E i \in DOMAIN actions' :
                      /\ actions'[i].pod = p /\ actions'[i].copy.uid = server'[p].uid
                      /\ actions'[i].ok /\ actions'[i].pos = Containers + 1
  BY DEF SucceededTruly
<1>0. server \in [Pods -> Pod \cup {None}] /\ version \in Nat
  BY DEF QueueInv, TypeOK
<1>1. ASSUME server[p] # None, server[p].phase = "Succeeded", server'[p].uid = server[p].uid
      PROVE  \E i \in DOMAIN actions' :
               /\ actions'[i].pod = p /\ actions'[i].copy.uid = server'[p].uid
               /\ actions'[i].ok /\ actions'[i].pos = Containers + 1
  <2>1. PICK i \in DOMAIN actions :
               /\ actions[i].pod = p /\ actions[i].copy.uid = server[p].uid
               /\ actions[i].ok /\ actions[i].pos = Containers + 1
    BY <1>1 DEF SucceededTruly
  <2>2. QED
    BY <1>1, <2>1, LogGrows
<1>2. CASE server'[p] = server[p]
  BY <1>1, <1>2
<1>3. CASE UpdatePodStatus /\ server'[p] # server[p]
  <2> DEFINE a == actions[Current]
  <2>1. Current \in DOMAIN actions /\ a \in Action /\ a.pod = cur /\ a.state = "met" /\ cur \in Pods
    BY <1>3, ActionTypes, PodAssumption DEF UpdatePodStatus, QueueInv, ActionInv, TypeOK
  <2>2. PICK phase \in {"Succeeded", "Failed"} :
          /\ phase = (IF a.ok THEN "Succeeded" ELSE "Failed")
          /\ server' = [server EXCEPT ![cur] = [a.copy EXCEPT !.ver = version + 1, !.phase = phase]]
    BY <1>3 DEF UpdatePodStatus, Write
  <2>3. p = cur /\ server'[p] = [a.copy EXCEPT !.ver = version + 1, !.phase = phase]
    BY <1>0, <1>3, <2>1, <2>2
  <2>4. a.copy \in Pod
    BY <2>1 DEF Action
  <2>5. server'[p].phase = phase /\ server'[p].uid = a.copy.uid
    BY <2>3, <2>4 DEF Pod
  <2>6. a.ok /\ a.pos = Containers + 1
    <3>1. a.ok
      BY <2>2, <2>5
    <3>2. QED
      BY <2>1, <3>1 DEF ActionInv
  <2>7. actions' = actions
    BY <1>3 DEF UpdatePodStatus
  <2>8. QED
    BY <2>1, <2>3, <2>5, <2>6, <2>7
<1>4. ASSUME NEW q \in Pods, Create(q) \/ Modify(q) \/ Delete(q), server'[p] # server[p]
      PROVE  \E i \in DOMAIN actions' :
               /\ actions'[i].pod = p /\ actions'[i].copy.uid = server'[p].uid
               /\ actions'[i].ok /\ actions'[i].pos = Containers + 1
  <2>1. q = p
    BY <1>0, <1>4 DEF Create, Modify, Delete, Others, Write
  <2>2. CASE Create(q)
    BY <1>0, <2>1, <2>2 DEF Create, Others, Write
  <2>3. CASE Delete(q)
    BY <1>0, <2>1, <2>3 DEF Delete, Others, Write
  <2>4. CASE Modify(q)
    <3>1. server[p] \in Pod /\ server'[p] = [server[p] EXCEPT !.ver = version + 1]
      BY <1>0, <2>1, <2>4 DEF Modify, Others, Write
    <3>2. server[p] # None /\ server'[p].phase = server[p].phase /\ server'[p].uid = server[p].uid
      BY <2>1, <2>4, <3>1 DEF Modify, Pod
    <3>3. QED
      BY <1>1, <3>2
  <2>5. QED
    BY <1>4, <2>2, <2>3, <2>4
<1>5. QED
  BY <1>2, <1>3, <1>4
     DEF Next, Worker, Deliver, Requeue, StartWorker, Get, SendNotify, Meet, AppCommand,
         Timeout, HandleErr, Done, Quit, Stop, vars, apiVars

(* A pod the server calls Succeeded had all its commands accepted, in one  *)
(* action for this very pod: for any failures, timeouts and writes.        *)
THEOREM Truthful == Spec => []SucceededTruly
<1>1. Init => SucceededTruly
  <2> SUFFICES ASSUME Init, NEW p \in Pods, server[p] # None
               PROVE  server[p].phase # "Succeeded"
    BY DEF SucceededTruly
  <2>1. server[p] = [uid |-> 0, ver |-> 0, phase |-> "Pending"]
    BY DEF Init
  <2>2. QED
    BY <2>1
<1>2. QED
  BY <1>1, InitQueue, NextQueue, NextTruly, PTL DEF Spec

-----------------------------------------------------------------------------
(* Actions side by side.                                                   *)

LEMMA UnmetFinite ==
  ASSUME NEW n \in Nat, NEW U, U \subseteq 1..n
  PROVE  IsFiniteSet(U) /\ Cardinality(U) \in Nat
<1>1. IsFiniteSet(1..n)
  BY FS_Interval
<1>2. IsFiniteSet(U)
  BY <1>1, FS_Subset
<1>3. QED
  BY <1>2, FS_CardinalityType

(* A new action is waited for; it is met, or a timeout pays for it.        *)
LEMMA NextOverlap ==
  ASSUME QueueInv, QueueInv', ActionInv, OverlapBounded, [Next]_vars
  PROVE  OverlapBounded'
<1> DEFINE n == Cardinality(Unmet)   m == Cardinality(Unmet')
<1>0. /\ IsFiniteSet(Unmet) /\ n \in Nat /\ m \in Nat /\ timeouts \in Nat
      /\ n <= timeouts + (IF wpc = "wait" THEN 1 ELSE 0)
  <2>1. Len(actions) \in Nat /\ Unmet \subseteq 1..Len(actions)
    BY ActionTypes DEF QueueInv, Unmet
  <2>2. Len(actions') \in Nat /\ Unmet' \subseteq 1..Len(actions')
    <3>1. actions' \in Seq(Action)
      BY DEF QueueInv, TypeOK, Action
    <3> HIDE DEF Action
    <3>2. QED
      BY <3>1 DEF Unmet
  <2>3. IsFiniteSet(Unmet) /\ n \in Nat
    BY <2>1, UnmetFinite
  <2>4. m \in Nat
    BY <2>2, UnmetFinite
  <2>5. timeouts \in Nat
    BY PodAssumption DEF QueueInv, TypeOK
  <2>6. QED
    BY <2>3, <2>4, <2>5 DEF OverlapBounded
<1>1. CASE SendNotify /\ ~Skipped(cur)
  <2> DEFINE new == [pod |-> cur, copy |-> cache[cur], pos |-> 1, state |-> "run", ok |-> TRUE]
  <2>1. /\ actions' = Append(actions, new) /\ wpc' = "wait" /\ wpc # "wait"
        /\ timeouts' = timeouts
    BY <1>1 DEF SendNotify, AfterStart
  <2>2. actions \in Seq(Action)
    BY ActionTypes DEF QueueInv
  <2> HIDE DEF new, Action
  <2>3. /\ DOMAIN actions' = DOMAIN actions \cup {Len(actions) + 1}
        /\ \A i \in DOMAIN actions : actions'[i] = actions[i]
    BY <2>1, <2>2
  <2>4. Unmet' \subseteq Unmet \cup {Len(actions) + 1}
    BY <2>3 DEF Unmet
  <2>5. m <= n + 1
    <3> DEFINE U == Unmet \cup {Len(actions) + 1}
    <3>1. IsFiniteSet(U) /\ Cardinality(U) \in Nat /\ Cardinality(U) <= n + 1
      <4>1. Cardinality(U) = IF Len(actions) + 1 \in Unmet THEN n ELSE n + 1
        BY <1>0, FS_AddElement
      <4>2. IsFiniteSet(U)
        BY <1>0, FS_AddElement
      <4>3. QED
        BY <1>0, <4>1, <4>2
    <3>2. m <= Cardinality(U)
      BY <2>4, <3>1, FS_Subset
    <3>3. QED
      BY <1>0, <3>1, <3>2
  <2>6. QED
    BY <1>0, <2>1, <2>5 DEF OverlapBounded
<1>2. CASE Meet
  <2> DEFINE a == [actions[Current] EXCEPT !.state = "met"]
  <2>1. /\ wpc = "wait" /\ wpc' = "update" /\ timeouts' = timeouts
        /\ actions[Current].state = "send" /\ actions' = [actions EXCEPT ![Current] = a]
    BY <1>2 DEF Meet
  <2>2. Current \in DOMAIN actions /\ actions[Current] \in Action
    BY <2>1, ActionTypes DEF QueueInv, ActionInv
  <2>3. a \in Action /\ a.pod = actions[Current].pod /\ a.state = "met"
    BY <2>2 DEF Action
  <2> HIDE DEF a
  <2>4. /\ DOMAIN actions' = DOMAIN actions /\ actions'[Current] = a
        /\ \A j \in DOMAIN actions : j # Current => actions'[j] = actions[j]
    BY <2>1, <2>2, <2>3, ActionStep
  <2>5. Unmet' = Unmet \ {Current} /\ Current \in Unmet
    BY <2>1, <2>2, <2>3, <2>4 DEF Unmet
  <2>6. m = n - 1
    BY <1>0, <2>5, FS_RemoveElement
  <2>7. QED
    BY <1>0, <2>1, <2>6 DEF OverlapBounded
<1>3. ASSUME NEW i \in DOMAIN actions, AppCommand(i)
      PROVE  OverlapBounded'
  <2>1. PICK ok \in BOOLEAN : actions' = [actions EXCEPT ![i] = Result(actions[i], ok)]
    BY <1>3 DEF AppCommand
  <2>2. DOMAIN actions' = DOMAIN actions /\ wpc' = wpc /\ timeouts' = timeouts
    BY <1>3, <2>1 DEF AppCommand, workerVars
  <2>3. \A j \in DOMAIN actions : j # i => actions'[j] = actions[j]
    BY <2>1
  <2>4. actions[i].state = "run"
    BY <1>3 DEF AppCommand
  <2>5. Unmet' \subseteq Unmet
    BY <2>2, <2>3, <2>4 DEF Unmet
  <2>6. m <= n
    BY <1>0, <2>5, FS_Subset
  <2>7. QED
    BY <1>0, <2>2, <2>6 DEF OverlapBounded
<1>4. CASE Timeout
  <2>1. actions' = actions /\ wpc = "wait" /\ wpc' = "handle" /\ timeouts' = timeouts + 1
    BY <1>4 DEF Timeout
  <2>2. Unmet' = Unmet
    BY <2>1 DEF Unmet
  <2>3. QED
    BY <1>0, <2>1, <2>2 DEF OverlapBounded
<1>5. CASE UNCHANGED <<actions, timeouts>> /\ (wpc' = "wait" <=> wpc = "wait")
  <2>1. Unmet' = Unmet /\ timeouts' = timeouts
    BY <1>5 DEF Unmet
  <2>2. QED
    BY <1>0, <1>5, <2>1 DEF OverlapBounded
<1>6. QED
  BY <1>1, <1>2, <1>3, <1>4, <1>5
     DEF Next, Worker, Create, Modify, Delete, Others, Deliver, Requeue, StartWorker, Get,
         SendNotify, UpdatePodStatus, HandleErr, Done, Quit, Stop, vars, workerVars

(* However many actions time out, the goroutines beside the one the worker *)
(* waits for are at most as many as the actions it gave up: retries after  *)
(* failures, recreated pods and stale copies start none side by side.      *)
THEOREM GivenUpOnly == Spec => []OverlapBounded
<1>1. Init => OverlapBounded
  <2> SUFFICES ASSUME Init PROVE OverlapBounded
    OBVIOUS
  <2>1. Unmet = {} /\ timeouts = 0 /\ wpc = "sync"
    BY DEF Init, Unmet
  <2>2. QED
    BY <2>1, FS_EmptySet DEF OverlapBounded
<1>2. QueueInv /\ QueueInv' /\ ActionInv /\ OverlapBounded /\ [Next]_vars => OverlapBounded'
  BY NextOverlap
<1>3. QED
  BY <1>1, <1>2, InitQueue, NextQueue, PTL DEF Spec

-----------------------------------------------------------------------------
(* No run after success.  If no action takes longer than the worker waits, *)
(* the only one under way is the one it waits for.  A pod nobody else      *)
(* writes to has two versions at most, the created one and the finished    *)
(* one, so its key is queued for one reason at a time: one delivery or one *)
(* requeue.                                                                *)

ParallelInv ==
  \A i \in DOMAIN actions : actions[i].state # "met" => i = Current /\ wpc = "wait"

LEMMA NextParallel ==
  ASSUME MaxTimeouts = 0, QueueInv, ActionInv, ParallelInv, [Next]_vars
  PROVE  ParallelInv'
<1> SUFFICES ASSUME NEW i \in DOMAIN actions', actions'[i].state # "met"
             PROVE  i = Current' /\ wpc' = "wait"
  BY DEF ParallelInv
<1>0. actions \in Seq(Action) /\ \A k \in DOMAIN actions : actions[k] \in Action
  BY ActionTypes DEF QueueInv
<1>1. CASE UNCHANGED actions
  <2>1. i = Current /\ wpc = "wait"
    BY <1>1 DEF ParallelInv
  <2>2. ~Timeout
    BY DEF Timeout, QueueInv, TypeOK
  <2>3. ~Meet
    <3>1. Current \in DOMAIN actions /\ actions[Current] \in Action
      BY <1>0, <1>1, <2>1
    <3>2. [actions EXCEPT ![Current].state = "met"] = actions => actions[Current].state = "met"
      BY <3>1 DEF Action
    <3>3. QED
      BY <1>1, <3>2 DEF Meet
  <2>4. wpc' = wpc
    BY <1>1, <2>1, <2>2, <2>3
       DEF Next, Worker, Create, Modify, Delete, Others, Deliver, Requeue, StartWorker, Get,
           SendNotify, AppCommand, UpdatePodStatus, HandleErr, Done, Quit, Stop,
           vars, workerVars
  <2>5. QED
    BY <1>1, <2>1, <2>4 DEF Current
<1>2. CASE SendNotify /\ ~Skipped(cur)
  <2> DEFINE new == [pod |-> cur, copy |-> cache[cur], pos |-> 1, state |-> "run", ok |-> TRUE]
  <2>1. actions' = Append(actions, new) /\ wpc' = "wait" /\ wpc # "wait"
    BY <1>2 DEF SendNotify, AfterStart
  <2> HIDE DEF new, Action
  <2>2. /\ Len(actions') = Len(actions) + 1
        /\ i = Len(actions') \/ (i \in DOMAIN actions /\ actions'[i] = actions[i])
    BY <1>0, <2>1
  <2>3. QED
    BY <2>1, <2>2 DEF ParallelInv, Current
<1>3. CASE Meet
  <2>1. DOMAIN actions' = DOMAIN actions
    BY <1>3 DEF Meet
  <2>2. CASE i = Current
    BY <1>0, <1>3, <2>1, <2>2 DEF Meet, Action
  <2>3. CASE i # Current
    BY <1>3, <2>1, <2>3 DEF Meet, ParallelInv
  <2>4. QED
    BY <2>2, <2>3
<1>4. ASSUME NEW j \in DOMAIN actions, AppCommand(j)
      PROVE  i = Current' /\ wpc' = "wait"
  <2>1. PICK ok \in BOOLEAN : actions' = [actions EXCEPT ![j] = Result(actions[j], ok)]
    BY <1>4 DEF AppCommand
  <2>2. DOMAIN actions' = DOMAIN actions /\ wpc' = wpc
    BY <1>4, <2>1 DEF AppCommand, workerVars
  <2>3. Current' = Current
    <3> HIDE DEF Action
    <3>1. Result(actions[j], ok) \in Action
      <4>1. CASE ok
        <5>1. actions[j].pos <= Containers
          BY <1>4 DEF AppCommand, ActionInv
        <5>2. actions[j].pos \in 1..Containers + 1 /\ Containers \in Nat
          BY <1>0, PodAssumption DEF Action
        <5>3. actions[j].pos + 1 \in 1..Containers + 1
          BY <5>1, <5>2
        <5>4. QED
          BY <1>0, <4>1, <5>3 DEF Result, Action
      <4>2. CASE ~ok
        BY <1>0, <4>2 DEF Result, Action
      <4>3. QED
        BY <4>1, <4>2
    <3>2. QED
      BY <1>0, <2>1, <3>1 DEF Current
  <2>4. actions[i].state # "met"
    BY <1>4, <2>1, <2>2 DEF AppCommand
  <2>5. QED
    BY <2>2, <2>3, <2>4 DEF ParallelInv
<1>5. QED
  BY <1>1, <1>2, <1>3, <1>4
     DEF Next, Worker, Create, Modify, Delete, Others, Deliver, Requeue, StartWorker, Get,
         SendNotify, Timeout, UpdatePodStatus, HandleErr, Done, Quit, Stop, vars

(* The key of p is being processed and may still be requeued.              *)
Held(p) == cur = p /\ wpc \in {"lookup", "wait", "update", "handle"}

(* The watch is one version behind at most, and before the first one is    *)
(* delivered nothing is known of the pod.                                  *)
WatchInv(p) ==
  /\ watch[p] = <<>> \/ (server[p] # None /\ watch[p] = <<server[p]>>)
  /\ server[p] = None \/ (server[p].phase = "Pending" /\ watch[p] # <<>>) =>
       cache[p] = None /\ p \notin dirty /\ p \notin delayed /\ cur # p

(* While the pod is pending its key is in one place.                       *)
TokenInv(p) ==
  server[p] # None /\ server[p].phase = "Pending" =>
    /\ ~(p \in dirty /\ p \in delayed)
    /\ Held(p) => p \notin dirty /\ p \notin delayed

(* Once it has succeeded nothing is run for it, and as long as the         *)
(* informer's copy is pending its key is nowhere but in handleErr.         *)
SettledInv(p) ==
  server[p] # None /\ server[p].phase = "Succeeded" =>
    /\ ~(cur = p /\ wpc \in {"wait", "update"})
    /\ cache[p] # None /\ cache[p].phase = "Pending" =>
         /\ p \notin dirty /\ p \notin delayed
         /\ Held(p) => wpc = "handle" /\ ~err

PodInv(p) == WatchInv(p) /\ TokenInv(p) /\ SettledInv(p)

(* What the server has under the version of a pending copy is pending.     *)
StillPending(p, copy) ==
  /\ copy.ver <= version
  /\ server[p] # None /\ server[p].ver = copy.ver => server[p].phase = "Pending"

VersionInv ==
  /\ \A p \in Pods : cache[p] # None /\ cache[p].phase = "Pending" => StillPending(p, cache[p])
  /\ \A p \in Pods : server[p] # None => server[p].ver <= version
  /\ wpc \in {"wait", "update"} => StillPending(cur, actions[Current].copy)

OnceInv == VersionInv /\ \A p \in Pods : PodInv(p)

(* Copies have versions, and the worker that waits has a key.              *)
LEMMA CopyTypes ==
  ASSUME QueueInv, ActionInv
  PROVE  /\ \A p \in Pods : cache[p] # None => cache[p] \in Pod /\ cache[p].ver \in Nat
         /\ \A p \in Pods : server[p] # None => server[p] \in Pod /\ server[p].ver \in Nat
         /\ version \in Nat
         /\ wpc \in {"lookup", "wait", "update", "handle", "done"} => cur \in Pods
         /\ wpc \in {"wait", "update"} =>
              /\ Current \in DOMAIN actions
              /\ actions[Current].copy \in Pod /\ actions[Current].copy.ver \in Nat
<1>1. wpc \in {"lookup", "wait", "update", "handle", "done"} => cur \in Pods
  BY DEF QueueInv, TypeOK
<1>2. wpc \in {"wait", "update"} =>
        Current \in DOMAIN actions /\ actions[Current] \in Action
  BY ActionTypes DEF QueueInv, ActionInv
<1>3. QED
  BY <1>1, <1>2 DEF QueueInv, TypeOK, Pod, Action

(* A pod is created under a version nobody has seen.                       *)
LEMMA CreateOnce ==
  ASSUME QueueInv, ActionInv, OnceInv, NEW q \in Pods, Create(q)
  PROVE  OnceInv'
<1> DEFINE pod == [uid |-> version + 1, ver |-> version + 1, phase |-> "Pending"]
<1>1. /\ UNCHANGED <<cache, dirty, delayed, cur, wpc, err, actions>>
      /\ server[q] = None /\ server'[q] = pod
      /\ version \in Nat /\ version' = version + 1
      /\ \A p \in Pods : p # q => server'[p] = server[p] /\ watch'[p] = watch[p]
      /\ watch'[q] = Append(watch[q], pod)
  BY DEF Create, Others, Write, queueVars, workerVars, QueueInv, TypeOK
<1>2. watch[q] = <<>> /\ cache[q] = None /\ q \notin dirty /\ q \notin delayed /\ cur # q
  BY <1>1 DEF OnceInv, PodInv, WatchInv
<1>3. watch'[q] = <<pod>> /\ pod # None
  <2>1. Append(<<>>, pod) = <<pod>>
    OBVIOUS
  <2>2. pod \in Pod
    BY <1>1 DEF Pod
  <2>3. pod # None
    BY <2>2, NoPodAssumption
  <2>4. QED
    BY <1>1, <1>2, <2>1, <2>3
<1>4. PodInv(q)'
  BY <1>1, <1>2, <1>3 DEF PodInv, WatchInv, TokenInv, SettledInv, Held
<1>5. \A p \in Pods : p # q => PodInv(p)'
  BY <1>1 DEF OnceInv, PodInv, WatchInv, TokenInv, SettledInv, Held
<1>6. VersionInv'
  <2>1. ASSUME NEW p \in Pods, p # q, server[p] # None PROVE server'[p].ver <= version'
    BY <1>1, <2>1, CopyTypes DEF OnceInv, VersionInv
  <2>2. ASSUME NEW p \in Pods, p # q, cache[p] # None, cache[p].phase = "Pending"
        PROVE  StillPending(p, cache[p])'
    <3>1. StillPending(p, cache[p])
      BY <2>2 DEF OnceInv, VersionInv
    <3>2. QED
      BY <1>1, <2>2, <3>1, CopyTypes DEF StillPending
  <2>3. ASSUME wpc \in {"wait", "update"} PROVE StillPending(cur, actions[Current].copy)'
    <3>1. StillPending(cur, actions[Current].copy) /\ cur \in Pods /\ cur # q
      BY <1>2, <2>3, CopyTypes DEF OnceInv, VersionInv
    <3>2. QED
      BY <1>1, <2>3, <3>1, CopyTypes DEF StillPending, Current
  <2>4. QED
    BY <1>1, <1>2, <2>1, <2>2, <2>3 DEF VersionInv
<1>7. QED
  BY <1>4, <1>5, <1>6 DEF OnceInv

(* Where neither server nor copies change, only a new action counts.       *)
LEMMA VersionKeeps ==
  ASSUME VersionInv, UNCHANGED <<server, version, cache>>,
         wpc' \in {"wait", "update"} => StillPending(cur, actions[Current].copy)'
  PROVE  VersionInv'
BY DEF VersionInv, StillPending

(* The first version brings the key in, the second makes the copy final.   *)
LEMMA DeliverOnce ==
  ASSUME QueueInv, ActionInv, OnceInv, NEW q \in Pods, Deliver(q)
  PROVE  OnceInv'
<1>1. /\ UNCHANGED <<server, version, delayed, cur, wpc, err, actions>>
      /\ watch[q] # <<>>
      /\ \A p \in Pods : p # q => cache'[p] = cache[p] /\ watch'[p] = watch[p]
      /\ cache'[q] = Head(watch[q]) /\ watch'[q] = Tail(watch[q])
      /\ dirty' = dirty \/ dirty' = dirty \cup {q}
  BY DEF Deliver, Notify, Add, apiVars, workerVars, QueueInv, TypeOK
<1>2. watch[q] = <<server[q]>> /\ server[q] # None
  BY <1>1 DEF OnceInv, PodInv, WatchInv
<1>3. cache'[q] = server[q] /\ watch'[q] = <<>>
  BY <1>1, <1>2
<1>4. PodInv(q)'
  <2>1. WatchInv(q)'
    BY <1>1, <1>2, <1>3 DEF WatchInv
  <2>2. TokenInv(q)'
    BY <1>1, <1>2 DEF OnceInv, PodInv, WatchInv, TokenInv, Held
  <2>3. SettledInv(q)'
    BY <1>1, <1>3 DEF OnceInv, PodInv, SettledInv
  <2>4. QED
    BY <2>1, <2>2, <2>3 DEF PodInv
<1>5. \A p \in Pods : p # q => PodInv(p)'
  BY <1>1 DEF OnceInv, PodInv, WatchInv, TokenInv, SettledInv, Held
<1>6. VersionInv'
  <2>1. server[q].ver <= version
    BY <1>2 DEF OnceInv, VersionInv
  <2>2. ASSUME NEW p \in Pods, cache'[p] # None, cache'[p].phase = "Pending"
        PROVE  StillPending(p, cache[p])'
    <3>1. CASE p = q
      BY <1>1, <1>3, <2>1, <2>2, <3>1 DEF StillPending
    <3>2. CASE p # q
      BY <1>1, <2>2, <3>2 DEF OnceInv, VersionInv, StillPending
    <3>3. QED
      BY <3>1, <3>2
  <2>3. wpc' \in {"wait", "update"} => StillPending(cur, actions[Current].copy)'
    BY <1>1 DEF OnceInv, VersionInv, StillPending, Current
  <2>4. QED
    BY <1>1, <2>2, <2>3 DEF OnceInv, VersionInv
<1>7. QED
  BY <1>4, <1>5, <1>6 DEF OnceInv

LEMMA RequeueOnce ==
  ASSUME QueueInv, ActionInv, OnceInv, NEW q \in Pods, Requeue(q)
  PROVE  OnceInv'
<1>1. /\ UNCHANGED <<server, watch, cache, version, cur, wpc, err, actions>>
      /\ q \in delayed /\ delayed' = delayed \ {q}
      /\ dirty' = dirty \/ dirty' = dirty \cup {q}
  BY DEF Requeue, Add, apiVars, workerVars
<1>2. PodInv(q)'
  BY <1>1 DEF OnceInv, PodInv, WatchInv, TokenInv, SettledInv, Held
<1>3. \A p \in Pods : p # q => PodInv(p)'
  BY <1>1 DEF OnceInv, PodInv, WatchInv, TokenInv, SettledInv, Held
<1>4. VersionInv'
  BY <1>1 DEF OnceInv, VersionInv, StillPending, Current
<1>5. QED
  BY <1>2, <1>3, <1>4 DEF OnceInv

LEMMA GetOnce ==
  ASSUME QueueInv, ActionInv, OnceInv, Get
  PROVE  OnceInv'
<1>1. PICK h \in dirty : h = Head(queue)
  <2>1. queue \in Seq(Pods) /\ IsInjective(queue) /\ queue # <<>>
    BY DEF Get, QueueInv, TypeOK
  <2>2. Head(queue) \in Range(queue)
    BY <2>1, TailDistinct
  <2>3. QED
    BY <2>2 DEF QueueInv
<1>2. /\ UNCHANGED <<server, watch, cache, version, delayed, err, actions>>
      /\ cur = None /\ cur' = h /\ dirty' = dirty \ {h} /\ wpc' = "lookup" /\ h \in Pods
  BY <1>1 DEF Get, apiVars, QueueInv, TypeOK
<1>3. PodInv(h)'
  BY <1>1, <1>2 DEF OnceInv, PodInv, WatchInv, TokenInv, SettledInv, Held
<1>4. \A p \in Pods : p # h => PodInv(p)'
  BY <1>2, PodAssumption DEF OnceInv, PodInv, WatchInv, TokenInv, SettledInv, Held
<1>5. VersionInv'
  BY <1>2, VersionKeeps DEF OnceInv
<1>6. QED
  BY <1>3, <1>4, <1>5 DEF OnceInv

(* An action starts for a pending copy, so its pod has not succeeded.      *)
LEMMA SendNotifyOnce ==
  ASSUME QueueInv, ActionInv, OnceInv, SendNotify
  PROVE  OnceInv'
<1>1. /\ UNCHANGED <<server, watch, cache, version, dirty, delayed, cur>>
      /\ wpc = "lookup" /\ cur \in Pods
  BY CopyTypes DEF SendNotify, apiVars, queueVars
<1>2. CASE Skipped(cur)
  <2>1. wpc' = "handle" /\ err' = FALSE /\ UNCHANGED actions
    BY <1>2 DEF SendNotify
  <2>2. VersionInv'
    BY <1>1, <2>1, VersionKeeps DEF OnceInv
  <2>3. \A p \in Pods : PodInv(p)'
    BY <1>1, <2>1 DEF OnceInv, PodInv, WatchInv, TokenInv, SettledInv, Held
  <2>4. QED
    BY <2>2, <2>3 DEF OnceInv
<1>3. CASE ~Skipped(cur)
  <2>1. /\ wpc' = "wait" /\ UNCHANGED err
        /\ actions' = Append(actions,
             [pod |-> cur, copy |-> cache[cur], pos |-> 1, state |-> "run", ok |-> TRUE])
    BY <1>3 DEF SendNotify, AfterStart
  <2>2. cache[cur] # None /\ cache[cur].phase = "Pending"
    BY <1>3 DEF Skipped
  <2>3. actions'[Current'].copy = cache[cur]
    <3>1. actions \in Seq(Action)
      BY ActionTypes DEF QueueInv
    <3> HIDE DEF Action
    <3>2. QED
      BY <2>1, <3>1 DEF Current
  <2>4. VersionInv'
    <3>1. StillPending(cur, cache[cur])
      BY <1>1, <2>2 DEF OnceInv, VersionInv
    <3>2. StillPending(cur, actions[Current].copy)'
      BY <1>1, <2>3, <3>1 DEF StillPending
    <3>3. QED
      BY <1>1, <3>2, VersionKeeps DEF OnceInv
  <2>5. PodInv(cur)
    BY <1>1 DEF OnceInv
  <2>6. ~(server[cur] # None /\ server[cur].phase = "Succeeded")
    BY <1>1, <2>2, <2>5 DEF PodInv, SettledInv, Held
  <2>7. ASSUME NEW p \in Pods PROVE PodInv(p)'
    <3>1. PodInv(p)
      BY DEF OnceInv
    <3>2. WatchInv(p)' /\ TokenInv(p)'
      BY <1>1, <2>1, <3>1 DEF PodInv, WatchInv, TokenInv, Held
    <3>3. SettledInv(p)'
      BY <1>1, <2>1, <2>6, <3>1 DEF PodInv, SettledInv, Held
    <3>4. QED
      BY <3>2, <3>3 DEF PodInv
  <2>8. QED
    BY <2>4, <2>7 DEF OnceInv
<1>4. QED
  BY <1>2, <1>3

(* An error of a pod that has succeeded would have queued it again.        *)
LEMMA HandleErrOnce ==
  ASSUME QueueInv, ActionInv, OnceInv, HandleErr
  PROVE  OnceInv'
<1>1. /\ UNCHANGED <<server, watch, cache, version, dirty, cur, err, actions>>
      /\ wpc = "handle" /\ wpc' = "done"
      /\ delayed' = delayed \/ (err /\ delayed' = delayed \cup {cur})
  BY DEF HandleErr, apiVars
<1>2. ASSUME NEW p \in Pods PROVE PodInv(p)'
  <2>1. PodInv(p) /\ (p \in delayed' => p \in delayed \/ (err /\ p = cur))
    BY <1>1 DEF OnceInv
  <2>2. WatchInv(p)'
    BY <1>1, <2>1 DEF PodInv, WatchInv
  <2>3. TokenInv(p)'
    BY <1>1, <2>1 DEF PodInv, TokenInv, Held
  <2>4. SettledInv(p)'
    BY <1>1, <2>1 DEF PodInv, SettledInv, Held
  <2>5. QED
    BY <2>2, <2>3, <2>4 DEF PodInv
<1>3. VersionInv'
  BY <1>1, VersionKeeps DEF OnceInv
<1>4. QED
  BY <1>2, <1>3 DEF OnceInv


(* A success is written for a version that was pending, so nothing but the *)
(* worker had the key, and the error it keeps is none.                     *)
LEMMA UpdateOnce ==
  ASSUME QueueInv, ActionInv, OnceInv, UpdatePodStatus
  PROVE  OnceInv'
<1> DEFINE a == actions[Current]
<1>0. PICK phase \in {"Succeeded", "Failed"} :
        phase = (IF a.ok THEN "Succeeded" ELSE "Failed")
  OBVIOUS
<1> DEFINE pod == [a.copy EXCEPT !.ver = version + 1, !.phase = phase]
<1>1. /\ UNCHANGED <<cache, dirty, delayed, cur, actions>>
      /\ wpc = "update" /\ wpc' = "handle" /\ err' = ~a.ok /\ cur \in Pods
      /\ a.copy \in Pod /\ version \in Nat
  BY CopyTypes DEF UpdatePodStatus, queueVars
<1>2. CASE UNCHANGED <<server, watch, version>>
  <2>1. VersionInv'
    BY <1>1, <1>2, VersionKeeps DEF OnceInv
  <2>2. ASSUME NEW p \in Pods PROVE PodInv(p)'
    <3>1. PodInv(p)
      BY DEF OnceInv
    <3>2. WatchInv(p)' /\ TokenInv(p)'
      BY <1>1, <1>2, <3>1 DEF PodInv, WatchInv, TokenInv, Held
    <3>3. SettledInv(p)'
      BY <1>1, <1>2, <3>1 DEF PodInv, SettledInv, Held
    <3>4. QED
      BY <3>2, <3>3 DEF PodInv
  <2>3. QED
    BY <2>1, <2>2 DEF OnceInv
<1>3. CASE Accepted(a.copy) /\ Write(cur, pod)
  <2>0. PICK q \in Pods : q = cur
    BY <1>1
  <2>1. /\ pod \in Pod /\ pod # None /\ pod.ver = version + 1
        /\ pod.phase = phase
    <3>1. pod \in Pod
      <4>1. a.copy \in Pod /\ version + 1 \in Nat
        BY <1>1
      <4>2. QED
        BY <4>1 DEF Pod
    <3>2. pod.ver = version + 1
      BY <1>1 DEF Pod
    <3>3. pod.phase = phase
      BY <1>1 DEF Pod
    <3>4. QED
      BY <3>1, <3>2, <3>3, NoPodAssumption
  <2> HIDE DEF pod
  <2>2. /\ version' = version + 1 /\ server'[q] = pod
        /\ watch'[q] = Append(watch[q], pod)
        /\ \A p \in Pods : p # q => server'[p] = server[p] /\ watch'[p] = watch[p]
    BY <1>1, <2>0, <1>3 DEF Write, QueueInv, TypeOK
  <2>3. server[q] # None /\ server[q].phase = "Pending" /\ PodInv(q)
    BY <1>1, <2>0, <1>3 DEF OnceInv, VersionInv, StillPending, Accepted
  <2>4. watch[q] = <<>> /\ q \notin dirty /\ q \notin delayed
    BY <1>1, <2>0, <2>3 DEF PodInv, WatchInv, TokenInv, Held
  <2>5. watch'[q] = <<pod>>
    <3>1. Append(<<>>, pod) = <<pod>>
      OBVIOUS
    <3>2. QED
      BY <2>2, <2>4, <3>1
  <2>6. PodInv(q)'
    <3>1. WatchInv(q)' /\ TokenInv(q)'
      BY <1>0, <1>1, <2>0, <2>1, <2>2, <2>5 DEF WatchInv, TokenInv
    <3>2. pod.phase = "Succeeded" => a.ok
      BY <1>0, <2>1
    <3>3. SettledInv(q)'
      BY <1>1, <2>0, <2>2, <2>4, <3>2 DEF SettledInv, Held
    <3>4. QED
      BY <3>1, <3>3 DEF PodInv
  <2>7. ASSUME NEW p \in Pods, p # q PROVE PodInv(p)'
    <3>1. PodInv(p)
      BY DEF OnceInv
    <3>2. WatchInv(p)' /\ TokenInv(p)'
      BY <1>1, <2>0, <2>2, <2>7, <3>1 DEF PodInv, WatchInv, TokenInv, Held
    <3>3. SettledInv(p)'
      BY <1>1, <2>0, <2>2, <2>7, <3>1 DEF PodInv, SettledInv, Held
    <3>4. QED
      BY <3>2, <3>3 DEF PodInv
  <2>8. VersionInv'
    <3>1. ASSUME NEW p \in Pods, server'[p] # None PROVE server'[p].ver <= version'
      <4>1. CASE p = q
        BY <1>1, <2>0, <2>1, <2>2, <4>1
      <4>2. CASE p # q
        BY <1>1, <2>0, <2>2, <3>1, <4>2, CopyTypes DEF OnceInv, VersionInv
      <4>3. QED
        BY <4>1, <4>2
    <3>2. ASSUME NEW p \in Pods, cache[p] # None, cache[p].phase = "Pending"
          PROVE  StillPending(p, cache[p])'
      <4>1. StillPending(p, cache[p]) /\ cache[p].ver \in Nat
        BY <3>2, CopyTypes DEF OnceInv, VersionInv
      <4>2. CASE p = q
        BY <1>1, <2>0, <2>1, <2>2, <4>1, <4>2 DEF StillPending
      <4>3. CASE p # q
        BY <1>1, <2>0, <2>2, <4>1, <4>3 DEF StillPending
      <4>4. QED
        BY <4>2, <4>3
    <3>3. QED
      BY <1>1, <2>0, <3>1, <3>2 DEF VersionInv
  <2>9. QED
    BY <2>6, <2>7, <2>8 DEF OnceInv
<1>4. QED
  BY <1>0, <1>2, <1>3 DEF UpdatePodStatus

(* Changing an action keeps their number.                                  *)
LEMMA SameLength ==
  ASSUME TypeOK, NEW i, NEW a, actions' = [actions EXCEPT ![i] = a]
  PROVE  Current' = Current
<1>1. actions \in Seq(Action)
  BY ActionTypes
<1> HIDE DEF Action
<1>2. DOMAIN actions' = DOMAIN actions
  OBVIOUS
<1>3. QED
  BY <1>1, <1>2 DEF Current

(* The other steps leave pods and keys alone.                              *)
LEMMA OtherOnce ==
  ASSUME MaxTimeouts = 0, QueueInv, ActionInv, OnceInv,
         \/ Done \/ Meet \/ Timeout \/ StartWorker \/ Quit \/ Stop \/ UNCHANGED vars
         \/ \E i \in DOMAIN actions : AppCommand(i)
  PROVE  OnceInv'
<1>1. ~Timeout
  BY DEF Timeout, QueueInv, TypeOK
<1>2. /\ UNCHANGED <<server, watch, version, cache, dirty, delayed, err>>
      /\ \/ UNCHANGED <<wpc, cur>>
         \/ wpc' \notin {"lookup", "wait", "update", "handle"} /\ cur' \in {cur, None}
         \/ wpc = "wait" /\ wpc' = "update" /\ cur' = cur
  BY <1>1 DEF Done, Meet, StartWorker, Quit, Stop, AppCommand, vars, apiVars, queueVars,
              workerVars
<1>3. ASSUME NEW p \in Pods PROVE PodInv(p)'
  <2>1. PodInv(p) /\ (cur' = p => cur = p) /\ (Held(p)' => Held(p) /\ (wpc = "handle" => wpc' = "handle"))
    BY <1>2, PodAssumption DEF OnceInv, Held
  <2>2. QED
    BY <1>2, <2>1 DEF PodInv, WatchInv, TokenInv, SettledInv
<1>4. VersionInv'
  <2>1. ASSUME wpc' \in {"wait", "update"}
        PROVE  /\ wpc \in {"wait", "update"} /\ cur' = cur
               /\ actions'[Current'].copy = actions[Current].copy
    <3>1. wpc \in {"wait", "update"} /\ cur' = cur
      BY <1>2, <2>1
    <3>2. Current \in DOMAIN actions
      BY <3>1, CopyTypes
    <3>3. Current' = Current
      <4>1. CASE UNCHANGED actions
        BY <4>1 DEF Current
      <4>2. CASE Meet
        <5>1. actions' = [actions EXCEPT ![Current] = [actions[Current] EXCEPT !.state = "met"]]
          BY <4>2 DEF Meet
        <5>2. QED
          BY <5>1, SameLength DEF QueueInv
      <4>3. ASSUME NEW i \in DOMAIN actions, AppCommand(i) PROVE Current' = Current
        <5>1. PICK a : actions' = [actions EXCEPT ![i] = a]
          BY <4>3 DEF AppCommand
        <5>2. QED
          BY <5>1, SameLength DEF QueueInv
      <4>4. QED
        BY <1>1, <4>1, <4>2, <4>3 DEF Done, StartWorker, Quit, Stop, vars
    <3>4. actions'[Current].copy = actions[Current].copy
      BY <3>2, LogGrows DEF Next, Worker
    <3>5. QED
      BY <3>1, <3>3, <3>4
  <2>2. wpc' \in {"wait", "update"} => StillPending(cur, actions[Current].copy)'
    BY <1>2, <2>1 DEF OnceInv, VersionInv, StillPending
  <2>3. QED
    BY <1>2, <2>2, VersionKeeps DEF OnceInv
<1>5. QED
  BY <1>3, <1>4 DEF OnceInv

(* No job is done again after the server has its success, for any number   *)
(* of pods, containers and retries, when actions do not time out and       *)
(* nobody else writes to a pod once it is created.                         *)
THEOREM NotAgain ==
  ASSUME MaxTimeouts = 0, "modify" \notin Events, "delete" \notin Events
  PROVE  Spec => []NoRunAfterSuccess
<1>1. Init => OnceInv
  <2> SUFFICES ASSUME Init PROVE OnceInv
    OBVIOUS
  <2>1. \A p \in Pods : server[p] # None =>
          server[p] = [uid |-> 0, ver |-> 0, phase |-> "Pending"]
    BY DEF Init
  <2>2. \A p \in Pods : server[p] # None => server[p].ver = 0 /\ server[p].phase = "Pending"
    BY <2>1
  <2>3. \A p \in Pods : watch[p] = IF server[p] = None THEN <<>> ELSE <<server[p]>>
    BY DEF Init
  <2>4. ASSUME NEW p \in Pods PROVE PodInv(p)
    <3>1. cache[p] = None /\ p \notin dirty /\ p \notin delayed /\ cur # p
      BY PodAssumption DEF Init
    <3>2. WatchInv(p)
      BY <2>3, <3>1 DEF WatchInv
    <3>3. TokenInv(p) /\ SettledInv(p)
      BY <2>2, <3>1 DEF TokenInv, SettledInv
    <3>4. QED
      BY <3>2, <3>3 DEF PodInv
  <2>5. VersionInv
    BY <2>2 DEF Init, VersionInv
  <2>6. QED
    BY <2>4, <2>5 DEF OnceInv
<1>2. QueueInv /\ ActionInv /\ OnceInv /\ [Next]_vars => OnceInv'
  <2> SUFFICES ASSUME QueueInv, ActionInv, OnceInv, [Next]_vars PROVE OnceInv'
    OBVIOUS
  <2>1. \A p \in Pods : ~Modify(p) /\ ~Delete(p)
    BY DEF Modify, Delete
  <2>2. QED
    BY <2>1, CreateOnce, DeliverOnce, RequeueOnce, GetOnce, SendNotifyOnce, UpdateOnce,
       HandleErrOnce, OtherOnce DEF Next, Worker
<1>3. QueueInv /\ ActionInv /\ ParallelInv /\ OnceInv => NoRunAfterSuccess
  <2> SUFFICES ASSUME ActionInv, ParallelInv, OnceInv, QueueInv, NEW i \in DOMAIN actions,
                      actions[i].state = "run", server[actions[i].pod] # None
               PROVE  server[actions[i].pod].phase # "Succeeded"
    BY DEF NoRunAfterSuccess
  <2>1. i = Current /\ wpc = "wait"
    BY DEF ParallelInv
  <2>2. actions[i].pod = cur /\ cur \in Pods
    BY <2>1, CopyTypes DEF ActionInv
  <2>3. QED
    BY <2>1, <2>2 DEF OnceInv, PodInv, SettledInv
<1>4. Init => ParallelInv
  BY DEF Init, ParallelInv
<1>5. QueueInv /\ ActionInv /\ ParallelInv /\ [Next]_vars => ParallelInv'
  BY NextParallel
<1>6. QED
  BY <1>1, <1>2, <1>3, <1>4, <1>5, InitQueue, NextQueue, PTL DEF Spec

-----------------------------------------------------------------------------
(* The controller implements PodJobs.  A version stands for one state of   *)
(* one pod: what the informer or an action holds under the version the     *)
(* server has is what the server has.                                      *)

CopyOf(p, copy) ==
  /\ copy.uid <= version /\ copy.ver <= version
  /\ server[p] # None /\ server[p].ver = copy.ver => server[p] = copy

CopyInv ==
  /\ \A p \in Pods : server[p] # None => CopyOf(p, server[p])
  /\ \A p \in Pods : \A i \in DOMAIN watch[p] : watch[p][i] # None => CopyOf(p, watch[p][i])
  /\ \A p \in Pods : cache[p] # None => CopyOf(p, cache[p])
  /\ \A i \in DOMAIN actions :
       /\ CopyOf(actions[i].pod, actions[i].copy)
       /\ actions[i].copy.phase = "Pending" /\ actions[i].pod \notin Mirror

(* A write of a new version leaves the copies of other versions as they    *)
(* are.                                                                    *)
LEMMA WriteCopies ==
  ASSUME QueueInv, CopyInv, UNCHANGED <<cache, actions>>,
         NEW q \in Pods, NEW pod \in Pod \cup {None}, Write(q, pod),
         pod # None => pod.ver = version + 1 /\ pod.uid <= version + 1
  PROVE  CopyInv'
<1>1. /\ version \in Nat /\ version' = version + 1 /\ server'[q] = pod
      /\ \A p \in Pods : p # q => server'[p] = server[p] /\ watch'[p] = watch[p]
      /\ watch'[q] = Append(watch[q], pod) /\ watch[q] \in Seq(Pod \cup {None})
  BY DEF Write, QueueInv, TypeOK
<1>2. ASSUME NEW p \in Pods, NEW copy \in Pod, CopyOf(p, copy)
      PROVE  CopyOf(p, copy)'
  <2>1. /\ copy.uid \in Nat /\ copy.ver \in Nat
        /\ copy.uid <= version /\ copy.ver <= version
    BY <1>2 DEF CopyOf, Pod
  <2>2. copy.uid <= version' /\ copy.ver <= version' /\ copy.ver # version + 1
    BY <1>1, <2>1
  <2>3. CASE p = q
    BY <1>1, <2>2, <2>3 DEF CopyOf
  <2>4. CASE p # q
    BY <1>1, <1>2, <2>2, <2>4 DEF CopyOf
  <2>5. QED
    BY <2>3, <2>4
<1>3. pod # None => CopyOf(q, pod)'
  <2> SUFFICES ASSUME pod # None PROVE CopyOf(q, pod)'
    OBVIOUS
  <2>1. pod.ver \in Nat /\ pod.uid \in Nat
    BY DEF Pod
  <2>2. QED
    BY <1>1, <2>1 DEF CopyOf
<1>4. ASSUME NEW p \in Pods, server'[p] # None PROVE CopyOf(p, server[p])'
  <2>1. CASE p = q
    BY <1>1, <1>3, <1>4, <2>1 DEF CopyOf
  <2>2. CASE p # q
    <3>1. server[p] # None /\ server[p] \in Pod /\ CopyOf(p, server[p])
      BY <1>1, <1>4, <2>2 DEF CopyInv, QueueInv, TypeOK
    <3>2. QED
      BY <1>1, <1>2, <2>2, <3>1 DEF CopyOf
  <2>3. QED
    BY <2>1, <2>2
<1>5. ASSUME NEW p \in Pods, NEW i \in DOMAIN watch'[p], watch'[p][i] # None
      PROVE  CopyOf(p, watch[p][i])'
  <2> DEFINE c == watch'[p][i]
  <2>1. (i \in DOMAIN watch[p] /\ c = watch[p][i]) \/ (p = q /\ c = pod)
    <3> HIDE DEF Pod
    <3>1. CASE p = q
      BY <1>1, <1>5, <3>1
    <3>2. CASE p # q
      BY <1>1, <1>5, <3>2
    <3>3. QED
      BY <3>1, <3>2
  <2>2. CASE p = q /\ c = pod
    BY <1>3, <1>5, <2>2 DEF CopyOf
  <2>3. CASE i \in DOMAIN watch[p] /\ c = watch[p][i]
    <3>1. watch[p][i] # None /\ CopyOf(p, watch[p][i])
      BY <1>5, <2>3 DEF CopyInv
    <3>2. watch[p][i] \in Pod
      <4>1. watch[p] \in Seq(Pod \cup {None})
        BY DEF QueueInv, TypeOK
      <4> HIDE DEF Pod
      <4>2. QED
        BY <2>3, <3>1, <4>1
    <3>3. CopyOf(p, watch[p][i]) => (watch[p][i].uid <= version' /\ watch[p][i].ver <= version'
            /\ (server'[p] # None /\ server'[p].ver = watch[p][i].ver => server'[p] = watch[p][i]))
      BY <1>2, <3>2 DEF CopyOf
    <3>4. QED
      BY <2>3, <3>1, <3>3 DEF CopyOf
  <2>4. QED
    BY <2>1, <2>2, <2>3
<1>6. ASSUME NEW p \in Pods, cache'[p] # None PROVE CopyOf(p, cache[p])'
  <2>1. cache'[p] = cache[p] /\ cache[p] \in Pod /\ CopyOf(p, cache[p])
    BY <1>6 DEF CopyInv, QueueInv, TypeOK
  <2>2. QED
    BY <1>2, <2>1 DEF CopyOf
<1>7. ASSUME NEW i \in DOMAIN actions
      PROVE  /\ CopyOf(actions[i].pod, actions[i].copy)'
             /\ actions[i].copy.phase = "Pending" /\ actions[i].pod \notin Mirror
  <2>1. /\ actions[i].pod \in Pods /\ actions[i].copy \in Pod
        /\ CopyOf(actions[i].pod, actions[i].copy)
    BY ActionTypes DEF CopyInv, QueueInv, Action
  <2>2. QED
    BY <1>2, <2>1 DEF CopyInv, CopyOf
<1>8. QED
  BY <1>4, <1>5, <1>6, <1>7 DEF CopyInv

LEMMA OthersCopies ==
  ASSUME QueueInv, CopyInv, NEW q \in Pods, Create(q) \/ Modify(q) \/ Delete(q)
  PROVE  CopyInv'
<1>1. version \in Nat /\ version + 1 \in Nat
  BY DEF QueueInv, TypeOK
<1>2. CASE Create(q)
  <2> DEFINE pod == [uid |-> version + 1, ver |-> version + 1, phase |-> "Pending"]
  <2>1. pod \in Pod /\ pod.ver = version + 1 /\ pod.uid <= version + 1
    BY <1>1 DEF Pod
  <2>2. Write(q, pod) /\ UNCHANGED <<cache, actions>>
    BY <1>2 DEF Create, Others
  <2> HIDE DEF pod
  <2>3. QED
    BY <2>1, <2>2, WriteCopies
<1>3. CASE Modify(q)
  <2> DEFINE pod == [server[q] EXCEPT !.ver = version + 1]
  <2>1. server[q] \in Pod /\ server[q].uid <= version /\ server[q].uid \in Nat
    BY <1>3 DEF Modify, CopyInv, CopyOf, QueueInv, TypeOK, Pod
  <2>2. pod \in Pod /\ pod.ver = version + 1 /\ pod.uid <= version + 1
    BY <1>1, <2>1 DEF Pod
  <2>3. Write(q, pod) /\ UNCHANGED <<cache, actions>>
    BY <1>3 DEF Modify, Others
  <2> HIDE DEF pod
  <2>4. QED
    BY <2>2, <2>3, WriteCopies
<1>4. CASE Delete(q)
  BY <1>4, WriteCopies DEF Delete, Others
<1>5. QED
  BY <1>2, <1>3, <1>4

(* An accepted update goes to the very copy the action was started for.    *)
LEMMA AcceptedPending ==
  ASSUME QueueInv, ActionInv, CopyInv, wpc = "update", Accepted(actions[Current].copy)
  PROVE  /\ Current \in DOMAIN actions /\ actions[Current] \in Action
         /\ cur \in Pods /\ actions[Current].pod = cur
         /\ server[cur] \in Pod /\ server[cur] # None
         /\ server[cur] = actions[Current].copy /\ server[cur].phase = "Pending"
<1>1. Current \in DOMAIN actions /\ actions[Current] \in Action /\ actions[Current].pod = cur
  BY ActionTypes DEF QueueInv, ActionInv
<1>2. cur \in Pods
  BY <1>1 DEF Action
<1>3. server[cur] = actions[Current].copy /\ server[cur] # None
  BY <1>1 DEF CopyInv, CopyOf, Accepted
<1>4. actions[Current].copy.phase = "Pending"
  BY <1>1 DEF CopyInv
<1>5. QED
  BY <1>1, <1>2, <1>3, <1>4 DEF QueueInv, TypeOK

LEMMA UpdateCopies ==
  ASSUME QueueInv, ActionInv, CopyInv, UpdatePodStatus
  PROVE  CopyInv'
<1>0. UNCHANGED <<cache, actions>>
  BY DEF UpdatePodStatus
<1>1. CASE UNCHANGED <<server, watch, version>>
  BY <1>0, <1>1 DEF CopyInv, CopyOf
<1>2. ASSUME Accepted(actions[Current].copy), NEW phase \in {"Succeeded", "Failed"},
             Write(cur, [actions[Current].copy EXCEPT !.ver = version + 1, !.phase = phase])
      PROVE  CopyInv'
  <2> DEFINE pod == [actions[Current].copy EXCEPT !.ver = version + 1, !.phase = phase]
  <2>1. cur \in Pods /\ server[cur] \in Pod /\ server[cur] # None /\ server[cur] = actions[Current].copy
    BY <1>2, AcceptedPending DEF UpdatePodStatus
  <2>2. version \in Nat /\ server[cur].uid <= version /\ server[cur].uid \in Nat
    BY <2>1 DEF CopyInv, CopyOf, QueueInv, TypeOK, Pod
  <2>3. pod.ver = version + 1 /\ pod.uid = server[cur].uid
    BY <2>1 DEF Pod
  <2>4. pod \in Pod
    <3>1. version + 1 \in Nat
      BY <2>2
    <3>2. QED
      BY <2>1, <3>1 DEF Pod
  <2>5. pod.uid <= version + 1
    BY <2>2, <2>3
  <2> HIDE DEF pod
  <2>6. Write(cur, pod)
    BY <1>2 DEF pod
  <2>7. QED
    BY <1>0, <2>1, <2>3, <2>4, <2>5, <2>6, WriteCopies
<1>3. QED
  BY <1>1, <1>2 DEF UpdatePodStatus

LEMMA DeliverCopies ==
  ASSUME QueueInv, CopyInv, NEW q \in Pods, Deliver(q)
  PROVE  CopyInv'
<1>1. /\ UNCHANGED <<server, version, actions>> /\ watch[q] # <<>>
      /\ watch[q] \in Seq(Pod \cup {None})
      /\ \A p \in Pods : p # q => cache'[p] = cache[p] /\ watch'[p] = watch[p]
      /\ cache'[q] = Head(watch[q]) /\ watch'[q] = Tail(watch[q])
  BY DEF Deliver, apiVars, QueueInv, TypeOK
<1>2. /\ 1 \in DOMAIN watch[q] /\ cache'[q] = watch[q][1]
      /\ \A i \in DOMAIN watch'[q] : i + 1 \in DOMAIN watch[q] /\ watch'[q][i] = watch[q][i + 1]
  <2> HIDE DEF Pod
  <2>1. QED
    BY <1>1
<1>3. ASSUME NEW p \in Pods, NEW i \in DOMAIN watch'[p], watch'[p][i] # None
      PROVE  CopyOf(p, watch[p][i])'
  <2>1. CASE p = q
    BY <1>1, <1>2, <1>3, <2>1 DEF CopyInv, CopyOf
  <2>2. CASE p # q
    BY <1>1, <1>3, <2>2 DEF CopyInv, CopyOf
  <2>3. QED
    BY <2>1, <2>2
<1>4. ASSUME NEW p \in Pods, cache'[p] # None PROVE CopyOf(p, cache[p])'
  <2>1. CASE p = q
    BY <1>1, <1>2, <1>4, <2>1 DEF CopyInv, CopyOf
  <2>2. CASE p # q
    BY <1>1, <1>4, <2>2 DEF CopyInv, CopyOf
  <2>3. QED
    BY <2>1, <2>2
<1>5. QED
  BY <1>1, <1>3, <1>4 DEF CopyInv, CopyOf

(* An action is started from the informer's copy, pending and not mirrored.*)
LEMMA SendNotifyCopies ==
  ASSUME QueueInv, ActionInv, CopyInv, SendNotify
  PROVE  CopyInv'
<1>1. UNCHANGED <<server, watch, cache, version>>
  BY DEF SendNotify, apiVars
<1>2. CASE UNCHANGED actions
  BY <1>1, <1>2 DEF CopyInv, CopyOf
<1>3. CASE ~Skipped(cur)
  <2> DEFINE new == [pod |-> cur, copy |-> cache[cur], pos |-> 1, state |-> "run", ok |-> TRUE]
  <2>1. actions' = Append(actions, new) /\ actions \in Seq(Action) /\ cur \in Pods
    BY <1>3, ActionTypes DEF SendNotify, QueueInv, TypeOK
  <2>2. CopyOf(cur, cache[cur]) /\ cache[cur].phase = "Pending" /\ cur \notin Mirror
    BY <1>3, <2>1 DEF Skipped, CopyInv
  <2>3. new.pod = cur /\ new.copy = cache[cur]
    OBVIOUS
  <2> HIDE DEF new, Action
  <2>4. \A i \in DOMAIN actions' : actions'[i] = new \/ (i \in DOMAIN actions /\ actions'[i] = actions[i])
    BY <2>1
  <2>5. QED
    BY <1>1, <2>2, <2>3, <2>4 DEF CopyInv, CopyOf
<1>4. QED
  BY <1>2, <1>3 DEF SendNotify

LEMMA NextCopies == QueueInv /\ ActionInv /\ CopyInv /\ [Next]_vars => CopyInv'
<1> SUFFICES ASSUME QueueInv, ActionInv, CopyInv, [Next]_vars PROVE CopyInv'
  OBVIOUS
<1>1. CASE UNCHANGED <<server, watch, cache, version, actions>>
  BY <1>1 DEF CopyInv, CopyOf
<1>2. CASE Meet \/ \E i \in DOMAIN actions : AppCommand(i)
  <2>1. UNCHANGED <<server, watch, cache, version>> /\ DOMAIN actions' = DOMAIN actions
    BY <1>2 DEF Meet, AppCommand, apiVars
  <2>2. \A i \in DOMAIN actions' :
          actions'[i].pod = actions[i].pod /\ actions'[i].copy = actions[i].copy
    BY <2>1, LogGrows
  <2>3. QED
    BY <2>1, <2>2 DEF CopyInv, CopyOf
<1>3. QED
  BY <1>1, <1>2, OthersCopies, DeliverCopies, UpdateCopies, SendNotifyCopies
     DEF Next, Worker, Requeue, StartWorker, Get, Timeout, HandleErr, Done, Quit, Stop,
         vars, apiVars

-----------------------------------------------------------------------------
(* Steps of the jobs.                                                      *)

(* Jobs are done and refused where an action ends, and nowhere else.       *)
LEMMA SameJobs ==
  ASSUME UNCHANGED actions
  PROVE  UNCHANGED <<DoneJobs, RefusedJobs>>
BY DEF DoneJobs, RefusedJobs

LEMMA StartedJobs ==
  ASSUME QueueInv, SendNotify
  PROVE  UNCHANGED <<DoneJobs, RefusedJobs>>
<1>1. CASE UNCHANGED actions
  BY <1>1, SameJobs
<1>2. CASE ~UNCHANGED actions
  <2> DEFINE new == [pod |-> cur, copy |-> cache[cur], pos |-> 1, state |-> "run", ok |-> TRUE]
  <2>1. actions' = Append(actions, new) /\ actions \in Seq(Action)
    BY <1>2, ActionTypes DEF SendNotify, QueueInv
  <2>2. new.ok /\ ~AllAccepted(new)
    BY PodAssumption DEF AllAccepted
  <2> HIDE DEF new, Action
  <2>3. /\ \A i \in DOMAIN actions' :
             actions'[i] = new \/ (i \in DOMAIN actions /\ actions'[i] = actions[i])
        /\ \A i \in DOMAIN actions : i \in DOMAIN actions' /\ actions'[i] = actions[i]
    BY <2>1
  <2>4. DoneJobs' = DoneJobs
    BY <2>2, <2>3 DEF DoneJobs, JobOf, AllAccepted
  <2>5. RefusedJobs' = RefusedJobs
    BY <2>2, <2>3 DEF RefusedJobs, JobOf
  <2>6. QED
    BY <2>4, <2>5
<1>3. QED
  BY <1>1, <1>2

(* An action that changes adds its own job at most.                        *)
LEMMA ChangedJobs ==
  ASSUME NEW i \in DOMAIN actions, NEW a, actions' = [actions EXCEPT ![i] = a],
         JobOf(a) = JobOf(actions[i]),
         AllAccepted(actions[i]) => AllAccepted(a), ~actions[i].ok => ~a.ok
  PROVE  /\ DoneJobs' = DoneJobs \cup (IF AllAccepted(a) THEN {JobOf(a)} ELSE {})
         /\ RefusedJobs' = RefusedJobs \cup (IF ~a.ok THEN {JobOf(a)} ELSE {})
<1>1. /\ DOMAIN actions' = DOMAIN actions /\ actions'[i] = a
      /\ \A j \in DOMAIN actions : j # i => actions'[j] = actions[j]
  OBVIOUS
<1>2. ASSUME NEW j \in DOMAIN actions, j # i
      PROVE  (AllAccepted(actions[j]) <=> AllAccepted(actions[j])') /\ JobOf(actions[j])' = JobOf(actions[j])
  BY <1>1, <1>2 DEF AllAccepted, JobOf
<1>3. (AllAccepted(a) <=> AllAccepted(actions[i])') /\ JobOf(actions[i])' = JobOf(a)
  BY <1>1 DEF AllAccepted, JobOf
<1>4. DoneJobs' = DoneJobs \cup (IF AllAccepted(a) THEN {JobOf(a)} ELSE {})
  <2>1. ASSUME NEW job
        PROVE  (\E j \in DOMAIN actions' : AllAccepted(actions[j])' /\ JobOf(actions[j])' = job)
               <=> \/ \E j \in DOMAIN actions : AllAccepted(actions[j]) /\ JobOf(actions[j]) = job
                   \/ AllAccepted(a) /\ job = JobOf(a)
    BY <1>1, <1>2, <1>3
  <2>2. \A job : job \in DoneJobs'
           <=> \E j \in DOMAIN actions' : AllAccepted(actions[j])' /\ JobOf(actions[j])' = job
    BY DEF DoneJobs
  <2>3. \A job : job \in DoneJobs
           <=> \E j \in DOMAIN actions : AllAccepted(actions[j]) /\ JobOf(actions[j]) = job
    BY DEF DoneJobs
  <2>4. QED
    BY <2>1, <2>2, <2>3
<1>5. RefusedJobs' = RefusedJobs \cup (IF ~a.ok THEN {JobOf(a)} ELSE {})
  <2>1. ASSUME NEW job
        PROVE  (\E j \in DOMAIN actions' : ~actions'[j].ok /\ JobOf(actions[j])' = job)
               <=> \/ \E j \in DOMAIN actions : ~actions[j].ok /\ JobOf(actions[j]) = job
                   \/ ~a.ok /\ job = JobOf(a)
    BY <1>1, <1>2, <1>3
  <2>2. \A job : job \in RefusedJobs'
           <=> \E j \in DOMAIN actions' : ~actions'[j].ok /\ JobOf(actions[j])' = job
    BY DEF RefusedJobs
  <2>3. \A job : job \in RefusedJobs
           <=> \E j \in DOMAIN actions : ~actions[j].ok /\ JobOf(actions[j]) = job
    BY DEF RefusedJobs
  <2>4. QED
    BY <2>1, <2>2, <2>3
<1>6. QED
  BY <1>4, <1>5

LEMMA MeetJobs ==
  ASSUME QueueInv, ActionInv, Meet
  PROVE  UNCHANGED <<DoneJobs, RefusedJobs>>
<1> DEFINE a == [actions[Current] EXCEPT !.state = "met"]
<1>1. Current \in DOMAIN actions /\ actions[Current] \in Action
  BY ActionTypes DEF Meet, QueueInv, ActionInv
<1>2. /\ a.pod = actions[Current].pod /\ a.copy = actions[Current].copy
      /\ a.pos = actions[Current].pos /\ a.ok = actions[Current].ok
  BY <1>1 DEF Action
<1>3. actions' = [actions EXCEPT ![Current] = a]
  BY DEF Meet
<1> HIDE DEF a
<1>4. /\ JobOf(a) = JobOf(actions[Current])
      /\ AllAccepted(a) <=> AllAccepted(actions[Current])
  BY <1>2 DEF JobOf, AllAccepted
<1>5. /\ DoneJobs' = DoneJobs \cup (IF AllAccepted(a) THEN {JobOf(a)} ELSE {})
      /\ RefusedJobs' = RefusedJobs \cup (IF ~a.ok THEN {JobOf(a)} ELSE {})
  BY <1>1, <1>2, <1>3, <1>4, ChangedJobs
<1>6. /\ AllAccepted(a) => JobOf(a) \in DoneJobs
      /\ ~a.ok => JobOf(a) \in RefusedJobs
  BY <1>1, <1>2, <1>4 DEF DoneJobs, RefusedJobs
<1>7. QED
  BY <1>5, <1>6

(* A command finishes the job of its action, or neither.                   *)
LEMMA CommandJobs ==
  ASSUME QueueInv, ActionInv, CopyInv, NEW i \in DOMAIN actions, AppCommand(i)
  PROVE  [Jobs!Finish]_(Jobs!vars)
<1>1. /\ actions[i] \in Action /\ actions[i].pos <= Containers /\ Containers \in Nat
      /\ actions[i].pos \in Nat /\ UNCHANGED server
  BY ActionTypes, PodAssumption DEF AppCommand, apiVars, QueueInv, ActionInv, Action
<1>2. PICK ok \in BOOLEAN : actions' = [actions EXCEPT ![i] = Result(actions[i], ok)]
  BY DEF AppCommand
<1> DEFINE a == Result(actions[i], ok)
<1>3. /\ a.pod = actions[i].pod /\ a.copy = actions[i].copy
      /\ ok => a.ok = actions[i].ok
      /\ ~ok => ~a.ok
  BY <1>1 DEF Result, Action
<1>4. JobOf(a) = JobOf(actions[i]) /\ ~AllAccepted(actions[i]) /\ JobOf(a)[1] \notin Mirror
  BY <1>1, <1>3 DEF JobOf, AllAccepted, CopyInv
<1> HIDE DEF a
<1>5. actions' = [actions EXCEPT ![i] = a]
  BY <1>2 DEF a
<1>6. /\ DoneJobs' = DoneJobs \cup (IF AllAccepted(a) THEN {JobOf(a)} ELSE {})
      /\ RefusedJobs' = RefusedJobs \cup (IF ~a.ok THEN {JobOf(a)} ELSE {})
  BY <1>3, <1>4, <1>5, ChangedJobs
<1>7. [p \in Pods |-> Record(server[p])]' = [p \in Pods |-> Record(server[p])]
  BY <1>1 DEF Record
<1>8. CASE a.ok
  <2>1. RefusedJobs' = RefusedJobs
    BY <1>6, <1>8
  <2>2. CASE AllAccepted(a)
    BY <1>4, <1>6, <1>7, <2>1, <2>2 DEF Jobs!Finish
  <2>3. CASE ~AllAccepted(a)
    BY <1>6, <1>7, <2>1, <2>3 DEF Jobs!vars
  <2>4. QED
    BY <2>2, <2>3
<1>9. CASE ~a.ok
  <2>1. DoneJobs' = DoneJobs
    BY <1>6, <1>9 DEF AllAccepted
  <2>2. QED
    BY <1>4, <1>6, <1>7, <1>9, <2>1 DEF Jobs!Finish
<1>10. QED
  BY <1>8, <1>9

(* How a write of the pod q changes the picture of the pods.               *)
LEMMA WriteRecord ==
  ASSUME TypeOK, NEW q \in Pods, NEW pod, Write(q, pod)
  PROVE  [p \in Pods |-> Record(server[p])]'
           = [[p \in Pods |-> Record(server[p])] EXCEPT ![q] = Record(pod)]
<1>1. server' = [server EXCEPT ![q] = pod] /\ DOMAIN server = Pods
  BY DEF Write, TypeOK
<1>2. \A p \in Pods : Record(server'[p]) = IF p = q THEN Record(pod) ELSE Record(server[p])
  BY <1>1
<1>3. [p \in Pods |-> Record(server[p])]' = [p \in Pods |-> Record(server'[p])]
  BY DEF Record
<1>4. QED
  BY <1>2, <1>3

LEMMA OthersJobs ==
  ASSUME QueueInv, ActionInv, CopyInv, NEW q \in Pods, Create(q) \/ Modify(q) \/ Delete(q)
  PROVE  [Jobs!Appear(q) \/ Jobs!Vanish(q)]_(Jobs!vars)
<1> DEFINE old == [p \in Pods |-> Record(server[p])]
<1>0. /\ server \in [Pods -> Pod \cup {None}] /\ version \in Nat /\ TypeOK
      /\ UNCHANGED actions
  BY DEF QueueInv, TypeOK, Create, Modify, Delete, Others
<1>1. UNCHANGED <<DoneJobs, RefusedJobs>>
  BY <1>0, SameJobs
<1>2. CASE Create(q)
  <2> DEFINE pod == [uid |-> version + 1, ver |-> version + 1, phase |-> "Pending"]
  <2>1. server[q] = None /\ Write(q, pod) /\ pod \in Pod /\ pod # None
    BY <1>0, <1>2, NoPodAssumption DEF Create, Others, Pod
  <2>2. Record(pod) = [uid |-> version + 1, phase |-> "Pending"] /\ Record(server[q]) = None
    BY <2>1 DEF Record
  <2> HIDE DEF pod
  <2>3. old' = [old EXCEPT ![q] = Record(pod)]
    BY <1>0, <2>1, WriteRecord
  <2>4. old[q] = None /\ old'[q] = [uid |-> version + 1, phase |-> "Pending"]
    BY <2>2, <2>3
  <2>5. old'[q] # None
    <3>1. old'[q] \in [uid : Nat, phase : {"Pending", "Succeeded", "Failed"}]
      BY <1>0, <2>4
    <3>2. QED
      BY <3>1, NoPodAssumption
  <2>6. <<q, version + 1>> \notin DoneJobs \cup RefusedJobs
    <3>1. ASSUME NEW i \in DOMAIN actions PROVE JobOf(actions[i]) # <<q, version + 1>>
      <4>1. actions[i].copy.uid \in Nat /\ actions[i].copy.uid <= version
        BY ActionTypes, <1>0 DEF CopyInv, CopyOf, Action, Pod
      <4>2. QED
        BY <1>0, <4>1 DEF JobOf
    <3>2. QED
      BY <3>1 DEF DoneJobs, RefusedJobs
  <2>7. Jobs!Appear(q)
    <3>1. Jobs!Job(q)' = <<q, version + 1>>
      BY <2>4 DEF Jobs!Job
    <3>2. Record(pod) = [uid |-> old'[q].uid, phase |-> "Pending"]
      BY <2>2, <2>4
    <3>3. QED
      BY <1>1, <2>3, <2>4, <2>5, <2>6, <3>1, <3>2 DEF Jobs!Appear
  <2>8. QED
    BY <2>7
<1>3. CASE Modify(q)
  <2> DEFINE pod == [server[q] EXCEPT !.ver = version + 1]
  <2>1. server[q] # None /\ server[q] \in Pod /\ Write(q, pod)
    BY <1>0, <1>3 DEF Modify, Others
  <2>2. pod \in Pod /\ pod.uid = server[q].uid /\ pod.phase = server[q].phase
    BY <1>0, <2>1 DEF Pod
  <2>3. Record(pod) = Record(server[q])
    BY <2>1, <2>2, NoPodAssumption DEF Record
  <2> HIDE DEF pod
  <2>4. old' = [old EXCEPT ![q] = Record(pod)]
    BY <1>0, <2>1, WriteRecord
  <2>5. old' = old
    BY <2>3, <2>4
  <2>6. QED
    BY <1>1, <2>5 DEF Jobs!vars
<1>4. CASE Delete(q)
  <2>1. server[q] # None /\ server[q] \in Pod /\ Write(q, None)
    BY <1>0, <1>4 DEF Delete, Others
  <2>2. Record(server[q]) # None /\ Record(None) = None
    <3>1. Record(server[q]) \in [uid : Nat, phase : {"Pending", "Succeeded", "Failed"}]
      BY <2>1 DEF Record, Pod
    <3>2. QED
      BY <3>1, NoPodAssumption DEF Record
  <2>3. old' = [old EXCEPT ![q] = None] /\ old[q] # None
    BY <1>0, <2>1, <2>2, WriteRecord
  <2>4. Jobs!Vanish(q)
    BY <1>1, <2>3 DEF Jobs!Vanish
  <2>5. QED
    BY <2>4
<1>5. QED
  BY <1>2, <1>3, <1>4

(* The status is written for an action that was met, and to its pod.       *)
LEMMA UpdateJobs ==
  ASSUME QueueInv, ActionInv, CopyInv, UpdatePodStatus
  PROVE  \E q \in Pods : [Jobs!Settle(q)]_(Jobs!vars)
<1> DEFINE a == actions[Current]
           old == [p \in Pods |-> Record(server[p])]
<1>1. UNCHANGED actions /\ wpc = "update" /\ UNCHANGED <<DoneJobs, RefusedJobs>>
  BY SameJobs DEF UpdatePodStatus
<1>2. CASE UNCHANGED <<server, watch, version>>
  <2>1. UNCHANGED Jobs!vars
    BY <1>1, <1>2 DEF Jobs!vars, Record
  <2>2. cur \in Pods
    BY <1>1, PodAssumption DEF QueueInv, TypeOK
  <2>3. QED
    BY <2>1, <2>2
<1>3. ASSUME Accepted(a.copy), NEW phase \in {"Succeeded", "Failed"},
             phase = (IF a.ok THEN "Succeeded" ELSE "Failed"),
             Write(cur, [a.copy EXCEPT !.ver = version + 1, !.phase = phase])
      PROVE  Jobs!Settle(cur) /\ cur \in Pods
  <2> DEFINE pod == [a.copy EXCEPT !.ver = version + 1, !.phase = phase]
  <2>1. /\ Current \in DOMAIN actions /\ a \in Action /\ cur \in Pods /\ a.pod = cur
        /\ server[cur] \in Pod /\ server[cur] # None
        /\ server[cur] = a.copy /\ server[cur].phase = "Pending"
    BY <1>1, <1>3, AcceptedPending
  <2>2. version \in Nat /\ TypeOK
    BY DEF QueueInv, TypeOK
  <2>3. /\ pod.uid = a.copy.uid /\ pod.phase = phase /\ pod # None
    <3>1. pod.uid = a.copy.uid /\ pod.phase = phase
      BY <2>1 DEF Pod
    <3>2. pod \in Pod
      <4>1. version + 1 \in Nat
        BY <2>2
      <4>2. QED
        BY <2>1, <4>1 DEF Pod
    <3>3. QED
      BY <3>1, <3>2, NoPodAssumption
  <2>4. /\ Record(pod) = [uid |-> a.copy.uid, phase |-> phase]
        /\ Record(server[cur]) = [uid |-> a.copy.uid, phase |-> "Pending"]
    BY <2>1, <2>3 DEF Record
  <2> HIDE DEF pod
  <2>5. Write(cur, pod)
    BY <1>3 DEF pod
  <2>6. old' = [old EXCEPT ![cur] = Record(pod)]
    BY <2>1, <2>2, <2>5, WriteRecord
  <2>7. old[cur] = [uid |-> a.copy.uid, phase |-> "Pending"]
    BY <2>1, <2>4
  <2>8. old[cur] # None
    <3>1. old[cur] \in [uid : Nat, phase : {"Pending", "Succeeded", "Failed"}]
      BY <2>1, <2>7 DEF Pod
    <3>2. QED
      BY <3>1, NoPodAssumption
  <2>9. old' = [old EXCEPT ![cur].phase = phase]
    <3>1. [old[cur] EXCEPT !.phase = phase] = Record(pod)
      BY <2>4, <2>7
    <3>2. [old EXCEPT ![cur].phase = phase] = [old EXCEPT ![cur] = [old[cur] EXCEPT !.phase = phase]]
      OBVIOUS
    <3>3. QED
      BY <2>6, <3>1, <3>2
  <2>10. Jobs!Job(cur) = JobOf(a)
    BY <2>1, <2>7 DEF Jobs!Job, JobOf
  <2>11. cur \notin Mirror
    BY <2>1 DEF CopyInv
  <2>12. CASE a.ok
    <3>1. AllAccepted(a)
      BY <1>1, <2>1, <2>12 DEF ActionInv, AllAccepted
    <3>2. JobOf(a) \in DoneJobs /\ phase = "Succeeded"
      BY <1>3, <2>1, <2>12, <3>1 DEF DoneJobs
    <3>3. QED
      BY <1>1, <2>1, <2>7, <2>8, <2>9, <2>10, <2>11, <3>2 DEF Jobs!Settle
  <2>13. CASE ~a.ok
    <3>1. JobOf(a) \in RefusedJobs /\ phase = "Failed"
      BY <1>3, <2>1, <2>13 DEF RefusedJobs
    <3>2. QED
      BY <1>1, <2>1, <2>7, <2>8, <2>9, <2>10, <2>11, <3>1 DEF Jobs!Settle
  <2>14. QED
    BY <2>12, <2>13
<1>4. QED
  BY <1>2, <1>3 DEF UpdatePodStatus

LEMMA StepSettles ==
  ASSUME QueueInv, ActionInv, CopyInv, [Next]_vars
  PROVE  [Jobs!Next]_(Jobs!vars)
<1>1. CASE UNCHANGED <<server, actions>>
  <2>1. UNCHANGED <<DoneJobs, RefusedJobs>>
    BY <1>1, SameJobs
  <2>2. QED
    BY <1>1, <2>1 DEF Jobs!vars, Record
<1>2. ASSUME NEW q \in Pods, Create(q) \/ Modify(q) \/ Delete(q)
      PROVE  [Jobs!Next]_(Jobs!vars)
  <2>1. [Jobs!Appear(q) \/ Jobs!Vanish(q)]_(Jobs!vars)
    BY <1>2, OthersJobs
  <2>2. QED
    BY <2>1 DEF Jobs!Next
<1>3. CASE SendNotify \/ Meet
  <2>1. UNCHANGED server /\ UNCHANGED <<DoneJobs, RefusedJobs>>
    BY <1>3, StartedJobs, MeetJobs DEF SendNotify, Meet, apiVars
  <2>2. QED
    BY <2>1 DEF Jobs!vars, Record
<1>4. CASE UpdatePodStatus
  <2>1. PICK q \in Pods : [Jobs!Settle(q)]_(Jobs!vars)
    BY <1>4, UpdateJobs
  <2>2. QED
    BY <2>1 DEF Jobs!Next
<1>5. ASSUME NEW i \in DOMAIN actions, AppCommand(i)
      PROVE  [Jobs!Next]_(Jobs!vars)
  <2>1. [Jobs!Finish]_(Jobs!vars)
    BY <1>5, CommandJobs
  <2>2. QED
    BY <2>1 DEF Jobs!Next
<1>6. QED
  BY <1>1, <1>2, <1>3, <1>4, <1>5
     DEF Next, Worker, Deliver, Requeue, StartWorker, Get, Timeout, HandleErr, Done, Quit,
         Stop, vars, apiVars

(* The controller keeps its promise: a pod is settled at most once, by the *)
(* outcome of its own commands, for any pods, containers and retries, and  *)
(* whatever fails, times out, is changed, deleted or created anew.         *)
THEOREM JobsSettled == Spec => ImplementsPodJobs
<1>1. Init => Jobs!Init /\ CopyInv
  <2> SUFFICES ASSUME Init PROVE Jobs!Init /\ CopyInv
    OBVIOUS
  <2>1. \A p \in Pods : server[p] = None
          \/ server[p] = [uid |-> 0, ver |-> 0, phase |-> "Pending"]
    BY DEF Init
  <2>2. actions = <<>> /\ DOMAIN actions = {} /\ version = 0
    BY DEF Init
  <2>3. DoneJobs = {} /\ RefusedJobs = {}
    BY <2>2 DEF DoneJobs, RefusedJobs
  <2>4. [p \in Pods |-> Record(server[p])]
          \in [Pods -> {None, [uid |-> 0, phase |-> "Pending"]}]
    BY <2>1 DEF Record
  <2>5. \A p \in Pods : server[p] # None => CopyOf(p, server[p])
    BY <2>1, <2>2 DEF CopyOf
  <2>6. ASSUME NEW p \in Pods, NEW i \in DOMAIN watch[p], watch[p][i] # None
        PROVE  CopyOf(p, watch[p][i])
    <3>1. watch[p] = IF server[p] = None THEN <<>> ELSE <<server[p]>>
      BY DEF Init
    <3>2. server[p] # None /\ watch[p][i] = server[p]
      BY <2>6, <3>1
    <3>3. QED
      BY <2>5, <3>2
  <2>7. CopyInv
    BY <2>2, <2>5, <2>6 DEF Init, CopyInv
  <2>8. QED
    BY <2>3, <2>4, <2>7 DEF Jobs!Init
<1>2. QueueInv /\ ActionInv /\ CopyInv /\ [Next]_vars => CopyInv' /\ [Jobs!Next]_(Jobs!vars)
  BY NextCopies, StepSettles
<1>3. QED
  BY <1>1, <1>2, InitQueue, NextQueue, PTL DEF Spec, ImplementsPodJobs, Jobs!Spec
=============================================================================
