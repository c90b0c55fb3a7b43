------------------------------- MODULE PodJobs ------------------------------
(***************************************************************************)
(* What the pod controller promises whoever gives this node a pod, without *)
(* copies, queue, retries or timeouts: a pod is a job that is settled at   *)
(* most once and for good, as Succeeded only after all its commands were   *)
(* accepted and as Failed only after one was not, and a later pod of the   *)
(* same name is a job of its own, of which nothing has been done.  Mirror  *)
(* pods are nobody's job.  A job may be done and its pod never settled.    *)
(***************************************************************************)
CONSTANTS Pods, Mirror, None

VARIABLES
  pods,     \* the pods there are, or None: uid and phase
  done,     \* jobs <<pod, uid>> with all commands accepted in one go
  refused   \* jobs with a command the robot refused

vars == <<pods, done, refused>>

Job(p) == <<p, pods[p].uid>>

Init ==
  /\ pods \in [Pods -> {None, [uid |-> 0, phase |-> "Pending"]}]
  /\ done = {} /\ refused = {}

Appear(p) ==
  /\ pods[p] = None
  /\ pods'[p] # None
  /\ pods' = [pods EXCEPT ![p] = [uid |-> pods'[p].uid, phase |-> "Pending"]]
  /\ Job(p)' \notin done \cup refused
  /\ UNCHANGED <<done, refused>>

Vanish(p) ==
  /\ pods[p] # None
  /\ pods' = [pods EXCEPT ![p] = None]
  /\ UNCHANGED <<done, refused>>

Settle(p) ==
  /\ p \notin Mirror
  /\ pods[p] # None /\ pods[p].phase = "Pending"
  /\ \/ Job(p) \in done /\ pods' = [pods EXCEPT ![p].phase = "Succeeded"]
     \/ Job(p) \in refused /\ pods' = [pods EXCEPT ![p].phase = "Failed"]
  /\ UNCHANGED <<done, refused>>

(* The robot has accepted the last command of a job, or refused one.       *)
Finish ==
  /\ \/ \E job \in done' : job[1] \notin Mirror /\ done' = done \cup {job} /\ UNCHANGED refused
     \/ \E job \in refused' : job[1] \notin Mirror /\ refused' = refused \cup {job} /\ UNCHANGED done
  /\ UNCHANGED pods

Next == Finish \/ \E p \in Pods : Appear(p) \/ Vanish(p) \/ Settle(p)

Spec == Init /\ [][Next]_vars
=============================================================================
