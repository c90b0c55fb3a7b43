------------------------------ MODULE CallReply -----------------------------
(***************************************************************************)
(* What the request multiplexer promises its callers, without connections, *)
(* goroutines or the map of channels: a call sends one request, it returns *)
(* only with an answer that carries its key, no answer serves two calls,   *)
(* and a caller that alone awaits a key gets the answer to its own         *)
(* request.  Requests and answers may be lost; then the call stays open.   *)
(***************************************************************************)
EXTENDS DeviceCalls

VARIABLES
  count,   \* count[g]: calls g has begun
  req,     \* req[g]: the request of the open call of g
  pc,      \* pc[g]: idle, sending, waiting or got
  asked,   \* requests the device has and has not answered
  answers  \* answers on their way to a caller

vars == <<count, req, pc, asked, answers>>

Mine(g) == [call |-> <<g, count[g]>>, req |-> req[g]]

Init ==
  /\ count = [g \in Callers |-> 0]
  /\ req = [g \in Callers |-> None]
  /\ pc = [g \in Callers |-> "idle"]
  /\ asked = {}
  /\ answers = {}

Call(g, r) ==
  /\ pc[g] = "idle"
  /\ r \in Uses[g]
  /\ count' = [count EXCEPT ![g] = @ + 1]
  /\ req' = [req EXCEPT ![g] = r]
  /\ pc' = [pc EXCEPT ![g] = "sending"]
  /\ UNCHANGED <<asked, answers>>

Send(g) ==
  /\ pc[g] = "sending"
  /\ asked' \in {asked, asked \cup {Mine(g)}}
  /\ IF req[g] = Post
       THEN pc' = [pc EXCEPT ![g] = "idle"] /\ req' = [req EXCEPT ![g] = None]
       ELSE pc' = [pc EXCEPT ![g] = "waiting"] /\ UNCHANGED req
  /\ UNCHANGED <<count, answers>>

Reply(m) ==
  /\ asked' = asked \ {m}
  /\ answers' = answers \cup {m}
  /\ UNCHANGED <<count, req, pc>>

Lose ==
  /\ asked' \subseteq asked
  /\ answers' \subseteq answers
  /\ UNCHANGED <<count, req, pc>>

Receive(g, m) ==
  /\ pc[g] = "waiting"
  /\ KeyOf(m) = KeyOf(Mine(g))
  /\ Exclusive(m) => m = Mine(g)
  /\ pc' = [pc EXCEPT ![g] = "got"]
  /\ answers' = answers \ {m}
  /\ UNCHANGED <<count, req, asked>>

Return(g) ==
  /\ pc[g] = "got"
  /\ pc' = [pc EXCEPT ![g] = "idle"]
  /\ req' = [req EXCEPT ![g] = None]
  /\ UNCHANGED <<count, asked, answers>>

Next ==
  \/ \E g \in Callers :
       \/ \E r \in Requests : Call(g, r)
       \/ Send(g)
       \/ \E m \in answers : Receive(g, m)
       \/ Return(g)
  \/ \E m \in asked : Reply(m)
  \/ Lose

Spec == Init /\ [][Next]_vars
=============================================================================
