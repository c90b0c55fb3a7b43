--------------------------- MODULE LifecycleProofs --------------------------
(* What Lifecycle does with every combination of failures.                 *)
EXTENDS Lifecycle, FiniteSetTheorems, TLAPS

USE DEF stopVars, socketVars, lifeVars

(* Run starts each closer and each server once, in order.                  *)
OrderInv ==
  /\ waitGroup \in Int
  /\ closer \in [Sockets -> {"none", "started", "armed", "stuck", "done"}]
  /\ server \in [Sockets -> {"none", "running", "stranded", "done"}]
  /\ socket \in [Sockets -> {"none", "open", "closed"}]
  /\ pc \in Sockets => closer["rpc"] = "none" /\ \A s \in Sockets : server[s] = "none"
  /\ pc = "serveHttp" => server["http"] = "none"
  /\ pc \in {"serveHttp", "serveLocal"} => server["local"] = "none"
  /\ pc \in {"serveHttp", "serveLocal", "serveCloud"} => server["cloud"] = "none"

LEMMA Ordered ==
  ASSUME OrderInv, [LifeNext]_lifeVars
  PROVE  OrderInv'
<1> USE DEF OrderInv, Sockets
<1>1. CASE Signal \/ ClearField \/ NoCloud \/ Receive \/ Join \/ Return \/ BindFails \/ RPCAcceptFails
  BY <1>1 DEF Signal, ClearField, NoCloud, Receive, Join, Return, BindFails, RPCAcceptFails
<1>2. ASSUME NEW s \in Sockets, Bind(s) PROVE OrderInv'
  BY <1>2 DEF Bind, AfterBind, AddRPC, StartServer
<1>3. CASE Serve("http", "serveHttp", "serveLocal")
  BY <1>3 DEF Serve, AddOne, StartServer
<1>4. CASE Serve("local", "serveLocal", "serveCloud") \/ ServeCloud
  BY <1>4 DEF Serve, ServeCloud, AddOne, StartServer
<1>5. ASSUME NEW s \in Sockets, Arm(s) \/ CloseSocket(s) PROVE OrderInv'
  BY <1>5 DEF Arm, CloseSocket, Closes
<1>6. CASE LocalAcceptFails \/ Strand \/ \E s \in Sockets : EndServer(s)
  BY <1>6 DEF LocalAcceptFails, EndServer, Done, Strand
<1>7. CASE UNCHANGED lifeVars
  BY <1>7
<1> QED
  BY <1>1, <1>2, <1>3, <1>4, <1>5, <1>6, <1>7 DEF LifeNext, Run, Failure, Goroutine

LEMMA InitOrdered == LifeInit => OrderInv
BY DEF LifeInit, OrderInv, Sockets

-----------------------------------------------------------------------------
(* The counter of waitGroup.                                               *)

LEMMA CountedFinite == IsFiniteSet(Counted)
<1>1. IsFiniteSet({"cloud"} \cup {"local"} \cup {"http"} \cup {"rpc"} \cup {"rpcCloser"})
  BY FS_Singleton, FS_Union, Zenon
<1>2. Counted \subseteq {"cloud"} \cup {"local"} \cup {"http"} \cup {"rpc"} \cup {"rpcCloser"}
  BY DEF Counted, Sockets
<1> QED
  BY <1>1, <1>2, FS_Subset

CountInv == waitGroup = Cardinality(Counted)

LEMMA CountGrows ==
  ASSUME CountInv, NEW x, x \notin Counted, Counted' = Counted \cup {x}, waitGroup' = waitGroup + 1
  PROVE  CountInv'
<1>1. Cardinality(Counted \cup {x}) = Cardinality(Counted) + 1
  BY CountedFinite, FS_AddElement
<1> QED
  BY <1>1 DEF CountInv

LEMMA CountShrinks ==
  ASSUME CountInv, NEW x, x \in Counted, Counted' = Counted \ {x}, waitGroup' = waitGroup - 1
  PROVE  CountInv'
<1>1. Cardinality(Counted \ {x}) = Cardinality(Counted) - 1
  BY CountedFinite, FS_RemoveElement
<1> QED
  BY <1>1 DEF CountInv

(* A step of a closer or a server that ends takes one off, if it counted.  *)
LEMMA ServerEnds ==
  ASSUME OrderInv, CountInv, NEW s \in Sockets, server[s] = "running", Done(s), UNCHANGED closer
  PROVE  CountInv'
<1>1. s \in Counted /\ s # "rpcCloser"
  BY DEF Counted, Sockets
<1>2. \A t \in Sockets : server'[t] = IF t = s THEN "done" ELSE server[t]
  BY DEF Done, OrderInv
<1>3. Counted' = Counted \ {s}
  BY <1>1, <1>2 DEF Counted, Sockets
<1> QED
  BY <1>1, <1>3, CountShrinks DEF Done

LEMMA CountStep ==
  ASSUME OrderInv, CountInv, [LifeNext]_lifeVars
  PROVE  CountInv'
<1>0. ASSUME UNCHANGED waitGroup, Counted' = Counted PROVE CountInv'
  BY <1>0 DEF CountInv
<1>1. CASE Signal \/ ClearField \/ NoCloud \/ Receive \/ Join \/ Return \/ BindFails \/ RPCAcceptFails
  <2>1. UNCHANGED <<server, closer, waitGroup>>
    BY <1>1 DEF Signal, ClearField, NoCloud, Receive, Join, Return, BindFails, RPCAcceptFails
  <2> QED
    BY <1>0, <2>1 DEF Counted
<1>2. ASSUME NEW s \in Sockets, Bind(s) PROVE CountInv'
  <2>1. CASE s = "rpc"
    <3>1. "rpc" \notin Counted /\ "rpcCloser" \notin Counted
      BY <1>2, <2>1 DEF Counted, OrderInv, Bind, Sockets
    <3>2. Counted' = (Counted \cup {"rpc"}) \cup {"rpcCloser"}
      BY <1>2, <2>1 DEF Counted, OrderInv, Bind, StartServer, Sockets
    <3>3. Cardinality(Counted') = Cardinality(Counted) + 2
      <4>1. /\ IsFiniteSet(Counted \cup {"rpc"})
            /\ Cardinality(Counted \cup {"rpc"}) = Cardinality(Counted) + 1
        BY <3>1, CountedFinite, FS_AddElement
      <4>2. "rpcCloser" \notin Counted \cup {"rpc"}
        BY <3>1
      <4>3. Cardinality(Counted') = Cardinality(Counted \cup {"rpc"}) + 1
        BY <3>2, <4>1, <4>2, FS_AddElement
      <4>4. Cardinality(Counted) \in Nat
        BY CountedFinite, FS_CardinalityType
      <4> QED
        BY <4>1, <4>3, <4>4
    <3> QED
      BY <1>2, <2>1, <3>3 DEF Bind, AddRPC, CountInv
  <2>2. CASE s # "rpc"
    <3>1. UNCHANGED <<server, waitGroup>> /\ closer'["rpc"] = closer["rpc"]
      BY <1>2, <2>2 DEF Bind, OrderInv, Sockets
    <3> QED
      BY <1>0, <3>1 DEF Counted
  <2> QED
    BY <2>1, <2>2
<1>3. ASSUME NEW s \in {"http", "local", "cloud"}, server[s] = "none",
             AddOne, StartServer(s), UNCHANGED closer
      PROVE  CountInv'
  <2>1. s \notin Counted
    BY <1>3 DEF Counted, Sockets
  <2>2. Counted' = Counted \cup {s}
    BY <1>3 DEF Counted, StartServer, OrderInv, Sockets
  <2> QED
    BY <1>3, <2>1, <2>2, CountGrows DEF AddOne
<1>4. CASE Serve("http", "serveHttp", "serveLocal")
  BY <1>3, <1>4 DEF Serve, OrderInv
<1>5. CASE Serve("local", "serveLocal", "serveCloud")
  BY <1>3, <1>5 DEF Serve, OrderInv
<1>6. CASE ServeCloud
  BY <1>3, <1>6 DEF ServeCloud, Serve, OrderInv
<1>7. ASSUME NEW s \in Sockets, Arm(s) PROVE CountInv'
  <2>1. UNCHANGED <<server, waitGroup>>
    BY <1>7 DEF Arm
  <2>2. Counted' = Counted
    BY <1>7 DEF Counted, Arm, OrderInv, Sockets
  <2> QED
    BY <1>0, <2>1, <2>2
<1>8. ASSUME NEW s \in Sockets, CloseSocket(s) PROVE CountInv'
  <2>1. CASE s = "rpc"
    <3>1. "rpcCloser" \in Counted
      BY <1>8, <2>1 DEF Counted, CloseSocket
    <3>2. Counted' = Counted \ {"rpcCloser"}
      BY <1>8, <2>1 DEF Counted, CloseSocket, OrderInv, Sockets
    <3> QED
      BY <1>8, <2>1, <3>1, <3>2, CountShrinks DEF CloseSocket
  <2>2. CASE s # "rpc"
    <3>1. UNCHANGED <<server, waitGroup>> /\ closer'["rpc"] = closer["rpc"]
      BY <1>8, <2>2 DEF CloseSocket, OrderInv, Sockets
    <3> QED
      BY <1>0, <3>1 DEF Counted
  <2> QED
    BY <2>1, <2>2
<1>9. CASE LocalAcceptFails \/ \E s \in Sockets : EndServer(s)
  BY <1>9, ServerEnds DEF LocalAcceptFails, EndServer, Sockets
<1>10. CASE Strand
  <2>1. Counted' = Counted
    BY <1>10 DEF Strand, Counted, OrderInv, Sockets
  <2> QED
    BY <1>0, <1>10, <2>1 DEF Strand
<1>11. CASE UNCHANGED lifeVars
  BY <1>0, <1>11 DEF Counted
<1> QED
  BY <1>1, <1>2, <1>4, <1>5, <1>6, <1>7, <1>8, <1>9, <1>10, <1>11
  DEF LifeNext, Run, Failure, Goroutine

(* The counter of waitGroup is the number of counted goroutines that have  *)
(* been started and not ended (rpc.go:28, rockrobo.go:342).                *)
THEOREM Counts == LifeSpec => []CountsRunning
<1>1. LifeInit => CountInv
  <2>1. LifeInit => Counted = {}
    BY DEF LifeInit, Counted, Sockets
  <2> QED
    BY <2>1, FS_EmptySet DEF LifeInit, CountInv
<1>2. CountInv => CountsRunning
  BY DEF CountInv, CountsRunning
<1> QED
  BY <1>1, <1>2, InitOrdered, Ordered, CountStep, PTL DEF LifeSpec

-----------------------------------------------------------------------------
(* The join.                                                               *)

(* The RPC server ends by its socket alone; nothing moves once Run returned. *)
JoinInv ==
  /\ pc \notin Sockets \cup {"error"} => server["rpc"] # "none"
  /\ server["rpc"] # "stranded"
  /\ server["rpc"] = "done" => socket["rpc"] = "closed"
  /\ pc = "returned" => Counted = {}

LEMMA JoinStep ==
  ASSUME OrderInv, CountInv, JoinInv, [LifeNext]_lifeVars
  PROVE  JoinInv'
<1> DEFINE RPCInv == /\ pc \notin Sockets \cup {"error"} => server["rpc"] # "none"
                     /\ server["rpc"] # "stranded"
                     /\ server["rpc"] = "done" => socket["rpc"] = "closed"
<1>1. RPCInv'
  <2> USE DEF JoinInv, OrderInv, Sockets
  <2>1. CASE Signal \/ ClearField \/ NoCloud \/ Receive \/ Join \/ Return \/ BindFails \/ RPCAcceptFails
    BY <2>1 DEF Signal, ClearField, NoCloud, Receive, Join, Return, BindFails, RPCAcceptFails
  <2>2. ASSUME NEW s \in Sockets, Bind(s) PROVE RPCInv'
    BY <2>2 DEF Bind, AfterBind, StartServer
  <2>3. CASE Serve("http", "serveHttp", "serveLocal")
    BY <2>3 DEF Serve, StartServer
  <2>4. CASE Serve("local", "serveLocal", "serveCloud") \/ ServeCloud
    BY <2>4 DEF Serve, ServeCloud, StartServer
  <2>5. ASSUME NEW s \in Sockets, Arm(s) \/ CloseSocket(s) PROVE RPCInv'
    BY <2>5 DEF Arm, CloseSocket, Closes
  <2>6. CASE LocalAcceptFails \/ Strand
    BY <2>6 DEF LocalAcceptFails, Done, Strand
  <2>7. ASSUME NEW s \in Sockets, EndServer(s) PROVE RPCInv'
    BY <2>7 DEF EndServer, Done
  <2>8. CASE UNCHANGED lifeVars
    BY <2>8
  <2> QED
    BY <2>1, <2>2, <2>3, <2>4, <2>5, <2>6, <2>7, <2>8 DEF LifeNext, Run, Failure, Goroutine
<1>2. (pc = "returned" => Counted = {})'
  <2>1. CASE Return
    <3>1. Cardinality(Counted) = 0
      BY <2>1 DEF Return, CountInv
    <3>2. Counted = {}
      BY <3>1, CountedFinite, FS_EmptySet
    <3> QED
      BY <2>1, <3>2 DEF Return, Counted
  <2>2. CASE pc' = "returned" /\ ~Return
    <3>1. UNCHANGED lifeVars
      BY <2>2 DEF LifeNext, Run, Failure, Goroutine, Exited, Signal, ClearField, NoCloud, Receive,
         Join, BindFails, RPCAcceptFails, Bind, AfterBind, Serve, ServeCloud, Sockets, Arm,
         CloseSocket, LocalAcceptFails, Strand, EndServer
    <3> QED
      BY <3>1 DEF JoinInv, Counted
  <2> QED
    BY <2>1, <2>2
<1> QED
  BY <1>1, <1>2 DEF JoinInv

(* When Run returns every server has ended: it waits for them all, and the *)
(* RPC socket is closed (rockrobo.go:502).                                 *)
THEOREM Joins == LifeSpec => []JoinsAll
<1>1. LifeInit => CountInv /\ JoinInv
  <2>1. LifeInit => Counted = {}
    BY DEF LifeInit, Counted, Sockets
  <2> QED
    BY <2>1, FS_EmptySet DEF LifeInit, CountInv, JoinInv, Sockets
<1>2. OrderInv /\ JoinInv => JoinsAll
  BY DEF OrderInv, JoinInv, JoinsAll, Counted, Sockets
<1> QED
  BY <1>1, <1>2, InitOrdered, Ordered, CountStep, JoinStep, PTL DEF LifeSpec
=============================================================================
