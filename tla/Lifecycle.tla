------------------------------- MODULE Lifecycle ----------------------------
(***************************************************************************)
(* The life of the daemon: Listen, Run and its signal handler              *)
(* (rockrobo.go 129-181, 306-347, 349-505) and the RPC server's two        *)
(* goroutines (rpc.go).  Each of four sockets has a closer, a goroutine    *)
(* that waits for stopCh and then closes the socket, and a server that     *)
(* ends when it is closed.  The servers and the RPC server's closer are    *)
(* counted by waitGroup, for which Run waits before it returns.            *)
(*                                                                         *)
(* The handler closes stopCh and then sets the field to nil: a goroutine   *)
(* that reads the field afterwards waits on nil for ever.  LoopMaps waits  *)
(* on a stopCh of its own, which is nil, and so never ends; neither does   *)
(* the call of waitGroup.Done it defers and nothing has added for.         *)
(***************************************************************************)
EXTENDS Integers, FiniteSets

CONSTANT Faults     \* what may go wrong: a subset of {"bind", "accept", "strand"}

ASSUME LifecycleAssumption == Faults \subseteq {"bind", "accept", "strand"}

Sockets == {"cloud", "local", "http", "rpc"}

VARIABLES
  pc,         \* where Run stands
  closed,     \* stopCh has been closed
  field,      \* the field stopCh still holds the channel
  handler,    \* the signal handler
  socket,     \* the sockets
  closer,     \* their closers
  server,     \* their servers
  waitGroup   \* the counter of waitGroup

stopVars   == <<closed, field, handler>>
socketVars == <<socket, closer, server, waitGroup>>
lifeVars   == <<pc, stopVars, socketVars>>

(* No signal may come at all.                                              *)
LifeInit ==
  /\ pc = "cloud" /\ closed = FALSE /\ field = TRUE /\ handler \in {"ready", "unused"}
  /\ socket = [s \in Sockets |-> "none"] /\ closer = [s \in Sockets |-> "none"]
  /\ server = [s \in Sockets |-> "none"] /\ waitGroup = 0

Exited == pc \in {"returned", "error", "panicked"}

-----------------------------------------------------------------------------
(* runSignalHandling; later signals find the field nil.                    *)

Signal ==
  /\ handler = "ready" /\ handler' = "closed"
  /\ closed' = TRUE
  /\ UNCHANGED <<pc, field, socketVars>>

ClearField ==
  /\ handler = "closed" /\ handler' = "done"
  /\ field' = FALSE
  /\ UNCHANGED <<pc, closed, socketVars>>

-----------------------------------------------------------------------------
(* Run: bind the sockets, start the servers, wait.                         *)

StartServer(s) == server' = [server EXCEPT ![s] = "running"]

AddCloser == waitGroup' = waitGroup + 1     \* variant: only one of two is counted
AddRPC    == waitGroup' = waitGroup + 2

AfterBind(s) == CASE s = "cloud" -> "local" [] s = "local" -> "http"
                  [] s = "http" -> "rpc"    [] s = "rpc"   -> "serveHttp"

(* Listen, and runRPCServer, which starts its accept loop at once.         *)
Bind(s) ==
  /\ pc = s
  /\ socket' = [socket EXCEPT ![s] = "open"]
  /\ closer' = [closer EXCEPT ![s] = "started"]
  /\ IF s = "rpc" THEN AddRPC /\ StartServer(s) ELSE UNCHANGED <<server, waitGroup>>
  /\ pc' = AfterBind(s)
  /\ UNCHANGED stopVars

BindFails ==
  /\ pc \in Sockets /\ "bind" \in Faults
  /\ pc' = "error"
  /\ UNCHANGED <<stopVars, socketVars>>

AddOne == waitGroup' = waitGroup + 1

Serve(s, at, next) ==
  /\ pc = at /\ pc' = next
  /\ AddOne /\ StartServer(s)
  /\ UNCHANGED <<stopVars, socket, closer>>

(* The cloud receiver only if the cloud is enabled.                        *)
ServeCloud == Serve("cloud", "serveCloud", "receive")
NoCloud ==
  /\ pc = "serveCloud" /\ pc' = "receive"
  /\ UNCHANGED <<stopVars, socketVars>>

(* What a goroutine waits for when it comes to read the field.             *)
Receive ==
  /\ pc = "receive"
  /\ pc' = IF field THEN "waiting" ELSE "never"
  /\ UNCHANGED <<stopVars, socketVars>>

Join ==
  /\ pc = "waiting" /\ closed /\ pc' = "join"
  /\ UNCHANGED <<stopVars, socketVars>>

Return ==
  /\ pc = "join" /\ waitGroup = 0 /\ pc' = "returned"
  /\ UNCHANGED <<stopVars, socketVars>>

-----------------------------------------------------------------------------
(* The closers and the servers.                                            *)

Done(s) == server' = [server EXCEPT ![s] = "done"] /\ waitGroup' = waitGroup - 1

Arm(s) ==
  /\ closer[s] = "started"
  /\ closer' = [closer EXCEPT ![s] = IF field THEN "armed" ELSE "stuck"]
  /\ UNCHANGED <<pc, stopVars, socket, server, waitGroup>>

ClosesPasted(s) == IF s = "http" THEN "local" ELSE s    \* variant: copied and not adapted
Closes(s) == s

(* Only the closer of the RPC server is counted.                           *)
CloseSocket(s) ==
  /\ closer[s] = "armed" /\ closed
  /\ closer' = [closer EXCEPT ![s] = "done"] /\ socket' = [socket EXCEPT ![Closes(s)] = "closed"]
  /\ waitGroup' = IF s = "rpc" THEN waitGroup - 1 ELSE waitGroup
  /\ UNCHANGED <<pc, stopVars, server>>

EndServer(s) ==
  /\ server[s] = "running" /\ socket[s] = "closed"
  /\ Done(s)
  /\ UNCHANGED <<pc, stopVars, socket, closer>>

(* Whatever error accept returns, the local handler takes it for the end.  *)
LocalAcceptFails ==
  /\ server["local"] = "running" /\ "accept" \in Faults
  /\ Done("local")
  /\ UNCHANGED <<pc, stopVars, socket, closer>>

(* The RPC server goes on with the connection it has not got.              *)
RPCAcceptFails ==
  /\ server["rpc"] = "running" /\ socket["rpc"] = "open" /\ "accept" \in Faults
  /\ pc' = "panicked"
  /\ UNCHANGED <<stopVars, socketVars>>

(* The receiver hands an answer to a call that has given up (CloudLink).   *)
Strand ==
  /\ server["cloud"] = "running" /\ "strand" \in Faults
  /\ server' = [server EXCEPT !["cloud"] = "stranded"]
  /\ UNCHANGED <<pc, stopVars, socket, closer, waitGroup>>

-----------------------------------------------------------------------------
Run ==
  \/ \E s \in Sockets : Bind(s)
  \/ Serve("http", "serveHttp", "serveLocal") \/ Serve("local", "serveLocal", "serveCloud")
  \/ ServeCloud \/ NoCloud
  \/ Receive \/ Join \/ Return
Goroutine(s) == Arm(s) \/ CloseSocket(s) \/ EndServer(s)
Failure == BindFails \/ LocalAcceptFails \/ RPCAcceptFails \/ Strand

LifeNext ==
  /\ ~Exited
  /\ \/ Signal \/ ClearField \/ Run \/ Failure
     \/ \E s \in Sockets : Goroutine(s)

LifeSpec == LifeInit /\ [][LifeNext]_lifeVars

(* Goroutines that can run do.                                             *)
LifeFairness ==
  /\ WF_lifeVars(~Exited /\ Run)
  /\ \A s \in Sockets : WF_lifeVars(~Exited /\ Goroutine(s))

-----------------------------------------------------------------------------
(* Properties.                                                             *)

(* The counter of waitGroup is the number of counted goroutines that have  *)
(* been started and not ended: it never gets negative, which panics, and   *)
(* never keeps Run from returning (rpc.go:28, rockrobo.go:342, 484).       *)
Counted ==
  {s \in Sockets : server[s] \in {"running", "stranded"}} \cup
  {c \in {"rpcCloser"} : closer["rpc"] \in {"started", "armed", "stuck"}}
CountsRunning == ~Exited => waitGroup = Cardinality(Counted)

(* When Run has returned no server uses its socket any more.               *)
JoinsAll ==
  pc = "returned" =>
    \A s \in Sockets : server[s] \in {"none", "done"} /\ (s = "rpc" => socket[s] = "closed")

(* A signal makes Run return (rockrobo.go:499 "wait for exist signal"), if *)
(* every goroutine had read stopCh by then; a receiver stranded on a call  *)
(* to the cloud keeps it from returning.                                   *)
Missed ==
  pc = "never" \/ server["cloud"] = "stranded" \/ \E s \in Sockets : closer[s] = "stuck"
SignalEnds == closed ~> Exited \/ Missed
=============================================================================
