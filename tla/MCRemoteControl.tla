--------------------------- MODULE MCRemoteControl --------------------------
(* RemoteControl for TLC: either the daemon starts and ends without an     *)
(* interface, or an interface meets a daemon that runs and gets no signal, *)
(* but may lose its goroutines or panic.                                   *)
EXTENDS RemoteControl

(* The daemon when Run waits for the end of stopCh.                        *)
Started ==
  /\ pc = "waiting" /\ closed = FALSE /\ field = TRUE /\ handler = "unused"
  /\ socket = [s \in Sockets |-> "open"] /\ closer = [s \in Sockets |-> "armed"]
  /\ server = [s \in Sockets |-> "running"] /\ waitGroup = 5
MCInit ==
  /\ remoteControl = FALSE /\ ticker = "off" /\ link = TRUE
  /\ call = [c \in Callers |-> NoCall] /\ startAtExit = FALSE /\ robot = NewRobot
  /\ \/ LifeInit /\ ui = "unused"
     \/ Started /\ ui = "dial"
MCSpec == MCInit /\ [][Next]_vars /\ Fairness
=============================================================================
