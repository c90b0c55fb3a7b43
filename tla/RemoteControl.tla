----------------------------- MODULE RemoteControl --------------------------
(***************************************************************************)
(* The remote control: the user interface (cmd/ui.go), the daemon's RPC    *)
(* handlers (rpc/rpc.go) and the operations they call                      *)
(* (local_connection.go 347-453), beside the life of the daemon.           *)
(*                                                                         *)
(* termui runs the handler of each key in a goroutine of its own; those of *)
(* a (start) and d (end) hold remoteControlLock for the length of the      *)
(* call, those of the other commands run at any time.  Beside them, a      *)
(* ticker's goroutine sends a move every 250 ms while remoteControl is     *)
(* set, and the main goroutine, when q has stopped the loop, ends the      *)
(* session if it finds remoteControl set; neither takes the lock.  The     *)
(* daemon handles all calls concurrently.  The numbers of moves, where the *)
(* robot is steered to, and the gauges are left out.                       *)
(***************************************************************************)
EXTENDS Lifecycle

CONSTANT Keys      \* handlers of keys that may be under way at once

ASSUME RemoteAssumption == {"main", "tick"} \cap Keys = {}

Callers == Keys \cup {"main", "tick"}

VARIABLES
  ui,             \* where the interface's main goroutine stands
  remoteControl,  \* its flag
  ticker,         \* the ticker of moves: off, on, or stopped with a tick left over
  link,           \* the connection to the daemon has not broken
  call,           \* the calls at the daemon
  startAtExit,    \* history: a start was under way when q was pressed or later
  robot           \* what the robot has been told

uiVars     == <<ui, remoteControl, ticker, link, startAtExit>>
remoteVars == <<uiVars, call, robot>>
vars       == <<lifeVars, remoteVars>>

(* session: the last of start and end; ended: an end has returned and no   *)
(* start has been asked for since; late: moves while ended.                *)
NewRobot == [session |-> "none", ended |-> FALSE, late |-> 0]

NoCall     == [cmd |-> "none", told |-> FALSE]
Begin(cmd) == [cmd |-> cmd, told |-> FALSE]

Init ==
  /\ LifeInit
  /\ ui \in {"dial", "unused"} /\ remoteControl = FALSE /\ ticker = "off" /\ link = TRUE
  /\ call = [c \in Callers |-> NoCall] /\ startAtExit = FALSE /\ robot = NewRobot

-----------------------------------------------------------------------------
(* The daemon: each operation hands a message to the app proxy's           *)
(* connection and returns.  An interface that is gone does not stop it.    *)

Told(cmd) ==
  CASE cmd \in {"start", "end"} -> [robot EXCEPT !.session = cmd]
    [] cmd = "move" /\ robot.ended -> [robot EXCEPT !.late = @ + 1]
    [] OTHER -> robot

Send(c) ==
  /\ call[c].cmd # "none" /\ ~call[c].told
  /\ call' = [call EXCEPT ![c] = [cmd |-> @.cmd, told |-> TRUE]]
  /\ robot' = Told(call[c].cmd)
  /\ UNCHANGED <<lifeVars, uiVars>>

-----------------------------------------------------------------------------
(* The interface: its goroutines run until the main goroutine returns.     *)

Alive     == ui \in {"keys", "exit"}
Connected == link /\ ~Exited
Starting  == \E k \in Keys : call[k].cmd = "start"

(* The socket is tried eleven times; termui may not start.                 *)
Dial ==
  /\ ui = "dial"
  /\ \/ socket["rpc"] = "open" /\ ui' = "keys" /\ ticker' = "on"
     \/ ui' = "gone" /\ UNCHANGED ticker
  /\ UNCHANGED <<lifeVars, remoteControl, link, call, startAtExit, robot>>

NoLock   == TRUE            \* variant: start and end do not exclude each other
LockFree == \A k \in Keys : call[k].cmd \notin {"start", "end"}

(* The keys a, d and the other commands'.  A handler waiting for the lock  *)
(* begins when it gets it, which may be after q.                           *)
Press(k, cmd) ==
  /\ Alive /\ Connected /\ call[k] = NoCall
  /\ cmd # "app" => LockFree
  /\ call' = [call EXCEPT ![k] = Begin(cmd)]
  /\ robot' = IF cmd = "start" THEN [robot EXCEPT !.ended = FALSE] ELSE robot
  /\ startAtExit' = (startAtExit \/ (ui = "exit" /\ cmd = "start"))
  /\ UNCHANGED <<lifeVars, ui, remoteControl, ticker, link>>

FlagAfter(cmd) == CASE cmd = "start" -> TRUE [] cmd = "end" -> FALSE [] OTHER -> remoteControl

(* The flag is set before the lock is given back.                          *)
KeyReturns(k) ==
  /\ Alive /\ call[k].told
  /\ call' = [call EXCEPT ![k] = NoCall]
  /\ remoteControl' = FlagAfter(call[k].cmd)
  /\ robot' = IF call[k].cmd = "end" THEN [robot EXCEPT !.ended = TRUE, !.late = 0] ELSE robot
  /\ UNCHANGED <<lifeVars, ui, ticker, link, startAtExit>>

BreakLink ==
  /\ Alive /\ link /\ link' = FALSE
  /\ UNCHANGED <<lifeVars, ui, remoteControl, ticker, call, startAtExit, robot>>

(* A command's call fails or its result is an error: Fatal ends the        *)
(* interface without its deferred functions.                               *)
KeyFails ==
  /\ Alive /\ (~Connected \/ \E k \in Keys : call[k].told)
  /\ ui' = "fatal"
  /\ UNCHANGED <<lifeVars, remoteControl, ticker, link, call, startAtExit, robot>>

QuitAtOnce == FALSE         \* variant: remote control goes on after q
EndFirst   == remoteControl

(* The key q stops the loop and the tickers; the deferred function reads   *)
(* the flag without the lock and ends the session.                         *)
Quit ==
  /\ ui = "keys"
  /\ ticker' \in {"left", "off"}
  /\ startAtExit' = Starting
  /\ IF EndFirst /\ Connected
       THEN ui' = "exit" /\ call' = [call EXCEPT !["main"] = Begin("end")]
       ELSE ui' = "gone" /\ UNCHANGED call
  /\ UNCHANGED <<lifeVars, remoteControl, link, robot>>

ExitReturns ==
  /\ ui = "exit" /\ (call["main"].told \/ ~Connected)
  /\ ui' = "gone"
  /\ UNCHANGED <<lifeVars, remoteControl, ticker, link, call, startAtExit, robot>>

(* The ticker's goroutine reads the flag without the lock; its errors are  *)
(* only logged.                                                            *)
Tick ==
  /\ Alive /\ ticker # "off" /\ call["tick"] = NoCall /\ Connected
  /\ remoteControl
  /\ ticker' = IF ticker = "left" THEN "off" ELSE ticker
  /\ call' = [call EXCEPT !["tick"] = Begin("move")]
  /\ UNCHANGED <<lifeVars, ui, remoteControl, link, startAtExit, robot>>

TickReturns ==
  /\ Alive /\ call["tick"].told
  /\ call' = [call EXCEPT !["tick"] = NoCall]
  /\ UNCHANGED <<lifeVars, uiVars, robot>>

-----------------------------------------------------------------------------
Life       == LifeNext /\ UNCHANGED remoteVars
Handler(c) == ~Exited /\ Send(c)
Key(k)     == KeyReturns(k) \/ \E cmd \in {"start", "end", "app"} : Press(k, cmd)
Interface  ==
  Dial \/ BreakLink \/ KeyFails \/ Quit \/ ExitReturns \/ Tick \/ TickReturns \/ \E k \in Keys : Key(k)

Next == Life \/ (\E c \in Callers : Handler(c)) \/ Interface

Spec == Init /\ [][Next]_vars

(* The daemon's goroutines go on; nobody need press a key.                 *)
Fairness ==
  /\ WF_vars(~Exited /\ Run /\ UNCHANGED remoteVars)
  /\ \A s \in Sockets : WF_vars(~Exited /\ Goroutine(s) /\ UNCHANGED remoteVars)

FairSpec == Spec /\ Fairness

-----------------------------------------------------------------------------
(* Properties.                                                             *)

(* When the end of remote control has returned, the robot gets one more    *)
(* move at most until the next start is asked for: the one whose tick had  *)
(* read the flag (ui.go:168, 224).                                         *)
QuietAfterEnd == robot.ended => robot.late <= 1

(* "on exit disable remote control" (ui.go:90): an interface that has been *)
(* quit leaves no session behind while the connection is whole, unless a   *)
(* start was under way when q was pressed, or was still waiting for the    *)
(* lock: the deferred function may read the flag before that start sets    *)
(* it.  Other starts and ends come and go meanwhile, and nobody but their  *)
(* handlers takes the lock (ui.go:91, 157, 164).                           *)
LeftOnlyByStart == ui = "gone" /\ Connected /\ robot.session = "start" => startAtExit

-----------------------------------------------------------------------------
(* What the calls and the flag keep.                                       *)

(* The lock is held by one handler.                                        *)
LockInv ==
  /\ \A k, l \in Keys : {call[k].cmd, call[l].cmd} \subseteq {"start", "end"} => k = l
  /\ \A k \in Keys : call[k].cmd = "end" /\ call[k].told => robot.session # "start"

Pending == IF call["tick"].cmd = "move" /\ ~call["tick"].told THEN 1 ELSE 0

QuietInv ==
  /\ robot.late \in Nat
  /\ robot.ended => ~remoteControl /\ ~Starting /\ robot.late + Pending <= 1

SessionInv ==
  /\ ui \in {"dial", "unused"} =>
       ~remoteControl /\ robot.session = "none" /\ \A c \in Callers : call[c] = NoCall
  /\ Alive /\ robot.session = "start" => remoteControl \/ Starting
  /\ ui = "keys" => call["main"] = NoCall
  /\ ui = "exit" => call["main"].cmd = "end"
  /\ ui \in {"exit", "gone"} /\ Starting => startAtExit
  /\ ui = "exit" /\ call["main"].told /\ robot.session = "start" => startAtExit
=============================================================================
