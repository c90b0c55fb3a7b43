------------------------- MODULE RemoteControlProofs ------------------------
(* Remote control, whatever becomes of the daemon and the connection, and  *)
(* with any number of keys' handlers under way at once.                    *)
EXTENDS RemoteControl, TLAPS

USE DEF uiVars, remoteVars, vars

(* Who asks for what; the handlers of keys have the commands of keys.      *)
Commands(c) ==
  IF c = "main" THEN {"none", "end"}
  ELSE IF c = "tick" THEN {"none", "move"} ELSE {"none", "start", "end", "app"}

Shape ==
  /\ call \in [Callers -> [cmd : {"none", "start", "end", "app", "move"}, told : BOOLEAN]]
  /\ \A c \in Callers : call[c].cmd \in Commands(c)
  /\ robot \in [session : {"none", "start", "end"}, ended : BOOLEAN, late : Nat]
  /\ {remoteControl, link, startAtExit} \subseteq BOOLEAN

LEMMA NamesApart == "main" \in Callers /\ "tick" \in Callers /\ "main" \notin Keys /\ "tick" \notin Keys
BY RemoteAssumption DEF Callers

LEMMA ExitedStays ==
  ASSUME [Next]_vars, Exited
  PROVE  Exited'
BY DEF Next, Life, LifeNext, Handler, Interface, Key, Exited, Send, Dial, Press, KeyReturns,
  BreakLink, KeyFails, Quit, ExitReturns, Tick, TickReturns, lifeVars

(* A caller's call is replaced by another.                                 *)
LEMMA CallReplaced ==
  ASSUME Shape, NEW c \in Callers, NEW n \in [cmd : Commands(c), told : BOOLEAN],
         call' = [call EXCEPT ![c] = n]
  PROVE  /\ call' \in [Callers -> [cmd : {"none", "start", "end", "app", "move"}, told : BOOLEAN]]
         /\ \A d \in Callers : call'[d].cmd \in Commands(d)
         /\ call'[c] = n /\ \A d \in Callers \ {c} : call'[d] = call[d]
BY DEF Shape, Commands

(* A call that is carried out.                                             *)
LEMMA SendEffect ==
  ASSUME Shape, NEW c \in Callers, Send(c)
  PROVE  /\ Shape' /\ UNCHANGED <<lifeVars, uiVars>>
         /\ ~call[c].told /\ call'[c].told
         /\ \A d \in Callers \ {c} : call'[d] = call[d]
         /\ \A d \in Callers : call'[d].cmd = call[d].cmd
         /\ robot'.session = IF call[c].cmd \in {"start", "end"} THEN call[c].cmd ELSE robot.session
         /\ robot'.ended = robot.ended
         /\ robot'.late = IF call[c].cmd = "move" /\ robot.ended THEN robot.late + 1 ELSE robot.late
<1> DEFINE n == [cmd |-> call[c].cmd, told |-> TRUE]
<1>1. call' = [call EXCEPT ![c] = n]
  BY DEF Send
<1>2. n \in [cmd : Commands(c), told : BOOLEAN]
  BY DEF Shape
<1>3. robot' = Told(call[c].cmd) /\ UNCHANGED <<lifeVars, uiVars>> /\ ~call[c].told
  BY DEF Send
<1>4. /\ robot' \in [session : {"none", "start", "end"}, ended : BOOLEAN, late : Nat]
      /\ robot'.session = IF call[c].cmd \in {"start", "end"} THEN call[c].cmd ELSE robot.session
      /\ robot'.ended = robot.ended
      /\ robot'.late = IF call[c].cmd = "move" /\ robot.ended THEN robot.late + 1 ELSE robot.late
  BY <1>3 DEF Told, Shape
<1> HIDE DEF n
<1>5. /\ call' \in [Callers -> [cmd : {"none", "start", "end", "app", "move"}, told : BOOLEAN]]
      /\ \A d \in Callers : call'[d].cmd \in Commands(d)
      /\ call'[c] = n /\ \A d \in Callers \ {c} : call'[d] = call[d]
  BY <1>1, <1>2, CallReplaced
<1>6. \A d \in Callers : call'[d].cmd = call[d].cmd
  <2>1. n.cmd = call[c].cmd
    BY DEF n
  <2> QED
    BY <1>5, <2>1
<1>7. call'[c].told
  <2>1. n.told = TRUE
    BY DEF n
  <2> QED
    BY <1>5, <2>1
<1> QED
  BY <1>3, <1>4, <1>5, <1>6, <1>7 DEF Shape

LEMMA PressEffect ==
  ASSUME Shape, NEW k \in Keys, NEW cmd \in {"start", "end", "app"}, Press(k, cmd)
  PROVE  /\ Shape' /\ UNCHANGED <<lifeVars, ui, remoteControl, ticker, link>>
         /\ call[k] = NoCall /\ call'[k] = Begin(cmd)
         /\ \A d \in Callers \ {k} : call'[d] = call[d]
         /\ robot'.session = robot.session /\ robot'.late = robot.late
         /\ robot'.ended = (robot.ended /\ cmd # "start")
<1>1. Begin(cmd) \in [cmd : Commands(k), told : BOOLEAN] /\ k \in Callers
  BY NamesApart DEF Begin, Commands, Callers
<1>2. /\ call' \in [Callers -> [cmd : {"none", "start", "end", "app", "move"}, told : BOOLEAN]]
      /\ \A d \in Callers : call'[d].cmd \in Commands(d)
      /\ call'[k] = Begin(cmd) /\ \A d \in Callers \ {k} : call'[d] = call[d]
  BY <1>1, CallReplaced DEF Press
<1>3. /\ robot' \in [session : {"none", "start", "end"}, ended : BOOLEAN, late : Nat]
      /\ robot'.session = robot.session /\ robot'.late = robot.late
      /\ robot'.ended = (robot.ended /\ cmd # "start")
  BY DEF Press, Shape
<1>4. startAtExit' \in BOOLEAN
  BY DEF Press, Shape
<1> QED
  BY <1>2, <1>3, <1>4 DEF Press, Shape

LEMMA ReturnEffect ==
  ASSUME Shape, NEW k \in Keys, KeyReturns(k)
  PROVE  /\ Shape' /\ UNCHANGED <<lifeVars, ui, ticker, link, startAtExit>>
         /\ call[k].told /\ call'[k] = NoCall
         /\ \A d \in Callers \ {k} : call'[d] = call[d]
         /\ remoteControl' = FlagAfter(call[k].cmd)
         /\ robot'.session = robot.session
         /\ robot'.ended = (robot.ended \/ call[k].cmd = "end")
         /\ robot'.late = IF call[k].cmd = "end" THEN 0 ELSE robot.late
<1>1. NoCall \in [cmd : Commands(k), told : BOOLEAN] /\ k \in Callers
  BY NamesApart DEF NoCall, Commands, Callers
<1>2. /\ call' \in [Callers -> [cmd : {"none", "start", "end", "app", "move"}, told : BOOLEAN]]
      /\ \A d \in Callers : call'[d].cmd \in Commands(d)
      /\ call'[k] = NoCall /\ \A d \in Callers \ {k} : call'[d] = call[d]
  BY <1>1, CallReplaced DEF KeyReturns
<1>3. /\ robot' \in [session : {"none", "start", "end"}, ended : BOOLEAN, late : Nat]
      /\ robot'.session = robot.session
      /\ robot'.ended = (robot.ended \/ call[k].cmd = "end")
      /\ robot'.late = IF call[k].cmd = "end" THEN 0 ELSE robot.late
  BY DEF KeyReturns, Shape
<1>4. remoteControl' \in BOOLEAN
  BY DEF KeyReturns, FlagAfter, Shape
<1> QED
  BY <1>2, <1>3, <1>4 DEF KeyReturns, Shape

(* The steps of the other goroutines of the interface.                     *)
LEMMA QuitEffect ==
  ASSUME Shape, Quit
  PROVE  /\ Shape' /\ UNCHANGED <<lifeVars, remoteControl, link, robot>>
         /\ ui = "keys" /\ ui' \in {"exit", "gone"} /\ startAtExit' = Starting
         /\ ui' = "exit" => call'["main"] = Begin("end")
         /\ ui' = "gone" => (~remoteControl \/ ~Connected)
         /\ \A d \in Callers \ {"main"} : call'[d] = call[d]
<1>1. Starting \in BOOLEAN
  BY DEF Starting
<1>2. CASE EndFirst /\ Connected
  <2>1. Begin("end") \in [cmd : Commands("main"), told : BOOLEAN] /\ "main" \in Callers
    BY NamesApart DEF Begin, Commands
  <2>2. /\ call' \in [Callers -> [cmd : {"none", "start", "end", "app", "move"}, told : BOOLEAN]]
        /\ \A d \in Callers : call'[d].cmd \in Commands(d)
        /\ call'["main"] = Begin("end") /\ \A d \in Callers \ {"main"} : call'[d] = call[d]
    BY <1>2, <2>1, CallReplaced DEF Quit
  <2> QED
    BY <1>1, <1>2, <2>2 DEF Quit, Shape
<1>3. CASE ~(EndFirst /\ Connected)
  BY <1>1, <1>3 DEF Quit, Shape, EndFirst
<1> QED
  BY <1>2, <1>3

LEMMA TickEffect ==
  ASSUME Shape, Tick \/ TickReturns
  PROVE  /\ Shape' /\ UNCHANGED <<lifeVars, ui, remoteControl, link, startAtExit, robot>>
         /\ \A d \in Callers \ {"tick"} : call'[d] = call[d]
         /\ Tick => call'["tick"] = Begin("move") /\ remoteControl
         /\ ~Tick => call'["tick"] = NoCall
<1>1. \A n \in {Begin("move"), NoCall} : n \in [cmd : Commands("tick"), told : BOOLEAN]
  <2>1. "move" \in Commands("tick") /\ "none" \in Commands("tick")
    BY DEF Commands
  <2>2. /\ [cmd |-> "move", told |-> FALSE] \in [cmd : Commands("tick"), told : BOOLEAN]
        /\ [cmd |-> "none", told |-> FALSE] \in [cmd : Commands("tick"), told : BOOLEAN]
    BY <2>1
  <2> QED
    BY <2>2 DEF Begin, NoCall
<1>2. PICK n \in {Begin("move"), NoCall} :
        /\ call' = [call EXCEPT !["tick"] = n]
        /\ Tick => n = Begin("move") /\ remoteControl
        /\ ~Tick => n = NoCall
  BY DEF Tick, TickReturns
<1>3. /\ call' \in [Callers -> [cmd : {"none", "start", "end", "app", "move"}, told : BOOLEAN]]
      /\ \A d \in Callers : call'[d].cmd \in Commands(d)
      /\ call'["tick"] = n /\ \A d \in Callers \ {"tick"} : call'[d] = call[d]
  BY <1>1, <1>2, CallReplaced, NamesApart
<1> QED
  BY <1>2, <1>3 DEF Tick, TickReturns, Shape

OtherUI == Dial \/ BreakLink \/ KeyFails \/ ExitReturns

LEMMA OtherEffect ==
  ASSUME Shape, OtherUI
  PROVE  Shape' /\ UNCHANGED <<lifeVars, remoteControl, call, startAtExit, robot>>
BY DEF OtherUI, Dial, BreakLink, KeyFails, ExitReturns, Shape

(* All that can happen.                                                    *)
LEMMA Steps ==
  ASSUME [Next]_vars
  PROVE  \/ UNCHANGED remoteVars
         \/ \E c \in Callers : Send(c) /\ ~Exited
         \/ \E k \in Keys : KeyReturns(k) \/ \E cmd \in {"start", "end", "app"} : Press(k, cmd)
         \/ Quit \/ Tick \/ TickReturns \/ OtherUI
BY DEF Next, Life, Handler, Interface, Key, OtherUI

LEMMA ShapeInit == Init => Shape
<1> SUFFICES ASSUME Init PROVE Shape
  OBVIOUS
<1>1. NoCall \in [cmd : {"none", "start", "end", "app", "move"}, told : BOOLEAN]
      /\ \A c \in Callers : NoCall.cmd \in Commands(c)
  BY DEF NoCall, Commands
<1>2. NewRobot \in [session : {"none", "start", "end"}, ended : BOOLEAN, late : Nat]
  BY DEF NewRobot
<1> QED
  BY <1>1, <1>2 DEF Init, Shape

LEMMA ShapeStep ==
  ASSUME Shape, [Next]_vars
  PROVE  Shape'
<1>1. CASE UNCHANGED remoteVars
  BY <1>1 DEF Shape
<1> QED
  BY <1>1, Steps, SendEffect, PressEffect, ReturnEffect, QuitEffect, TickEffect, OtherEffect

-----------------------------------------------------------------------------
(* The lock.                                                               *)

LEMMA LockStep ==
  ASSUME Shape, LockInv, [Next]_vars
  PROVE  LockInv'
<1> USE DEF LockInv
<1>0. Keys \subseteq Callers
  BY DEF Callers
<1>1. CASE UNCHANGED remoteVars
  BY <1>1
<1>2. ASSUME NEW c \in Callers, Send(c) PROVE LockInv'
  <2>1. \A k \in Keys : call'[k].cmd = call[k].cmd
    BY <1>0, <1>2, SendEffect
  <2>2. ASSUME NEW k \in Keys, call'[k].cmd = "end", call'[k].told
        PROVE  robot'.session # "start"
    <3>1. CASE c = k
      BY <1>2, <2>1, <2>2, <3>1, SendEffect
    <3>2. CASE c # k
      <4>1. call[k].told /\ robot.session # "start"
        BY <1>0, <1>2, <2>1, <2>2, <3>2, SendEffect
      <4>2. call[c].cmd # "start"
        <5>1. c \in Keys => call[c].cmd # "start"
          BY <2>1, <2>2, <3>2
        <5>2. c \notin Keys => call[c].cmd # "start"
          BY DEF Shape, Commands, Callers
        <5> QED
          BY <5>1, <5>2
      <4> QED
        BY <1>2, <4>1, <4>2, SendEffect
    <3> QED
      BY <3>1, <3>2
  <2> QED
    BY <2>1, <2>2
<1>3. ASSUME NEW k \in Keys, NEW cmd \in {"start", "end", "app"}, Press(k, cmd) PROVE LockInv'
  <2>1. /\ \A l \in Keys \ {k} : call'[l] = call[l]
        /\ call'[k].cmd = cmd /\ ~call'[k].told
        /\ robot'.session = robot.session
    BY <1>0, <1>3, PressEffect DEF Begin
  <2>2. cmd # "app" => \A l \in Keys : call[l].cmd \notin {"start", "end"}
    BY <1>3 DEF Press, LockFree
  <2> QED
    BY <2>1, <2>2
<1>4. ASSUME NEW k \in Keys, KeyReturns(k) PROVE LockInv'
  <2>1. /\ \A l \in Keys \ {k} : call'[l] = call[l]
        /\ call'[k].cmd = "none" /\ robot'.session = robot.session
    BY <1>0, <1>4, ReturnEffect DEF NoCall
  <2> QED
    BY <2>1
<1>5. CASE Quit
  <2>1. \A l \in Keys : call'[l] = call[l]
    BY <1>0, <1>5, QuitEffect, NamesApart
  <2> QED
    BY <1>5, <2>1, QuitEffect
<1>6. CASE Tick \/ TickReturns
  <2>1. \A l \in Keys : call'[l] = call[l]
    BY <1>0, <1>6, TickEffect, NamesApart
  <2> QED
    BY <1>6, <2>1, TickEffect
<1>7. CASE OtherUI
  BY <1>7, OtherEffect
<1> QED
  BY <1>1, <1>2, <1>3, <1>4, <1>5, <1>6, <1>7, Steps

-----------------------------------------------------------------------------
(* After the end.                                                          *)

LEMMA QuietStep ==
  ASSUME Shape, LockInv, QuietInv, [Next]_vars
  PROVE  QuietInv'
<1> USE DEF QuietInv, Pending, Starting
<1>0. Keys \subseteq Callers /\ "tick" \in Callers /\ "tick" \notin Keys
  BY NamesApart DEF Callers
<1>1. CASE UNCHANGED remoteVars
  BY <1>1
<1>2. ASSUME NEW c \in Callers, Send(c) PROVE QuietInv'
  <2>1. \A d \in Callers : call'[d].cmd = call[d].cmd
    BY <1>2, SendEffect
  <2>2. robot'.ended = robot.ended /\ UNCHANGED remoteControl /\ robot'.late \in Nat
    BY <1>2, SendEffect DEF Shape
  <2>3. CASE c = "tick"
    <3>1. Pending' = 0 /\ robot'.late = IF Pending = 1 /\ robot.ended THEN robot.late + 1 ELSE robot.late
      <4>1. call'["tick"].told /\ ~call["tick"].told
        BY <1>0, <1>2, <2>3, SendEffect
      <4>2. robot'.late = IF call["tick"].cmd = "move" /\ robot.ended THEN robot.late + 1 ELSE robot.late
        BY <1>2, <2>3, SendEffect
      <4> QED
        BY <4>1, <4>2
    <3>2. Pending \in {0, 1}
      OBVIOUS
    <3> HIDE DEF Pending
    <3> QED
      BY <1>0, <2>1, <2>2, <3>1, <3>2
  <2>4. CASE c # "tick"
    <3>1. call[c].cmd # "move"
      BY <2>4 DEF Shape, Commands
    <3>2. robot'.late = robot.late /\ call'["tick"] = call["tick"]
      BY <1>0, <1>2, <2>4, <3>1, SendEffect
    <3> QED
      BY <1>0, <2>1, <2>2, <3>2
  <2> QED
    BY <2>3, <2>4
<1>3. ASSUME NEW k \in Keys, NEW cmd \in {"start", "end", "app"}, Press(k, cmd) PROVE QuietInv'
  <2>1. /\ \A l \in Callers \ {k} : call'[l] = call[l]
        /\ call'[k].cmd = cmd /\ robot'.late = robot.late
        /\ robot'.ended = (robot.ended /\ cmd # "start") /\ UNCHANGED remoteControl
    BY <1>3, PressEffect DEF Begin
  <2> QED
    BY <1>0, <2>1
<1>4. ASSUME NEW k \in Keys, KeyReturns(k) PROVE QuietInv'
  <2>1. /\ \A l \in Callers \ {k} : call'[l] = call[l]
        /\ call'[k].cmd = "none"
        /\ remoteControl' = FlagAfter(call[k].cmd)
        /\ robot'.ended = (robot.ended \/ call[k].cmd = "end")
        /\ robot'.late = IF call[k].cmd = "end" THEN 0 ELSE robot.late
    BY <1>0, <1>4, ReturnEffect DEF NoCall
  <2>2. call'["tick"] = call["tick"]
    BY <1>0, <2>1
  <2>3. CASE call[k].cmd = "end"
    <3>1. \A l \in Keys \ {k} : call[l].cmd # "start"
      BY <2>3 DEF LockInv
    <3> QED
      BY <1>0, <2>1, <2>2, <2>3, <3>1 DEF FlagAfter
  <2>4. CASE call[k].cmd = "start"
    BY <1>0, <2>1, <2>2, <2>4
  <2>5. CASE call[k].cmd \notin {"start", "end"}
    <3>1. remoteControl' = remoteControl
      BY <2>1, <2>5 DEF FlagAfter
    <3>2. robot'.ended = robot.ended /\ robot'.late = robot.late
      <4>1. robot.ended \in BOOLEAN
        BY DEF Shape
      <4> QED
        BY <2>1, <2>5, <4>1
    <3>3. Starting' => Starting
      BY <1>0, <2>1
    <3>4. Pending' = Pending
      BY <2>2
    <3> HIDE DEF Starting, Pending
    <3> QED
      BY <3>1, <3>2, <3>3, <3>4
  <2> QED
    BY <2>3, <2>4, <2>5
<1>5. CASE Quit
  <2>1. \A l \in Callers \ {"main"} : call'[l] = call[l]
    BY <1>5, QuitEffect
  <2> QED
    BY <1>0, <1>5, <2>1, QuitEffect, NamesApart
<1>6. CASE Tick \/ TickReturns
  <2>1. \A l \in Keys : call'[l] = call[l]
    BY <1>0, <1>6, TickEffect
  <2>2. UNCHANGED <<remoteControl, robot>>
    BY <1>6, TickEffect
  <2>3. CASE Tick
    BY <2>1, <2>2, <2>3, TickEffect
  <2>4. CASE ~Tick
    <3>1. Pending' = 0
      BY <1>6, <2>4, TickEffect DEF NoCall
    <3> QED
      BY <2>1, <2>2, <3>1
  <2> QED
    BY <2>3, <2>4
<1>7. CASE OtherUI
  BY <1>7, OtherEffect
<1> QED
  BY <1>1, <1>2, <1>3, <1>4, <1>5, <1>6, <1>7, Steps

LEMMA CallsInit == Init => LockInv /\ QuietInv /\ SessionInv
<1> SUFFICES ASSUME Init PROVE LockInv /\ QuietInv /\ SessionInv
  OBVIOUS
<1>1. \A c \in Callers : call[c] = NoCall
  BY DEF Init
<1>2. Keys \subseteq Callers /\ "tick" \in Callers /\ "main" \in Callers
  BY NamesApart DEF Callers
<1> QED
  BY <1>1, <1>2 DEF Init, LockInv, QuietInv, SessionInv, Starting, Pending, NoCall, NewRobot, Alive

(* When the end of remote control has returned the robot gets one more     *)
(* move at most, though nobody but the handlers of a and d takes the lock  *)
(* (ui.go:168, 224).                                                       *)
THEOREM Quiet == Spec => []QuietAfterEnd
<1>1. Shape /\ LockInv /\ QuietInv /\ [Next]_vars => (Shape /\ LockInv /\ QuietInv)'
  BY ShapeStep, LockStep, QuietStep
<1>2. Shape /\ QuietInv => QuietAfterEnd
  BY DEF Shape, QuietInv, QuietAfterEnd, Pending
<1> QED
  BY <1>1, <1>2, ShapeInit, CallsInit, PTL DEF Spec

-----------------------------------------------------------------------------
(* Sessions left behind.                                                   *)

LeftInv == SessionInv /\ LeftOnlyByStart

LEMMA LeftStep ==
  ASSUME Shape, LockInv, LeftInv, [Next]_vars
  PROVE  LeftInv'
<1> USE DEF LeftInv, SessionInv, LeftOnlyByStart, Starting, Alive
<1>0. /\ Keys \subseteq Callers /\ "main" \in Callers /\ "main" \notin Keys
      /\ Exited => Exited'
  BY NamesApart, ExitedStays DEF Callers
<1>1. CASE UNCHANGED remoteVars
  BY <1>0, <1>1 DEF Connected
<1>2. ASSUME NEW c \in Callers, Send(c) PROVE LeftInv'
  <2>1. \A d \in Callers : call'[d].cmd = call[d].cmd
    BY <1>2, SendEffect
  <2>2. /\ \A d \in Callers \ {c} : call'[d] = call[d]
        /\ UNCHANGED uiVars /\ Connected' = Connected /\ call[c] # NoCall
    BY <1>2, SendEffect DEF Connected, Exited, lifeVars, Send, NoCall
  <2>3. CASE robot'.session = "start" /\ robot.session # "start"
    <3>1. c \in Keys /\ call[c].cmd = "start"
      <4>1. call[c].cmd = "start"
        BY <1>2, <2>3, SendEffect
      <4> QED
        BY <4>1 DEF Shape, Commands, Callers
    <3>2. Starting /\ Starting'
      BY <2>1, <3>1
    <3> QED
      BY <1>0, <2>1, <2>2, <3>1, <3>2
  <2>4. CASE robot'.session # "start"
    BY <1>0, <2>1, <2>2, <2>4
  <2>5. CASE robot'.session = "start" /\ robot.session = "start"
    <3>1. call[c].cmd # "end"
      BY <1>2, <2>5, SendEffect
    <3> QED
      BY <1>0, <2>1, <2>2, <2>5, <3>1
  <2> QED
    BY <2>3, <2>4, <2>5
<1>3. ASSUME NEW k \in Keys, NEW cmd \in {"start", "end", "app"}, Press(k, cmd) PROVE LeftInv'
  <2>1. /\ \A l \in Callers \ {k} : call'[l] = call[l]
        /\ call[k].cmd = "none" /\ call'[k].cmd = cmd /\ robot'.session = robot.session
        /\ UNCHANGED <<ui, remoteControl, link>>
    BY <1>3, PressEffect DEF Begin, NoCall
  <2>2. Alive /\ startAtExit' = (startAtExit \/ (ui = "exit" /\ cmd = "start"))
    BY <1>3 DEF Press
  <2>3. Starting' <=> Starting \/ cmd = "start"
    BY <1>0, <2>1
  <2>4. call'["main"] = call["main"]
    BY <1>0, <2>1
  <2> HIDE DEF Starting
  <2> QED
    BY <2>1, <2>2, <2>3, <2>4
<1>4. ASSUME NEW k \in Keys, KeyReturns(k) PROVE LeftInv'
  <2>1. /\ \A l \in Callers \ {k} : call'[l] = call[l]
        /\ call[k].told /\ call'[k].cmd = "none"
        /\ remoteControl' = FlagAfter(call[k].cmd) /\ robot'.session = robot.session
        /\ UNCHANGED <<ui, link, startAtExit>>
    BY <1>0, <1>4, ReturnEffect DEF NoCall
  <2>2. Alive
    BY <1>4 DEF KeyReturns
  <2>3. Starting' => Starting
    BY <1>0, <2>1
  <2>4. call'["main"] = call["main"]
    BY <1>0, <2>1
  <2>5. robot.session = "start" => remoteControl' \/ Starting'
    <3>1. CASE call[k].cmd = "start"
      BY <2>1, <3>1 DEF FlagAfter
    <3>2. CASE call[k].cmd = "end"
      BY <2>1, <3>2 DEF LockInv
    <3>3. CASE call[k].cmd \notin {"start", "end"}
      <4>1. remoteControl' = remoteControl
        BY <2>1, <3>3 DEF FlagAfter
      <4>2. Starting => Starting'
        BY <1>0, <2>1, <3>3
      <4> QED
        BY <2>2, <4>1, <4>2
    <3> QED
      BY <3>1, <3>2, <3>3
  <2> HIDE DEF Starting
  <2> QED
    BY <2>1, <2>2, <2>3, <2>4, <2>5
<1>5. CASE Quit
  <2>1. /\ \A l \in Keys : call'[l] = call[l]
        /\ UNCHANGED <<remoteControl, link, robot>> /\ Connected' = Connected
    BY <1>0, <1>5, QuitEffect DEF Connected, Exited, lifeVars
  <2>2. Starting' <=> Starting
    BY <2>1
  <2>3. ui = "keys" /\ ui' \in {"exit", "gone"} /\ startAtExit' = Starting
    BY <1>5, QuitEffect
  <2>4. CASE ui' = "exit"
    <3>1. call'["main"] = Begin("end")
      BY <1>5, <2>4, QuitEffect
    <3>2. call'["main"].cmd = "end" /\ ~call'["main"].told
      BY <3>1 DEF Begin
    <3> HIDE DEF Starting
    <3> QED
      BY <2>1, <2>2, <2>3, <2>4, <3>2
  <2>5. CASE ui' = "gone"
    <3>1. ~remoteControl \/ ~Connected
      BY <1>5, <2>5, QuitEffect
    <3> HIDE DEF Starting
    <3> QED
      BY <2>1, <2>2, <2>3, <2>5, <3>1
  <2> QED
    BY <2>3, <2>4, <2>5
<1>6. CASE Tick \/ TickReturns
  <2>1. \A l \in Callers \ {"tick"} : call'[l] = call[l]
    BY <1>6, TickEffect
  <2>2. UNCHANGED <<ui, remoteControl, link, startAtExit, robot>> /\ Connected' = Connected /\ Alive
    BY <1>6, TickEffect DEF Connected, Exited, lifeVars, Tick, TickReturns
  <2>3. (Starting' <=> Starting) /\ call'["main"] = call["main"]
    BY <1>0, <2>1, NamesApart
  <2> HIDE DEF Starting
  <2> QED
    BY <2>2, <2>3
<1>7. CASE OtherUI
  <2>1. UNCHANGED <<remoteControl, call, startAtExit, robot>> /\ (Connected' => Connected)
    BY <1>0, <1>7, OtherEffect DEF OtherUI, Dial, BreakLink, KeyFails, ExitReturns, Connected
  <2>2. Starting' <=> Starting
    BY <2>1
  <2>3. \A k \in Callers : call[k] = NoCall => call[k].cmd = "none"
    BY DEF NoCall
  <2>4. CASE Dial
    <3>1. /\ ~Starting /\ call["main"] = NoCall /\ robot.session = "none"
          /\ ui' \in {"keys", "gone"}
      BY <1>0, <2>3, <2>4 DEF Dial
    <3> HIDE DEF Starting
    <3> QED
      BY <2>1, <2>2, <3>1
  <2>5. CASE BreakLink \/ KeyFails
    <3>1. Alive /\ ui' \in {ui, "fatal"}
      BY <2>5 DEF BreakLink, KeyFails
    <3> HIDE DEF Starting
    <3> QED
      BY <2>1, <2>2, <3>1
  <2>6. CASE ExitReturns
    <3>1. ui = "exit" /\ ui' = "gone" /\ (call["main"].told \/ ~Connected)
      BY <2>6 DEF ExitReturns
    <3> HIDE DEF Starting
    <3> QED
      BY <2>1, <2>2, <3>1
  <2> QED
    BY <1>7, <2>4, <2>5, <2>6 DEF OtherUI
<1> QED
  BY <1>1, <1>2, <1>3, <1>4, <1>5, <1>6, <1>7, Steps

(* While the connection is whole, an interface that has been quit leaves a *)
(* session behind only if a start was under way when q was pressed or      *)
(* later (ui.go:91, 157).                                                  *)
THEOREM SessionLeft == Spec => []LeftOnlyByStart
<1>1. Shape /\ LockInv /\ LeftInv /\ [Next]_vars => (Shape /\ LockInv /\ LeftInv)'
  BY ShapeStep, LockStep, LeftStep
<1>2. Init => LeftInv
  BY CallsInit DEF Init, LeftInv, LeftOnlyByStart
<1>3. LeftInv => LeftOnlyByStart
  BY DEF LeftInv
<1> QED
  BY <1>1, <1>2, <1>3, ShapeInit, CallsInit, PTL DEF Spec
=============================================================================
