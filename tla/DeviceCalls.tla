---------------------------- MODULE DeviceCalls -----------------------------
(***************************************************************************)
(* The calls rocklet's goroutines make to the firmware of the vacuum, and  *)
(* the keys their answers are recognised by.  Data is abstract.  A request *)
(* is                                                                      *)
(*   - a response name in Names: sent without an ID on the internal queue, *)
(*     awaited under that name (GetInternalInfo, GetToken, LocalDeviceID,  *)
(*     LocalWifiConfigStatus);                                             *)
(*   - Command: sent on the app proxy queue with a drawn ID and awaited    *)
(*     under it (AppCommand, LocalGetStatus);                              *)
(*   - Post: sent on the app proxy queue, nobody awaits an answer          *)
(*     (LocalSetStatus, LocalAppStart, LocalAppRCMove, ...).               *)
(* The n-th call of caller g is <<g, n>>.  It stands for the channel the   *)
(* call makes and for the ID it draws.  IDs are taken as unique: they have *)
(* 63 bits, or 31 on a 32-bit machine, and come from a generator that the  *)
(* goroutines share without a lock.                                        *)
(***************************************************************************)
EXTENDS Naturals

CONSTANTS
  Callers,   \* goroutines that call the device
  Names,     \* response names awaited on the internal queue
  Command,   \* an app proxy request awaited by its ID
  Post,      \* an app proxy request nobody awaits
  Uses,      \* Uses[g]: the requests caller g makes
  MaxCalls,  \* bound: calls a caller makes
  None       \* no channel, no request

Requests == Names \cup {Command, Post}
Calls    == Callers \X (1..MaxCalls)
Keys     == Names \cup Calls
Msg      == [call : Calls, req : Requests]

ASSUME CallsAssumption == MaxCalls \in Nat
ASSUME UsesAssumption  == Uses \in [Callers -> SUBSET Requests]
ASSUME NamesAssumption == /\ Command # Post
                          /\ Command \notin Names
                          /\ Post \notin Names
                          /\ Names \cap Calls = {}
ASSUME NoneAssumption  == None \notin Calls \cup Requests

(* An answer to a Command carries the ID drawn for it and no registered    *)
(* name; an internal answer carries its name and no ID.                    *)
KeyOf(m) == IF m.req \in Names THEN m.req ELSE m.call

(* Only one goroutine ever awaits the key of m.                            *)
Exclusive(m) ==
  \/ m.req = Command
  \/ m.req \in Names /\ \A g \in Callers : m.req \in Uses[g] => g = m.call[1]

(* The queue, and so the kind of connection, a request goes out on.        *)
QueueOf(r) == IF r \in Names THEN "internal" ELSE "appproxy"
=============================================================================
