---------------------------- MODULE MCRequestMux ----------------------------
(* RequestMux for TLC: who calls what.  The names are those of the         *)
(* goroutines: init is runLocalDeviceInit, status the status updates of    *)
(* Run, cloud the keep-alive loop, user a handler of the RPC server.       *)
EXTENDS RequestMux, FiniteSets, TLC

CONSTANTS init, status, cloud, user, did, info, internal, internal2, proxy

(* Every key has one goroutine: initialisation, status polls and an        *)
(* operator's fire-and-forget commands.                                    *)
UsesApart == [g \in Callers |-> CASE g = init -> {did, info}
                                  [] g = status -> {Command}
                                  [] g = user -> {Command, Post}]

(* status and cloud both call GetInternalInfo.                             *)
UsesShared == [g \in Callers |-> CASE g = status -> {info, Command}
                                   [] g = cloud -> {info}
                                   [] g = init -> {did}]
=============================================================================
