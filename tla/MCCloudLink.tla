---------------------------- MODULE MCCloudLink -----------------------------
(* CloudLink for TLC: two servers, one of which may be dead; and the       *)
(* format of its packets with short headers, blocks and lengths.           *)
EXTENDS CloudLink, TLC

CONSTANTS h1, h2, i1, i2

(* Answers to an earlier run of the process: to a hello and to a call.     *)
MCLeftover == {HelloTo(h1), OTCTo(h1, i1)}

MCBodies == UNION {[1..n -> 0..2] : n \in 0..4} \cup {[i \in 1..n |-> 1 + (i % 2)] : n \in 5..13}
=============================================================================
