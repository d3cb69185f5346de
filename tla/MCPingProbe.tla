----------------------------- MODULE MCPingProbe ------------------------------
(***************************************************************************)
(* w1 pings b, a name of a version 6 address that takes time to resolve    *)
(* and to dial, with an interval of 1.  w2 pings a, of the notaries a and  *)
(* c, with which it shares replies: its Ping takes 2 units of time at most *)
(* and fits into its interval of 3, and publicPing, which takes twice as   *)
(* long, does not fit into its interval of 1.                              *)
(***************************************************************************)
EXTENDS PingProbe

CONSTANTS w1, w2, a, b, c

MCAddressOf == [w \in Workers |-> IF w = w1 THEN b ELSE a]
MCNotary == <<a, c>>
MCTimeout == [p \in Pingers |-> 1]
MCInterval == [p \in Pingers |-> IF p = w2 THEN 3 ELSE 1]

\* A bound: each worker runs with livenessTask, but not the two at once.  They
\* have no address in common, and so neither replies nor sockets.
OneWorker == \E w \in Workers : pinger[w].pc = "new"
=============================================================================
