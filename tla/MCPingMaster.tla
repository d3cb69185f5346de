---------------------------- MODULE MCPingMaster ----------------------------
(***************************************************************************)
(* Two namespaces.  The targets t1 and u1 of the first have one key, as    *)
(* ns+hostname+ip may be equal for two targets; t2 is alone in the second. *)
(***************************************************************************)
EXTENDS PingMaster

CONSTANTS t1, u1, t2, ns1, ns2, k1, k2

MCNsOf == [t \in Targets |-> IF t = t2 THEN ns2 ELSE ns1]
MCKeyOf == [t \in Targets |-> IF t = t2 THEN k2 ELSE k1]
=============================================================================
