---------------------------- MODULE MCApiMonitor ----------------------------
(***************************************************************************)
(* An API with two addresses and an interval of three units of time: with  *)
(* the timeout of `slow`, 2, two monitors overlap.  That of `quick` is out *)
(* of range, so that it has the default, 1, and a monitor ends before the  *)
(* next tick.  The pattern of `odd` does not compile.                      *)
(***************************************************************************)
EXTENDS ApiMonitor

CONSTANTS quick, slow, odd

MCResponseTimeout ==
    [meta \in Metas |-> IF meta = slow THEN 2 ELSE 7]
MCHasBody == [meta \in Metas |-> meta = quick]
MCPattern ==
    [meta \in Metas |-> CASE meta = odd -> "bad" [] meta = quick -> "good" [] OTHER -> "none"]
=============================================================================
