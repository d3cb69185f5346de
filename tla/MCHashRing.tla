----------------------------- MODULE MCHashRing -----------------------------
(***************************************************************************)
(* Three servers with two virtual nodes each on a small circle, next to    *)
(* each other for two of them and apart for the third, and names that      *)
(* fall before the first point, on a point, and past the last one.         *)
(***************************************************************************)
EXTENDS HashRing, TLC

CONSTANTS s1, s2, s3, n1, n2, n3, n4

MCAddrs == {s1, s2, s3}
MCVersions == {n1, n2, n3, n4}
MCPointHash ==
    [p \in MCAddrs \X {0, 1} |->
        CASE p[1] = s1 -> IF p[2] = 0 THEN 3 ELSE 2
          [] p[1] = s2 -> IF p[2] = 0 THEN 4 ELSE 7
          [] p[1] = s3 -> IF p[2] = 0 THEN 5 ELSE 6]
MCNameHash == (n1 :> 0) @@ (n2 :> 3) @@ (n3 :> 5) @@ (n4 :> 9)
MCEltLists == {<<>>, <<s1>>, <<s3, s2>>, <<s2, s1, s2>>, <<s1, s2, s3>>}
MCRequestSizes == {1, 2, 3, 4}
=============================================================================
