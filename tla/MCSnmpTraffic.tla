--------------------------- MODULE MCSnmpTraffic ----------------------------
(***************************************************************************)
(* A switch with one interface or with two, each of a name of its own.     *)
(***************************************************************************)
EXTENDS SnmpTraffic, TLC

CONSTANTS w1, w2, i1, i2

MCSymmetry == Permutations(Workers)

OneInf == <<i1>>
TwoInfs == <<i1, i2>>

\* Traffic of one interface in one direction, and in both.
OneByte == [i \in {i1, i2} |-> [type \in Types |-> IF i = i1 /\ type = "in" THEN 1 ELSE 0]]
TwoBytes == [i \in {i1, i2} |-> [type \in Types |-> 2]]

MCNameOf == [i \in {i1, i2} |-> i]

\* A bound: bytes are carried where no fault, set back or removal happens.  What a
\* counter has is not in a point, as its type is never the one that is asserted.
BytesOrEvents ==
    (\E i \in Ifs : carried[i] # Zero) => \A e \in DOMAIN bounds : bounds[e] = 0
=============================================================================
