---------------------------- MODULE MCKapacitor -----------------------------
(***************************************************************************)
(* Servers A and B (and C, whose URL client.New refuses).  The owner of v1 *)
(* is B, or A when the ring is without B.                                  *)
(***************************************************************************)
EXTENDS Kapacitor, TLC

CONSTANTS A, B, C, v1, v2, f1, m1, m2, mc

MCAddrOf == [m \in Machines |-> CASE m = m2 -> B [] m = mc -> C [] OTHER -> A]
MCPointHash ==
    [p \in Addrs \X {0, 1} |->
        CASE p[1] = A -> IF p[2] = 0 THEN 2 ELSE 5
          [] p[1] = B -> IF p[2] = 0 THEN 4 ELSE 7
          [] p[1] = C -> IF p[2] = 0 THEN 8 ELSE 9]
MCNameHash == [v \in Versions |-> IF v = v1 THEN 5 ELSE 1]

OneList == {<<m1, m2>>}
OneListBad == {<<m1, m2, mc>>}
Joining == {<<m1>>, <<m2, m1>>}

Events4(edit, relist, fault, restart) ==
    [e \in Events |-> CASE e = "edit" -> edit [] e = "relist" -> relist
                        [] e = "fault" -> fault [] e = "restart" -> restart]
BudgetFixed == Events4(2, 0, 3, 1)
BudgetSettle == Events4(1, 1, 1, 0)
BudgetEdit == Events4(1, 0, 0, 0)
=============================================================================
