------------------------------ MODULE MCInfraCLI ------------------------------
(* A small instance of InfraCLI for TLC, with objects of another shoot. *)
EXTENDS InfraCLI

Foreigner(k, parent, id, a, v) ==
  [kind |-> k, id |-> id, parent |-> parent, owner |-> "other",
   attrs |-> [b \in Attr |-> IF b = a THEN v ELSE Nil]]

MCOthers ==
  {Foreigner("t1", Nil, 1, "t0", 1), Foreigner("rule", 1, 2, "ip", 4),
   Foreigner("seg", Nil, 3, "t1", 1), Foreigner("alloc", 1, 4, "none", 0)}
=============================================================================
