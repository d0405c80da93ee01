--------------------------- MODULE MCInfrastructure ---------------------------
(***************************************************************************)
(* Small instances of Infrastructure for TLC: one other shoot with objects *)
(* of each kind that this shoot could mistake for its own.                 *)
(***************************************************************************)
EXTENDS InfrastructureProps

Foreigner(k, parent, id, a, v) ==
  [kind |-> k, id |-> id, parent |-> parent, owner |-> "other",
   attrs |-> [b \in Attr |-> IF b = a THEN v ELSE Nil]]

\* Another shoot: a gateway (1), a rule below it (2), a segment (3) and an
\* allocation in the same IP pool (4).
MCOthers ==
  {Foreigner("t1", Nil, 1, "t0", 1), Foreigner("rule", 1, 2, "ip", 4),
   Foreigner("seg", Nil, 3, "t1", 1), Foreigner("alloc", 1, 4, "none", 0)}
  
\* With an external gateway (5) on which both shoots build.
MCOthersExternal ==
  {Foreigner("t1", Nil, 5, "t0", 1), Foreigner("ls", 5, 5, "ec", 1),
   Foreigner("rule", 5, 2, "ip", 4),
   Foreigner("seg", Nil, 3, "t1", 5), Foreigner("alloc", 1, 4, "none", 0)}
=============================================================================
