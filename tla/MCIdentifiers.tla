--------------------------- MODULE MCIdentifiers ---------------------------
(***************************************************************************)
(* Scenarios of numbers and ids small enough for TLC.                      *)
(***************************************************************************)
EXTENDS Identifiers, TLC

CONSTANTS ann, ben, p, q

R(op, who, n) == [op |-> op, who |-> who, num |-> n]
S(users, pool, ask, max, time) ==
  [users |-> users, pool |-> pool, ask |-> ask, maxAsked |-> max, maxTime |-> time]

Pool == S({ann, ben}, {1, 2},
  {R("assign", ann, 1), R("assign", ann, 2), R("assign", ben, 1), R("relieve", NoOne, 1),
   R("update", ann, 2), R("update", ann, None)}, 5, 0)

Frozen == S({ann, ben}, {1},
  {R("assign", ann, 1), R("freeze", NoOne, 1), R("thaw", NoOne, 1), R("delete", NoOne, 1),
   R("relieve", NoOne, 1), R("update", ben, 1), R("batch", NoOne, 1), R("batch", NoOne, 2),
   R("assign", ann, 2)}, 5, 0)

Newcomers == S({ben}, {1},
  {R("register", ann, None), R("assign", ben, 1), R("clear", NoOne, None),
   R("relieve", NoOne, 1), R("update", ben, 2)}, 5, 0)

Clock == S({}, {}, {}, 0, 1)

All == {Pool, Frozen, Newcomers, Clock}

Numbered == p :> 0 @@ q :> 1025
=============================================================================
