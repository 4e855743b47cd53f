---------------------------- MODULE MCTwoSided ------------------------------
(***************************************************************************)
(* Finite instances of TwoSided.                                           *)
(***************************************************************************)
EXTENDS TwoSided

CONSTANTS w, i,           \* a worker, an interactive client
          k, long, cut    \* a key; a value too long, and its beginning (with BYE in it)

MCLossyLinks  == {<<w, "client">>}
Get == [type |-> "get", key |-> k]
Set == [type |-> "set", key |-> k, value |-> long]

MCScript == [c \in Sessions |-> IF c \in Workers THEN <<{Set}, {Get, Set}, {Get}, {Set}>>
                                                 ELSE <<{Get}>>]

MCWire(q)   == IF q.type = "set" THEN [q EXCEPT !.value = cut] ELSE q
MCHasBye(x) == x = cut
=============================================================================
