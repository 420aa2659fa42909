---------------------------- MODULE MCR1CSShapes ----------------------------
(* R1CSShapes over the field of three elements. *)
EXTENDS R1CSShapes

Term(x, c) == [var |-> x, coeff |-> c]
MCOne == [kind |-> "input", idx |-> 0]

(* Any variable; one or a witness variable; sums and repeated variables. *)
MCLCsA(vs) == {<<Term(x, 1)>> : x \in vs}
MCLCsB(vs) == {<<Term(x, 2)>> : x \in {y \in vs : y = MCOne \/ y = [kind |-> "aux", idx |-> 1]}}
MCLCsC(vs) == {<<>>} \cup {<<Term(MCOne, 1), Term(x, 2), Term(MCOne, 1)>> : x \in {y \in vs : y.idx > 0}}
============================================================================
