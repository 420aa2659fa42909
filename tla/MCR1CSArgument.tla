--------------------------- MODULE MCR1CSArgument ---------------------------
(***************************************************************************)
(* Circuits over the field of 7 elements, each with witnesses that satisfy *)
(* it and witnesses that do not; columns are the witness, 1, the inputs.   *)
(***************************************************************************)
EXTENDS R1CSArgument

Stmt(c, AA, BB, CC, w, i) ==
  [cons |-> c, A |-> AA, B |-> BB, C |-> CC, witness |-> w, inputs |-> i]

(* x * x = y *)
Square(x, y) ==
  Stmt(1, <<<<1, 1, 1>>>>, <<<<1, 1, 1>>>>, <<<<1, 3, 1>>>>, <<x>>, <<1, y>>)

(* x * (x - 1) = 0, a bit; padded from one row to two *)
Bit(x) == Stmt(1, <<<<1, 1, 1>>>>, <<<<1, 1, 1>>, <<1, 2, 6>>>>, <<>>, <<x>>, <<1>>)

(* x1 * x2 = y and x1 * x1 = x2; padded from two rows to four *)
Cube(x1, x2, y) ==
  Stmt(2, <<<<1, 1, 1>>, <<2, 1, 1>>>>, <<<<1, 2, 1>>, <<2, 1, 1>>>>,
       <<<<1, 4, 1>>, <<2, 2, 1>>>>, <<x1, x2>>, <<1, y>>)

(* The errors of Cube(2, 5, 2) in its two rows add up to 0. *)
MCStatements ==
  {Square(3, 2), Square(4, 2), Square(3, 3), Bit(0), Bit(1), Bit(5),
   Cube(3, 2, 6), Cube(3, 3, 2), Cube(2, 5, 2)}

MCFinalDraws == {<<4, 1, 6, 2>>}
============================================================================
