---------------------------- MODULE MCIPAVectors ----------------------------
(***************************************************************************)
(* Arguments of the inner product argument over the field of 7 elements:   *)
(* every length up to 8, factors that are not all 1, and vectors with a    *)
(* half of zeros.                                                          *)
(***************************************************************************)
EXTENDS Integers

Ones(len) == [i \in 1 .. len |-> 1]

Args(aa, bb, g, h) == [a |-> aa, b |-> bb, gf |-> g, hf |-> h]

(* gf as r1cs2ipa makes it: ones, then powers of a challenge. *)
ShortArgs ==
  { Args(<<3>>, <<5>>, <<1>>, <<1>>),
    Args(<<3>>, <<0>>, <<2>>, <<4>>),
    Args(<<2, 6>>, <<1, 3>>, <<1, 1>>, <<1, 5>>),
    Args(<<0, 4>>, <<2, 0>>, Ones(2), Ones(2)) }
  \cup
  { Args(aa, bb, f[1], f[2]) :
      aa \in {<<1, 2, 3, 4>>, <<0, 0, 5, 1>>},
      bb \in {<<6, 0, 2, 5>>, <<4, 3, 0, 0>>},
      f \in {<<Ones(4), Ones(4)>>, <<<<1, 1, 1, 4>>, <<1, 5, 4, 6>>>>} }

LongArgs ==
  Args(<<1, 0, 3, 4, 2, 6, 0, 5>>, <<2, 2, 5, 1, 0, 3, 4, 6>>,
       <<1, 1, 1, 1, 1, 3, 2, 6>>, <<1, 5, 4, 6, 2, 3, 1, 5>>)

AllArgs == ShortArgs \cup {LongArgs}
============================================================================
