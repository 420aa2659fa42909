--------------------------- MODULE MCIPADeferred ---------------------------
(* IPADeferred on the arguments of MCIPAVectors, blinded by 2, with three  *)
(* draws of the last step's scalars.                                       *)
EXTENDS IPADeferred, MCIPAVectors

MCInstances ==
  {[a |-> x.a, b |-> x.b, gf |-> x.gf, hf |-> x.hf, alpha |-> 2] : x \in AllArgs}

MCFinalDraws == {<<0, 0, 0, 0>>, <<4, 1, 6, 2>>, <<2, 5, 0, 3>>}
============================================================================
