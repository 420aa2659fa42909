----------------------------- MODULE MCCircuits -----------------------------
(***************************************************************************)
(* Tiny curves of prime order over the field of 19 elements: two with      *)
(* a = -3, of 19 points, with and without points of x = 0, and one with    *)
(* a = 0, of 13.  The products repeat, negate and drop bases, in numbers   *)
(* that fill the batch of a scheduler more than once.                      *)
(***************************************************************************)
EXTENDS Circuits

MCCurves == {[a |-> -3, b |-> 9, idFlag |-> TRUE], [a |-> -3, b |-> 12, idFlag |-> TRUE],
             [a |-> 0, b |-> 3, idFlag |-> FALSE]}

MCOffCurve == {<<0, 0>>, <<1, 0>>, <<1, 1>>}

MCProducts ==
  {[scalars |-> s, logs |-> <<1, 1, 12, 0, 1, 6>>] : s \in [1 .. 6 -> {0, 6, 11}]}
    \cup {[scalars |-> s, logs |-> <<1, 2, 12>>] : s \in [1 .. 3 -> 0 .. 12]}
=============================================================================
