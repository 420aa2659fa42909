------------------------------ MODULE MCCurve ------------------------------
(***************************************************************************)
(* A real, tiny signing curve: y^2 = x^3 + 3 over the field of 19          *)
(* elements, whose group has the prime order 13 and the generator (1, 2).  *)
(* A point is its discrete logarithm; Xs lists the x-coordinates, 0 for    *)
(* the identity as to_affine has it.  As on P-256, q < p: the points with  *)
(* logarithms 2 and 11 have x = 14, which does not convert to a scalar.    *)
(***************************************************************************)
EXTENDS NRSig, Naturals, Sequences

MCq == 13
MCFq == 0 .. MCq - 1
MCAdd(a, b) == (a + b) % MCq
MCNeg(a) == (MCq - a) % MCq
MCMul(a, b) == (a * b) % MCq
Xs == <<0, 1, 14, 11, 7, 3, 2, 2, 3, 7, 11, 14, 1>>
MCX(P) == Xs[P + 1]
MCFpToFq(r) == IF r < MCq THEN r ELSE NoScalar
MCFp == 0 .. 18

(* A string's point: "b2" misses the curve, "b3" is not 32 bytes long. *)
MCHashToCurve(b) == CASE b = "b1" -> 9 [] b = "b3" -> 4 [] OTHER -> NoPoint
MCIsMsgLen(b) == b # "b3"
MCByteStrings == {"b1", "b2", "b3"}

(* Transcripts hash: any function of their content will do. *)
MCChSL(R0, A) == (R0 * R0 + 5 * A + 2) % MCq
============================================================================
