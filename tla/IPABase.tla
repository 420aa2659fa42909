------------------------------ MODULE IPABase ------------------------------
(***************************************************************************)
(* What every prover and verifier of r1csipa's inner product argument      *)
(* share: vectors over the scalar field, group elements, multi-scalar      *)
(* multiplication, and the scalars the verifier derives from the round     *)
(* challenges.                                                             *)
(*                                                                         *)
(* IPAParams::generate hashes distinct strings to bases no one knows a     *)
(* relation between, so a group element is its vector of coefficients over *)
(* those bases: two are equal only when they are the same combination.     *)
(* Vectors are indexed from 1; the code's are from 0.                      *)
(***************************************************************************)
EXTENDS Integers, SequencesExt

CONSTANTS
  q,    \* order of the group, a prime
  N     \* how many bases IPAParams::generate makes of each kind

ASSUME PrimeAssumption ==
  /\ q \in Nat \ {0, 1}
  /\ \A d \in 2 .. q - 1 : q % d # 0

ASSUME BasesAssumption == N \in Nat \ {0}

Fq == 0 .. q - 1

Inv(x) == CHOOSE y \in Fq : (x * y) % q = 1

Exp(x, k) == FoldLeft(LAMBDA p, i : (p * x) % q, 1, [i \in 1 .. k |-> i])

(* Mutant of ExpIter: the next power is never updated. *)
ExpIterStuck(x, k) == [i \in 1 .. k |-> 1]

(* exp_iter(x).take(k) *)
ExpIter(x, k) == [i \in 1 .. k |-> Exp(x, i - 1)]

InnerProduct(a, b) == MapThenSumSet(LAMBDA i : a[i] * b[i], DOMAIN a) % q

AddVec(a, b) == [i \in DOMAIN a |-> (a[i] + b[i]) % q]

SubVec(a, b) == [i \in DOMAIN a |-> (a[i] - b[i]) % q]

ScalarMul(a, k) == [i \in DOMAIN a |-> (a[i] * k) % q]

ComponentWiseMul(a, b) == [i \in DOMAIN a |-> (a[i] * b[i]) % q]

Left(s, h) == SubSeq(s, 1, h)

Right(s, h) == SubSeq(s, h + 1, Len(s))

----------------------------------------------------------------------------
Generators == ({"G", "H"} \X (1 .. N)) \cup {<<"U", 0>>, <<"V", 0>>}

Point == [Generators -> Fq]

Identity == [g \in Generators |-> 0]

Generator(g) == [Identity EXCEPT ![g] = 1]

BasesG(n) == [i \in 1 .. n |-> Generator(<<"G", i>>)]

BasesH(n) == [i \in 1 .. n |-> Generator(<<"H", i>>)]

U == Generator(<<"U", 0>>)

V == Generator(<<"V", 0>>)

Msm(scalars, bases) ==
  [g \in Generators |->
     MapThenSumSet(LAMBDA j : scalars[j] * bases[j][g], DOMAIN scalars) % q]

(* P with its part over V removed. *)
Unblind(P) == [P EXCEPT ![<<"V", 0>>] = 0]

----------------------------------------------------------------------------
(* Product of the scalars that are not zero, inverted: batch_invert's      *)
(* result, and what it leaves of each scalar.                              *)
AllInv(us) == FoldLeft(LAMBDA p, u : IF u = 0 THEN p ELSE (p * Inv(u)) % q, 1, us)

BatchInvert(us) == [i \in DOMAIN us |-> IF us[i] = 0 THEN 0 ELSE Inv(us[i])]

Squares(us) == ComponentWiseMul(us, us)

(* 2^e *)
Pow2[e \in Nat] == IF e = 0 THEN 1 ELSE 2 * Pow2[e - 1]

NextPowerOfTwo(k) ==
  CHOOSE p \in {Pow2[e] : e \in 0 .. k} : k <= p /\ (p = 1 \/ p \div 2 < k)

FloorLog2(i) == CHOOSE e \in 0 .. i : Pow2[e] <= i /\ i < Pow2[e + 1]

(* Mutant of VerificationScalars: challenges read in order of use, not of  *)
(* creation.                                                               *)
VerificationScalarsReversed(us) ==
  LET lg_n == Len(us)
      s[i \in 0 .. Pow2[lg_n] - 1] ==
        IF i = 0 THEN AllInv(us)
        ELSE (s[i - Pow2[FloorLog2(i)]] * Squares(us)[1 + FloorLog2(i)]) % q
  IN  [i \in 1 .. Pow2[lg_n] |-> s[i - 1]]

(* verification_scalars: s[i] is the coefficient with which the i-th base  *)
(* of G enters the last one, computed from s at i less its highest bit.    *)
VerificationScalars(us) ==
  LET lg_n == Len(us)
      s[i \in 0 .. Pow2[lg_n] - 1] ==
        IF i = 0 THEN AllInv(us)
        ELSE (s[i - Pow2[FloorLog2(i)]] * Squares(us)[lg_n - FloorLog2(i)]) % q
  IN  [i \in 1 .. Pow2[lg_n] |-> s[i - 1]]
============================================================================
