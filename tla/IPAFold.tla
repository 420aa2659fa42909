------------------------------ MODULE IPAFold ------------------------------
(***************************************************************************)
(* The inner product argument with bases folded at once                    *)
(* (InnerProductArg::create_orig and verify, ipa_no_zk.rs): the code's     *)
(* plain version, and what the deferring provers must agree with.  The     *)
(* prover halves its vectors until one entry is left, sending two          *)
(* commitments a round and getting a challenge from the transcript.        *)
(*                                                                         *)
(* Prover and verifier feed the transcript the same messages, so the       *)
(* verifier's challenges are the prover's, us; each may be any scalar.     *)
(***************************************************************************)
EXTENDS IPABase

CONSTANTS
  Instances,    \* [a, b, gf, hf]: vectors and factors of the bases
  Challenges    \* values a round's challenge may take

ASSUME InstancesAssumption ==
  \A x \in Instances :
    /\ Len(x.a) \in 1 .. N /\ \E e \in 0 .. N : Len(x.a) = Pow2[e]
    /\ \A v \in {x.a, x.b, x.gf, x.hf} : v \in [1 .. Len(x.a) -> Fq]

ASSUME ChallengesAssumption == Challenges \subseteq Fq

VARIABLES
  inst,     \* the arguments of the call
  pc,       \* "idle", "fold", "done" or "panicked"
  n,        \* present length of the vectors
  a, b,     \* the vectors
  G, H,     \* the bases; the factors are not applied before the first round
  L_vec, R_vec,
  us        \* the challenges so far

vars == <<inst, pc, n, a, b, G, H, L_vec, R_vec, us>>

----------------------------------------------------------------------------
NoCall == [a |-> <<>>, b |-> <<>>, gf |-> <<>>, hf |-> <<>>]

Init ==
  /\ inst = NoCall /\ pc = "idle" /\ n = 0
  /\ a = <<>> /\ b = <<>> /\ G = <<>> /\ H = <<>>
  /\ L_vec = <<>> /\ R_vec = <<>> /\ us = <<>>

(* create_orig is called with arguments x. *)
Call(x) ==
  /\ pc = "idle"
  /\ pc' = "fold"
  /\ inst' = x
  /\ n' = Len(x.a)
  /\ a' = x.a
  /\ b' = x.b
  /\ G' = BasesG(Len(x.a))
  /\ H' = BasesH(Len(x.a))
  /\ UNCHANGED <<L_vec, R_vec, us>>

(* The bases with the factors the first round multiplies in. *)
Factored(bases, factors) ==
  IF us = <<>> THEN [i \in DOMAIN bases |-> Msm(<<factors[i]>>, <<bases[i]>>)]
               ELSE bases

(* Mutant of FoldVec: a term is not reduced. *)
FoldVecUnreduced(v, h, left, right) ==
  [i \in 1 .. h |-> ((left * v[i]) % q) + right * v[h + i]]

FoldVec(v, h, left, right) ==
  [i \in 1 .. h |-> (left * v[i] + right * v[h + i]) % q]

(* Mutant of FoldBases: left and right take each other's challenge. *)
FoldBasesSwapped(bases, h, left, right) ==
  [i \in 1 .. h |-> Msm(<<right, left>>, <<bases[i], bases[h + i]>>)]

FoldBases(bases, h, left, right) ==
  [i \in 1 .. h |-> Msm(<<left, right>>, <<bases[i], bases[h + i]>>)]

(* L commits to the left half of a and the right half of b under the       *)
(* opposite halves of the bases; R the other way round.                    *)
CrossTerm(aHalf, bHalf, Ghalf, Hhalf) ==
  Msm(aHalf \o bHalf \o <<InnerProduct(aHalf, bHalf)>>, Ghalf \o Hhalf \o <<U>>)

(* One iteration of the loop. *)
Fold(u) ==
  LET h == n \div 2
      FG == Factored(G, inst.gf)
      FH == Factored(H, inst.hf)
  IN  /\ pc = "fold" /\ n # 1 /\ u # 0
      /\ n' = h
      /\ L_vec' = Append(L_vec, CrossTerm(Left(a, h), Right(b, h), Right(FG, h), Left(FH, h)))
      /\ R_vec' = Append(R_vec, CrossTerm(Right(a, h), Left(b, h), Left(FG, h), Right(FH, h)))
      /\ us' = Append(us, u)
      /\ a' = FoldVec(a, h, u, Inv(u))
      /\ b' = FoldVec(b, h, Inv(u), u)
      /\ G' = FoldBases(FG, h, Inv(u), u)
      /\ H' = FoldBases(FH, h, u, Inv(u))
      /\ UNCHANGED <<inst, pc>>

(* u.invert().unwrap() on a zero challenge. *)
ZeroChallenge ==
  /\ pc = "fold" /\ n # 1 /\ 0 \in Challenges
  /\ pc' = "panicked"
  /\ UNCHANGED <<inst, n, a, b, G, H, L_vec, R_vec, us>>

(* The loop ends: the proof is L_vec, R_vec, a[1] and b[1]. *)
Finish ==
  /\ pc = "fold" /\ n = 1
  /\ pc' = "done"
  /\ UNCHANGED <<inst, n, a, b, G, H, L_vec, R_vec, us>>

Next ==
  \/ \E x \in Instances : Call(x)
  \/ \E u \in Challenges : Fold(u)
  \/ ZeroChallenge
  \/ Finish

Spec == Init /\ [][Next]_vars

----------------------------------------------------------------------------
(* verify: one MSM over the original bases, the inner base and the proof's *)
(* points.  validate_and_append_point refuses an identity among the latter.*)
Valid(points) == \A i \in DOMAIN points : points[i] # Identity

Verify(P) ==
  LET s == VerificationScalars(us)
      len == Len(inst.a)
      minus == q - 1
      expect_P == Msm(
        <<(a[1] * b[1]) % q>>
          \o ScalarMul(ComponentWiseMul(s, inst.gf), a[1])
          \o ScalarMul(ComponentWiseMul(Reverse(s), inst.hf), b[1])
          \o ScalarMul(Squares(us), minus)
          \o ScalarMul(Squares(BatchInvert(us)), minus),
        <<U>> \o BasesG(len) \o BasesH(len) \o L_vec \o R_vec)
  IN  Valid(L_vec) /\ Valid(R_vec) /\ expect_P = P

----------------------------------------------------------------------------
(* The claim the caller makes: <a,G> + <b,H> + <a,b>U, factors included. *)
Claim ==
  LET len == Len(inst.a)
  IN  Msm(ComponentWiseMul(inst.a, inst.gf) \o ComponentWiseMul(inst.b, inst.hf)
            \o <<InnerProduct(inst.a, inst.b)>>,
          BasesG(len) \o BasesH(len) \o <<U>>)

(* The state keeps its type: after each round the vectors, the bases and   *)
(* the transcript's challenges have the lengths that belong to n.          *)
TypeOK ==
  /\ IF pc = "idle" THEN inst = NoCall ELSE inst \in Instances
  /\ pc \in {"idle", "fold", "done", "panicked"}
  /\ n * Pow2[Len(us)] = Len(inst.a)
  /\ a \in [1 .. n -> Fq] /\ b \in [1 .. n -> Fq]
  /\ G \in [1 .. n -> Point] /\ H \in [1 .. n -> Point]
  /\ L_vec \in [1 .. Len(us) -> Point] /\ R_vec \in [1 .. Len(us) -> Point]
  /\ us \in [1 .. Len(us) -> Challenges]

(* What a round commits to is the claim of the round before: the folded    *)
(* vectors under the folded bases open the original claim moved by the     *)
(* square of each challenge times its L and the inverse square times its   *)
(* R.  create_orig's loop never computes this; verify relies on it.        *)
ClaimPreserved ==
  Msm(a \o b \o <<InnerProduct(a, b)>>,
      Factored(G, inst.gf) \o Factored(H, inst.hf) \o <<U>>)
    = Msm(<<1>> \o Squares(us) \o Squares(BatchInvert(us)), <<Claim>> \o L_vec \o R_vec)

(* A proof the prover completes is accepted for its claim: verify's single *)
(* MSM, with coefficients recomputed from the challenges alone, agrees     *)
(* with the bases folded round by round.  The exception is a round whose L *)
(* or R is the identity (a half of a and of b zero together): the prover   *)
(* sends it and verify refuses it.                                         *)
HonestProofVerifies ==
  pc = "done" => (Verify(Claim) <=> Valid(L_vec) /\ Valid(R_vec))

(* The comment on verify, "works for proofs created with any of the above  *)
(* methods", taken without the exception.                                  *)
EveryProofVerifies == pc = "done" => Verify(Claim)
============================================================================
