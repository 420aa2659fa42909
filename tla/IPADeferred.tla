---------------------------- MODULE IPADeferred ----------------------------
(***************************************************************************)
(* The zero-knowledge inner product argument of r1csipa                    *)
(* (InnerProductArgZK::create and verify, ipa.rs; IPABases, ipa_bases.rs). *)
(* The prover does not fold its bases: each stays a list of terms, scalars *)
(* and points, that only the MSMs of the rounds evaluate.  The lists       *)
(* double every round, so once terms_per_base reaches a threshold every    *)
(* base is collapsed to a point.  Rounds are blinded by multiples of V,    *)
(* and the last one proves knowledge of a[0], b[0] instead of sending it.  *)
(*                                                                         *)
(* CollapseDiv, CollapseMin and CollapseMax are 256, 8 and 32 in the code. *)
(***************************************************************************)
EXTENDS IPABase

CONSTANTS
  Instances,      \* [a, b, gf, hf, alpha]: vectors, factors, blinding
  Challenges,     \* values a challenge may take
  Blinds,         \* values d_L and d_R may take
  FinalDraws,     \* tuples <<r, s, delta, eta>> the last step may draw
  CollapseDiv, CollapseMin, CollapseMax

(* What create's assertions ask of its arguments: vectors of one length, a *)
(* power of two for which there are bases.                                 *)
Callable(x) ==
  /\ Len(x.a) \in 1 .. N /\ \E e \in 0 .. N : Len(x.a) = Pow2[e]
  /\ \A v \in {x.a, x.b, x.gf, x.hf} : v \in [1 .. Len(x.a) -> Fq]
  /\ x.alpha \in Fq

ASSUME InstancesAssumption == \A x \in Instances : Callable(x)

ASSUME DrawsAssumption ==
  /\ Challenges \subseteq Fq /\ Blinds \subseteq Fq
  /\ FinalDraws \subseteq Fq \X Fq \X Fq \X Fq

ASSUME CollapseAssumption ==
  /\ CollapseDiv \in Nat \ {0} /\ CollapseMin \in Nat \ {0, 1} /\ CollapseMax \in Nat
  /\ CollapseMin <= CollapseMax

VARIABLES
  inst,               \* the arguments of the call
  pc,                 \* "idle", "fold", "done" or "panicked"
  n,                  \* present length of the vectors
  a, b,               \* the vectors
  alpha,              \* blinding of the claim, as folded so far
  G_bases, H_bases,   \* IPABases: [scalars, bases], a list of terms per base
  terms_per_base,
  L_vec, R_vec,
  us,                 \* the rounds' challenges
  proof               \* [A, B, r, s, delta] and the last challenge e

vars == <<inst, pc, n, a, b, alpha, G_bases, H_bases, terms_per_base,
          L_vec, R_vec, us, proof>>

NoProof == [e |-> q]

----------------------------------------------------------------------------
(* IPABases *)

(* new, then defer_init for every base *)
DeferInit(factors, points) ==
  [scalars |-> [i \in DOMAIN points |-> <<factors[i]>>],
   bases   |-> [i \in DOMAIN points |-> <<points[i]>>]]

(* split_at(h) *)
SplitL(B, h) == [scalars |-> Left(B.scalars, h), bases |-> Left(B.bases, h)]

SplitR(B, h) == [scalars |-> Right(B.scalars, h), bases |-> Right(B.bases, h)]

(* Mutant of Defer: the right half's points are not appended. *)
DeferScalarsOnly(left, right, h, kl, kr) ==
  [scalars |-> [i \in 1 .. h |-> ScalarMul(left.scalars[i], kl) \o ScalarMul(right.scalars[i], kr)],
   bases   |-> [i \in 1 .. h |-> left.bases[i]]]

(* defer(i, right, <<kl, kr>>) for every i below h *)
Defer(left, right, h, kl, kr) ==
  [scalars |-> [i \in 1 .. h |-> ScalarMul(left.scalars[i], kl) \o ScalarMul(right.scalars[i], kr)],
   bases   |-> [i \in 1 .. h |-> left.bases[i] \o right.bases[i]]]

(* get(values): the terms of <values, B> *)
GetScalars(B, values) ==
  FlattenSeq([i \in 1 .. Len(values) |-> ScalarMul(B.scalars[i], values[i])])

GetBases(B) == FlattenSeq(B.bases)

(* The point a symbolic base stands for. *)
Value(B, i) == Msm(B.scalars[i], B.bases[i])

(* Mutant of Collapse: scalars are reset, points not materialised. *)
CollapseResetOnly(B) == DeferInit([i \in DOMAIN B.bases |-> 1],
                                  [i \in DOMAIN B.bases |-> B.bases[i][1]])

Collapse(B) == DeferInit([i \in DOMAIN B.bases |-> 1],
                         [i \in DOMAIN B.bases |-> Value(B, i)])

(* (n / 256).clamp(8, 32) *)
CollapseThreshold ==
  LET share == Len(inst.a) \div CollapseDiv
  IN  IF share < CollapseMin THEN CollapseMin
      ELSE IF share > CollapseMax THEN CollapseMax ELSE share

----------------------------------------------------------------------------
NoCall == [a |-> <<>>, b |-> <<>>, gf |-> <<>>, hf |-> <<>>, alpha |-> 0]

Init ==
  /\ inst = NoCall /\ pc = "idle" /\ n = 0
  /\ a = <<>> /\ b = <<>> /\ alpha = 0
  /\ G_bases = DeferInit(<<>>, <<>>) /\ H_bases = DeferInit(<<>>, <<>>)
  /\ terms_per_base = 1
  /\ L_vec = <<>> /\ R_vec = <<>> /\ us = <<>>
  /\ proof = NoProof

(* create is called with arguments x. *)
Call(x) ==
  /\ pc = "idle"
  /\ pc' = "fold"
  /\ inst' = x
  /\ n' = Len(x.a)
  /\ a' = x.a
  /\ b' = x.b
  /\ alpha' = x.alpha
  /\ G_bases' = DeferInit(x.gf, BasesG(Len(x.a)))
  /\ H_bases' = DeferInit(x.hf, BasesH(Len(x.a)))
  /\ UNCHANGED <<terms_per_base, L_vec, R_vec, us, proof>>

FoldVec(v, h, left, right) ==
  [i \in 1 .. h |-> (left * v[i] + right * v[h + i]) % q]

CrossTerm(aHalf, bHalf, Ghalf, Hhalf, d) ==
  Msm(GetScalars(Ghalf, aHalf) \o GetScalars(Hhalf, bHalf)
        \o <<InnerProduct(aHalf, bHalf), d>>,
      GetBases(Ghalf) \o GetBases(Hhalf) \o <<U, V>>)

(* Mutant of FoldAlpha: the challenge is not squared. *)
FoldAlphaUnsquared(d_L, d_R, u) == (alpha + u * d_L + Inv(u) * d_R) % q

FoldAlpha(d_L, d_R, u) ==
  (alpha + u * u * d_L + Inv(u) * Inv(u) * d_R) % q

(* Mutant of CollapseDue: only beyond the threshold. *)
CollapseDueBeyond(terms, h) == terms > CollapseThreshold /\ h # 1

CollapseDue(terms, h) == terms >= CollapseThreshold /\ h # 1

(* One iteration of the loop, the collapse at its end included. *)
Round(d_L, d_R, u) ==
  LET h == n \div 2
      GL == SplitL(G_bases, h)  GR == SplitR(G_bases, h)
      HL == SplitL(H_bases, h)  HR == SplitR(H_bases, h)
      G_new == Defer(GL, GR, h, Inv(u), u)
      H_new == Defer(HL, HR, h, u, Inv(u))
      due == CollapseDue(2 * terms_per_base, h)
  IN  /\ pc = "fold" /\ n # 1 /\ u # 0
      /\ n' = h
      /\ L_vec' = Append(L_vec, CrossTerm(Left(a, h), Right(b, h), GR, HL, d_L))
      /\ R_vec' = Append(R_vec, CrossTerm(Right(a, h), Left(b, h), GL, HR, d_R))
      /\ us' = Append(us, u)
      /\ a' = FoldVec(a, h, u, Inv(u))
      /\ b' = FoldVec(b, h, Inv(u), u)
      /\ alpha' = FoldAlpha(d_L, d_R, u)
      /\ G_bases' = IF due THEN Collapse(G_new) ELSE G_new
      /\ H_bases' = IF due THEN Collapse(H_new) ELSE H_new
      /\ terms_per_base' = IF due THEN 1 ELSE 2 * terms_per_base
      /\ UNCHANGED <<inst, pc, proof>>

(* u.invert().unwrap() on a zero challenge. *)
ZeroChallenge ==
  /\ pc = "fold" /\ n # 1 /\ 0 \in Challenges
  /\ pc' = "panicked"
  /\ UNCHANGED <<inst, n, a, b, alpha, G_bases, H_bases, terms_per_base,
                 L_vec, R_vec, us, proof>>

(* The n = 1 case: A and B are sent, e comes back, the openings are made. *)
LastStep(r, s, delta, eta, e) ==
  LET A == Msm(GetScalars(G_bases, <<r>>) \o GetScalars(H_bases, <<s>>)
                 \o <<(r * b[1] + s * a[1]) % q, delta>>,
               GetBases(G_bases) \o GetBases(H_bases) \o <<U, V>>)
      B == Msm(<<(r * s) % q, eta>>, <<U, V>>)
  IN  /\ pc = "fold" /\ n = 1
      /\ proof' = [A |-> A, B |-> B,
                   r |-> (r + a[1] * e) % q,
                   s |-> (s + b[1] * e) % q,
                   delta |-> (eta + delta * e + alpha * e * e) % q,
                   e |-> e]
      /\ pc' = "done"
      /\ UNCHANGED <<inst, n, a, b, alpha, G_bases, H_bases, terms_per_base,
                     L_vec, R_vec, us>>

(* The steps of a call under way. *)
Step ==
  \/ \E d_L, d_R \in Blinds, u \in Challenges : Round(d_L, d_R, u)
  \/ ZeroChallenge
  \/ \E d \in FinalDraws, e \in Challenges : LastStep(d[1], d[2], d[3], d[4], e)

Next == Step \/ \E x \in Instances : Call(x)

Spec == Init /\ [][Next]_vars

----------------------------------------------------------------------------
Valid(points) == \A i \in DOMAIN points : points[i] # Identity

(* verify: expect_B, one MSM over the original bases and the proof. *)
ExpectB(P) ==
  LET sv == VerificationScalars(us)
      len == Len(inst.a)
      e == proof.e
      minus_e_sqr == (q - 1) * e * e
  IN  Msm(
        <<(proof.r * proof.s) % q, ((q - 1) * e) % q, proof.delta, minus_e_sqr % q>>
          \o ScalarMul(ComponentWiseMul(sv, inst.gf), (proof.r * e) % q)
          \o ScalarMul(ComponentWiseMul(Reverse(sv), inst.hf), (proof.s * e) % q)
          \o ScalarMul(Squares(us), minus_e_sqr % q)
          \o ScalarMul(Squares(BatchInvert(us)), minus_e_sqr % q),
        <<U, proof.A, V, P>> \o BasesG(len) \o BasesH(len) \o L_vec \o R_vec)

ProofValid == Valid(L_vec) /\ Valid(R_vec) /\ Valid(<<proof.A, proof.B>>)

(* Mutant of Verify: compared up to a multiple of V. *)
VerifyUpToBlinding(P) == ProofValid /\ Unblind(ExpectB(P)) = Unblind(proof.B)

Verify(P) == ProofValid /\ ExpectB(P) = proof.B

----------------------------------------------------------------------------
(* P = <a,G> + <b,H> + <a,b>U + alpha V, factors included. *)
Claim ==
  LET len == Len(inst.a)
  IN  Msm(ComponentWiseMul(inst.a, inst.gf) \o ComponentWiseMul(inst.b, inst.hf)
            \o <<InnerProduct(inst.a, inst.b), inst.alpha>>,
          BasesG(len) \o BasesH(len) \o <<U, V>>)

Values(B) == [i \in DOMAIN B.bases |-> Value(B, i)]

IsBases(B) ==
  /\ DOMAIN B.scalars = 1 .. n /\ DOMAIN B.bases = 1 .. n
  /\ \A i \in 1 .. n :
       /\ B.scalars[i] \in [1 .. Len(B.scalars[i]) -> Fq]
       /\ B.bases[i] \in [1 .. Len(B.scalars[i]) -> Point]

(* The state keeps its type: vectors and symbolic bases have length n, and *)
(* the scalars of a base pair with its points.                             *)
TypeOK ==
  /\ IF pc = "idle" THEN inst = NoCall ELSE inst \in Instances
  /\ pc \in {"idle", "fold", "done", "panicked"}
  /\ n * Pow2[Len(us)] = Len(inst.a)
  /\ a \in [1 .. n -> Fq] /\ b \in [1 .. n -> Fq] /\ alpha \in Fq
  /\ IsBases(G_bases) /\ IsBases(H_bases)
  /\ terms_per_base \in Nat \ {0}
  /\ L_vec \in [1 .. Len(us) -> Point] /\ R_vec \in [1 .. Len(us) -> Point]
  /\ us \in [1 .. Len(us) -> Challenges]
  /\ pc = "done" =>
       proof \in [A : Point, B : Point, r : Fq, s : Fq, delta : Fq, e : Challenges]

(* terms_per_base, which decides when to collapse, is a counter kept apart *)
(* from the lists it counts: it is exact for every base of both kinds, and *)
(* while another round is to come no list has reached the threshold (the   *)
(* cap the comment on collapse promises).                                  *)
TermsCounted ==
  /\ \A i \in 1 .. n :
       Len(G_bases.scalars[i]) = terms_per_base /\ Len(H_bases.scalars[i]) = terms_per_base
  /\ n # 1 => terms_per_base < CollapseThreshold

(* Whatever the rounds blind with, the folded vectors under the symbolic   *)
(* bases, with the folded alpha, open the claim moved by the challenges'   *)
(* multiples of L and R: alpha, folded apart from the rest, keeps up.      *)
BlindedClaimPreserved ==
  Msm(a \o b \o <<InnerProduct(a, b), alpha>>,
      Values(G_bases) \o Values(H_bases) \o <<U, V>>)
    = Msm(<<1>> \o Squares(us) \o Squares(BatchInvert(us)), <<Claim>> \o L_vec \o R_vec)

(* A completed proof is accepted for its claim, unless a point the         *)
(* verifier refuses, the identity, is among those the prover sent.  And it *)
(* is tied to that claim: moved by any one of the bases, the inner         *)
(* product's and the blinding's included, the claim is refused.  Only a    *)
(* last challenge of zero, at which verify no longer looks at P, accepts   *)
(* another.                                                                *)
ProofIsForItsClaim ==
  pc = "done" =>
    /\ Verify(Claim) <=> ProofValid
    /\ proof.e # 0 =>
         \A g \in Generators : ~Verify(Msm(<<1, 1>>, <<Claim, Generator(g)>>))

(* The bases folded at once, the terms over V removed: create_orig. *)
Eager == INSTANCE IPAFold WITH
  Instances <- {[f \in {"a", "b", "gf", "hf"} |-> x[f]] : x \in Instances},
  inst <- [f \in {"a", "b", "gf", "hf"} |-> inst[f]],
  G <- IF us = <<>> THEN BasesG(n) ELSE Values(G_bases),
  H <- IF us = <<>> THEN BasesH(n) ELSE Values(H_bases),
  L_vec <- [i \in DOMAIN L_vec |-> Unblind(L_vec[i])],
  R_vec <- [i \in DOMAIN R_vec |-> Unblind(R_vec[i])]

(* Deferring and collapsing change nothing: every run of create is a run   *)
(* of create_orig with the same challenges, its symbolic bases standing    *)
(* for the folded ones and its L and R the same up to the blinding.        *)
FoldsEagerly == Eager!Spec
============================================================================
