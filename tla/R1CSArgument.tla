---------------------------- MODULE R1CSArgument ----------------------------
(***************************************************************************)
(* R1CSProof (r1cs.rs): a circuit's satisfiability as one inner product.   *)
(* The prover commits to its witness (T) and to Az and Bz (S0); four       *)
(* challenges turn the instance into vectors u, v and a public value w,    *)
(* with <u,v> = w when the witness satisfies the instance; then it calls   *)
(* the inner product argument, IPADeferred, which this module extends.     *)
(* The verifier never sees u or v: it rebuilds their commitment P from T,  *)
(* S0, its inputs and the challenges.                                      *)
(*                                                                         *)
(* A statement is a shape with a witness and inputs, the constant 1 first  *)
(* among them; matrices are sparse, sequences of <<row, column, value>>.   *)
(***************************************************************************)
EXTENDS IPADeferred

CONSTANTS
  Statements,            \* [cons, A, B, C, witness, inputs]
  ReduceChallenges,      \* values alpha, beta, gamma and delta may take
  CommitDraws            \* values eta and r may take

(* Rows and columns count from 1; there are bases for the padded length.   *)
ASSUME StatementsAssumption ==
  \A s \in Statements :
    LET cols == Len(s.witness) + Len(s.inputs)
    IN  /\ s.cons \in Nat /\ s.witness \in Seq(Fq) /\ s.inputs \in Seq(Fq)
        /\ \A M \in {s.A, s.B, s.C} : M \in Seq((1 .. s.cons) \X (1 .. cols) \X Fq)
        /\ NextPowerOfTwo(s.cons + cols) <= N

ASSUME ReductionDrawsAssumption == ReduceChallenges \subseteq Fq /\ CommitDraws \subseteq Fq

VARIABLES
  stmt,          \* what is to be proved
  phase,         \* "start", "committed", "reduced" or "panicked"
  eta, r_S,      \* blindings of T and of S0
  T, S0,
  chal           \* the challenges alpha, beta, gamma, delta

r1csVars == <<stmt, phase, eta, r_S, T, S0, chal, vars>>

----------------------------------------------------------------------------
(* The instance, rows padded until rows and columns make a power of two.   *)

Cols == Len(stmt.witness) + Len(stmt.inputs)

Rows == NextPowerOfTwo(stmt.cons + Cols) - Cols

Size == Rows + Cols

Z == stmt.witness \o stmt.inputs

Zeros(k) == [i \in 1 .. k |-> 0]

MultiplyVec(M, z) ==
  [row \in 1 .. Rows |->
     MapThenSumSet(LAMBDA t : M[t][3] * z[M[t][2]],
                   {t \in DOMAIN M : M[t][1] = row}) % q]

VecMultiplyMat(M, v) ==
  [col \in 1 .. Cols |->
     MapThenSumSet(LAMBDA t : M[t][3] * v[M[t][1]],
                   {t \in DOMAIN M : M[t][2] = col}) % q]

Az == MultiplyVec(stmt.A, Z)

Bz == MultiplyVec(stmt.B, Z)

(* check *)
Satisfied == ComponentWiseMul(Az, Bz) = MultiplyVec(stmt.C, Z)

----------------------------------------------------------------------------
CommitToWitness(e) ==
  Msm(stmt.witness \o Zeros(Size - Len(stmt.witness)) \o <<e>>, BasesG(Size) \o <<V>>)

CommitToInputs ==
  Msm(Zeros(Len(stmt.witness)) \o stmt.inputs \o Zeros(Rows), BasesG(Size))

ComputeS0(r) ==
  Msm(Zeros(Cols) \o Az \o Zeros(Cols) \o Bz \o <<r>>,
      BasesG(Size) \o BasesH(Size) \o <<V>>)

(* c, the public combination of the matrices under the challenges. *)
CVec(ch) ==
  SubVec(AddVec(VecMultiplyMat(stmt.A, ExpIter((ch.alpha * ch.gamma) % q, Rows)),
                VecMultiplyMat(stmt.B, ExpIter(ch.beta, Rows))),
         VecMultiplyMat(stmt.C, ExpIter(ch.gamma, Rows)))

DeltaVec(ch) ==
  [i \in 1 .. Cols |-> IF i <= Len(stmt.witness) THEN ch.delta ELSE 1]

Sq(x) == (x * x) % q

(* Mutant of W: the inputs' part is not scaled. *)
WUnscaled(ch) ==
  (InnerProduct(ExpIter(ch.alpha, Rows), ExpIter(ch.beta, Rows))
    + InnerProduct(ExpIter(ch.alpha, Cols),
                   ComponentWiseMul(CVec(ch), DeltaVec(ch)))) % q

W(ch) ==
  (InnerProduct(ExpIter(ch.alpha, Rows), ExpIter(ch.beta, Rows))
    + Sq(ch.delta) * InnerProduct(ExpIter(ch.alpha, Cols),
                                  ComponentWiseMul(CVec(ch), DeltaVec(ch)))) % q

GprimeFactors(ch) == [i \in 1 .. Cols |-> 1] \o ExpIter(Inv(ch.gamma), Rows)

(* The prover's u and v. *)
UVec(ch) ==
  AddVec(AddVec(Zeros(Len(stmt.witness)) \o stmt.inputs,
                ScalarMul(stmt.witness \o Zeros(Len(stmt.inputs)), Inv(ch.delta))),
         ScalarMul(ExpIter(ch.alpha, Cols), Sq(ch.delta)))
    \o SubVec(ComponentWiseMul(Az, ExpIter(ch.gamma, Rows)), ExpIter(ch.beta, Rows))

VVec(ch) ==
  ComponentWiseMul(CVec(ch), DeltaVec(ch)) \o SubVec(Bz, ExpIter(ch.alpha, Rows))

(* What the prover calls the inner product argument with. *)
Arguments(ch) ==
  [a |-> UVec(ch), b |-> VVec(ch), gf |-> GprimeFactors(ch),
   hf |-> [i \in 1 .. Size |-> 1], alpha |-> (r_S + Inv(ch.delta) * eta) % q]

(* Mutant of CommittedS: verify leaves its inputs out. *)
CommittedSWithoutInputs == S0

(* S = S0 + I *)
CommittedS == Msm(<<1, 1>>, <<S0, CommitToInputs>>)

(* The verifier's P, from the commitments and public values only. *)
VerifierP(ch) ==
  LET minus == q - 1
      g_scalars == ComponentWiseMul(
        ScalarMul(ExpIter(ch.alpha, Cols), Sq(ch.delta))
          \o ScalarMul(ExpIter(ch.beta, Rows), minus),
        GprimeFactors(ch))
      h_scalars == ComponentWiseMul(CVec(ch), DeltaVec(ch))
          \o ScalarMul(ExpIter(ch.alpha, Rows), minus)
  IN  Msm(<<1>> \o g_scalars \o h_scalars \o <<Inv(ch.delta), W(ch)>>,
          <<CommittedS>> \o BasesG(Size) \o BasesH(Size) \o <<T, U>>)

----------------------------------------------------------------------------
ChallengeTuples ==
  [alpha : ReduceChallenges, beta : ReduceChallenges,
   gamma : ReduceChallenges, delta : ReduceChallenges]

Invertible(ch) == ch.gamma # 0 /\ ch.delta # 0

ReductionInit ==
  /\ stmt \in Statements
  /\ phase = "start"
  /\ eta = 0 /\ r_S = 0
  /\ T = Identity /\ S0 = Identity
  /\ chal = <<>>
  /\ Init

(* create, up to the challenges. *)
Commit(e, r) ==
  /\ phase = "start"
  /\ phase' = "committed"
  /\ eta' = e /\ r_S' = r
  /\ T' = CommitToWitness(e)
  /\ S0' = ComputeS0(r)
  /\ UNCHANGED <<stmt, chal, vars>>

(* Mutant of Reduce: the argument is called without T's blinding. *)
ReduceWithoutEta(ch) ==
  /\ phase = "committed" /\ Invertible(ch)
  /\ phase' = "reduced"
  /\ chal' = ch
  /\ UNCHANGED <<stmt, eta, r_S, T, S0>>
  /\ Call([Arguments(ch) EXCEPT !.alpha = r_S])

(* r1cs2ipa on the prover's side, then the call of the argument. *)
Reduce(ch) ==
  /\ phase = "committed" /\ Invertible(ch)
  /\ phase' = "reduced"
  /\ chal' = ch
  /\ UNCHANGED <<stmt, eta, r_S, T, S0>>
  /\ Call(Arguments(ch))

(* delta.invert().unwrap() or gamma.invert().unwrap() on zero. *)
ReducePanics ==
  /\ phase = "committed" /\ 0 \in ReduceChallenges
  /\ phase' = "panicked"
  /\ UNCHANGED <<stmt, eta, r_S, T, S0, chal, vars>>

Prove ==
  /\ phase = "reduced"
  /\ Step
  /\ UNCHANGED <<stmt, phase, eta, r_S, T, S0, chal>>

ReductionNext ==
  \/ \E e, r \in CommitDraws : Commit(e, r)
  \/ \E ch \in ChallengeTuples : Reduce(ch)
  \/ ReducePanics
  \/ Prove

ReductionSpec == ReductionInit /\ [][ReductionNext]_r1csVars

----------------------------------------------------------------------------
(* The reduction's part of the state keeps its type; the argument's part,  *)
(* once called, has the arguments the reduction computed.                  *)
ReductionTypeOK ==
  /\ stmt \in Statements
  /\ phase \in {"start", "committed", "reduced", "panicked"}
  /\ eta \in Fq /\ r_S \in Fq /\ T \in Point /\ S0 \in Point
  /\ IF phase = "reduced"
     THEN chal \in ChallengeTuples /\ inst = Arguments(chal) /\ n \in 1 .. Size
     ELSE chal = <<>> /\ pc = "idle"

(* For a satisfied instance the commitment the verifier assembles from     *)
(* public values is the claim the prover's vectors open, whatever was      *)
(* drawn: the prover's and the verifier's halves of r1cs2ipa, which share  *)
(* no computation of u and v, agree (and so its debug_assert holds).  If it *)
(* is not satisfied, the two differ over no base but the inner product's:   *)
(* all a false statement can change is w against <u,v>.                     *)
ReductionComplete ==
  phase = "reduced" =>
    \A g \in Generators :
      Satisfied \/ g # <<"U", 0>> => VerifierP(chal)[g] = Claim[g]

(* The values of gamma for which <u,v> = w, with some other challenges.    *)
EscapingGammas ==
  {c \in Fq \ {0} :
     \E al, be \in Fq, de \in Fq \ {0} :
       LET ch == [alpha |-> al, beta |-> be, gamma |-> c, delta |-> de]
       IN  InnerProduct(UVec(ch), VVec(ch)) = W(ch)}

(* A witness that violates any constraint, one of several or the last of   *)
(* the unpadded ones, escapes fewer values of gamma than there are rows,   *)
(* whatever the other challenges: no cancellation among the rows, or among *)
(* the three matrices, makes w = <u,v> for more.                           *)
BadWitnessIsCaught ==
  phase = "committed" /\ ~Satisfied => Cardinality(EscapingGammas) < Rows

(* Reduction and argument together: a finished proof with no identity      *)
(* among its points is accepted for the verifier's own P exactly when the  *)
(* inner product is the public w, or the last challenge was zero.          *)
ArgumentDecides ==
  phase = "reduced" /\ pc = "done" /\ ProofValid =>
    (Verify(VerifierP(chal)) <=>
       proof.e = 0 \/ InnerProduct(inst.a, inst.b) = W(chal))
============================================================================
