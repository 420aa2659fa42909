----------------------------- MODULE SpartanR1CS -----------------------------
(***************************************************************************)
(* R1CSProof (r1csproof.rs): Spartan's proof that an instance is           *)
(* satisfied, over the zero-knowledge sumcheck (sumcheck.rs).              *)
(*                                                                         *)
(* The prover reduces the instance to a sum over the hypercube of rows,    *)
(* the sum, round by round, to claims about Az, Bz and Cz at one point rx, *)
(* these to a sum over columns, and that to the committed assignment at    *)
(* ry.  Every round polynomial and claim is committed, never sent.  The    *)
(* verifier replays the rounds.  One action is a round, or a section       *)
(* between rounds; the challenges follow from the transcript.              *)
(***************************************************************************)
EXTENDS SpartanSigma

VARIABLES
  stmt,      \* [cons, vars, A, B, C, w, io]: shape, assignment and inputs
  seed,      \* what the transcript held before
  stage,     \* where prover or verifier are
  ps, vs,    \* the sessions of the prover and of the verifier
  sc,        \* the prover's running sumcheck
  rx, tau,   \* the rows' point, and the challenge the rows are weighed by
  mid,       \* what the prover computes between the sumchecks
  proof,     \* the R1CSProof built so far
  vc         \* the verifier's running sumcheck, and what it kept of the first

proverVars == <<ps, sc, rx, tau, mid, proof>>
verifierVars == <<vs, vc>>

----------------------------------------------------------------------------
(* The instance *)

RowVars == Log2(stmt.cons)
ColVars == Log2(2 * stmt.vars)

(* The assignment, 1, the inputs, and zeros. *)
Z == PadTo(stmt.w \o <<1>> \o stmt.io, 2 * stmt.vars)

(* SparseMatPolynomial::multiply_vec *)
MultiplyVec(M, z) ==
  [row \in 1 .. stmt.cons |->
     Sum([k \in DOMAIN M |-> IF M[k][1] + 1 = row THEN (M[k][3] * z[M[k][2] + 1]) % p ELSE 0])]

(* Mutant of EvalTable: a later entry of a column replaces an earlier one. *)
EvalTableLast(M, evals) ==
  [col \in 1 .. 2 * stmt.vars |->
     FoldLeft(LAMBDA acc, k : IF M[k][2] + 1 = col THEN (evals[M[k][1] + 1] * M[k][3]) % p
                              ELSE acc, 0, [k \in DOMAIN M |-> k])]

(* compute_eval_table_sparse *)
EvalTable(M, evals) ==
  [col \in 1 .. 2 * stmt.vars |->
     Sum([k \in DOMAIN M |-> IF M[k][2] + 1 = col THEN (evals[M[k][1] + 1] * M[k][3]) % p ELSE 0])]

(* R1CSInstance::evaluate: A, B and C at (rx, ry). *)
EvaluateMatrices(x, y) ==
  LET ex == EqEvals(x)
      ey == EqEvals(y)
      at(M) == Sum([k \in DOMAIN M |-> (ex[M[k][1] + 1] * ey[M[k][2] + 1] * M[k][3]) % p])
  IN  <<at(stmt.A), at(stmt.B), at(stmt.C)>>

IsSat ==
  \A i \in 1 .. stmt.cons :
    (MultiplyVec(stmt.A, Z)[i] * MultiplyVec(stmt.B, Z)[i]) % p = MultiplyVec(stmt.C, Z)[i]

(* R1CSGens::new: all generators are of one label. *)
GensPC == PolyCommitmentGens(Log2(stmt.vars))
Gens1 == GensPC.gens_1
GensN(degree) == MultiCommitGens(degree + 1)

----------------------------------------------------------------------------
(* The zero-knowledge sumcheck *)

(* comb_func of the two phases, and the degree it has in each variable. *)
CombCubic(v) == (v[1] * ((v[2] * v[3] + p - v[4]) % p)) % p
CombQuad(v) == (v[1] * v[2]) % p

Degree(tables) == IF Len(tables) = 4 THEN 3 ELSE 2
Comb(v) == IF Len(v) = 4 THEN CombCubic(v) ELSE CombQuad(v)

(* The value at 1 is what the claim leaves for it. *)
RoundPoly(tables, claim) ==
  LET at(e) == LET rows == EvalPoint(tables, e) IN Sum([i \in DOMAIN rows |-> Comb(rows[i])])
      e0 == at(0)
      low == <<e0, (claim + p - e0) % p, at(2)>>
  IN  FromEvals(IF Degree(tables) = 3 THEN Append(low, at(3)) ELSE low)

(* The vector whose dot product with a polynomial is w1 times the sum of   *)
(* its values at 0 and 1 plus w2 times its value at r.                     *)
Weights(w, degree, r) ==
  [i \in 1 .. degree + 1 |-> (w[1] * (IF i = 1 THEN 2 ELSE 1) + w[2] * Powers(r, i)[i]) % p]

StartSumcheck(s, tables, claim, blind_claim) ==
  LET rounds == Log2(Len(tables[1]))
  IN  [s |-> Took(s, 2 * rounds),
       sc |-> [tables |-> tables, claim |-> claim, blind_claim |-> blind_claim,
               comm_claim |-> Commit(<<claim>>, blind_claim, Gens1), point |-> <<>>,
               blinds_poly |-> RandomVector(s, 1, rounds),
               blinds_evals |-> RandomVector(s, 1 + rounds, rounds), rounds |-> <<>>]]

(* A round of prove_quad or prove_cubic_with_additive_term; first what     *)
(* follows its challenge.                                                  *)
ProveRoundEnds(s, st, poly, comm_poly, r) ==
  LET j == Len(st.point) + 1
      degree == Degree(st.tables)
      eval == EvalUni(poly, r)
      comm_eval == Commit(<<eval>>, st.blinds_evals[j], Gens1)
      weighed == AppendAll(s, "claim", <<st.comm_claim, comm_eval>>)
  IN  AskVec(weighed, "weights", 2, LAMBDA u, w :
        With(DotProductProve(u, Gens1, GensN(degree),
               poly, st.blinds_poly[j], Weights(w, degree, r),
               (w[1] * st.claim + w[2] * eval) % p,
               (w[1] * st.blind_claim + w[2] * st.blinds_evals[j]) % p), LAMBDA dotp :
          [s |-> dotp.s,
           sc |-> [st EXCEPT !.tables = [k \in DOMAIN @ |-> BoundTop(@[k], r)],
                             !.claim = eval, !.comm_claim = comm_eval,
                             !.blind_claim = st.blinds_evals[j], !.point = Append(@, r),
                             !.rounds = Append(@, [comm_poly |-> comm_poly,
                                                   comm_eval |-> comm_eval,
                                                   proof |-> dotp.proof])]]))

ProveRound(s, st) ==
  LET poly == RoundPoly(st.tables, st.claim)
      comm_poly == Commit(poly, st.blinds_poly[Len(st.point) + 1], GensN(Degree(st.tables)))
  IN  Ask(Append1(s, "comm_poly", comm_poly), "round", LAMBDA u, r :
        ProveRoundEnds(u, st, poly, comm_poly, r))

(* A round of ZKSumcheckInstanceProof::verify. *)
VerifyRound(s, st, round, degree) ==
  Ask(Append1(s, "comm_poly", round.comm_poly), "round", LAMBDA u, r :
    AskVec(AppendAll(u, "claim", <<st.comm_claim, round.comm_eval>>), "weights", 2, LAMBDA v, w :
      With(DotProductVerify(v, Gens1, GensN(degree), round.proof, Weights(w, degree, r),
             round.comm_poly, Msm(w, <<st.comm_claim, round.comm_eval>>)), LAMBDA dotp :
        [s |-> dotp.s, verdict |-> dotp.verdict,
         vc |-> [st EXCEPT !.comm_claim = round.comm_eval, !.point = Append(@, r)]])))

----------------------------------------------------------------------------
(* The prover.  begun is the session once the enclosing NIZK or SNARK has  *)
(* named itself and its instance.                                          *)

NoSumcheck == [tables |-> <<>>, claim |-> 0, blind_claim |-> 0, comm_claim |-> Identity,
               point |-> <<>>, blinds_poly |-> <<>>, blinds_evals |-> <<>>, rounds |-> <<>>]

(* Commitment to the assignment, tau, and the first sumcheck's tables. *)
ProveBegins(begun) ==
  /\ stage = "start"
  /\ stage' = "sumcheck1"
  /\ LET named == AppendVec(Protocol(begun, "r1cs"), "input", stmt.io)
         rows == Len(RowsOf(stmt.w))
         blinds == RandomVector(named, 1, rows)
         comm == CommitPoly(stmt.w, blinds, GensPC)
         committed == AppendAll(Took(named, rows), "share", comm)
         t == AnswerVec(committed, "tau", RowVars)
         start == StartSumcheck(AskedVec(committed, "tau", RowVars),
                    <<EqEvals(t), MultiplyVec(stmt.A, Z), MultiplyVec(stmt.B, Z),
                      MultiplyVec(stmt.C, Z)>>, 0, 0)
     IN  /\ ps' = start.s
         /\ sc' = start.sc
         /\ tau' = t
         /\ mid' = [blinds_vars |-> blinds]
         /\ proof' = [comm_vars |-> comm]
  /\ UNCHANGED <<stmt, seed, rx, verifierVars>>

ProveSumcheck ==
  /\ stage \in {"sumcheck1", "sumcheck2"}
  /\ Len(sc.tables[1]) > 1
  /\ \E round \in {ProveRound(ps, sc)} : ps' = round.s /\ sc' = round.sc
  /\ UNCHANGED <<stmt, seed, stage, rx, tau, mid, proof, verifierVars>>

(* The blinding of the claim the verifier expects after the first sumcheck. *)
PostBlind(tau_claim, prod_blind, Cz_blind) ==
  (tau_claim * (prod_blind + p - Cz_blind)) % p

(* The end of the first sumcheck, and the joint claim of the second. *)
ProveClaims ==
  /\ stage = "sumcheck1" /\ Len(sc.tables[1]) = 1
  /\ stage' = "sumcheck2"
  /\ rx' = sc.point
  /\ LET final(k) == sc.tables[k][1]
         b == RandomVector(ps, 1, 4)    \* of Az, Bz, Cz and the product
         post == CombCubic(<<final(1), final(2), final(3), final(4)>>)
         evals == EqEvals(sc.point)
         joined(rABC) == [col \in 1 .. Len(Z) |->
                      Dot(rABC, <<EvalTable(stmt.A, evals)[col], EvalTable(stmt.B, evals)[col],
                                  EvalTable(stmt.C, evals)[col]>>)]
     IN  \E pok \in {KnowledgeProve(Took(ps, 4), Gens1, final(4), b[3])} :
         \E pr \in {ProductProve(pok.s, Gens1, final(2), b[1], final(3), b[2],
                                (final(2) * final(3)) % p, b[4])} :
         \E eq \in {EqualityProve(AppendAll(pr.s, "claim", <<pr.X, pr.Y, pok.C, pr.Z>>), Gens1,
                                 post, PostBlind(final(1), b[4], b[3]), post, sc.blind_claim)} :
         \E rABC \in {AnswerVec(eq.s, "joint", 3)} :
         \E start \in {StartSumcheck(AskedVec(eq.s, "joint", 3), <<Z, joined(rABC)>>,
                                    Dot(rABC, <<final(2), final(3), final(4)>>),
                                    Dot(rABC, <<b[1], b[2], b[3]>>))} :
         /\ ps' = start.s
         /\ sc' = start.sc
         /\ mid' = mid @@ [gap |-> (sc.claim + p - post) % p, joint |-> rABC]
         /\ proof' = proof @@
              [sc1 |-> sc.rounds, claims |-> <<pr.X, pr.Y, pok.C, pr.Z>>,
               pok |-> pok.proof, prod |-> pr.proof, eq1 |-> eq.proof]
  /\ UNCHANGED <<stmt, seed, tau, verifierVars>>

(* The opening of the assignment at ry, and the end of the second sumcheck. *)
ProveOpens ==
  /\ stage = "sumcheck2" /\ Len(sc.tables[1]) = 1
  /\ LET ry == sc.point
         eval == Evaluate(stmt.w, Tail2(ry, 1))
         blind == RandomScalar(ps, 1)
         open == PolyEvalProve(Took(ps, 1), GensPC, stmt.w, mid.blinds_vars, Tail2(ry, 1),
                               eval, blind)
         post == (sc.tables[1][1] * sc.tables[2][1]) % p
         eq == EqualityProve(open.s, Gens1, post,
                 (sc.tables[2][1] * (((1 + p - ry[1]) * blind) % p)) % p, post, sc.blind_claim)
     IN  IF open.panicked
         THEN stage' = "prover_panicked" /\ UNCHANGED <<ps, proof>>
         ELSE /\ stage' = "proved"
              /\ ps' = eq.s
              /\ proof' = proof @@
                   [sc2 |-> sc.rounds, comm_vars_at_ry |-> open.Cy, open |-> open.proof,
                    eq2 |-> eq.proof]
  /\ UNCHANGED <<stmt, seed, sc, rx, tau, mid, verifierVars>>

----------------------------------------------------------------------------
(* The verifier, with the evaluations evals of the matrices at (rx, ry) *)

NoCheck == [comm_claim |-> Identity, point |-> <<>>]

VerifyBegins(begun) ==
  /\ stage = "verify"
  /\ stage' = "check1"
  /\ LET committed == AppendAll(AppendVec(Protocol(begun, "r1cs"), "input", stmt.io),
                                "share", proof.comm_vars)
     IN  /\ vs' = AskedVec(committed, "tau", RowVars)
         /\ vc' = [comm_claim |-> Commit(<<0>>, 0, Gens1), point |-> <<>>,
                   tau |-> AnswerVec(committed, "tau", RowVars)]
  /\ UNCHANGED <<stmt, seed, proverVars>>

Ends(verdict, next) == stage' = IF verdict = "ok" THEN next ELSE verdict

VerifySumcheck(at, rounds, degree) ==
  /\ stage = at /\ Len(vc.point) < Len(rounds)
  /\ \E round \in {VerifyRound(vs, vc, rounds[Len(vc.point) + 1], degree)} :
         Ends(round.verdict, at) /\ vs' = round.s /\ vc' = round.vc
  /\ UNCHANGED <<stmt, seed, proverVars>>

(* A sequence of checks stops at the first that fails. *)
First(verdicts) ==
  IF \E i \in DOMAIN verdicts : verdicts[i] # "ok"
  THEN verdicts[CHOOSE i \in DOMAIN verdicts :
                  verdicts[i] # "ok" /\ \A j \in 1 .. i - 1 : verdicts[j] = "ok"]
  ELSE "ok"

(* The claims at rx against the first sumcheck; the second one's claim. *)
VerifyClaims ==
  /\ stage = "check1" /\ Len(vc.point) = Len(proof.sc1)
  /\ LET c == proof.claims
         pok == KnowledgeVerify(vs, Gens1, proof.pok, c[3])
         pr == ProductVerify(pok.s, Gens1, proof.prod, c[1], c[2], c[4])
         expected == Times(EqEvaluate(vc.tau, vc.point), Minus(c[4], c[3]))
         eq == EqualityVerify(AppendAll(pr.s, "claim", c), Gens1, proof.eq1, expected,
                              vc.comm_claim)
         rABC == AnswerVec(eq.s, "joint", 3)
     IN  /\ Ends(First(<<pok.verdict, pr.verdict, eq.verdict>>), "check2")
         /\ vs' = AskedVec(eq.s, "joint", 3)
         /\ vc' = [comm_claim |-> Msm(rABC, <<c[1], c[2], c[3]>>), point |-> <<>>,
                   rx |-> vc.point, joint |-> rABC, c |-> eq.c]
  /\ UNCHANGED <<stmt, seed, proverVars>>

(* Mutant of PublicEntries: the inputs are not shifted past the constant. *)
PublicEntriesUnshifted(io) == <<<<0, 1>>>> \o [i \in DOMAIN io |-> <<i - 1, io[i]>>]

(* The public half of z, which the verifier evaluates itself. *)
PublicEntries(io) == <<<<0, 1>>>> \o [i \in DOMAIN io |-> <<i, io[i]>>]

VerifyOpens(evals) ==
  /\ stage = "check2" /\ Len(vc.point) = Len(proof.sc2)
  /\ LET ry == vc.point
         open == PolyEvalVerify(vs, GensPC, proof.open, Tail2(ry, 1), proof.comm_vars_at_ry,
                                proof.comm_vars)
         public == EvaluateSparse(PublicEntries(stmt.io), Tail2(ry, 1))
         comm_Z == Msm(<<(1 + p - ry[1]) % p, ry[1]>>,
                       <<proof.comm_vars_at_ry, Commit(<<public>>, 0, Gens1)>>)
         eq == EqualityVerify(open.s, Gens1, proof.eq2, Times(Dot(vc.joint, evals), comm_Z),
                              vc.comm_claim)
     IN  /\ Ends(First(<<open.verdict, eq.verdict>>), "satisfied")
         /\ vs' = eq.s
         /\ UNCHANGED vc
  /\ UNCHANGED <<stmt, seed, proverVars>>
==============================================================================
