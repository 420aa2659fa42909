----------------------------- MODULE SpartanBase -----------------------------
(***************************************************************************)
(* What Spartan's proofs are made of: scalars, group elements, generators, *)
(* commitments, the transcript and the random tape, univariate and dense   *)
(* multilinear polynomials.                                                *)
(*                                                                         *)
(* A group element is its vector of coefficients over the stream of        *)
(* generators of one label: commitments are binding because coordinates    *)
(* are not confused, and homomorphic because they are vectors.  A vector   *)
(* is a sequence; where the code indexes from 0 a constant 1 is added.     *)
(***************************************************************************)
EXTENDS Integers, Sequences, SequencesExt, Functions

CONSTANTS
  p,           \* order of the scalar field, a prime above 3
  NumGens,     \* how far the stream of generators is used
  Code,        \* the transcript's labels and protocol names, as numbers
  Random(_)    \* the k-th scalar of the random tape

Fp == 0 .. p - 1

Sum(s) == FoldLeft(LAMBDA x, y : (x + y) % p, 0, s)

Product(s) == FoldLeft(LAMBDA x, y : (x * y) % p, 1, s)

Inv == [x \in 1 .. p - 1 |-> CHOOSE y \in 1 .. p - 1 : (x * y) % p = 1]

(* compute_dotproduct, inner_product *)
Dot(a, b) == Sum([i \in DOMAIN a |-> (a[i] * b[i]) % p])

Log2(n) == CHOOSE e \in 0 .. n : 2 ^ e >= n /\ (e = 0 \/ 2 ^ (e - 1) < n)

NextPow2(n) == 2 ^ Log2(n)

PadTo(s, n) == s \o [i \in 1 .. n - Len(s) |-> 0]

Tail2(s, k) == SubSeq(s, k + 1, Len(s))

----------------------------------------------------------------------------
(* Group elements, generators and commitments *)

Identity == [g \in 1 .. NumGens |-> 0]

Generator(k) == [Identity EXCEPT ![k] = 1]

Msm(scalars, points) ==
  [g \in 1 .. NumGens |->
     Sum([i \in DOMAIN scalars |-> (scalars[i] * points[i][g]) % p])]

Plus(P, Q) == [g \in 1 .. NumGens |-> (P[g] + Q[g]) % p]

Minus(P, Q) == [g \in 1 .. NumGens |-> (P[g] + p - Q[g]) % p]

Times(k, P) == [g \in 1 .. NumGens |-> (k * P[g]) % p]

(* MultiCommitGens::new: every set of generators of one label is a prefix  *)
(* of the same stream.                                                     *)
MultiCommitGens(n) ==
  [G |-> [k \in 1 .. n |-> Generator(k)], h |-> Generator(n + 1)]

(* MultiCommitGens::split_at, as DotProductProofGens::new calls it. *)
DotProductProofGens(n) ==
  LET gens == MultiCommitGens(n + 1)
  IN  [n |-> n, gens_n |-> [G |-> SubSeq(gens.G, 1, n), h |-> gens.h],
       gens_1 |-> [G |-> Tail2(gens.G, n), h |-> gens.h]]

Scale(gens, s) == [gens EXCEPT !.G = [i \in DOMAIN @ |-> Times(s, @[i])]]

(* A vector under n generators; a scalar x is committed as <<x>>. *)
Commit(v, blind, gens) ==
  Plus(Msm(v, gens.G), Times(blind, gens.h))

Fits(v, gens) == Len(v) = Len(gens.G)

----------------------------------------------------------------------------
(* A session is a party's transcript, the digest of what it has absorbed,  *)
(* and the number of scalars it has taken from its random tape.            *)

DigestMod == 8191

Absorb(d, x) == (d * 29 + x * 7 + 3) % DigestMod

Append1(s, label, xs) ==
  [s EXCEPT !.t = FoldLeft(Absorb, Absorb(@, Code[label]), xs)]

(* append_to_transcript of a vector: its ends are marked. *)
AppendVec(s, label, xs) ==
  Append1(Append1(Append1(s, label, <<1>>), label, xs), label, <<2>>)

AppendAll(s, label, points) ==
  FoldLeft(LAMBDA u, P : Append1(u, label, P), s, points)

(* challenge_scalar: the session after it, and what it returned. *)
Asked(s, label) == [s EXCEPT !.t = Absorb(Absorb(@, Code[label]), @)]

Answer(s, label) == (Asked(s, label).t \div 3) % p

(* challenge_vector *)
AskedVec(s, label, n) ==
  FoldLeft(LAMBDA u, i : Asked(u, label), s, [i \in 1 .. n |-> i])

AnswerVec(s, label, n) == [i \in 1 .. n |-> Answer(AskedVec(s, label, i - 1), label)]

(* What follows a result, computed once; and what follows a challenge: the *)
(* session after it, and its answer.                                       *)
With(x, Follows(_)) == Follows(x)

Ask(s, label, Follows(_, _)) == Follows(Asked(s, label), Answer(s, label))

AskVec(s, label, n, Follows(_, _)) == Follows(AskedVec(s, label, n), AnswerVec(s, label, n))

(* RandomTape *)
RandomScalar(s, i) == Random(s.k + i)

RandomVector(s, i, n) == [j \in 1 .. n |-> Random(s.k + i + j - 1)]

Took(s, n) == [s EXCEPT !.k = @ + n]

----------------------------------------------------------------------------
(* Univariate polynomials of degree 2 or 3, coefficients from the constant *)

FromEvals(e) ==
  IF Len(e) = 3
  THEN LET a == (Inv[2] * (e[3] + 2 * (p - e[2]) + e[1])) % p
       IN  <<e[1], (e[2] + 2 * p - e[1] - a) % p, a>>
  ELSE LET a == (Inv[6] * (e[4] + 3 * (p - e[3]) + 3 * e[2] + p - e[1])) % p
           b == (Inv[2] * (2 * e[1] + 5 * (p - e[2]) + 4 * e[3] + p - e[4])) % p
       IN  <<e[1], (e[2] + 3 * p - e[1] - a - b) % p, b, a>>

Powers(r, n) == [i \in 1 .. n |-> IF i = 1 THEN 1 ELSE (r ^ (i - 1)) % p]

EvalUni(poly, r) == Dot(poly, Powers(r, Len(poly)))

Compress(poly) == <<poly[1]>> \o Tail2(poly, 2)

(* The linear term follows from poly(0) + poly(1) = hint. *)
Decompress(c, hint) ==
  <<c[1], (hint + (p - c[1]) + (p - Sum(c))) % p>> \o Tail2(c, 1)

----------------------------------------------------------------------------
(* Dense multilinear polynomials: their values, first variable most        *)
(* significant                                                             *)

(* EqPolynomial::evals, doubling the table per variable. *)
EqEvals(r) ==
  FoldLeft(LAMBDA evals, rj :
             [i \in 1 .. 2 * Len(evals) |->
                LET scalar == evals[(i + 1) \div 2]
                    hi == (scalar * rj) % p
                IN  IF i % 2 = 0 THEN hi ELSE (scalar + p - hi) % p],
           <<1>>, r)

EqEvaluate(r, rx) ==
  Product([i \in DOMAIN rx |-> (r[i] * rx[i] + (1 + p - r[i]) * (1 + p - rx[i])) % p])

(* compute_factored_lens: how many variables index the rows. *)
LeftVars(ell) == ell \div 2

FactoredEvals(r) ==
  [L |-> EqEvals(SubSeq(r, 1, LeftVars(Len(r)))), R |-> EqEvals(Tail2(r, LeftVars(Len(r))))]

(* IdentityPolynomial: the index a point stands for. *)
IdentityEvaluate(r) == Sum([i \in DOMAIN r |-> ((2 ^ (Len(r) - i)) * r[i]) % p])

(* bound_poly_var_top, which halves the table by its first variable. *)
BoundTop(Z, r) ==
  LET n == Len(Z) \div 2
  IN  [i \in 1 .. n |-> (Z[i] + r * (Z[i + n] + p - Z[i])) % p]

(* bound_poly_var_bot, by its last. *)
BoundBot(Z, r) ==
  [i \in 1 .. Len(Z) \div 2 |-> (Z[2 * i - 1] + r * (Z[2 * i] + p - Z[2 * i - 1])) % p]

Evaluate(Z, r) == Dot(Z, EqEvals(r))

(* The rows of tables bound to e in their first variable, for a comb_func. *)
EvalPoint(tables, e) ==
  LET len == Len(tables[1]) \div 2
      bound(t, i) == (t[i] + e * (t[len + i] + p - t[i])) % p
  IN  [i \in 1 .. len |-> [k \in DOMAIN tables |-> bound(tables[k], i)]]

(* SparsePolynomial::evaluate; entries are <<index from 0, value>>. *)
EvaluateSparse(entries, r) ==
  LET bit(i, j) == (i \div 2 ^ (Len(r) - j)) % 2
      chi(i) == Product([j \in DOMAIN r |->
                           IF bit(i, j) = 1 THEN r[j] ELSE (1 + p - r[j]) % p])
  IN  Sum([k \in DOMAIN entries |-> (chi(entries[k][1]) * entries[k][2]) % p])

(* DensePolynomial::merge *)
Merge(polys) ==
  LET Z == FlattenSeq(polys) IN PadTo(Z, NextPow2(Len(Z)))

(* The rows of the matrix a table is committed as. *)
RowsOf(Z) ==
  LET cols == 2 ^ (Log2(Len(Z)) - LeftVars(Log2(Len(Z))))
  IN  [i \in 1 .. Len(Z) \div cols |-> SubSeq(Z, cols * (i - 1) + 1, cols * i)]

(* PolyCommitmentGens::new for a number of variables. *)
PolyCommitmentGens(num_vars) == DotProductProofGens(2 ^ (num_vars - LeftVars(num_vars)))

(* commit_inner's assertion on the length of a row. *)
Committable(Z, gens) == Fits(RowsOf(Z)[1], gens.gens_n)

CommitPoly(Z, blinds, gens) ==
  [i \in DOMAIN RowsOf(Z) |-> Commit(RowsOf(Z)[i], blinds[i], gens.gens_n)]

(* DensePolynomial::bound: the row vector L times the matrix. *)
BoundRows(Z, L) ==
  [j \in DOMAIN RowsOf(Z)[1] |-> Dot(L, [i \in DOMAIN L |-> RowsOf(Z)[i][j]])]

NoBlinds(Z) == [i \in DOMAIN RowsOf(Z) |-> 0]
==============================================================================
