---------------------------- MODULE SpartanSigma ----------------------------
(***************************************************************************)
(* Spartan's proofs about commitments (nizk/): knowledge of an opening,    *)
(* equality, product and dot product of what is committed, the dot product *)
(* of logarithmic size, and the opening of a committed polynomial.         *)
(*                                                                         *)
(* A Prove operator takes the prover's session and returns it advanced,    *)
(* with the proof; a Verify operator the verifier's, with the verdict      *)
(* "ok", "rejected" (an Err) or "panicked" (an assertion or an unwrap).    *)
(***************************************************************************)
EXTENDS SpartanBase

Verdict(holds) == IF holds THEN "ok" ELSE "rejected"

Protocol(s, name) == Append1(s, name, <<>>)

----------------------------------------------------------------------------
(* KnowledgeProof: C opens to some x. *)

KnowledgeProve(s, gens, x, r) ==
  LET t1 == RandomScalar(s, 1)
      t2 == RandomScalar(s, 2)
      C == Commit(<<x>>, r, gens)
      alpha == Commit(<<t1>>, t2, gens)
  IN  Ask(AppendAll(Took(Protocol(s, "knowledge"), 2), "C", <<C, alpha>>), "c", LAMBDA u, c :
        [s |-> u, C |-> C,
         proof |-> [alpha |-> alpha, z1 |-> (x * c + t1) % p, z2 |-> (r * c + t2) % p]])

KnowledgeVerify(s, gens, proof, C) ==
  Ask(AppendAll(Protocol(s, "knowledge"), "C", <<C, proof.alpha>>), "c", LAMBDA u, c :
    [s |-> u,
     verdict |-> Verdict(Commit(<<proof.z1>>, proof.z2, gens) = Plus(Times(c, C), proof.alpha))])

----------------------------------------------------------------------------
(* EqualityProof: C1 and C2 open to the same value. *)

EqualityProve(s, gens, v1, s1, v2, s2) ==
  LET r == RandomScalar(s, 1)
      alpha == Times(r, gens.h)
  IN  Ask(AppendAll(Took(Protocol(s, "equality"), 1), "C",
                    <<Commit(<<v1>>, s1, gens), Commit(<<v2>>, s2, gens), alpha>>), "c",
          LAMBDA u, c :
            [s |-> u, proof |-> [alpha |-> alpha, z |-> (c * (s1 + p - s2) + r) % p]])

EqualityVerify(s, gens, proof, C1, C2) ==
  Ask(AppendAll(Protocol(s, "equality"), "C", <<C1, C2, proof.alpha>>), "c", LAMBDA u, c :
    [s |-> u, c |-> c,
     verdict |-> Verdict(Times(proof.z, gens.h) = Plus(Times(c, Minus(C1, C2)), proof.alpha))])

----------------------------------------------------------------------------
(* ProductProof: Z opens to the product of what X and Y open to.  The      *)
(* third equation is under X as a generator.                               *)

ProductProve(s, gens, x, rX, y, rY, z, rZ) ==
  LET b == RandomVector(s, 1, 5)
      X == Commit(<<x>>, rX, gens)
      Y == Commit(<<y>>, rY, gens)
      Z == Commit(<<z>>, rZ, gens)
      alpha == Commit(<<b[1]>>, b[2], gens)
      beta == Commit(<<b[3]>>, b[4], gens)
      delta == Commit(<<b[3]>>, b[5], [G |-> <<X>>, h |-> gens.h])
  IN  Ask(AppendAll(Took(Protocol(s, "product"), 5), "C", <<X, Y, Z, alpha, beta, delta>>), "c",
          LAMBDA u, c :
            [s |-> u, X |-> X, Y |-> Y, Z |-> Z,
             proof |-> [alpha |-> alpha, beta |-> beta, delta |-> delta,
                        z |-> <<(b[1] + c * x) % p, (b[2] + c * rX) % p, (b[3] + c * y) % p,
                                (b[4] + c * rY) % p,
                                (b[5] + c * (rZ + p - ((rX * y) % p))) % p>>]])

ProductVerify(s, gens, proof, X, Y, Z) ==
  LET checkEquality(c, P, Q, under, z1, z2) ==
        Plus(P, Times(c, Q)) = Commit(<<z1>>, z2, under)
  IN  Ask(AppendAll(Protocol(s, "product"), "C",
                    <<X, Y, Z, proof.alpha, proof.beta, proof.delta>>), "c",
          LAMBDA u, c :
            [s |-> u,
             verdict |-> Verdict(
               /\ checkEquality(c, proof.alpha, X, gens, proof.z[1], proof.z[2])
               /\ checkEquality(c, proof.beta, Y, gens, proof.z[3], proof.z[4])
               /\ checkEquality(c, proof.delta, Z, [G |-> <<X>>, h |-> gens.h],
                                proof.z[3], proof.z[5]))])

----------------------------------------------------------------------------
(* DotProductProof: Cy opens to the dot product of the public a with what  *)
(* Cx opens to.                                                            *)

DotProductProve(s, gens_1, gens_n, x, blind_x, a, y, blind_y) ==
  LET n == Len(x)
      d == RandomVector(s, 1, n)
      r_delta == RandomScalar(s, n + 1)
      r_beta == RandomScalar(s, n + 2)
      delta == Commit(d, r_delta, gens_n)
      beta == Commit(<<Dot(a, d)>>, r_beta, gens_1)
      claimed == AppendAll(Took(Protocol(s, "dot_product"), n + 2), "C",
                           <<Commit(x, blind_x, gens_n), Commit(<<y>>, blind_y, gens_1)>>)
  IN  Ask(AppendAll(AppendVec(claimed, "a", a), "C", <<delta, beta>>), "c", LAMBDA u, c :
        [s |-> u,
         proof |-> [delta |-> delta, beta |-> beta,
                    z |-> [i \in 1 .. n |-> (c * x[i] + d[i]) % p],
                    z_delta |-> (c * blind_x + r_delta) % p,
                    z_beta |-> (c * blind_y + r_beta) % p]])

DotProductVerify(s, gens_1, gens_n, proof, a, Cx, Cy) ==
  Ask(AppendAll(AppendVec(AppendAll(Protocol(s, "dot_product"), "C", <<Cx, Cy>>), "a", a),
                "C", <<proof.delta, proof.beta>>), "c",
      LAMBDA u, c :
        [s |-> u,
         verdict |-> Verdict(
           /\ Plus(Times(c, Cx), proof.delta) = Commit(proof.z, proof.z_delta, gens_n)
           /\ Plus(Times(c, Cy), proof.beta)
                = Commit(<<Dot(proof.z, a)>>, proof.z_beta, gens_1))])

----------------------------------------------------------------------------
(* BulletReductionProof: vectors of length n become one of length 1.  The  *)
(* prover's bases are combined as group elements at once; their terms are  *)
(* what IPABases defers.                                                   *)

Half(v) == SubSeq(v, 1, Len(v) \div 2)

OtherHalf(v) == Tail2(v, Len(v) \div 2)

(* One round; once a challenge is zero its inversion has panicked. *)
BulletRoundEnds(st, L, R, blinds, s, u) ==
  LET u_inv == Inv[u]
      fold(lo, hi, v) == [i \in DOMAIN Half(v) |->
                            (lo * Half(v)[i] + hi * OtherHalf(v)[i]) % p]
  IN  IF st.panicked \/ u = 0
      THEN [st EXCEPT !.panicked = TRUE]
      ELSE [s |-> s, panicked |-> FALSE,
            a |-> fold(u, u_inv, st.a), b |-> fold(u_inv, u, st.b),
            G |-> [i \in DOMAIN Half(st.G) |->
                     Msm(<<u_inv, u>>, <<Half(st.G)[i], OtherHalf(st.G)[i]>>)],
            blind |-> (st.blind + blinds[1] * ((u * u) % p)
                         + blinds[2] * ((u_inv * u_inv) % p)) % p,
            L_vec |-> Append(st.L_vec, L), R_vec |-> Append(st.R_vec, R)]

BulletRound(st, Q, H, blinds) ==
  LET L == Msm(Half(st.a) \o <<Dot(Half(st.a), OtherHalf(st.b)), blinds[1]>>,
               OtherHalf(st.G) \o <<Q, H>>)
      R == Msm(OtherHalf(st.a) \o <<Dot(OtherHalf(st.a), Half(st.b)), blinds[2]>>,
               Half(st.G) \o <<Q, H>>)
  IN  Ask(AppendAll(st.s, "C", <<L, R>>), "u", LAMBDA s, u :
        BulletRoundEnds(st, L, R, blinds, s, u))

BulletProve(s, Q, G, H, a, b, blind, blinds_vec) ==
  FoldLeft(LAMBDA st, i : BulletRound(st, Q, H, blinds_vec[i]),
           [s |-> s, panicked |-> FALSE, a |-> a, b |-> b, G |-> G, blind |-> blind,
            L_vec |-> <<>>, R_vec |-> <<>>],
           [i \in 1 .. Log2(Len(a)) |-> i])

(* The session after the challenges, and the challenges. *)
Replay(s, L_vec, R_vec) ==
  FoldLeft(LAMBDA st, i : Ask(AppendAll(st.s, "C", <<L_vec[i], R_vec[i]>>), "u",
                              LAMBDA v, u : [s |-> v, us |-> Append(st.us, u)]),
           [s |-> s, us |-> <<>>], [i \in DOMAIN L_vec |-> i])

(* verification_scalars: the challenges are stored as they were created,   *)
(* so that of the highest bit of an index comes first.  Each entry of s    *)
(* doubles the exponents of an earlier one.                                *)
VerificationScalars(us, n) ==
  LET lg_n == Len(us)
      lg(i) == CHOOSE e \in 0 .. lg_n : 2 ^ e <= i /\ i < 2 ^ (e + 1)
      allinv == Product([j \in 1 .. lg_n |-> Inv[us[j]]])
      s[i \in 0 .. n - 1] ==
        IF i = 0 THEN allinv
        ELSE LET u == us[lg_n - lg(i)] IN (s[i - 2 ^ lg(i)] * ((u * u) % p)) % p
  IN  [i \in 1 .. n |-> s[i - 1]]

BulletVerifyEnds(s, us, scalars, a, Gamma, G, proof) ==
  LET sq(x) == (x * x) % p
  IN  [s |-> s, us |-> us,
       g_hat |-> Msm(scalars, G),
       Gamma_hat |-> Msm([i \in DOMAIN us |-> sq(us[i])]
                           \o [i \in DOMAIN us |-> sq(Inv[us[i]])] \o <<1>>,
                         proof.L_vec \o proof.R_vec \o <<Gamma>>),
       a_hat |-> Dot(a, scalars)]

BulletVerify(s, n, a, Gamma, G, proof) ==
  LET replay == Replay(s, proof.L_vec, proof.R_vec)
  IN  BulletVerifyEnds(replay.s, replay.us, VerificationScalars(replay.us, n), a, Gamma, G, proof)

----------------------------------------------------------------------------
(* DotProductProofLog: the generator of the dot product is scaled by a     *)
(* challenge before the reduction.  Twice the blinds needed are drawn, the *)
(* first half of them used.                                                *)

(* What follows the reduction red; d, r_delta and r_beta are drawn before. *)
DotProductLogProveEnds(gens, scaled, red, Cy, d, r_delta, r_beta) ==
  LET y_hat == (red.a[1] * red.b[1]) % p
      delta == Commit(<<d>>, r_delta, [G |-> <<red.G[1]>>, h |-> gens.gens_1.h])
      beta == Commit(<<d>>, r_beta, scaled)
  IN  Ask(AppendAll(red.s, "C", <<delta, beta>>), "c", LAMBDA u, c :
        [s |-> u, Cy |-> Cy, panicked |-> red.panicked,
         proof |-> [L_vec |-> red.L_vec, R_vec |-> red.R_vec, delta |-> delta, beta |-> beta,
                    z1 |-> (d + c * y_hat) % p,
                    z2 |-> (red.b[1] * ((c * red.blind + r_beta) % p) + r_delta) % p]])

DotProductLogProve(s, gens, x, blind_x, a, y, blind_y) ==
  LET lg == Log2(Len(x))
      blinds == [i \in 1 .. 2 * lg |->
                   <<RandomScalar(s, 3 + i), RandomScalar(s, 3 + 2 * lg + i)>>]
      Cy == Commit(<<y>>, blind_y, gens.gens_1)
      claimed == AppendVec(AppendAll(Took(Protocol(s, "dot_product_log"), 3 + 4 * lg), "C",
                                     <<Commit(x, blind_x, gens.gens_n), Cy>>), "a", a)
  IN  Ask(claimed, "r", LAMBDA u, r :
        DotProductLogProveEnds(gens, Scale(gens.gens_1, r),
          BulletProve(u, Scale(gens.gens_1, r).G[1], gens.gens_n.G, gens.gens_n.h,
                      x, a, (blind_x + r * blind_y) % p, blinds),
          Cy, RandomScalar(s, 1), RandomScalar(s, 2), RandomScalar(s, 3)))

(* Ends in an assertion of what it would return. *)
DotProductLogVerifyEnds(proof, scaled, red) ==
  LET lhs(c) == Plus(Times(red.a_hat, Plus(Times(c, red.Gamma_hat), proof.beta)), proof.delta)
      rhs == Plus(Times(proof.z1, Plus(red.g_hat, Times(red.a_hat, scaled.G[1]))),
                  Times(proof.z2, scaled.h))
  IN  Ask(AppendAll(red.s, "C", <<proof.delta, proof.beta>>), "c", LAMBDA u, c :
        [s |-> u, verdict |-> IF lhs(c) = rhs THEN "ok" ELSE "panicked"])

DotProductLogVerify(s, gens, proof, a, Cx, Cy) ==
  Ask(AppendVec(AppendAll(Protocol(s, "dot_product_log"), "C", <<Cx, Cy>>), "a", a), "r",
      LAMBDA u, r :
        DotProductLogVerifyEnds(proof, Scale(gens.gens_1, r),
          BulletVerify(u, Len(a), a, Plus(Cx, Times(r, Cy)), gens.gens_n.G, proof)))

----------------------------------------------------------------------------
(* PolyEvalProof: the value of a committed polynomial at r. *)

PolyEvalProve(s, gens, Z, blinds, r, Zr, blind_Zr) ==
  LET f == FactoredEvals(r)
  IN  DotProductLogProve(Protocol(s, "poly_eval"), gens, BoundRows(Z, f.L),
                         Dot(blinds, f.L), f.R, Zr, blind_Zr)

PolyEvalVerify(s, gens, proof, r, C_Zr, comm) ==
  LET f == FactoredEvals(r)
  IN  DotProductLogVerify(Protocol(s, "poly_eval"), gens, proof, f.R, Msm(f.L, comm), C_Zr)

(* verify_plain: the value itself is public. *)
PolyEvalVerifyPlain(s, gens, proof, r, Zr, comm) ==
  PolyEvalVerify(s, gens, proof, r, Commit(<<Zr>>, 0, gens.gens_1), comm)
=============================================================================
