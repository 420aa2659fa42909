------------------------------ MODULE NRProofs ------------------------------
(***************************************************************************)
(* The Nyberg-Rueppel protocols, for every field, group and coordinate map *)
(* with the laws of NRGroup.  In turn: the algebra of nrsig.rs (signatures *)
(* verify, honest sigma proofs verify); blind issuance, complete for every *)
(* set of sessions, nonce and delivery order, and, with replies            *)
(* correlated, an implementation of IssueSpec; the show protocol, complete *)
(* for exact signatures and never leaving the prover for any other.        *)
(***************************************************************************)
EXTENDS BlindNR, NRShow, TLAPS

----------------------------------------------------------------------------
(* Scalars. *)

(* The scalars are a commutative group under addition. *)
LEMMA AddLaws ==
  ASSUME NEW a \in Fq, NEW b \in Fq, NEW c \in Fq
  PROVE  /\ Add(a, b) \in Fq /\ Add(a, b) = Add(b, a)
         /\ Add(Add(a, b), c) = Add(a, Add(b, c))
         /\ Zero \in Fq /\ Add(a, Zero) = a
         /\ Neg(a) \in Fq /\ Add(a, Neg(a)) = Zero
  BY FqRing

(* Multiplication commutes and distributes over addition. *)
LEMMA MulLaws ==
  ASSUME NEW a \in Fq, NEW b \in Fq, NEW c \in Fq
  PROVE  /\ Mul(a, b) \in Fq /\ Mul(a, b) = Mul(b, a)
         /\ Mul(a, Add(b, c)) = Add(Mul(a, b), Mul(a, c))
  BY FqRing

(* The additive inverse is the only one. *)
LEMMA NegUnique ==
  ASSUME NEW a \in Fq, NEW b \in Fq, Add(a, b) = Zero
  PROVE  b = Neg(a)
<1>1. Add(Neg(a), Add(a, b)) = Add(Add(Neg(a), a), b)
  BY AddLaws
<1>2. Add(Neg(a), a) = Zero
  BY AddLaws
<1>3. Add(Zero, b) = b
  BY AddLaws
<1>4. Add(Neg(a), Add(a, b)) = Neg(a)
  BY AddLaws
<1> QED
  BY <1>1, <1>2, <1>3, <1>4

(* Negation is its own inverse. *)
LEMMA NegNeg ==
  ASSUME NEW a \in Fq
  PROVE  Neg(Neg(a)) = a
<1>1. Neg(a) \in Fq /\ Add(Neg(a), a) = Zero
  BY AddLaws
<1> QED
  BY <1>1, NegUnique

(* Negation distributes over addition. *)
LEMMA NegAdd ==
  ASSUME NEW a \in Fq, NEW b \in Fq
  PROVE  Neg(Add(a, b)) = Add(Neg(a), Neg(b))
<1> DEFINE n == Add(Neg(a), Neg(b))
<1>1. Neg(a) \in Fq /\ Neg(b) \in Fq /\ n \in Fq /\ Add(a, b) \in Fq
  BY AddLaws
<1>2. Add(Add(a, b), n) = Add(a, Add(b, n))
  BY <1>1, AddLaws
<1>3. Add(b, n) = Add(Add(b, Neg(b)), Neg(a))
  BY <1>1, AddLaws
<1>4. Add(b, n) = Neg(a)
  BY <1>1, <1>3, AddLaws
<1>5. Add(Add(a, b), n) = Zero
  BY <1>2, <1>4, AddLaws
<1> QED
  BY <1>1, <1>5, NegUnique

(* A multiple of zero is zero. *)
LEMMA MulZero ==
  ASSUME NEW a \in Fq
  PROVE  Mul(a, Zero) = Zero
<1> DEFINE z == Mul(a, Zero)
<1>1. z \in Fq /\ Zero \in Fq /\ Add(Zero, Zero) = Zero
  BY AddLaws, MulLaws
<1>2. z = Add(z, z)
  BY <1>1, MulLaws
<1>3. Add(Add(z, z), Neg(z)) = Add(z, Add(z, Neg(z)))
  BY <1>1, AddLaws
<1>4. Add(z, Add(z, Neg(z))) = z
  BY <1>1, AddLaws
<1>5. Add(z, Neg(z)) = Zero
  BY <1>1, AddLaws
<1> QED
  BY <1>2, <1>3, <1>4, <1>5

(* A negation moves out of either factor. *)
LEMMA MulNeg ==
  ASSUME NEW a \in Fq, NEW b \in Fq
  PROVE  Mul(a, Neg(b)) = Neg(Mul(a, b)) /\ Mul(Neg(a), b) = Neg(Mul(a, b))
<1>1. ASSUME NEW u \in Fq, NEW v \in Fq
      PROVE  Mul(u, Neg(v)) = Neg(Mul(u, v))
  <2>1. Neg(v) \in Fq /\ Add(v, Neg(v)) = Zero
    BY AddLaws
  <2>2. Add(Mul(u, v), Mul(u, Neg(v))) = Mul(u, Zero)
    BY <2>1, MulLaws
  <2>3. Mul(u, v) \in Fq /\ Mul(u, Neg(v)) \in Fq
    BY <2>1, MulLaws
  <2> QED
    BY <2>2, <2>3, MulZero, NegUnique
<1>2. Mul(Neg(a), b) = Mul(b, Neg(a)) /\ Mul(a, b) = Mul(b, a)
  BY AddLaws, MulLaws
<1> QED
  BY <1>1, <1>2

----------------------------------------------------------------------------
(* Points. *)

(* The points are a commutative group. *)
LEMMA PointLaws ==
  ASSUME NEW P \in Group, NEW Q \in Group, NEW S \in Group
  PROVE  /\ Gadd(P, Q) \in Group /\ Gadd(P, Q) = Gadd(Q, P)
         /\ Gadd(Gadd(P, Q), S) = Gadd(P, Gadd(Q, S))
         /\ O \in Group /\ Gadd(P, O) = P
  BY GroupLaws

(* Multiplication by scalars is linear, with the identity as zero times. *)
LEMMA TimesLaws ==
  ASSUME NEW P \in Group, NEW a \in Fq, NEW b \in Fq
  PROVE  /\ Times(P, a) \in Group
         /\ Times(P, Add(a, b)) = Gadd(Times(P, a), Times(P, b))
         /\ Times(P, Mul(a, b)) = Times(Times(P, a), b)
         /\ Times(P, Zero) = O
  BY ModuleLaws

(* The bases of signatures and proofs are points. *)
LEMMA BasePoints == O \in Group /\ G \in Group /\ H \in Group /\ V \in Group
  BY GroupLaws

(* (P + Q) + (S + T) = (P + S) + (Q + T) *)
LEMMA Regroup ==
  ASSUME NEW P \in Group, NEW Q \in Group, NEW S \in Group, NEW T \in Group
  PROVE  Gadd(Gadd(P, Q), Gadd(S, T)) = Gadd(Gadd(P, S), Gadd(Q, T))
<1>1. Gadd(S, T) \in Group /\ Gadd(Q, T) \in Group
  BY PointLaws
<1>2. Gadd(Gadd(P, Q), Gadd(S, T)) = Gadd(P, Gadd(Q, Gadd(S, T)))
  BY <1>1, PointLaws
<1>3. Gadd(Q, Gadd(S, T)) = Gadd(S, Gadd(Q, T))
  BY PointLaws
<1>4. Gadd(P, Gadd(S, Gadd(Q, T))) = Gadd(Gadd(P, S), Gadd(Q, T))
  BY <1>1, PointLaws
<1> QED
  BY <1>2, <1>3, <1>4

(* P * k + P * (-k) is the identity. *)
LEMMA Cancel ==
  ASSUME NEW P \in Group, NEW k \in Fq
  PROVE  Gadd(Times(P, k), Times(P, Neg(k))) = O
<1>1. Neg(k) \in Fq /\ Add(k, Neg(k)) = Zero
  BY AddLaws
<1>2. Times(P, Zero) = Gadd(Times(P, k), Times(P, Neg(k)))
  BY <1>1, TimesLaws
<1> QED
  BY <1>2, TimesLaws

----------------------------------------------------------------------------
(* Signatures. *)

(* The issuer has a scalar and a point for keys. *)
LEMMA KeyTypes == SK \in Fq /\ PK \in Group
  BY SigAssumption, TimesLaws, BasePoints DEF PK

(* An x-coordinate converts to a scalar or not at all. *)
LEMMA CoordinateType ==
  ASSUME NEW P \in Group
  PROVE  X(P) \in Fp /\ FpToFq(X(P)) \in Fq \cup {NoScalar}
  BY CoordinateLaws

(* Whatever scalar t stands for r, the verifiers rebuild Hm - k*G from       *)
(* s = k - sk*t: the -t*pk of the check cancels the sk*t inside -s*G.        *)
LEMMA RebuildsCommitment ==
  ASSUME NEW Hm \in Group, NEW k \in Fq, NEW t \in Fq
  PROVE  Gadd(Gadd(Times(G, Neg(Add(Mul(Neg(SK), t), k))), Times(PK, Neg(t))), Hm)
           = Gadd(Hm, Times(G, Neg(k)))
<1> DEFINE e == Mul(SK, t)
<1>1. SK \in Fq /\ PK \in Group /\ G \in Group /\ O \in Group
  BY KeyTypes, BasePoints
<1>2. e \in Fq /\ Neg(e) \in Fq /\ Neg(k) \in Fq /\ Neg(t) \in Fq
  BY <1>1, AddLaws, MulLaws
<1>3. Neg(Add(Mul(Neg(SK), t), k)) = Add(e, Neg(k))
  BY <1>1, <1>2, MulNeg, NegAdd, NegNeg
<1>4. Times(G, Add(e, Neg(k))) = Gadd(Times(G, e), Times(G, Neg(k)))
  BY <1>1, <1>2, TimesLaws
<1>5. Times(PK, Neg(t)) = Times(G, Neg(e))
  <2>1. Times(G, Mul(SK, Neg(t))) = Times(Times(G, SK), Neg(t))
    BY <1>1, <1>2, TimesLaws
  <2>2. Mul(SK, Neg(t)) = Neg(e)
    BY <1>1, MulNeg
  <2> QED
    BY <2>1, <2>2 DEF PK
<1> DEFINE A == Times(G, e)
           B == Times(G, Neg(k))
           C == Times(G, Neg(e))
<1>6. A \in Group /\ B \in Group /\ C \in Group /\ Gadd(A, B) \in Group
  BY <1>1, <1>2, TimesLaws, PointLaws
<1>7. Gadd(A, C) = O
  BY <1>1, <1>2, Cancel
<1>8. Gadd(Gadd(A, B), C) = B
  <2>1. Gadd(Gadd(A, B), C) = Gadd(B, Gadd(A, C))
    BY <1>6, PointLaws
  <2> QED
    BY <2>1, <1>6, <1>7, PointLaws
<1>9. Gadd(Gadd(Times(G, Add(e, Neg(k))), Times(PK, Neg(t))), Hm) = Gadd(B, Hm)
  BY <1>4, <1>5, <1>8
<1> QED
  BY <1>3, <1>6, <1>9, PointLaws

(* A signature made by sign or sign2 is well-formed, the point rebuilt from  *)
(* it is its R exactly, and it verifies.                                     *)
LEMMA SignedVerifies ==
  ASSUME NEW Hm \in Group, NEW k \in Fq, SignDefined(Hm, k)
  PROVE  /\ SignWith(Hm, k) \in Signature
         /\ Rebuilt(PK, Hm, SignWith(Hm, k)) = SignWith(Hm, k).R
         /\ Verify(PK, Hm, SignWith(Hm, k)) = "valid"
<1> DEFINE R == Gadd(Hm, Times(G, Neg(k)))
           t == FpToFq(X(R))
           sig == SignWith(Hm, k)
<1>1. t \in Fq /\ t # NoScalar
  BY CoordinateLaws DEF SignDefined
<1>2. R \in Group
  BY AddLaws, BasePoints, TimesLaws, PointLaws
<1>3. SK \in Fq
  BY KeyTypes
<1>4. sig = [r |-> X(R), s |-> Add(Mul(Neg(SK), t), k), R |-> R]
  BY DEF SignWith
<1>5. Add(Mul(Neg(SK), t), k) \in Fq
  BY <1>1, <1>3, AddLaws, MulLaws
<1>6. sig \in Signature
  BY <1>2, <1>4, <1>5, CoordinateType DEF Signature
<1>7. Rebuilt(PK, Hm, sig) = sig.R
  BY <1>1, <1>4, RebuildsCommitment DEF Rebuilt
<1>8. Hm # NoPoint
  BY SigAssumption
<1> QED
  BY <1>1, <1>4, <1>6, <1>7, <1>8 DEF Verify

(* Completeness of PiSLProof: the verifier rebuilds the prover's A.          *)
LEMMA PiSLComplete ==
  ASSUME NEW k \in Fq, NEW m \in Fq, NEW rk \in Fq, NEW rm \in Fq, NEW R0,
         R0 = Gadd(Times(H, m), Times(G, Neg(k)))
  PROVE  /\ PiSLProve(R0, k, m, rk, rm) \in [c : Fq, t_k : Fq, t_m : Fq]
         /\ PiSLVerify(PiSLProve(R0, k, m, rk, rm), R0)
<1> DEFINE A == Gadd(Times(H, rm), Times(G, rk))
           c == ChSL(R0, A)
           u == Mul(c, m)
           v == Mul(c, Neg(k))
           pi == PiSLProve(R0, k, m, rk, rm)
<1>1. G \in Group /\ H \in Group /\ Neg(k) \in Fq
  BY BasePoints, AddLaws
<1>2. R0 \in Group /\ A \in Group
  BY <1>1, TimesLaws, PointLaws
<1>3. c \in Fq /\ Neg(c) \in Fq
  BY <1>2, SigAssumption, AddLaws
<1>4. u \in Fq /\ v \in Fq /\ Neg(u) \in Fq /\ Neg(v) \in Fq
  BY <1>1, <1>3, AddLaws, MulLaws
<1>5. pi = [c |-> c, t_k |-> Add(rk, v), t_m |-> Add(rm, u)]
  BY DEF PiSLProve
<1>6. pi \in [c : Fq, t_k : Fq, t_m : Fq]
  BY <1>3, <1>4, <1>5, AddLaws
<1>7. Times(R0, Neg(c)) = Gadd(Times(H, Neg(u)), Times(G, Neg(v)))
  <2>1. Times(R0, Neg(c))
          = Gadd(Times(Times(H, m), Neg(c)), Times(Times(G, Neg(k)), Neg(c)))
    BY <1>1, <1>3, TimesLaws, ModuleLaws
  <2>2. Times(Times(H, m), Neg(c)) = Times(H, Mul(m, Neg(c)))
    BY <1>1, <1>3, TimesLaws
  <2>3. Times(Times(G, Neg(k)), Neg(c)) = Times(G, Mul(Neg(k), Neg(c)))
    BY <1>1, <1>3, TimesLaws
  <2>4. Mul(m, Neg(c)) = Neg(u) /\ Mul(Neg(k), Neg(c)) = Neg(v)
    BY <1>1, <1>3, MulNeg, MulLaws
  <2> QED
    BY <2>1, <2>2, <2>3, <2>4
<1>8. Gadd(Times(H, Neg(u)), Times(H, Add(rm, u))) = Times(H, rm)
  <2>1. Gadd(Times(H, Neg(u)), Times(H, Add(rm, u))) = Times(H, Add(Neg(u), Add(rm, u)))
    BY <1>1, <1>4, TimesLaws, AddLaws
  <2>2. Add(Neg(u), Add(rm, u)) = Add(rm, Add(u, Neg(u)))
    BY <1>4, AddLaws
  <2>3. Add(rm, Add(u, Neg(u))) = rm
    BY <1>4, AddLaws
  <2> QED
    BY <2>1, <2>2, <2>3
<1>9. Gadd(Times(G, Neg(v)), Times(G, Add(rk, v))) = Times(G, rk)
  <2>1. Gadd(Times(G, Neg(v)), Times(G, Add(rk, v))) = Times(G, Add(Neg(v), Add(rk, v)))
    BY <1>1, <1>4, TimesLaws, AddLaws
  <2>2. Add(Neg(v), Add(rk, v)) = Add(rk, Add(v, Neg(v)))
    BY <1>4, AddLaws
  <2>3. Add(rk, Add(v, Neg(v))) = rk
    BY <1>4, AddLaws
  <2> QED
    BY <2>1, <2>2, <2>3
<1>10. Gadd(Gadd(Times(R0, Neg(c)), Times(H, Add(rm, u))), Times(G, Add(rk, v))) = A
  <2> DEFINE h1 == Times(H, Neg(u))
             h2 == Times(H, Add(rm, u))
             g1 == Times(G, Neg(v))
             g2 == Times(G, Add(rk, v))
  <2>1. h1 \in Group /\ h2 \in Group /\ g1 \in Group /\ g2 \in Group
    BY ZenonT(60), <1>1, <1>4, AddLaws, TimesLaws
  <2>2. Gadd(Gadd(Gadd(h1, g1), h2), g2) = Gadd(Gadd(h1, g1), Gadd(h2, g2))
    BY <2>1, PointLaws
  <2>3. Gadd(Gadd(h1, g1), Gadd(h2, g2)) = Gadd(Gadd(h1, h2), Gadd(g1, g2))
    BY <2>1, Regroup
  <2> QED
    BY <1>7, <1>8, <1>9, <2>2, <2>3
<1>11. PiSLVerify(pi, R0)
  BY <1>5, <1>10 DEF PiSLVerify
<1> QED
  BY <1>6, <1>11

----------------------------------------------------------------------------
(* Blind issuance. *)

(* A live session's R0 commits to its message with its k0. *)
SessionsCommitted ==
  \A s \in Session :
    Live(s) => /\ MsgPoint(ustate[s].msg) \in Group
               /\ ustate[s].R0 = Commit(MsgPoint(ustate[s].msg), ustate[s].k0)

(* Every reply is the issuer's, for a nonce whose r = R.x converts to Fq. *)
IssuedFor(rep, k1) ==
  /\ FpToFq(X(IssuerR(rep.R0, k1))) \in Fq
  /\ rep = IssuerReply(rep.R0, k1)

RepliesIssued == \A rep \in replies : \E k1 \in Fq : IssuedFor(rep, k1)

IInv == TypeOK /\ SessionsCommitted /\ RequestsVerify /\ RepliesIssued

----------------------------------------------------------------------------
(* Every message has a point, but a scheme 2 message whose hash misses the curve. *)
LEMMA MessagePoints ==
  ASSUME NEW msg \in Message
  PROVE  /\ msg.scheme = 1 => msg.m \in Fq
         /\ MsgPoint(msg) \in Group \cup {NoPoint}
         /\ msg.scheme = 1 => MsgPoint(msg) \in Group
         /\ MsgPoint(msg) # NoPoint => MsgPoint(msg) \in Group
<1>1. CASE msg.scheme = 1
  <2>1. msg.m \in Fq
    BY <1>1, SigAssumption DEF Message
  <2> QED
    BY <1>1, <2>1, BasePoints, TimesLaws DEF MsgPoint
<1>2. CASE msg.scheme = 2
  <2>1. msg.m \in ByteStrings
    BY <1>2 DEF Message
  <2> QED
    BY <1>2, <2>1, SigAssumption DEF MsgPoint
<1> QED
  BY <1>1, <1>2 DEF Message

(* What the user sends is a point. *)
LEMMA CommitType ==
  ASSUME NEW Hm \in Group, NEW k \in Fq
  PROVE  Commit(Hm, k) \in Group
  BY AddLaws, BasePoints, TimesLaws, PointLaws DEF Commit

(* The blind signature a session assembles from the reply made to its R0     *)
(* with nonce k1 is the direct signature with nonce k0 + k1.                 *)
LEMMA BlindIsDirect ==
  ASSUME NEW us \in UserState, NEW rep \in Reply, NEW k1 \in Fq,
         MsgPoint(us.msg) \in Group,
         us.R0 = Commit(MsgPoint(us.msg), us.k0),
         rep.R0 = us.R0,
         IssuedFor(rep, k1)
  PROVE  /\ Add(us.k0, k1) \in Fq
         /\ SignDefined(MsgPoint(us.msg), Add(us.k0, k1))
         /\ FinalSig(us, rep) = SignWith(MsgPoint(us.msg), Add(us.k0, k1))
<1> DEFINE Hm == MsgPoint(us.msg)
           k == Add(us.k0, k1)
           R == Gadd(us.R0, Times(G, Neg(k1)))
           t == FpToFq(X(R))
<1>1. us.k0 \in Fq /\ k \in Fq /\ SK \in Fq
  BY AddLaws, KeyTypes DEF UserState
<1>2. G \in Group /\ Neg(us.k0) \in Fq /\ Neg(k1) \in Fq
  BY <1>1, BasePoints, AddLaws
<1>3. R = Gadd(Hm, Times(G, Neg(k)))
  <2>1. R = Gadd(Gadd(Hm, Times(G, Neg(us.k0))), Times(G, Neg(k1)))
    BY DEF Commit
  <2>2. Times(G, Neg(us.k0)) \in Group /\ Times(G, Neg(k1)) \in Group
    BY <1>2, TimesLaws
  <2>3. R = Gadd(Hm, Gadd(Times(G, Neg(us.k0)), Times(G, Neg(k1))))
    BY <2>1, <2>2, PointLaws
  <2>4. Gadd(Times(G, Neg(us.k0)), Times(G, Neg(k1))) = Times(G, Neg(k))
    <3>1. Neg(k) = Add(Neg(us.k0), Neg(k1))
      BY <1>1, NegAdd
    <3> QED
      BY <1>2, <3>1, TimesLaws
  <2> QED
    BY <2>3, <2>4
<1>4. t \in Fq
  BY DEF IssuedFor, IssuerR
<1>5. rep.s1 = Add(Mul(Neg(SK), t), k1) /\ rep.R1 = Times(G, Neg(k1))
  BY DEF IssuedFor, IssuerReply, IssuerR
<1>6. Add(rep.s1, us.k0) = Add(Mul(Neg(SK), t), k)
  <2> DEFINE a == Mul(Neg(SK), t)
  <2>1. a \in Fq
    BY <1>1, <1>4, AddLaws, MulLaws
  <2>2. Add(Add(a, k1), us.k0) = Add(a, Add(k1, us.k0))
    <3>1. ASSUME NEW x \in Fq, NEW y \in Fq, NEW z \in Fq
          PROVE  Add(Add(x, y), z) = Add(x, Add(y, z))
      BY AddLaws
    <3> QED
      BY ZenonT(60), <1>1, <2>1, <3>1
  <2>3. Add(k1, us.k0) = k
    BY <1>1, AddLaws
  <2> QED
    BY <1>5, <2>2, <2>3
<1>7. FinalSig(us, rep) = [r |-> X(R), s |-> Add(Mul(Neg(SK), t), k), R |-> R]
  BY <1>5, <1>6 DEF FinalSig
<1> QED
  BY <1>1, <1>3, <1>4, <1>7 DEF SignDefined, SignWith

(* What a live session's own reply gives, in any state of the invariant.     *)
LEMMA OwnReplyGives ==
  ASSUME IInv, NEW s \in Session, NEW rep \in replies, Matched(s, rep)
  PROVE  \E k \in Fq :
           /\ SignDefined(MsgPoint(ustate[s].msg), k)
           /\ FinalSig(ustate[s], rep) = SignWith(MsgPoint(ustate[s].msg), k)
           /\ FinalSig(ustate[s], rep) \in Signature
           /\ Verify(PK, MsgPoint(ustate[s].msg), FinalSig(ustate[s], rep)) = "valid"
           /\ Rebuilt(PK, MsgPoint(ustate[s].msg), FinalSig(ustate[s], rep))
                = FinalSig(ustate[s], rep).R
<1>1. ustate[s] \in UserState
  BY DEF IInv, TypeOK, Matched, Live
<1>2. rep \in Reply /\ rep.R0 = ustate[s].R0
  BY DEF IInv, TypeOK, Matched
<1>3. /\ MsgPoint(ustate[s].msg) \in Group
      /\ ustate[s].R0 = Commit(MsgPoint(ustate[s].msg), ustate[s].k0)
  BY DEF IInv, SessionsCommitted, Matched
<1>4. PICK k1 \in Fq : IssuedFor(rep, k1)
  BY DEF IInv, RepliesIssued
<1> DEFINE k == Add(ustate[s].k0, k1)
<1>5. /\ k \in Fq
      /\ SignDefined(MsgPoint(ustate[s].msg), k)
      /\ FinalSig(ustate[s], rep) = SignWith(MsgPoint(ustate[s].msg), k)
  BY <1>1, <1>2, <1>3, <1>4, BlindIsDirect
<1>6. /\ SignWith(MsgPoint(ustate[s].msg), k) \in Signature
      /\ Verify(PK, MsgPoint(ustate[s].msg), SignWith(MsgPoint(ustate[s].msg), k)) = "valid"
      /\ Rebuilt(PK, MsgPoint(ustate[s].msg), SignWith(MsgPoint(ustate[s].msg), k))
           = SignWith(MsgPoint(ustate[s].msg), k).R
  BY <1>3, <1>5, SignedVerifies
<1> QED
  BY <1>5, <1>6

----------------------------------------------------------------------------
(* The invariant is inductive. *)

(* Initially no session, request or reply is there to be explained. *)
LEMMA InitInv == Init => IInv
  BY DEF Init, IInv, TypeOK, SessionsCommitted, RequestsVerify, RepliesIssued, Live, Results

(* A scheme 1 request comes from a commitment and its own proof verifies. *)
LEMMA Request1Inv ==
  ASSUME IInv, NEW s \in Session, NEW msg \in Message, NEW k0 \in K0, NEW b \in Blinds,
         UserRequest1(s, msg, k0, b)
  PROVE  IInv'
<1> DEFINE R0 == Commit(MsgPoint(msg), k0)
           req == [scheme |-> 1, R0 |-> R0, pi |-> PiSLProve(R0, k0, msg.m, b[1], b[2])]
           us == [msg |-> msg, k0 |-> k0, R0 |-> R0]
<1>1. k0 \in Fq /\ b[1] \in Fq /\ b[2] \in Fq
  BY IssuanceAssumption
<1>2. MsgPoint(msg) \in Group /\ msg.m \in Fq /\ MsgPoint(msg) = Times(H, msg.m)
  BY MessagePoints DEF UserRequest1, MsgPoint
<1>3. R0 \in Group
  BY <1>1, <1>2, CommitType
<1>4. req.pi \in Proofs1 /\ PiSLVerify(req.pi, R0)
  BY <1>1, <1>2, PiSLComplete DEF Commit, Proofs1
<1>5. req \in Request /\ ProofOK(req)
  BY <1>3, <1>4 DEF Request, ProofOK
<1>6. us \in UserState
  BY <1>1, <1>3 DEF UserState
<1>7. /\ ustate' = [ustate EXCEPT ![s] = us]
      /\ requests' = requests \cup {req}
      /\ result' = "ok"
      /\ UNCHANGED <<damaged, replies, wallet>>
  BY DEF UserRequest1
<1>8. TypeOK'
  BY <1>5, <1>6, <1>7 DEF IInv, TypeOK, Results
<1>9. SessionsCommitted'
  BY <1>2, <1>7 DEF IInv, TypeOK, SessionsCommitted, Live
<1>10. RequestsVerify'
  BY <1>5, <1>7 DEF IInv, RequestsVerify
<1>11. RepliesIssued'
  BY <1>7 DEF IInv, RepliesIssued
<1> QED
  BY <1>8, <1>9, <1>10, <1>11 DEF IInv

(* So does a scheme 2 request, whose proof is the issuance proof. *)
LEMMA Request2Inv ==
  ASSUME IInv, NEW s \in Session, NEW msg \in Message, NEW k0 \in K0,
         UserRequest2(s, msg, k0)
  PROVE  IInv'
<1> DEFINE R0 == Commit(MsgPoint(msg), k0)
           req == [scheme |-> 2, R0 |-> R0, pi |-> IssuanceProve(R0, Neg(k0), msg.m)]
           us == [msg |-> msg, k0 |-> k0, R0 |-> R0]
<1>1. k0 \in Fq
  BY IssuanceAssumption
<1>2. MsgPoint(msg) \in Group /\ MsgPoint(msg) = HashToCurve(msg.m)
  BY MessagePoints DEF UserRequest2, MsgPoint
<1>3. R0 \in Group
  BY <1>1, <1>2, CommitType
<1>4. req.pi = [pub |-> R0, sat |-> TRUE]
  BY <1>2 DEF IssuanceProve, Commit
<1>5. req \in Request /\ ProofOK(req)
  <2>1. req = [scheme |-> 2, R0 |-> R0, pi |-> [pub |-> R0, sat |-> TRUE]]
    BY <1>4
  <2>2. req.scheme # 1 /\ req.pi.pub = req.R0 /\ req.pi.sat
    BY <2>1
  <2>3. ProofOK(req)
    BY <2>2, Zenon DEF ProofOK, IssuanceVerify
  <2>4. req \in [scheme : {2}, R0 : Group, pi : Proofs2]
    <3> HIDE DEF R0
    <3>1. [pub |-> R0, sat |-> TRUE] \in Proofs2
      BY <1>3 DEF Proofs2
    <3> QED
      BY <1>3, <2>1, <3>1
  <2> QED
    BY <2>3, <2>4 DEF Request
<1>6. us \in UserState
  BY <1>1, <1>3 DEF UserState
<1>7. /\ ustate' = [ustate EXCEPT ![s] = us]
      /\ requests' = requests \cup {req}
      /\ result' = "ok"
      /\ UNCHANGED <<damaged, replies, wallet>>
  BY DEF UserRequest2
<1>8. TypeOK'
  BY <1>5, <1>6, <1>7 DEF IInv, TypeOK, Results
<1>9. SessionsCommitted'
  BY <1>2, <1>7 DEF IInv, TypeOK, SessionsCommitted, Live
<1>10. RequestsVerify'
  BY <1>5, <1>7 DEF IInv, RequestsVerify
<1>11. RepliesIssued'
  BY <1>7 DEF IInv, RepliesIssued
<1> QED
  BY <1>8, <1>9, <1>10, <1>11 DEF IInv

(* A session that crashes, and an issuer call that only returns, keep it. *)
LEMMA QuietInv ==
  ASSUME IInv, NEW s \in Session,
         UNCHANGED <<requests, damaged, replies, wallet>>,
         ustate' = ustate \/ ustate' = [ustate EXCEPT ![s] = Crashed],
         result' \in Results
  PROVE  IInv'
<1>1. TypeOK'
  BY DEF IInv, TypeOK
<1>2. SessionsCommitted'
  BY DEF IInv, TypeOK, SessionsCommitted, Live
<1> QED
  BY <1>1, <1>2 DEF IInv, RequestsVerify, RepliesIssued

(* What the issuer sends is its reply for a nonce that converts. *)
LEMMA SignsInv ==
  ASSUME IInv, NEW req \in requests, NEW k1 \in K1, IssuerSigns(req, k1)
  PROVE  IInv'
<1> DEFINE rep == IssuerReply(req.R0, k1)
           t == FpToFq(X(IssuerR(req.R0, k1)))
<1>1. k1 \in Fq /\ Neg(k1) \in Fq /\ SK \in Fq /\ G \in Group
  BY IssuanceAssumption, AddLaws, KeyTypes, BasePoints
<1>2. req.R0 \in Group
  BY DEF IInv, TypeOK, Request
<1>3. IssuerR(req.R0, k1) \in Group
  BY <1>1, <1>2, TimesLaws, PointLaws DEF IssuerR
<1>4. t \in Fq
  BY <1>3, CoordinateType DEF IssuerSigns
<1>5. rep \in Reply /\ IssuedFor(rep, k1)
  <2>1. Mul(Neg(SK), t) \in Fq
    BY <1>1, <1>4, AddLaws, MulLaws
  <2>2. rep.s1 \in Fq /\ rep.R1 \in Group /\ rep.R0 = req.R0
    BY <1>1, <2>1, AddLaws, TimesLaws DEF IssuerReply
  <2> QED
    BY <1>2, <1>4, <2>2 DEF IssuedFor, Reply, IssuerReply
<1>6. /\ replies' = replies \cup {rep}
      /\ result' = "ok"
      /\ UNCHANGED <<ustate, requests, damaged, wallet>>
  BY DEF IssuerSigns
<1>7. TypeOK'
  BY <1>5, <1>6 DEF IInv, TypeOK, Results
<1>8. RepliesIssued'
  BY <1>1, <1>5, <1>6 DEF IInv, RepliesIssued
<1>9. SessionsCommitted' /\ RequestsVerify'
  BY <1>6 DEF IInv, SessionsCommitted, RequestsVerify, Live
<1> QED
  BY <1>7, <1>8, <1>9 DEF IInv

(* Delivered to any session, a reply yields a well-typed signature. *)
LEMMA FinalSigType ==
  ASSUME NEW us \in UserState, NEW rep \in Reply
  PROVE  FinalSig(us, rep) \in Signature
<1>1. us.R0 \in Group /\ us.k0 \in Fq /\ rep.R1 \in Group /\ rep.s1 \in Fq
  BY DEF UserState, Reply
<1>2. Gadd(us.R0, rep.R1) \in Group /\ Add(rep.s1, us.k0) \in Fq
  BY <1>1, PointLaws, AddLaws
<1> QED
  BY <1>2, CoordinateType DEF FinalSig, Signature

(* Finalising disturbs neither sessions nor messages. *)
LEMMA FinalizeInv ==
  ASSUME IInv, NEW s \in Session, NEW rep \in replies, UserFinalize(s, rep)
  PROVE  IInv'
<1> DEFINE sig == FinalSig(ustate[s], rep)
           v == Verify(PK, MsgPoint(ustate[s].msg), sig)
<1>1. /\ Live(s)
      /\ wallet' = IF v = "valid" THEN [wallet EXCEPT ![s] = @ \cup {sig}] ELSE wallet
      /\ ustate' = IF v = Panic THEN [ustate EXCEPT ![s] = Crashed] ELSE ustate
      /\ result' \in Results
      /\ UNCHANGED <<requests, damaged, replies>>
  BY DEF UserFinalize, Results, Panic
<1>2. CASE v # "valid"
  BY <1>1, <1>2, QuietInv
<1>3. CASE v = "valid"
  <2>1. ustate' = ustate
    BY <1>1, <1>3 DEF Panic
  <2>2. sig \in Signature
    BY <1>1, FinalSigType DEF IInv, TypeOK, Live
  <2>3. TypeOK'
    BY <1>1, <1>3, <2>1, <2>2 DEF IInv, TypeOK
  <2>4. SessionsCommitted' /\ RequestsVerify' /\ RepliesIssued'
    BY <1>1, <2>1 DEF IInv, SessionsCommitted, RequestsVerify, RepliesIssued, Live
  <2> QED
    BY <2>3, <2>4 DEF IInv
<1> QED
  BY <1>2, <1>3

(* A damaged request is not among those that must verify. *)
LEMMA DamageInv ==
  ASSUME IInv, NEW req \in requests, NEW other \in requests, Damage(req, other)
  PROVE  IInv'
<1> DEFINE d == [req EXCEPT !.pi = other.pi]
<1>1. /\ damaged' = damaged \cup {d}
      /\ requests' = requests \cup {d}
      /\ UNCHANGED <<ustate, replies, wallet, result>>
      /\ req.scheme = other.scheme
  BY DEF Damage
<1>2. d \in Request
  BY <1>1 DEF IInv, TypeOK, Request
<1>3. TypeOK'
  BY <1>1, <1>2 DEF IInv, TypeOK
<1>4. SessionsCommitted' /\ RequestsVerify' /\ RepliesIssued'
  BY <1>1 DEF IInv, SessionsCommitted, RequestsVerify, RepliesIssued, Live
<1> QED
  BY <1>3, <1>4 DEF IInv

(* Every step of users, issuer and application keeps the invariant. *)
LEMMA StepInv == IInv /\ [Next]_vars => IInv'
<1> SUFFICES ASSUME IInv, [Next]_vars PROVE IInv'
  OBVIOUS
<1>1. ASSUME NEW s \in Session, UserCalls(s) PROVE IInv'
  <2>1. ASSUME NEW msg \in Message, UserRequest2Panics(s, msg) PROVE IInv'
    BY <2>1, QuietInv DEF UserRequest2Panics, Results
  <2> QED
    BY <1>1, <2>1, Request1Inv, Request2Inv DEF UserCalls
<1>2. ASSUME IssuerCalls PROVE IInv'
  <2>1. ASSUME UNCHANGED <<ustate, requests, damaged, replies, wallet>>,
               result' \in Results
        PROVE  IInv'
    BY <2>1 DEF IInv, TypeOK, SessionsCommitted, RequestsVerify, RepliesIssued, Live
  <2>2. ASSUME NEW req \in requests, IssuerRejects(req) PROVE IInv'
    BY <2>1, <2>2 DEF IssuerRejects, Results
  <2>3. ASSUME NEW req \in requests, NEW k1 \in K1, IssuerPanics(req, k1) PROVE IInv'
    BY <2>1, <2>3 DEF IssuerPanics, Results
  <2> QED
    BY <1>2, <2>2, <2>3, SignsInv DEF IssuerCalls
<1>3. ASSUME NEW req \in requests, NEW other \in requests, Damage(req, other) PROVE IInv'
  BY <1>3, DamageInv
<1>4. ASSUME NEW s \in Session, NEW rep \in replies, UserFinalize(s, rep) PROVE IInv'
  BY <1>4, FinalizeInv
<1>5. CASE UNCHANGED vars
  BY <1>5 DEF vars, IInv, TypeOK, SessionsCommitted, RequestsVerify, RepliesIssued, Live
<1> QED
  BY <1>1, <1>2, <1>3, <1>4, <1>5 DEF Next, NextCorrelated, FinalizesOwn

(* Every variable keeps its type, and every bound of the invariant holds. *)
THEOREM Invariance == Spec => []IInv
  BY InitInv, StepInv, PTL DEF Spec

(* TypeOK holds of every behaviour of the protocol, replies crossed or not.  *)
THEOREM TypeCorrect == Spec => []TypeOK
<1>1. IInv => TypeOK
  BY DEF IInv
<1> QED
  BY <1>1, Invariance, PTL

(* An honest request is never answered with UserIssuanceProofInvalid.        *)
THEOREM HonestRequestsVerify == Spec => []RequestsVerify
<1>1. IInv => RequestsVerify
  BY DEF IInv
<1> QED
  BY <1>1, Invariance, PTL

(* user2_finalize succeeds on every reply made to the session's own R0, in   *)
(* every state the protocol reaches: a failed or crossed call before it      *)
(* never spoils it, and no conversion panics.                                *)
THEOREM MatchedRepliesFinalize == Spec => []OwnReplyFinalizes
<1>1. IInv => OwnReplyFinalizes
  BY OwnReplyGives DEF OwnReplyFinalizes
<1> QED
  BY <1>1, Invariance, PTL

(* and the signature is exact: verification rebuilds R, not -R.              *)
THEOREM MatchedRepliesAreExact == Spec => []OwnReplyIsExact
<1>1. IInv => OwnReplyIsExact
  BY OwnReplyGives DEF OwnReplyIsExact
<1> QED
  BY <1>1, Invariance, PTL

----------------------------------------------------------------------------
(* Refinement of IssueSpec. *)

Wanted == [s \in Session |-> IF Live(s) THEN ustate[s].msg ELSE [scheme |-> 0]]

(* So does every behaviour in which replies reach the session that asked. *)
LEMMA CorrelatedInv == SpecCorrelated => []IInv
<1>1. NextCorrelated => Next
  BY DEF Next
<1>2. IInv /\ [NextCorrelated]_vars => IInv'
  BY <1>1, StepInv
<1> QED
  BY <1>2, InitInv, PTL DEF SpecCorrelated

(* The instance defines the operators of NRSig anew, with the same meaning. *)
LEMMA DirectOperators ==
  /\ Direct!Message = Message
  /\ \A msg : Direct!MsgPoint(msg) = MsgPoint(msg)
  /\ \A Hm, k : Direct!SignDefined(Hm, k) = SignDefined(Hm, k)
  /\ \A Hm, k : Direct!SignWith(Hm, k) = SignWith(Hm, k)
<1>1. Direct!Message = Message
  BY DEF Direct!Message, Message
<1>2. ASSUME NEW msg PROVE Direct!MsgPoint(msg) = MsgPoint(msg)
  BY DEF Direct!MsgPoint, MsgPoint
<1>3. ASSUME NEW Hm, NEW k PROVE Direct!SignDefined(Hm, k) = SignDefined(Hm, k)
  BY DEF Direct!SignDefined, SignDefined
<1>4. ASSUME NEW Hm, NEW k PROVE Direct!SignWith(Hm, k) = SignWith(Hm, k)
  BY DEF Direct!SignWith, SignWith
<1> QED
  BY <1>1, <1>2, <1>3, <1>4

(* The abstract specification's absent message is no message. *)
LEMMA NoMessageWanted == ASSUME NEW msg \in Message PROVE msg # Direct!NoMessage
  BY DEF Message, Direct!NoMessage

(* Asking: ustate[s] becomes live with msg, nothing enters a wallet. *)
LEMMA AskRefines ==
  ASSUME IInv, NEW s \in Session, NEW msg \in Message, NEW us,
         ustate[s] = NoState, us.msg = msg, us # NoState, us # Crashed,
         ustate' = [ustate EXCEPT ![s] = us], wallet' = wallet
  PROVE  Direct!Ask(s, msg)
<1>1. ustate \in [Session -> UserState \cup {NoState, Crashed}]
  BY DEF IInv, TypeOK
<1>2. Wanted[s] = Direct!NoMessage
  BY DEF Wanted, Live, Direct!NoMessage
<1>3. Wanted' = [Wanted EXCEPT ![s] = msg]
  BY <1>1 DEF Wanted, Live
<1> QED
  BY <1>2, <1>3 DEF Direct!Ask, Wanted

(* Every correlated step asks, signs directly, or leaves the abstract state. *)
LEMMA StepRefines ==
  IInv /\ [NextCorrelated]_vars => [Direct!Next]_<<Wanted, wallet>>
<1> SUFFICES ASSUME IInv, [NextCorrelated]_vars
             PROVE  Direct!Next \/ UNCHANGED <<Wanted, wallet>>
  OBVIOUS
<1> USE DEF Wanted
<1>1. ASSUME NEW s \in Session, NEW msg \in Message, NEW k0 \in K0, NEW b \in Blinds,
             UserRequest1(s, msg, k0, b)
      PROVE  Direct!Next
  <2> DEFINE us == [msg |-> msg, k0 |-> k0, R0 |-> Commit(MsgPoint(msg), k0)]
  <2>1. us.msg = msg /\ us # NoState /\ us # Crashed
    BY DEF NoState, Crashed
  <2>2. Direct!Ask(s, msg)
    BY <1>1, <2>1, AskRefines DEF UserRequest1
  <2> QED
    BY <2>2, DirectOperators DEF Direct!Next
<1>2. ASSUME NEW s \in Session, NEW msg \in Message, NEW k0 \in K0,
             UserRequest2(s, msg, k0)
      PROVE  Direct!Next
  <2> DEFINE us == [msg |-> msg, k0 |-> k0, R0 |-> Commit(MsgPoint(msg), k0)]
  <2>1. us.msg = msg /\ us # NoState /\ us # Crashed
    BY DEF NoState, Crashed
  <2>2. Direct!Ask(s, msg)
    BY <1>2, <2>1, AskRefines DEF UserRequest2
  <2> QED
    BY <2>2, DirectOperators DEF Direct!Next
<1>3. ASSUME NEW s \in Session, NEW msg \in Message, UserRequest2Panics(s, msg)
      PROVE  UNCHANGED <<Wanted, wallet>>
  BY <1>3 DEF UserRequest2Panics, IInv, TypeOK, Live
<1>4. ASSUME NEW s \in Session, NEW rep \in replies, Matched(s, rep), UserFinalize(s, rep)
      PROVE  Direct!Next
  <2> DEFINE sig == FinalSig(ustate[s], rep)
             Hm == MsgPoint(ustate[s].msg)
  <2>1. PICK k \in Fq : /\ SignDefined(Hm, k)
                        /\ sig = SignWith(Hm, k)
                        /\ Verify(PK, Hm, sig) = "valid"
    BY <1>4, OwnReplyGives
  <2>2. wallet' = [wallet EXCEPT ![s] = @ \cup {SignWith(Hm, k)}] /\ ustate' = ustate
    BY <1>4, <2>1 DEF UserFinalize, Panic
  <2>3. Wanted[s] = ustate[s].msg /\ ustate[s].msg \in Message
    BY <1>4 DEF Matched, Live, IInv, TypeOK, UserState
  <2>4. Wanted[s] # Direct!NoMessage
    BY <2>3, NoMessageWanted
  <2>5. Wanted' = Wanted
    BY <2>2 DEF Live
  <2>6. Direct!Sign(s, k)
    BY <2>1, <2>2, <2>3, <2>4, <2>5, DirectOperators DEF Direct!Sign
  <2> QED
    BY <2>6, DirectOperators DEF Direct!Next
<1>5. ASSUME IssuerCalls PROVE UNCHANGED <<Wanted, wallet>>
  BY <1>5 DEF IssuerCalls, IssuerRejects, IssuerSigns, IssuerPanics, Live
<1>6. ASSUME NEW req \in requests, NEW other \in requests, Damage(req, other)
      PROVE  UNCHANGED <<Wanted, wallet>>
  BY <1>6 DEF Damage, Live
<1>7. CASE UNCHANGED vars
  BY <1>7 DEF vars, Live
<1> QED
  BY <1>1, <1>2, <1>3, <1>4, <1>5, <1>6, <1>7 DEF NextCorrelated, UserCalls, FinalizesOwn

(* With replies correlated, every signature a session obtains is one the     *)
(* issuer could have made directly on the session's message.                 *)
THEOREM IssuanceRefinesDirectSigning == SpecCorrelated => IssuesDirectSignatures
<1>1. Init => Direct!Init
  BY DEF Init, Direct!Init, Direct!NoMessage, Live
<1>2. IInv /\ [NextCorrelated]_vars
        => [Direct!Next]_<<[s \in Session |-> IF Live(s) THEN ustate[s].msg ELSE [scheme |-> 0]], wallet>>
  BY StepRefines DEF Wanted
<1> QED
  BY <1>1, <1>2, CorrelatedInv, PTL DEF SpecCorrelated, IssuesDirectSignatures, Direct!Spec

----------------------------------------------------------------------------
(* Showing a signature. *)

(* A proof in a verifier's hands was made from the held signature, passed    *)
(* prove's assertion and, where the prover checks itself, satisfies.         *)
ProofOf(p) ==
  \E d \in Draws, type \in SnarkType :
    /\ p = Prove(held.msg, held.sig, d, type)
    /\ ProveAsserts(held.msg, held.sig, d[1])

(* A panic was met by some draw. *)
PanicExplained ==
  outcome = Panic =>
    \E d \in Draws, type \in SnarkType :
      \/ ~ProveAsserts(held.msg, held.sig, d[1])
      \/ SynthesisPanics(held.sig)
      \/ ~Prove(held.msg, held.sig, d, type).snark.sat

VerdictExplained ==
  verdict # NoVerdict =>
    /\ verdict.proof \in shown
    /\ verdict.msg \in Message
    /\ verdict.ok = IF MsgPoint(verdict.msg) = NoPoint THEN Panic
                    ELSE IF VerifyShow(verdict.proof, verdict.msg, verdict.type)
                    THEN "accept" ELSE "reject"

ShowInv ==
  /\ held \in Held
  /\ \A p \in shown : ProofOf(p)
  /\ PanicExplained
  /\ VerdictExplained

----------------------------------------------------------------------------
(* A held signature has the fields of one, and a scalar for its r. *)
LEMMA HeldTypes ==
  ASSUME held \in Held
  PROVE  /\ held.msg \in Message
         /\ held.sig.s \in Fq /\ held.sig.R \in Group /\ held.sig.r = X(held.sig.R)
         /\ FpToFq(held.sig.r) \in Fq
         /\ MsgPoint(held.msg) \in Group
<1>1. /\ held.msg \in Message /\ held.sig \in Signature
      /\ Verify(PK, MsgPoint(held.msg), held.sig) = "valid"
  BY DEF Held
<1>2. /\ held.sig.r = X(held.sig.R)
      /\ FpToFq(held.sig.r) # NoScalar
      /\ MsgPoint(held.msg) # NoPoint
  BY <1>1 DEF Verify, Panic
<1>3. held.sig.s \in Fq /\ held.sig.R \in Group
  BY <1>1 DEF Signature
<1>4. FpToFq(held.sig.r) \in Fq
  BY <1>2, <1>3, CoordinateType
<1>5. MsgPoint(held.msg) \in Group
  <2>1. CASE held.msg.scheme = 1
    <3>1. held.msg.m \in Fq
      BY <1>1, <2>1, SigAssumption DEF Message
    <3> QED
      BY <2>1, <3>1, BasePoints, TimesLaws DEF MsgPoint
  <2>2. CASE held.msg.scheme = 2
    <3>1. held.msg.m \in ByteStrings
      BY <1>1, <2>2 DEF Message
    <3> QED
      BY <1>2, <2>2, <3>1, SigAssumption DEF MsgPoint
  <2> QED
    BY <1>1, <2>1, <2>2 DEF Message
<1> QED
  BY <1>1, <1>2, <1>3, <1>4, <1>5

(* The prover's four draws are scalars. *)
LEMMA DrawTypes ==
  ASSUME NEW d \in Draws
  PROVE  d[1] \in Fq /\ d[2] \in Fq /\ d[3] \in Fq /\ d[4] \in Fq
  BY ShowAssumption

(* One base of the sigma proof: P*(a + c*w) - c*(P*w) = P*a. *)
LEMMA ResponseCancels ==
  ASSUME NEW P \in Group, NEW a \in Fq, NEW c \in Fq, NEW w \in Fq
  PROVE  Gadd(Times(P, Add(a, Mul(c, w))), Times(Times(P, w), Neg(c))) = Times(P, a)
<1> DEFINE u == Mul(c, w)
<1>1. u \in Fq /\ Neg(u) \in Fq /\ Neg(c) \in Fq
  BY MulLaws, AddLaws
<1>2. Times(Times(P, w), Neg(c)) = Times(P, Neg(u))
  <2>1. Times(P, Mul(w, Neg(c))) = Times(Times(P, w), Neg(c))
    BY <1>1, TimesLaws
  <2>2. Mul(w, Neg(c)) = Neg(u)
    BY MulNeg, MulLaws
  <2> QED
    BY <2>1, <2>2
<1>3. Times(P, Add(a, u)) = Gadd(Times(P, a), Times(P, u))
  BY <1>1, TimesLaws
<1>4. Gadd(Times(P, u), Times(P, Neg(u))) = O
  BY <1>1, Cancel
<1>5. Times(P, a) \in Group /\ Times(P, u) \in Group /\ Times(P, Neg(u)) \in Group
  BY <1>1, TimesLaws
<1>6. Gadd(Gadd(Times(P, a), Times(P, u)), Times(P, Neg(u))) = Gadd(Times(P, a), O)
  BY <1>4, <1>5, PointLaws
<1> QED
  BY <1>2, <1>3, <1>5, <1>6, PointLaws

(* The verifier rebuilds the prover's commitment R1 from honest responses. *)
LEMMA SigmaAccepts ==
  ASSUME held \in Held, NEW d \in Draws, NEW type \in SnarkType
  PROVE  LET p == Prove(held.msg, held.sig, d, type)
         IN  p.resp.challenge =
               ChNR(Gadd(Gadd(Gadd(Times(G, p.resp.s), Times(PK, p.resp.r)), Times(V, p.resp.z)),
                         Times(p.B0, Neg(p.resp.challenge))))
<1> DEFINE t == FpToFq(held.sig.r)
           w1 == Neg(held.sig.s)
           w2 == Neg(t)
           R1 == Gadd(Gadd(Times(G, d[2]), Times(PK, d[3])), Times(V, d[4]))
           c == ChNR(R1)
           p == Prove(held.msg, held.sig, d, type)
<1>1. held.sig.s \in Fq /\ t \in Fq /\ d[1] \in Fq /\ d[2] \in Fq /\ d[3] \in Fq /\ d[4] \in Fq
  BY HeldTypes, DrawTypes
<1>2. w1 \in Fq /\ w2 \in Fq
  BY <1>1, AddLaws
<1>3. G \in Group /\ PK \in Group /\ V \in Group
  BY BasePoints, KeyTypes
<1>4. R1 \in Group
  BY ZenonT(60), <1>1, <1>3, TimesLaws, PointLaws
<1>5. c \in Fq
  BY <1>4, ShowAssumption
<1>6. /\ p.resp = Respond(held.sig, d)
      /\ p.B0 = Gadd(Gadd(Times(G, w1), Times(PK, w2)), Times(V, d[1]))
  BY DEF Prove, Blinded
<1>7. /\ p.resp.challenge = c
      /\ p.resp.s = Add(d[2], Mul(c, w1))
      /\ p.resp.r = Add(d[3], Mul(c, w2))
      /\ p.resp.z = Add(d[4], Mul(c, d[1]))
  BY <1>6 DEF Respond
<1>8. Gadd(Gadd(Gadd(Times(G, p.resp.s), Times(PK, p.resp.r)), Times(V, p.resp.z)),
           Times(p.B0, Neg(c))) = R1
  <2> HIDE DEF p, c, w1, w2
  <2> DEFINE x1 == Times(G, Add(d[2], Mul(c, w1)))
             x2 == Times(PK, Add(d[3], Mul(c, w2)))
             x3 == Times(V, Add(d[4], Mul(c, d[1])))
             y1 == Times(Times(G, w1), Neg(c))
             y2 == Times(Times(PK, w2), Neg(c))
             y3 == Times(Times(V, d[1]), Neg(c))
  <2>1. Neg(c) \in Fq /\ Times(G, w1) \in Group /\ Times(PK, w2) \in Group /\ Times(V, d[1]) \in Group
    BY <1>1, <1>2, <1>3, <1>5, AddLaws, TimesLaws
  <2>2. /\ Add(d[2], Mul(c, w1)) \in Fq
        /\ Add(d[3], Mul(c, w2)) \in Fq
        /\ Add(d[4], Mul(c, d[1])) \in Fq
    BY <1>1, <1>2, <1>5, AddLaws, MulLaws
  <2>3. x1 \in Group /\ x2 \in Group /\ x3 \in Group /\ y1 \in Group /\ y2 \in Group /\ y3 \in Group
    BY <1>3, <2>1, <2>2, TimesLaws
  <2>4. Times(Gadd(Gadd(Times(G, w1), Times(PK, w2)), Times(V, d[1])), Neg(c))
          = Gadd(Gadd(y1, y2), y3)
    <3>1. Gadd(Times(G, w1), Times(PK, w2)) \in Group
      BY <2>1, PointLaws
    <3>2. Times(Gadd(Times(G, w1), Times(PK, w2)), Neg(c)) = Gadd(y1, y2)
      BY <1>3, <2>1, ModuleLaws
    <3> QED
      BY <2>1, <3>1, <3>2, ModuleLaws
  <2>5. Gadd(Gadd(Gadd(x1, x2), x3), Gadd(Gadd(y1, y2), y3))
          = Gadd(Gadd(Gadd(x1, x2), Gadd(y1, y2)), Gadd(x3, y3))
    <3>1. Gadd(x1, x2) \in Group /\ Gadd(y1, y2) \in Group
      BY <2>3, PointLaws
    <3> HIDE DEF x1, x2, x3, y1, y2, y3
    <3> QED
      BY <2>3, <3>1, Regroup
  <2>6. Gadd(Gadd(x1, x2), Gadd(y1, y2)) = Gadd(Gadd(x1, y1), Gadd(x2, y2))
    <3> HIDE DEF x1, x2, x3, y1, y2, y3
    <3> QED
      BY <2>3, Regroup
  <2>7. Gadd(x1, y1) = Times(G, d[2]) /\ Gadd(x2, y2) = Times(PK, d[3]) /\ Gadd(x3, y3) = Times(V, d[4])
    BY <1>1, <1>2, <1>3, <1>5, ResponseCancels
  <2> QED
    BY <1>6, <1>7, <2>4, <2>5, <2>6, <2>7
<1> QED
  BY <1>7, <1>8

(* B = R + z*V exactly when the signature is exact. *)
LEMMA AssertionMeansExact ==
  ASSUME held \in Held, NEW z \in Fq
  PROVE  ProveAsserts(held.msg, held.sig, z) <=> Exact
<1> DEFINE Hm == MsgPoint(held.msg)
           w == Times(V, z)
           base == Gadd(Times(G, Neg(held.sig.s)), Times(PK, Neg(FpToFq(held.sig.r))))
           R == held.sig.R
<1>1. Hm \in Group /\ R \in Group /\ held.sig.s \in Fq /\ FpToFq(held.sig.r) \in Fq
  BY HeldTypes
<1>2. w \in Group /\ base \in Group
  BY <1>1, AddLaws, BasePoints, KeyTypes, TimesLaws, PointLaws
<1>3. Gadd(base, Hm) \in Group
  BY <1>1, <1>2, PointLaws
<1>4. Gadd(Gadd(base, w), Hm) = Gadd(Gadd(base, Hm), w)
  <2> HIDE DEF base, w, Hm
  <2>1. Gadd(Gadd(base, w), Hm) = Gadd(base, Gadd(w, Hm))
    BY <1>1, <1>2, PointLaws
  <2>2. Gadd(w, Hm) = Gadd(Hm, w)
    BY <1>1, <1>2, PointLaws
  <2>3. Gadd(base, Gadd(Hm, w)) = Gadd(Gadd(base, Hm), w)
    BY <1>1, <1>2, PointLaws
  <2> QED
    BY <2>1, <2>2, <2>3
<1>5. ProveAsserts(held.msg, held.sig, z) <=> Gadd(Gadd(base, Hm), w) = Gadd(R, w)
  BY <1>4 DEF ProveAsserts, Blinded
<1>6. Exact <=> Gadd(base, Hm) = R
  BY DEF Exact, Rebuilt
<1>7. ASSUME NEW P \in Group, NEW Q \in Group, Gadd(P, w) = Gadd(Q, w) PROVE P = Q
  <2> DEFINE n == Times(V, Neg(z))
  <2>1. n \in Group /\ Gadd(w, n) = O
    BY AddLaws, BasePoints, TimesLaws, Cancel
  <2>2. Gadd(Gadd(P, w), n) = Gadd(P, Gadd(w, n)) /\ Gadd(Gadd(Q, w), n) = Gadd(Q, Gadd(w, n))
    BY <1>2, <2>1, PointLaws
  <2> QED
    BY <1>7, <2>1, <2>2, PointLaws
<1> QED
  BY <1>1, <1>3, <1>5, <1>6, <1>7

(* The circuit is satisfied by a finite, exact signature. *)
LEMMA CircuitSatisfied ==
  ASSUME held \in Held, Exact, held.sig.R # O, NEW d \in Draws, NEW type \in SnarkType
  PROVE  Prove(held.msg, held.sig, d, type).snark.sat
<1> DEFINE t == FpToFq(held.sig.r)
           c == Respond(held.sig, d).challenge
           R1 == Gadd(Gadd(Times(G, d[2]), Times(PK, d[3])), Times(V, d[4]))
           h == Poseidon(held.sig.r, d[3])
           B == Gadd(Blinded(held.sig, d[1]), MsgPoint(held.msg))
           pub == PublicInputs(B, h, Respond(held.sig, d).r, c)
<1>1. t \in Fq /\ d[1] \in Fq /\ d[2] \in Fq /\ d[3] \in Fq /\ d[4] \in Fq
  BY HeldTypes, DrawTypes
<1>2. c = ChNR(R1) /\ R1 \in Group
  BY ZenonT(60), <1>1, BasePoints, KeyTypes, TimesLaws, PointLaws DEF Respond
<1>3. c \in Fq
  BY <1>2, ShowAssumption
<1>4. Respond(held.sig, d).r = Add(Mul(Neg(c), t), d[3])
  <2>1. Respond(held.sig, d).r = Add(d[3], Mul(c, Neg(t)))
    BY DEF Respond
  <2>2. Mul(c, Neg(t)) = Mul(Neg(c), t)
    BY <1>1, <1>3, MulNeg
  <2>3. Mul(Neg(c), t) \in Fq
    BY <1>1, <1>3, AddLaws, MulLaws
  <2> QED
    BY SMTT(60), <1>1, <2>1, <2>2, <2>3, AddLaws
<1>5. B = Gadd(held.sig.R, Times(V, d[1]))
  BY <1>1, AssertionMeansExact DEF ProveAsserts
<1>6. held.sig.r = X(held.sig.R)
  BY HeldTypes
<1>7. CircuitSat(pub, held.sig, d)
  BY <1>4, <1>5, <1>6 DEF CircuitSat, PublicInputs
<1> QED
  BY <1>7 DEF Prove

----------------------------------------------------------------------------
(* Initially nothing was shown and nothing judged. *)
LEMMA ShowInitInv == ShowInit => ShowInv
  BY DEF ShowInit, ShowInv, PanicExplained, VerdictExplained, Panic

(* Showing and checking keep the invariant, whatever the draws. *)
LEMMA ShowStepInv == ShowInv /\ [ShowNext]_showVars => ShowInv'
<1> SUFFICES ASSUME ShowInv, [ShowNext]_showVars PROVE ShowInv'
  OBVIOUS
<1>1. ASSUME NEW d \in Draws, NEW type \in SnarkType, UserShow(d, type) PROVE ShowInv'
  <2>1. /\ ProveAsserts(held.msg, held.sig, d[1])
        /\ shown' = shown \cup {Prove(held.msg, held.sig, d, type)}
        /\ outcome' = "ok"
        /\ UNCHANGED <<held, verdict>>
    BY <1>1 DEF UserShow
  <2>2. \A p \in shown' : ProofOf(p)'
    BY <2>1 DEF ShowInv, ProofOf
  <2> QED
    BY <2>1, <2>2 DEF ShowInv, PanicExplained, VerdictExplained, Panic
<1>2. ASSUME NEW d \in Draws, NEW type \in SnarkType, UserShowPanics(d, type) PROVE ShowInv'
  BY <1>2 DEF UserShowPanics, ShowInv, ProofOf, PanicExplained, VerdictExplained
<1>3. ASSUME NEW p \in shown, NEW msg \in Message, NEW type \in SnarkType,
             VerifierChecks(p, msg, type)
      PROVE  ShowInv'
  <2>1. verdict' = [proof |-> p, msg |-> msg, type |-> type,
                    ok |-> IF MsgPoint(msg) = NoPoint THEN Panic
                           ELSE IF VerifyShow(p, msg, type) THEN "accept" ELSE "reject"]
    BY <1>3 DEF VerifierChecks
  <2>2. UNCHANGED <<held, shown, outcome>>
    BY <1>3 DEF VerifierChecks
  <2>3. VerdictExplained'
    BY <2>1, <2>2 DEF VerdictExplained
  <2>4. (\A q \in shown : ProofOf(q))' /\ PanicExplained'
    BY <2>2 DEF ShowInv, ProofOf, PanicExplained
  <2> QED
    BY <2>2, <2>3, <2>4 DEF ShowInv
<1>4. CASE UNCHANGED showVars
  BY <1>4 DEF showVars, ShowInv, ProofOf, PanicExplained, VerdictExplained
<1> QED
  BY <1>1, <1>2, <1>3, <1>4 DEF ShowNext

(* The invariant holds in every run of the show protocol.                  *)
THEOREM ShowInvariance == ShowSpec => []ShowInv
  BY ShowInitInv, ShowStepInv, PTL DEF ShowSpec

(* A proof made from an exact signature with a finite R is accepted by every *)
(* verifier that has the message and the SNARK, unless B0 is the identity.   *)
THEOREM ShowComplete == ShowSpec => []ExactShowVerifies
<1>1. ShowInv => ExactShowVerifies
  <2> SUFFICES ASSUME ShowInv, verdict # NoVerdict, Exact, held.sig.R # O,
                      verdict.proof.B0 # O, verdict.msg = held.msg,
                      verdict.type = verdict.proof.snark.type
               PROVE  verdict.ok = "accept"
    BY DEF ExactShowVerifies
  <2>1. verdict.proof \in shown
    BY DEF ShowInv, VerdictExplained
  <2>2. PICK d \in Draws, type \in SnarkType :
               verdict.proof = Prove(held.msg, held.sig, d, type)
    BY <2>1 DEF ShowInv, ProofOf
  <2> DEFINE p == verdict.proof
  <2>3. p.snark.sat
    BY <2>2, CircuitSatisfied DEF ShowInv
  <2>4. p.snark.pub = PublicInputs(Gadd(p.B0, MsgPoint(held.msg)), p.digest,
                                   p.resp.r, p.resp.challenge)
    BY <2>2 DEF Prove
  <2>5. p.resp.challenge =
          ChNR(Gadd(Gadd(Gadd(Times(G, p.resp.s), Times(PK, p.resp.r)), Times(V, p.resp.z)),
                    Times(p.B0, Neg(p.resp.challenge))))
    BY <2>2, SigmaAccepts DEF ShowInv
  <2>6. VerifyShow(p, held.msg, p.snark.type)
    BY <2>3, <2>4, <2>5 DEF VerifyShow
  <2>7. MsgPoint(held.msg) # NoPoint
    BY HeldTypes, SigAssumption DEF ShowInv
  <2> QED
    BY <2>6, <2>7 DEF ShowInv, VerdictExplained
<1> QED
  BY <1>1, ShowInvariance, PTL

(* user_show never panics for an exact signature with a finite R. *)
THEOREM ExactShowsReturn == ShowSpec => []ExactShowReturns
<1>1. ShowInv => ExactShowReturns
  BY AssertionMeansExact, CircuitSatisfied, DrawTypes
     DEF ShowInv, ExactShowReturns, PanicExplained, SynthesisPanics
<1> QED
  BY <1>1, ShowInvariance, PTL

(* No proof leaves the prover for a signature with -R in place of R. *)
THEOREM InexactNeverShown == ShowSpec => []OnlyExactIsShown
<1>1. ShowInv => OnlyExactIsShown
  <2> SUFFICES ASSUME ShowInv, NEW p \in shown PROVE Exact
    BY DEF OnlyExactIsShown
  <2>1. PICK d \in Draws : ProveAsserts(held.msg, held.sig, d[1])
    BY DEF ShowInv, ProofOf
  <2> QED
    BY <2>1, AssertionMeansExact, DrawTypes DEF ShowInv
<1> QED
  BY <1>1, ShowInvariance, PTL

----------------------------------------------------------------------------
(* The blinded R is a point, and a shown proof has the fields of one. *)
LEMMA BlindedTypes ==
  ASSUME held \in Held, NEW d \in Draws, NEW type \in SnarkType
  PROVE  /\ Blinded(held.sig, d[1]) \in Group
         /\ Prove(held.msg, held.sig, d, type) \in Proof
<1> DEFINE t == FpToFq(held.sig.r)
           sig == held.sig
           B0 == Blinded(sig, d[1])
           R1 == Gadd(Gadd(Times(G, d[2]), Times(PK, d[3])), Times(V, d[4]))
           c == ChNR(R1)
           h == Poseidon(sig.r, d[3])
           B == Gadd(B0, MsgPoint(held.msg))
           sat == CircuitSat(PublicInputs(B, h, Respond(sig, d).r, Respond(sig, d).challenge), sig, d)
<1>1. sig.s \in Fq /\ t \in Fq /\ d[1] \in Fq /\ d[2] \in Fq /\ d[3] \in Fq /\ d[4] \in Fq
  BY HeldTypes, DrawTypes
<1>2. G \in Group /\ PK \in Group /\ V \in Group /\ MsgPoint(held.msg) \in Group
  BY BasePoints, KeyTypes, HeldTypes
<1>3. Neg(sig.s) \in Fq /\ Neg(t) \in Fq
  BY <1>1, AddLaws
<1>4. B0 \in Group
  BY ZenonT(60), <1>1, <1>2, <1>3, TimesLaws, PointLaws DEF Blinded
<1>5. R1 \in Group
  BY ZenonT(60), <1>1, <1>2, TimesLaws, PointLaws
<1>6. c \in Fq
  BY <1>5, ShowAssumption
<1>7. B \in Group
  BY <1>2, <1>4, PointLaws
<1>8. h \in Fp
  BY <1>1, HeldTypes, CoordinateType, ShowAssumption
<1>9. Respond(sig, d) = [challenge |-> c, s |-> Add(d[2], Mul(c, Neg(sig.s))),
                         r |-> Add(d[3], Mul(c, Neg(t))), z |-> Add(d[4], Mul(c, d[1]))]
  BY DEF Respond
<1>10. /\ Add(d[2], Mul(c, Neg(sig.s))) \in Fq
       /\ Add(d[3], Mul(c, Neg(t))) \in Fq
       /\ Add(d[4], Mul(c, d[1])) \in Fq
  BY ZenonT(60), <1>1, <1>3, <1>6, AddLaws, MulLaws
<1>11. Respond(sig, d) \in [challenge : Fq, s : Fq, r : Fq, z : Fq]
  BY <1>6, <1>9, <1>10
<1>12. /\ Respond(sig, d).r \in Fq /\ Respond(sig, d).challenge \in Fq
       /\ sat \in BOOLEAN
  BY <1>11 DEF CircuitSat
<1>13. Prove(held.msg, sig, d, type) =
         [B0 |-> B0, digest |-> h, resp |-> Respond(sig, d),
          snark |-> [type |-> type, sat |-> sat,
                     pub |-> [V |-> V, B |-> B, pk |-> PK, h |-> h,
                              t_r |-> Respond(sig, d).r, c |-> Respond(sig, d).challenge]]]
  BY DEF Prove, PublicInputs
<1> HIDE DEF B0, B, h, sat
<1>14. Prove(held.msg, sig, d, type) \in Proof
  BY <1>4, <1>7, <1>8, <1>11, <1>12, <1>13 DEF Proof
<1> QED
  BY <1>4, <1>14 DEF B0

(* The state of the show protocol keeps its type. *)
THEOREM ShowTypeCorrect == ShowSpec => []ShowTypeOK
<1>1. ShowInit => ShowTypeOK
  BY DEF ShowInit, ShowTypeOK
<1>2. ShowTypeOK /\ [ShowNext]_showVars => ShowTypeOK'
  <2> SUFFICES ASSUME ShowTypeOK, [ShowNext]_showVars PROVE ShowTypeOK'
    OBVIOUS
  <2>1. ASSUME NEW d \in Draws, NEW type \in SnarkType, UserShow(d, type) PROVE ShowTypeOK'
    <3>1. Prove(held.msg, held.sig, d, type) \in Proof
      BY BlindedTypes DEF ShowTypeOK
    <3>2. /\ shown' = shown \cup {Prove(held.msg, held.sig, d, type)}
          /\ outcome' = "ok"
          /\ UNCHANGED <<held, verdict>>
      BY <2>1 DEF UserShow
    <3> QED
      BY <3>1, <3>2 DEF ShowTypeOK
  <2>2. ASSUME NEW d \in Draws, NEW type \in SnarkType, UserShowPanics(d, type) PROVE ShowTypeOK'
    BY <2>2 DEF UserShowPanics, ShowTypeOK
  <2>3. ASSUME NEW p \in shown, NEW msg \in Message, NEW type \in SnarkType,
               VerifierChecks(p, msg, type)
        PROVE  ShowTypeOK'
    BY <2>3 DEF VerifierChecks, ShowTypeOK
  <2>4. CASE UNCHANGED showVars
    BY <2>4 DEF showVars, ShowTypeOK
  <2> QED
    BY <2>1, <2>2, <2>3, <2>4 DEF ShowNext
<1> QED
  BY <1>1, <1>2, PTL DEF ShowSpec

(* The blinded point cancels: each of its three terms does. *)
LEMMA BlindedCancels ==
  ASSUME held \in Held, NEW z \in Fq, NEW S \in Group, NEW T \in Group,
         Gadd(Blinded(held.sig, z), S) = Gadd(Blinded(held.sig, z), T)
  PROVE  S = T
<1> DEFINE t == FpToFq(held.sig.r)
           A1 == Times(G, Neg(held.sig.s))
           A2 == Times(PK, Neg(t))
           A3 == Times(V, z)
           I1 == Times(G, held.sig.s)
           I2 == Times(PK, t)
           I3 == Times(V, Neg(z))
           B0 == Gadd(Gadd(A1, A2), A3)
           I == Gadd(Gadd(I1, I2), I3)
<1>1. held.sig.s \in Fq /\ t \in Fq
  BY HeldTypes
<1>2. G \in Group /\ PK \in Group /\ V \in Group /\ O \in Group
  BY BasePoints, KeyTypes
<1>3. Neg(held.sig.s) \in Fq /\ Neg(t) \in Fq /\ Neg(z) \in Fq
  BY <1>1, AddLaws
<1>4. /\ A1 \in Group /\ A2 \in Group /\ A3 \in Group
      /\ I1 \in Group /\ I2 \in Group /\ I3 \in Group
  BY <1>1, <1>2, <1>3, TimesLaws
<1>5. Gadd(I1, A1) = O /\ Gadd(I2, A2) = O /\ Gadd(A3, I3) = O
  BY <1>1, <1>2, Cancel
<1> HIDE DEF A1, A2, A3, I1, I2, I3
<1>6. /\ Gadd(A1, A2) \in Group /\ Gadd(I1, I2) \in Group
      /\ B0 \in Group /\ I \in Group
  BY <1>4, PointLaws
<1>7. Gadd(I3, A3) = O
  BY <1>4, <1>5, PointLaws
<1>8. Gadd(Gadd(I1, I2), Gadd(A1, A2)) = O
  <2>1. Gadd(Gadd(I1, I2), Gadd(A1, A2)) = Gadd(Gadd(I1, A1), Gadd(I2, A2))
    BY <1>4, Regroup
  <2> QED
    BY <1>2, <1>5, <2>1, PointLaws
<1>9. Gadd(I, B0) = O
  <2>1. Gadd(I, B0) = Gadd(Gadd(Gadd(I1, I2), Gadd(A1, A2)), Gadd(I3, A3))
    BY <1>4, <1>6, Regroup
  <2> QED
    BY <1>2, <1>7, <1>8, <2>1, PointLaws
<1>10. Gadd(B0, S) = Gadd(B0, T)
  BY DEF Blinded, A1, A2, A3
<1> HIDE DEF B0, I
<1>11. ASSUME NEW U \in Group PROVE Gadd(I, Gadd(B0, U)) = U
  <2>1. Gadd(I, Gadd(B0, U)) = Gadd(O, U)
    BY <1>6, <1>9, PointLaws
  <2> QED
    BY <1>2, <2>1, PointLaws
<1> QED
  BY <1>10, <1>11

(* What a verifier accepts was made for its own message and its own SNARK. *)
THEOREM AcceptanceBinds == ShowSpec => []AcceptedAsShown
<1>1. ShowInv /\ ShowTypeOK => AcceptedAsShown
  <2> SUFFICES ASSUME ShowInv, ShowTypeOK, verdict.ok = "accept"
               PROVE  /\ MsgPoint(verdict.msg) = MsgPoint(held.msg)
                      /\ verdict.type = verdict.proof.snark.type
    BY DEF AcceptedAsShown
  <2> DEFINE p == verdict.proof
  <2>1. verdict # NoVerdict
    BY DEF NoVerdict
  <2>2. /\ p \in shown /\ verdict.msg \in Message
        /\ MsgPoint(verdict.msg) # NoPoint
        /\ VerifyShow(p, verdict.msg, verdict.type)
    BY <2>1 DEF ShowInv, VerdictExplained, Panic
  <2>3. PICK d \in Draws, type \in SnarkType : p = Prove(held.msg, held.sig, d, type)
    BY <2>2 DEF ShowInv, ProofOf
  <2>4. p.B0 = Blinded(held.sig, d[1]) /\ p.snark.pub.B = Gadd(p.B0, MsgPoint(held.msg))
    BY <2>3 DEF Prove, PublicInputs
  <2>5. p.snark.pub.B = Gadd(p.B0, MsgPoint(verdict.msg)) /\ p.snark.type = verdict.type
    BY <2>2 DEF VerifyShow, PublicInputs
  <2>6. MsgPoint(verdict.msg) \in Group
    <3>1. CASE verdict.msg.scheme = 1
      <4>1. verdict.msg.m \in Fq
        BY <2>2, <3>1, SigAssumption DEF Message
      <4> QED
        BY <3>1, <4>1, BasePoints, TimesLaws DEF MsgPoint
    <3>2. CASE verdict.msg.scheme = 2
      <4>1. verdict.msg.m \in ByteStrings
        BY <2>2, <3>2 DEF Message
      <4> QED
        BY <2>2, <3>2, <4>1, SigAssumption DEF MsgPoint
    <3> QED
      BY <2>2, <3>1, <3>2 DEF Message
  <2>7. MsgPoint(held.msg) \in Group /\ d[1] \in Fq
    BY HeldTypes, DrawTypes DEF ShowInv
  <2>8. MsgPoint(verdict.msg) = MsgPoint(held.msg)
    BY <2>4, <2>5, <2>6, <2>7, BlindedCancels DEF ShowInv
  <2> QED
    BY <2>5, <2>8
<1> QED
  BY <1>1, ShowInvariance, ShowTypeCorrect, PTL
============================================================================
