------------------------------- MODULE NRSig -------------------------------
(***************************************************************************)
(* Nyberg-Rueppel signatures as nrsig.rs computes them, with the key       *)
(* generation, signing and verification of both schemes, and the two       *)
(* proofs a user attaches to an issuance request.                          *)
(*                                                                         *)
(* The schemes differ in the point that stands for the message: H*m for a  *)
(* scalar m (scheme 1), a point found by hashing for a byte string (scheme *)
(* 2).  HashToCurve gives NoPoint for a byte string that misses the curve. *)
(* A Rust panic is a value, "panic", so that who meets it is visible.      *)
(***************************************************************************)
EXTENDS NRGroup

CONSTANTS
  SK,             \* the issuer's secret key
  Scalars,        \* the scheme 1 messages in use (reduced digests)
  ByteStrings,    \* the scheme 2 messages in use
  HashToCurve(_), \* hashes_to_curve: a point of Group, or NoPoint
  NoPoint,
  IsMsgLen(_),    \* m.len() == MSG_LEN_BITS: the length the circuit is built for
  ChSL(_, _)      \* the PiSLProof transcript's challenge for (R0, A)

ASSUME SigAssumption ==
  /\ SK \in Fq
  /\ Scalars \subseteq Fq
  /\ NoPoint \notin Group
  /\ \A b \in ByteStrings : HashToCurve(b) \in Group \cup {NoPoint}
  /\ \A P, Q \in Group : ChSL(P, Q) \in Fq

Panic == "panic"

PK == Times(G, SK)

Message == [scheme : {1}, m : Scalars] \cup [scheme : {2}, m : ByteStrings]

(* The group element of a message: H * m, or the point m hashes to. *)
MsgPoint(msg) == IF msg.scheme = 1 THEN Times(H, msg.m) ELSE HashToCurve(msg.m)

Signature == [r : Fp, s : Fq, R : Group]

----------------------------------------------------------------------------
(* sign, sign2: R = Hm - k*G, s = k - sk*r; to_Fq panics when r >= q. *)
SignWith(Hm, k) ==
  LET R == Gadd(Hm, Times(G, Neg(k)))
  IN  [r |-> X(R), s |-> Add(Mul(Neg(SK), FpToFq(X(R))), k), R |-> R]

(* sign2 returns None for a message that misses the curve. *)
SignDefined(Hm, k) ==
  Hm \in Group /\ FpToFq(X(Gadd(Hm, Times(G, Neg(k))))) \in Fq

(* The point -s*G - r*pk + Hm both verifiers rebuild. *)
Rebuilt(pk, Hm, sig) ==
  Gadd(Gadd(Times(G, Neg(sig.s)), Times(pk, Neg(FpToFq(sig.r)))), Hm)

(***************************************************************************)
(* verify_from_field_element and verify2: the assertion on r and the       *)
(* conversion of r come first and panic; then a scheme 2 message that      *)
(* misses the curve is rejected; then only the x-coordinate is compared.   *)
(***************************************************************************)
Verify(pk, Hm, sig) ==
  IF sig.r # X(sig.R) \/ FpToFq(sig.r) = NoScalar THEN Panic
  ELSE IF Hm # NoPoint /\ X(Rebuilt(pk, Hm, sig)) = sig.r THEN "valid"
  ELSE "invalid"

----------------------------------------------------------------------------
(* Faulty variant: the response for k0 with the wrong sign. *)
PiSLProveWrongSign(R0, k, m, rk, rm) ==
  LET A == Gadd(Times(H, rm), Times(G, rk))
      c == ChSL(R0, A)
  IN  [c |-> c, t_k |-> Add(rk, Mul(c, k)), t_m |-> Add(rm, Mul(c, m))]

(* PiSLProof::prove, with the blinding factors rk, rm it draws. *)
PiSLProve(R0, k, m, rk, rm) ==
  LET A == Gadd(Times(H, rm), Times(G, rk))
      c == ChSL(R0, A)
  IN  [c |-> c, t_k |-> Add(rk, Mul(c, Neg(k))), t_m |-> Add(rm, Mul(c, m))]

(* PiSLProof::verify: rebuild A from the responses, compare the challenge. *)
PiSLVerify(pi, R0) ==
  LET A == Gadd(Gadd(Times(R0, Neg(pi.c)), Times(H, pi.t_m)), Times(G, pi.t_k))
  IN  pi.c = ChSL(R0, A)

(***************************************************************************)
(* IssuanceProof::prove and ::verify over an ideal NIZK: the proof carries *)
(* its public input and whether its witness satisfies the circuit          *)
(* R0 = HashToCurve(m) + G*negk0, and verifies for that input only.        *)
(***************************************************************************)
IssuanceProve(R0, negk0, m) ==
  [pub |-> R0, sat |-> R0 = Gadd(HashToCurve(m), Times(G, negk0))]

IssuanceVerify(pi, R0) == pi.pub = R0 /\ pi.sat
============================================================================
