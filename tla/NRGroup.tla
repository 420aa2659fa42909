------------------------------ MODULE NRGroup ------------------------------
(***************************************************************************)
(* The algebra nr-blind-sig computes in: the scalar field Fq of the        *)
(* signing curve, its group of points (written additively, as the code     *)
(* writes it: `P * k`, `P + Q`), the affine x-coordinate, and the partial  *)
(* conversion to_Fq from a coordinate to a scalar.  Everything is a        *)
(* constant: the curve crates are not modelled, only the laws they obey.   *)
(***************************************************************************)
CONSTANTS
  Fq,            \* scalars of the signing curve
  Zero,          \* 0 of Fq
  Add(_, _),     \* a + b
  Neg(_),        \* -a
  Mul(_, _),     \* a * b
  Group,         \* points of the signing curve, the identity included
  O,             \* the identity
  G, H, V,       \* generator; message base; blinding base (get_H_and_V)
  Gadd(_, _),    \* P + Q
  Times(_, _),   \* P * k
  Fp,            \* coordinates
  X(_),          \* P.to_affine().x
  FpToFq(_),     \* Fq::from_bytes(&r.to_bytes()): a scalar, or NoScalar
  NoScalar       \* from_bytes found a value that is not below q

ASSUME FqRing ==
  /\ Zero \in Fq
  /\ \A a, b \in Fq : Add(a, b) \in Fq /\ Mul(a, b) \in Fq
  /\ \A a \in Fq : Neg(a) \in Fq
  /\ \A a, b \in Fq : Add(a, b) = Add(b, a) /\ Mul(a, b) = Mul(b, a)
  /\ \A a, b, c \in Fq : Add(Add(a, b), c) = Add(a, Add(b, c))
  /\ \A a, b, c \in Fq : Mul(Mul(a, b), c) = Mul(a, Mul(b, c))
  /\ \A a, b, c \in Fq : Mul(a, Add(b, c)) = Add(Mul(a, b), Mul(a, c))
  /\ \A a \in Fq : Add(a, Zero) = a /\ Add(a, Neg(a)) = Zero

ASSUME GroupLaws ==
  /\ {O, G, H, V} \subseteq Group
  /\ \A P, Q \in Group : Gadd(P, Q) \in Group /\ Gadd(P, Q) = Gadd(Q, P)
  /\ \A P, Q, S \in Group : Gadd(Gadd(P, Q), S) = Gadd(P, Gadd(Q, S))
  /\ \A P \in Group : Gadd(P, O) = P

ASSUME ModuleLaws ==
  /\ \A P \in Group, a \in Fq : Times(P, a) \in Group
  /\ \A P \in Group, a, b \in Fq : Times(P, Add(a, b)) = Gadd(Times(P, a), Times(P, b))
  /\ \A P \in Group, a, b \in Fq : Times(P, Mul(a, b)) = Times(Times(P, a), b)
  /\ \A P, Q \in Group, a \in Fq : Times(Gadd(P, Q), a) = Gadd(Times(P, a), Times(Q, a))
  /\ \A P \in Group : Times(P, Zero) = O

ASSUME CoordinateLaws ==
  /\ NoScalar \notin Fq
  /\ \A P \in Group : X(P) \in Fp
  /\ \A r \in Fp : FpToFq(r) \in Fq \cup {NoScalar}
============================================================================
