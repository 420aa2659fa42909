----------------------------- MODULE CurveBase -----------------------------
(***************************************************************************)
(* The signing curve y^2 = x^3 + ax + b over the field of CurveP elements. *)
(* The curve is a compile-time choice (types.rs): a is -3 or 0.  A point   *)
(* is a pair of coordinates and a flag, 1 at infinity.                     *)
(*                                                                         *)
(* ChordSum and Multiple are the reference: the group law as textbooks     *)
(* define it.  The circuit's gadgets (CurveGadgets), the native formulas   *)
(* (CurveFormulas) and the multi-scalar multiplication (Msm) are measured  *)
(* against it.                                                             *)
(***************************************************************************)
EXTENDS Integers, FiniteSets, SequencesExt

CONSTANTS
  CurveP,    \* the prime of the coordinates, and of the circuits
  Curves     \* the curves to choose from: a, b, and idFlag, whether a
             \* compressed point has a flag for the identity

VARIABLE curve   \* the choice

Field == 0 .. CurveP - 1

Mod(v) == v % CurveP

(* The curves have a prime order, so no finite point has y = 0. *)
ASSUME CurveAssumption ==
  /\ CurveP \in Nat /\ CurveP > 3
  /\ \A k \in 2 .. CurveP - 1 : CurveP % k # 0
  /\ \A c \in Curves : c.a \in {-3, 0} /\ c.b \in Field /\ c.idFlag \in BOOLEAN
  /\ \A c \in Curves, x \in Field : (x * x * x + c.a * x + c.b) % CurveP # 0

(* 0 has no inverse: whoever inverts panics or handles it, and 0 stands for it. *)
RecipTable ==
  [v \in Field |-> IF v = 0 THEN 0 ELSE CHOOSE w \in Field : (v * w) % CurveP = 1]

Recip(v) == RecipTable[v]

WidthOf(v) == CHOOSE w \in 0 .. 31 : v < 2^w /\ (w = 0 \/ 2^(w - 1) <= v)

BitOf(v, i) == (v \div 2^i) % 2

Point(x, y, inf) == [x |-> x, y |-> y, inf |-> inf]

(* The affine identity: to_affine gives it the coordinates (0, 0). *)
Infinity == Point(0, 0, 1)

OnCurve(x, y) == Mod(y * y) = Mod(x * x * x + curve.a * x + curve.b)

FiniteOf ==
  [c \in Curves |->
     {Point(q[1], q[2], 0) :
        q \in {q \in Field \X Field : (q[2] * q[2]) % CurveP
                                     = (q[1] * q[1] * q[1] + c.a * q[1] + c.b) % CurveP}}]

Finite == FiniteOf[curve]

AllPoints == Finite \cup {Infinity}

(* The group has a prime order: any finite point generates it. *)
SomePoint == CHOOSE p \in Finite : TRUE

Order == Cardinality(AllPoints)

Opposite(p) == [p EXCEPT !.y = Mod(-p.y)]

(* The third point on the line with slope s through p and q, mirrored. *)
OnLine(s, p, q) ==
  LET x == Mod(s * s - p.x - q.x)
  IN  Point(x, Mod(s * (p.x - x) - p.y), 0)

ChordSum(p, q) ==
  IF p.inf = 1 THEN q
  ELSE IF q.inf = 1 THEN p
  ELSE IF q = Opposite(p) THEN Infinity
  ELSE IF p = q THEN OnLine(Mod((3 * p.x * p.x + curve.a) * Recip(Mod(2 * p.y))), p, p)
  ELSE OnLine(Mod((q.y - p.y) * Recip(Mod(q.x - p.x))), p, q)

Multiple(p, k) == FoldLeft(LAMBDA sum, i : ChordSum(sum, p), Infinity, [i \in 1 .. k |-> i])
=============================================================================
