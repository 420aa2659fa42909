--------------------------- MODULE CurveFormulas ---------------------------
(***************************************************************************)
(* The group of a curve as halo2curves computes it                         *)
(* (src/derive/curve.rs): homogeneous coordinates [X : Y : Z], where Z = 0 *)
(* is the identity, affine points whose identity is (0, 0), the complete   *)
(* formulas of Renes, Costello and Batina (eprint 2015/1060), conversions, *)
(* comparisons, and multiplication by double-and-add.  The straight-line   *)
(* programs keep the code's order and names; temporaries that are only     *)
(* doubled or tripled are folded into their use.                           *)
(***************************************************************************)
EXTENDS CurveBase

Proj(x, y, z) == [X |-> x, Y |-> y, Z |-> z]

Identity == Proj(0, 1, 0)

IsIdentity(p) == p.Z = 0

Affine(x, y) == [u |-> x, v |-> y]

AffineIdentity == Affine(0, 0)

AffineIsIdentity(q) == q = AffineIdentity

(* A reference point in coordinates, and back. *)
AffineOf(p) == Affine(p.x, p.y)

PointOf(q) == IF AffineIsIdentity(q) THEN Infinity ELSE Point(q.u, q.v, 0)

ToCurve(q) == IF AffineIsIdentity(q) THEN Identity ELSE Proj(q.u, q.v, 1)

(* invert().unwrap_or(zero): an inverse of zero is the identity. *)
ToAffine(p) ==
  LET zinv == Recip(p.Z)
  IN  IF zinv = 0 THEN AffineIdentity ELSE Affine(Mod(p.X * zinv), Mod(p.Y * zinv))

By3b(v) == Mod(v * Mod(3 * curve.b))

Double(p) ==
  IF IsIdentity(p) THEN Identity
  ELSE IF curve.a = 0 THEN
    LET t0 == Mod(p.Y * p.Y)
        z8 == Mod(8 * t0)
        t2 == By3b(Mod(p.Z * p.Z))
        t4 == Mod(t0 - 3 * t2)
    IN  Proj(Mod(2 * t4 * Mod(p.X * p.Y)),
             Mod(t2 * z8 + t4 * Mod(t0 + t2)),
             Mod(Mod(p.Y * p.Z) * z8))
  ELSE
    LET t0 == Mod(p.X * p.X)
        t1 == Mod(p.Y * p.Y)
        t2 == Mod(p.Z * p.Z)
        t3 == Mod(2 * p.X * p.Y)
        xz == Mod(2 * p.X * p.Z)
        b3 == Mod(curve.a * xz + By3b(t2))
        at == Mod(curve.a * t2)
        t6 == Mod(curve.a * Mod(t0 - at) + By3b(xz))
        yz == Mod(2 * p.Y * p.Z)
    IN  Proj(Mod(t3 * Mod(t1 - b3) - yz * t6),
             Mod(Mod(t1 - b3) * Mod(t1 + b3) + Mod(3 * t0 + at) * t6),
             Mod(4 * Mod(yz * t1)))

(* The tails of the two algorithms for a sum, from the products of the
   coordinates: xx = X1X2, yy = Y1Y2, zz = Z1Z2 and the mixed sums xy, xz, yz. *)
SumForAZero(xx, yy, zz, xy, xz, yz) ==
  LET t2 == By3b(zz)
      z3 == Mod(yy + t2)
      t1 == Mod(yy - t2)
      y3 == By3b(xz)
  IN  Proj(Mod(xy * t1 - yz * y3), Mod(t1 * z3 + y3 * Mod(3 * xx)), Mod(z3 * yz + Mod(3 * xx) * xy))

SumForA(xx, yy, zz, xy, xz, yz) ==
  LET z3 == Mod(By3b(zz) + curve.a * xz)
      x3 == Mod(yy - z3)
      y3 == Mod(yy + z3)
      t2 == Mod(curve.a * zz)
      t1 == Mod(3 * xx + t2)
      t4 == Mod(By3b(xz) + curve.a * Mod(xx - t2))
  IN  Proj(Mod(xy * x3 - yz * t4), Mod(x3 * y3 + t1 * t4), Mod(yz * y3 + xy * t1))

SumOf(xx, yy, zz, xy, xz, yz) ==
  IF curve.a = 0 THEN SumForAZero(xx, yy, zz, xy, xz, yz) ELSE SumForA(xx, yy, zz, xy, xz, yz)

AddProj(p, q) ==
  LET xx == Mod(p.X * q.X)
      yy == Mod(p.Y * q.Y)
      zz == Mod(p.Z * q.Z)
  IN  SumOf(xx, yy, zz,
            Mod(Mod(p.X + p.Y) * Mod(q.X + q.Y) - (xx + yy)),
            Mod(Mod(p.X + p.Z) * Mod(q.X + q.Z) - (xx + zz)),
            Mod(Mod(p.Y + p.Z) * Mod(q.Y + q.Z) - (yy + zz)))

(* The second point is affine: its Z is 1, and the identity is special. *)
AddMixed(p, q) ==
  LET xx == Mod(p.X * q.u)
      yy == Mod(p.Y * q.v)
  IN  IF AffineIsIdentity(q) THEN p
      ELSE SumOf(xx, yy, p.Z,
                 Mod(Mod(p.X + p.Y) * Mod(q.u + q.v) - (xx + yy)),
                 Mod(q.u * p.Z + p.X),
                 Mod(q.v * p.Z + p.Y))

AddAffine(q, r) == AddProj(ToCurve(r), ToCurve(q))

NegProj(p) == Proj(p.X, Mod(-p.Y), p.Z)

NegAffine(q) == Affine(q.u, Mod(-q.v))

SubProj(p, q) == AddProj(p, NegProj(q))

SubMixed(p, q) == AddMixed(p, NegAffine(q))

(* From the highest bit of the bytes of the scalar, zeros included. *)
MulProj(p, s, bits) ==
  FoldLeft(LAMBDA acc, i : IF BitOf(s, bits - i) = 1 THEN AddProj(Double(acc), p) ELSE Double(acc),
           Identity, [i \in 1 .. bits |-> i])

MulAffine(q, s, bits) ==
  FoldLeft(LAMBDA acc, i : IF BitOf(s, bits - i) = 1 THEN AddMixed(Double(acc), q) ELSE Double(acc),
           Identity, [i \in 1 .. bits |-> i])

EqualProj(p, q) ==
  \/ IsIdentity(p) /\ IsIdentity(q)
  \/ /\ ~IsIdentity(p) /\ ~IsIdentity(q)
     /\ Mod(p.X * q.Z) = Mod(q.X * p.Z) /\ Mod(p.Y * q.Z) = Mod(q.Y * p.Z)

ProjOnCurve(p) ==
  LET z2 == Mod(p.Z * p.Z)
  IN  \/ Mod(p.Z * Mod(p.Y * p.Y) - Mod(p.X * p.X + curve.a * z2) * p.X) = Mod(Mod(z2 * p.Z) * curve.b)
      \/ IsIdentity(p)

AffineOnCurve(q) ==
  Mod(q.v * q.v - Mod(q.u * q.u + curve.a) * q.u) = curve.b \/ AffineIsIdentity(q)

(* Jacobian coordinates (x / z^2, y / z^3) of a homogeneous point, and a point
   from them, if it is on the curve. *)
JacobianCoordinates(p) == <<Mod(p.X * p.Z), Mod(p.Y * Mod(p.Z * p.Z)), p.Z>>

NewJacobian(x, y, z) ==
  LET zinv == Recip(z)
      p    == Proj(Mod(x * zinv), IF z = 0 THEN 1 ELSE Mod(y * Mod(zinv * zinv)), z)
  IN  IF ProjOnCurve(p) THEN {p} ELSE {}

(* All of them with one inversion: the products of the z seen before each point
   that is not the identity, then back from the last. *)
BatchNormalize(ps) ==
  LET Skips(i)  == IsIdentity(ps[i])
      before    == FoldLeft(LAMBDA seen, p : Append(seen,
                              IF IsIdentity(p) THEN seen[Len(seen)] ELSE Mod(seen[Len(seen)] * p.Z)),
                            <<1>>, ps)
      Back(r, k) == LET i   == Len(ps) + 1 - k
                        tmp == Mod(before[i] * r.acc)
                    IN  [acc |-> IF Skips(i) THEN r.acc ELSE Mod(r.acc * ps[i].Z),
                         out |-> <<IF Skips(i) THEN AffineIdentity
                                   ELSE Affine(Mod(ps[i].X * tmp), Mod(ps[i].Y * tmp))>> \o r.out]
  IN  FoldLeft(Back, [acc |-> Recip(before[Len(ps) + 1]), out |-> <<>>],
               [k \in 1 .. Len(ps) |-> k]).out

(* A compressed point: x, whether y is odd and, for curves with room for it
   (all but the pasta curves), whether it is the identity. *)
SignOf(q) == ~AffineIsIdentity(q) /\ q.v % 2 = 1

Encode(q) ==
  [x |-> q.u, sign |-> SignOf(q), identity |-> curve.idFlag /\ AffineIsIdentity(q)]

(* The y of the wanted parity; sqrt may give either root. *)
Resolve(x, odd) ==
  LET roots == {y \in Field : Mod(y * y) = Mod(Mod(Mod(x * x) + curve.a) * x + curve.b)}
  IN  {Affine(x, IF (y % 2 = 1) = odd THEN y ELSE Mod(-y)) : y \in roots}

(* The point, if the encoding has one.  With a flag, only the identity may have
   x = 0; without, x = 0 is the identity. *)
Decode(e) ==
  LET identity == IF curve.idFlag THEN e.identity ELSE e.x = 0
      valid    == IF ~curve.idFlag THEN ~e.identity
                  ELSE IF e.identity THEN e.x = 0 /\ ~e.sign ELSE e.x # 0
  IN  IF ~valid THEN {} ELSE IF identity THEN {AffineIdentity} ELSE Resolve(e.x, e.sign)

(* Uncompressed coordinates; (0, 0) is the identity. *)
FromUncompressed(x, y) ==
  LET q == Affine(x, y)
  IN  IF AffineOnCurve(q) THEN {q} ELSE {}
=============================================================================
