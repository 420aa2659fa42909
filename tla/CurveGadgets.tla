--------------------------- MODULE CurveGadgets ---------------------------
(***************************************************************************)
(* Points inside a circuit (nr-blind-sig/src/ecc.rs and utils.rs): the     *)
(* selections and comparisons, addition, doubling, scalar multiplication,  *)
(* and the circuits of the issuance and the show proof built from them.    *)
(*                                                                         *)
(* The syntheses are those of an honest prover: an output is the value the *)
(* code assigns, which for the selections and comparisons is the one their *)
(* constraint forces.  `holds' tells whether every constraint so far is    *)
(* satisfied; inverting zero panics.  A scalar multiplication takes a step *)
(* for each bit.  The numbers assert_on_curve and get_allocated_b allocate *)
(* for a and b are the curve's, as an honest prover assigns them.          *)
(***************************************************************************)
EXTENDS CurveBase

VARIABLES
  synth   \* the circuit: its stage, operands, running point, power, verdict

----------------------------------------------------------------------------
(* utils.rs: a condition is 0 or 1. *)

(* The bit r with t(u - v) = 1 - r and r(u - v) = 0 for some t. *)
NumEquals(u, v) ==
  CHOOSE r \in {0, 1} : /\ \E t \in Field : Mod(t * (u - v)) = Mod(1 - r)
                        /\ Mod(r * (u - v)) = 0

ConditionallySelect(u, v, cond) == Mod(v + cond * (u - v))

SelectZeroOrNum(u, cond) == Mod(u * (1 - cond))

SelectNumOrZero(u, cond) == Mod(u * cond)

SelectOneOrNum(u, cond) == Mod(u + cond * (1 - u))

SelectOneOrDiff(u, v, cond) == Mod((u - v) + cond * (1 - (u - v)))

SelectNumOrOne(u, cond) == Mod(1 + cond * (u - 1))

----------------------------------------------------------------------------
(* ecc.rs: points. *)

AllocPoint(p) == IF p.inf = 1 THEN Point(0, 0, 1) ELSE Point(p.x, p.y, 0)

DefaultPoint == Point(0, 0, 1)

NegatePoint(p) == Point(p.x, Mod(-p.y), p.inf)

SelectPoint(p, q, cond) ==
  Point(ConditionallySelect(p.x, q.x, cond), ConditionallySelect(p.y, q.y, cond),
        ConditionallySelect(p.inf, q.inf, cond))

SelectPointOrInfinity(p, cond) ==
  Point(SelectNumOrZero(p.x, cond), SelectNumOrZero(p.y, cond), SelectNumOrOne(p.inf, cond))

(* Two finite points with different x; anything else is selected away. *)
AddInternal(p, q, equalX) ==
  LET oneInf  == Mod(1 - (1 - p.inf) * (1 - q.inf))
      xDiff   == SelectOneOrDiff(q.x, p.x, Mod(1 - (1 - oneInf) * (1 - equalX)))
      sum     == OnLine(Mod((q.y - p.y) * Recip(xDiff)), p, q)
      pIfQInf == SelectPoint(p, sum, q.inf)
  IN  Point(ConditionallySelect(q.x, pIfQInf.x, p.inf),
            ConditionallySelect(q.y, pIfQInf.y, p.inf),
            ConditionallySelect(q.inf, SelectNumOrZero(p.inf, q.inf), p.inf))

(* The denominator of the tangent: invert().unwrap(). *)
DoublePanics(p) == SelectOneOrNum(Mod(2 * p.y), p.inf) = 0

DoublePoint(p) ==
  LET denom == SelectOneOrNum(Mod(2 * p.y), p.inf)
      twice == OnLine(Mod((3 * p.x * p.x + curve.a) * Recip(denom)), p, p)
  IN  Point(SelectZeroOrNum(twice.x, p.inf), SelectZeroOrNum(twice.y, p.inf), p.inf)

(* Mutant of AddPoints: opposite points are doubled. *)
AddPointsByX(p, q) ==
  LET equalX == NumEquals(p.x, q.x)
  IN  SelectPoint(DoublePoint(p), AddInternal(p, q, equalX), equalX)

(* Doubles in any case, and so panics if the first point cannot be doubled. *)
AddPoints(p, q) ==
  LET equalX == NumEquals(p.x, q.x)
      equalY == NumEquals(p.y, q.y)
  IN  SelectPoint(SelectPointOrInfinity(DoublePoint(p), equalY),
                  AddInternal(p, q, equalX), equalX)

(* Coordinates only: enforce_equal compares no flags. *)
CoordinatesEqual(p, q) == p.x = q.x /\ p.y = q.y

(* Where the slope has no denominator it is 1, and its constraint decides. *)
IncompleteSlope(num, den) == IF den = 0 THEN 1 ELSE Mod(num * Recip(den))

SlopeHolds(num, den) == Mod(IncompleteSlope(num, den) * den) = num

AddIncomplete(p, q) == OnLine(IncompleteSlope(Mod(q.y - p.y), Mod(q.x - p.x)), p, q)

AddIncompleteHolds(p, q) == SlopeHolds(Mod(q.y - p.y), Mod(q.x - p.x))

DoubleIncomplete(p) == OnLine(IncompleteSlope(Mod(3 * p.x * p.x + curve.a), Mod(2 * p.y)), p, p)

DoubleIncompleteHolds(p) == SlopeHolds(Mod(3 * p.x * p.x + curve.a), Mod(2 * p.y))

AssertOnCurve(p) ==
  LET y2 == Mod(p.y * p.y)
      x3 == Mod(Mod(p.x * p.x) * p.x)
  IN  Mod(y2 - x3 - curve.b) = Mod(p.x * curve.a)

----------------------------------------------------------------------------
(* scalar_mul, and the circuits of the issuance and the show proof. *)

NumBits == WidthOf(CurveP - 1)

SplitLenLonger == NumBits - 1

SplitLen == NumBits - 2

SynthInit ==
  synth = [stage |-> "idle", base |-> Infinity, other |-> Infinity, scalar |-> 0, i |-> 0,
           acc |-> Infinity, pow |-> Infinity, holds |-> TRUE, fate |-> "ok"]

(* A sum of two points allocated in the circuit. *)
SynthesizesSum(p, q) ==
  /\ synth' = [synth EXCEPT !.stage = "sum", !.base = p, !.other = q,
                            !.fate = IF DoublePanics(AllocPoint(p)) THEN "panic" ELSE "ok",
                            !.acc = AddPoints(AllocPoint(p), AllocPoint(q))]

(* The first bit is taken to be 1; the flag of the base is forgotten. *)
StartsMul(p, s) ==
  LET base == [AllocPoint(p) EXCEPT !.inf = 0]
  IN  synth' = [synth EXCEPT !.stage = "incomplete", !.base = p, !.scalar = s, !.i = 1,
                             !.acc = base, !.pow = DoubleIncomplete(base),
                             !.holds = DoubleIncompleteHolds(base)]

MulsIncomplete ==
  LET bit == BitOf(synth.scalar, synth.i)
  IN  /\ synth.stage = "incomplete" /\ synth.i < SplitLen
      /\ synth' = [synth EXCEPT
                     !.i = @ + 1,
                     !.acc = SelectPoint(AddIncomplete(@, synth.pow), @, bit),
                     !.pow = DoubleIncomplete(@),
                     !.holds = /\ @ /\ AddIncompleteHolds(synth.acc, synth.pow)
                               /\ DoubleIncompleteHolds(synth.pow)]

(* Take the base away again if the first bit is 0; the multiple of infinity is
   the default point. *)
RemovesSlack ==
  LET inf   == synth.base.inf
      acc   == Point(synth.acc.x, synth.acc.y, inf)
      minus == AddPoints(acc, NegatePoint(AllocPoint(synth.base)))
      res   == SelectPoint(acc, minus, BitOf(synth.scalar, 0))
  IN  /\ synth.stage = "incomplete" /\ synth.i = SplitLen
      /\ synth' = [synth EXCEPT
                     !.stage = IF DoublePanics(acc) THEN "done" ELSE "complete",
                     !.fate = IF DoublePanics(acc) THEN "panic" ELSE @,
                     !.acc = Point(ConditionallySelect(DefaultPoint.x, res.x, inf),
                                   ConditionallySelect(DefaultPoint.y, res.y, inf), res.inf),
                     !.pow = Point(@.x, @.y, inf)]

MulsComplete ==
  LET bit   == BitOf(synth.scalar, synth.i)
      panic == DoublePanics(synth.acc) \/ DoublePanics(synth.pow)
  IN  /\ synth.stage = "complete"
      /\ synth' = [synth EXCEPT
                     !.i = @ + 1,
                     !.stage = IF panic \/ synth.i + 1 = NumBits THEN "done" ELSE @,
                     !.fate = IF panic THEN "panic" ELSE @,
                     !.acc = SelectPoint(AddPoints(@, synth.pow), @, bit),
                     !.pow = DoublePoint(@)]

(* H has a hash for x and a witness for y; the multiple of the base added to it, and
   the result compared with the public R0. *)
SynthesizesIssuance(H, R0) ==
  LET calc == AddPoints(H, synth.acc)
  IN  synth' = [synth EXCEPT
                  !.stage = "issuance", !.other = [H |-> H, R0 |-> R0],
                  !.fate = IF DoublePanics(H) THEN "panic" ELSE @,
                  !.holds = /\ @ /\ AssertOnCurve(H)
                            /\ CoordinatesEqual(Point(R0.x, R0.y, 0), calc)]

(* The witness R is added to the multiple of V; only x-coordinates are compared, with
   the public B and the witness r.  The point at infinity is allocated as a finite
   one.  (The response and the digest: ResponseFate of Emulated, Sponge.) *)
SynthesizesShow(R, B, r) ==
  LET alloc == AllocPoint(Point(R.x, R.y, 0))
      calc  == AddPoints(alloc, synth.acc)
  IN  synth' = [synth EXCEPT
                  !.stage = "show", !.other = [R |-> R, B |-> B, r |-> r],
                  !.fate = IF DoublePanics(alloc) THEN "panic" ELSE @,
                  !.holds = @ /\ B.x = calc.x /\ r = alloc.x]
=============================================================================
