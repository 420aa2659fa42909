------------------------------ MODULE Circuits ------------------------------
(***************************************************************************)
(* What the circuits are built from, next to what they must agree with:    *)
(* emulated arithmetic (Emulated), curve gadgets and the issuance circuit  *)
(* (CurveGadgets), the native group (CurveFormulas), multi-scalar          *)
(* multiplication (Msm) and the sponge inside and outside (Sponge).  They  *)
(* are libraries without shared state: a behaviour uses one, the job.      *)
(***************************************************************************)
EXTENDS Emulated, CurveGadgets, Msm, Sponge

CONSTANTS
  Scales,        \* z-coordinates given to native points
  OffCurve       \* pairs of coordinates tried as a message point, on the curve or not

VARIABLE job

circuitsVars == <<vars, job, curve, synth, msm, native, gadget>>

Jobs == {"emulated", "sum", "multiple", "msm", "sponge"}

(* A choice that the job does not look at is made once. *)
CircuitsInit ==
  /\ job \in Jobs
  /\ Init /\ (job = "emulated" \/ ~pseudo)
  /\ curve \in Curves /\ (job \in {"emulated", "sponge"} => curve = CHOOSE c \in Curves : TRUE)
  /\ SynthInit
  /\ MsmInit
  /\ SpongeInit /\ (job = "sponge" \/ native.numAbsorbs = 0)

EmulatedStep == job = "emulated" /\ Next /\ UNCHANGED <<job, curve, synth, msm, native, gadget>>

Meaning(p) == IF p.inf = 1 THEN Infinity ELSE p

SumStep ==
  /\ job = "sum" /\ synth.stage = "idle"
  /\ \E p, q \in AllPoints : SynthesizesSum(p, q)
  /\ UNCHANGED <<vars, job, curve, msm, native, gadget>>

(* The message point of an issuance: on the curve, or not. *)
MessagePoints == {Point(h[1], h[2], 0) : h \in OffCurve} \cup Finite

(* The two circuits multiply the generator, and V: the issuance circuit compares
   with a public R0, the show circuit with a public B and a witness r, right or not. *)
MultipleStep ==
  /\ job = "multiple"
  /\ \/ synth.stage = "idle" /\ \E p \in AllPoints, s \in Field : StartsMul(p, s)
     \/ MulsIncomplete
     \/ RemovesSlack
     \/ MulsComplete
     \/ /\ synth.stage = "done" /\ synth.fate = "ok" /\ synth.base = SomePoint
        /\ \/ \E h \in MessagePoints :
                \E R0 \in {AddPoints(h, synth.acc), synth.base} : SynthesizesIssuance(h, R0)
           \/ \E R \in AllPoints :
                \E B \in {ChordSum(R, Meaning(synth.acc)), synth.base}, r \in {R.x, synth.base.x} :
                  SynthesizesShow(R, B, r)
  /\ UNCHANGED <<vars, job, curve, msm, native, gadget>>

MsmStep == job = "msm" /\ MsmNext /\ UNCHANGED <<vars, job, curve, synth, native, gadget>>

SpongeStep == job = "sponge" /\ SpongeNext /\ UNCHANGED <<vars, job, curve, synth, msm>>

CircuitsNext == EmulatedStep \/ SumStep \/ MultipleStep \/ MsmStep \/ SpongeStep

CircuitsSpec == CircuitsInit /\ [][CircuitsNext]_circuitsVars

----------------------------------------------------------------------------
(* Properties. *)

(* Every job keeps its state well formed: the emulated elements as TypeOK has
   them, coordinates in the field and flags that are bits, whatever a gadget
   computed, and slots that are empty or hold a point of the curve. *)
CircuitsTypeOK ==
  /\ TypeOK
  /\ job \in Jobs /\ curve \in Curves
  /\ \A p \in {synth.acc, synth.pow} : p.x \in Field /\ p.y \in Field /\ p.inf \in {0, 1}
  /\ \A k \in DOMAIN msm.slots : msm.slots[k] = NotYet \/ ProjOnCurve(msm.slots[k].sum)
  /\ \A s \in {native, gadget} : Len(s.state) <= MaxAbsorbs + 1 /\ s.fate \in {"ok", "panic"}

(* The one pair that the complete addition gets wrong: infinity, allocated with
   the coordinates (0, 0), and a finite point with x = 0 pass for opposites. *)
TakenForOpposites(p, q) ==
  p.inf # q.inf /\ (p.inf = 0 => p.x = 0) /\ (q.inf = 0 => q.x = 0)

(* The circuit's sum of two allocated points is the sum of the group, equal,
   opposite and infinite points included, but for that pair.  It never panics,
   and is a point of the curve even then. *)
SumsFollowTheGroup ==
  synth.stage = "sum" =>
    /\ synth.fate = "ok"
    /\ Meaning(synth.acc) \in AllPoints
    /\ Meaning(synth.acc) = ChordSum(synth.base, synth.other)
         <=> ~TakenForOpposites(synth.base, synth.other)

(* A multiplication meets that pair only in its two complete additions. *)
MeetsThePair(p, s) ==
  \E j \in {SplitLen, NumBits - 1} :
    /\ BitOf(s, j) = 1
    /\ TakenForOpposites(Multiple(p, s % 2^j), Multiple(p, 2^j))

NativeMultiple(p, s) == MulProj(ToCurve(AffineOf(p)), s, 8)

(* What is synthesised in a circuit is what the prover computes outside.  Sums of
   allocated points are the native sums, equal, opposite and infinite points
   included, except for one pair.  A multiplication by any scalar, although it
   uses incomplete additions for all but two bits and takes the lowest for 1,
   satisfies its constraints and is the native multiple, unless it meets that
   pair; of infinity it is infinity, but its constraints fail on curves with
   a = -3.  So the issuance circuit accepts exactly a message point on the curve
   with the public R0 = H + kG, and the show circuit a finite R with x-coordinate r
   and B = R + zV up to the sign, while an infinite R panics.  The two sponges panic together, but for more bits
   than the field has, and their digests are the same. *)
GadgetsMatchNative ==
  LET p == synth.base
      q == synth.other
  IN  /\ synth.stage = "sum" =>
           /\ synth.fate = "ok"
           /\ Meaning(synth.acc) = PointOf(ToAffine(AddProj(ToCurve(AffineOf(p)), ToCurve(AffineOf(q)))))
                <=> ~TakenForOpposites(p, q)
      /\ synth.stage = "done" =>
           /\ synth.fate = "ok"
           /\ synth.holds <=> (p.inf = 0 \/ curve.a = 0)
           /\ Meaning(synth.acc) = PointOf(ToAffine(NativeMultiple(p, synth.scalar)))
                <=> ~(p.inf = 0 /\ MeetsThePair(p, synth.scalar))
      /\ synth.stage = "issuance" =>
           LET R0 == ToAffine(AddMixed(NativeMultiple(p, synth.scalar), AffineOf(q.H)))
           IN  /\ synth.fate = "panic" <=> q.H.y = 0
               /\ \/ MeetsThePair(p, synth.scalar) \/ TakenForOpposites(q.H, synth.acc)
                  \/ (synth.fate = "ok" /\ synth.holds)
                        <=> (OnCurve(q.H.x, q.H.y) /\ AffineOf(q.R0) = R0)
      /\ synth.stage = "show" =>
           LET B == ToAffine(AddMixed(NativeMultiple(p, synth.scalar), AffineOf(q.R)))
           IN  /\ synth.fate = "panic" <=> q.R.inf = 1
               /\ \/ MeetsThePair(p, synth.scalar) \/ TakenForOpposites(q.R, synth.acc)
                  \/ (synth.fate = "ok" /\ synth.holds)
                        <=> (q.R.inf = 0 /\ q.B.x = B.u /\ q.r = q.R.x)
      /\ SpongesAgree

(* The native formulas are the group law: sums, differences, doublings and mixed
   sums of any representatives, multiples by double-and-add; comparison does not
   see the representative, normalising many points with one inversion skips the
   identities, Jacobian coordinates and uncompressed points come back, and
   compressed ones do unless the point is finite with x = 0.  A multi-scalar
   multiplication is the sum of the products in whatever order its threads finish
   and however its schedule batches equal, opposite and infinite bases, and never
   inverts a zero. *)
NativeFollowsTheGroup ==
  /\ synth.stage = "sum" =>
       \A y, z \in Scales :
         LET a == AffineOf(synth.base)
             b == AffineOf(synth.other)
             p == Proj(Mod(a.u * y), Mod((IF AffineIsIdentity(a) THEN 1 ELSE a.v) * y),
                       IF AffineIsIdentity(a) THEN 0 ELSE y)
             q == Proj(Mod(b.u * z), Mod((IF AffineIsIdentity(b) THEN 1 ELSE b.v) * z),
                       IF AffineIsIdentity(b) THEN 0 ELSE z)
             J == JacobianCoordinates(p)
         IN  /\ \A sum \in {AddProj(p, q), AddMixed(p, b), AddAffine(a, b)} :
                  PointOf(ToAffine(sum)) = ChordSum(synth.base, synth.other)
             /\ \A diff \in {SubProj(p, q), SubMixed(p, b)} :
                  PointOf(ToAffine(diff)) = ChordSum(synth.base, Opposite(synth.other))
             /\ PointOf(ToAffine(Double(p))) = ChordSum(synth.base, synth.base)
             /\ EqualProj(p, q) <=> a = b
             /\ ProjOnCurve(p) /\ AffineOnCurve(a)
             /\ BatchNormalize(<<p, q, Identity, p>>) = <<a, b, AffineIdentity, a>>
             /\ \A r \in NewJacobian(J[1], J[2], J[3]) : EqualProj(r, p)
             /\ NewJacobian(J[1], J[2], J[3]) # {}
             /\ FromUncompressed(a.u, a.v) = {a}
             /\ Decode(Encode(a)) = {a} <=> (a.u # 0 \/ AffineIsIdentity(a))
  /\ synth.stage = "done" =>
       \A product \in {NativeMultiple(synth.base, synth.scalar),
                       MulAffine(AffineOf(synth.base), synth.scalar, 8)} :
         PointOf(ToAffine(product)) = Multiple(synth.base, synth.scalar)
  /\ msm.route = "done" => msm.fate = "ok" /\ PointOf(ToAffine(msm.total)) = SumOfProducts
=============================================================================
