-------------------------------- MODULE Msm --------------------------------
(***************************************************************************)
(* Multi-scalar multiplication (halo2curves/src/msm.rs), which Spartan's   *)
(* commitments and the inner product argument compute with: Pippenger's    *)
(* buckets over Booth digits, serially, in one chunk per thread, or with a *)
(* scheduler that adds affine points in batches sharing one inversion.     *)
(*                                                                         *)
(* The threads fill one slot each, a chunk or a window, in any order; the  *)
(* slots are added when all are full.  Windows, buckets and bases are      *)
(* numbered from 1, window k standing for the code's k - 1.                *)
(***************************************************************************)
EXTENDS CurveFormulas

CONSTANTS
  ByteBits,     \* bits of a byte of a scalar: 8
  BatchSize,    \* BATCH_SIZE
  Threads,      \* rayon::current_num_threads()
  SmallLen,     \* from how many bases the scheduler is used: 32
  MinWindow,    \* the smallest window it is given: 8
  Windows,      \* window sizes given explicitly
  Products      \* inputs: records of scalars and logarithms of bases

VARIABLE msm    \* the computation

ASSUME MsmAssumption ==
  /\ {ByteBits, BatchSize, Threads, SmallLen, MinWindow} \cup Windows \subseteq Nat \ {0}
  /\ \A m \in Products : m.scalars \in Seq(Nat) /\ Len(m.logs) = Len(m.scalars)
  /\ \A m \in Products : Len(m.logs) < 32

ScalarBits == WidthOf(Order)

Indices(n) == [i \in 1 .. n |-> i]

(* The signed digit of a window: its bits and the one below, halved up.  The
   digits of a scalar weigh 2^(cw) and lie between -2^(c-1) and 2^(c-1). *)
BoothDigit(w, c, s) ==
  LET bits == (IF w = 0 THEN 2 * s ELSE s \div 2^(w * c - 1)) % 2^(c + 1)
      half == (bits + 1) \div 2
  IN  IF bits < 2^c THEN half ELSE half - 2^c

PippengerC(len) == IF len < 4 THEN 1 ELSE 3

Abs(d) == IF d < 0 THEN -d ELSE d

----------------------------------------------------------------------------
(* msm_serial_with_c: the windows from the highest one down. *)

Empty == [kind |-> "none", at |-> Identity]

SerialBucket(b, q) ==
  IF b.kind = "none" THEN [kind |-> "affine", at |-> q]
  ELSE [kind |-> "projective",
        at   |-> IF b.kind = "affine" THEN AddAffine(b.at, q) ELSE AddMixed(b.at, q)]

AddSerialBucket(b, p) ==
  CASE b.kind = "none"       -> p
    [] b.kind = "affine"     -> AddMixed(p, b.at)
    [] b.kind = "projective" -> AddProj(p, b.at)

(* Summation by parts: 3a + 2b + c = a + (a + b) + ((a + b) + c). *)
ByParts(buckets, start) ==
  FoldRight(LAMBDA b, r : LET run == AddSerialBucket(b, r.run)
                          IN  [run |-> run, sum |-> AddProj(r.sum, run)],
            buckets, [run |-> Identity, sum |-> start]).sum

Doubled(p, times) == FoldLeft(LAMBDA acc, i : Double(acc), p, Indices(times))

SerialWindow(scalars, bases, c, w, acc) ==
  LET Put(buckets, i) ==
        LET d == BoothDigit(w, c, scalars[i])
        IN  IF d = 0 THEN buckets
            ELSE [buckets EXCEPT
                    ![Abs(d)] = SerialBucket(@, IF d > 0 THEN bases[i] ELSE NegAffine(bases[i]))]
      buckets == FoldLeft(Put, [b \in 1 .. 2^(c - 1) |-> Empty], Indices(Len(bases)))
  IN  ByParts(buckets, Doubled(acc, c))

(* The bytes any scalar uses. *)
MaxBytes(scalars) ==
  CHOOSE n \in 0 .. 31 :
    /\ \A i \in DOMAIN scalars : scalars[i] < 2^(n * ByteBits)
    /\ n = 0 \/ \E i \in DOMAIN scalars : scalars[i] >= 2^((n - 1) * ByteBits)

Serial(scalars, bases, c) ==
  LET bits    == MaxBytes(scalars) * ByteBits
      windows == bits \div c + 1
  IN  IF bits = 0 THEN Identity
      ELSE FoldLeft(LAMBDA acc, k : SerialWindow(scalars, bases, c, windows - k, acc),
                    Identity, Indices(windows))

----------------------------------------------------------------------------
(* The scheduler: additions to affine buckets wait in a set until it is full.
   An unused place of the set names the first bucket. *)

NoAffine == [none |-> TRUE]

Unused == [base |-> 1, buck |-> 1, sign |-> FALSE]

NewSchedule(c) ==
  [affine |-> [b \in 1 .. 2^(c - 1) |-> NoAffine],
   others |-> [b \in 1 .. 2^(c - 1) |-> Empty],
   set    |-> [k \in 1 .. BatchSize |-> Unused],
   ptr    |-> 0,
   fate   |-> "ok"]

Signed(q, sign) == IF sign THEN q ELSE NegAffine(q)

(* First pass of batch_add: the slope of each addition as a fraction, and the
   product of the denominators before it; opposite points cancel. *)
Slopes(sch, bases) ==
  LET Step(r, k) ==
        LET e == sch.set[k]
            b == r.affine[e.buck]
            q == Signed(bases[e.base], e.sign)
            num == IF b.u = q.u THEN Mod(3 * b.u * b.u + curve.a) ELSE Mod(b.v - q.v)
            den == IF b.u = q.u THEN Mod(2 * b.v) ELSE Mod(b.u - q.u)
        IN  IF b = NoAffine THEN [r EXCEPT !.t = Append(@, 0), !.z = Append(@, 0)]
            ELSE IF b.u = q.u /\ b.v # q.v
              THEN [r EXCEPT !.affine[e.buck] = NoAffine, !.t = Append(@, 0), !.z = Append(@, 0)]
              ELSE [r EXCEPT !.t = Append(@, Mod(r.acc * num)), !.z = Append(@, den),
                             !.acc = Mod(@ * den)]
  IN  FoldLeft(Step, [affine |-> sch.affine, t |-> <<>>, z |-> <<>>, acc |-> 1], Indices(sch.ptr))

(* Second pass, from the last: one inverse serves them all. *)
BatchAdd(sch, bases) ==
  LET first == Slopes(sch, bases)
      Step(r, j) ==
        LET k == sch.ptr + 1 - j
            e == sch.set[k]
            b == r.affine[e.buck]
            q == Signed(bases[e.base], e.sign)
            s == Mod(r.acc * first.t[k])
            x == Mod(s * s - (b.u + q.u))
        IN  IF b = NoAffine THEN r
            ELSE [r EXCEPT !.acc = Mod(@ * first.z[k]),
                           !.affine[e.buck] = Affine(x, Mod(s * (q.u - x) - q.v))]
      second == FoldLeft(Step, [affine |-> first.affine, acc |-> Recip(first.acc)],
                         Indices(sch.ptr))
  IN  [sch EXCEPT !.affine = second.affine, !.fate = IF first.acc = 0 THEN "panic" ELSE @]

Execute(sch, bases) ==
  IF sch.ptr = 0 THEN sch
  ELSE [BatchAdd(sch, bases) EXCEPT !.ptr = 0, !.set = [k \in 1 .. BatchSize |-> Unused]]

(* A first point fills its bucket, a later one takes a place in the set. *)
ScheduleAdd(sch, bases, i, b, sign) ==
  LET next == IF sch.affine[b] = NoAffine
                THEN [sch EXCEPT !.affine[b] = Signed(bases[i], sign)]
                ELSE [sch EXCEPT !.ptr = @ + 1,
                                 !.set[sch.ptr + 1] = [base |-> i, buck |-> b, sign |-> sign]]
  IN  IF next.ptr = BatchSize THEN Execute(next, bases) ELSE next

WaitingNever(sch, b) == FALSE

Waiting(sch, b) == \E k \in 1 .. BatchSize : sch.set[k].buck = b

AddToBucket(b, q, sign) ==
  [kind |-> "projective",
   at   |-> IF b.kind = "none" THEN ToCurve(Signed(q, sign))
            ELSE IF sign THEN AddMixed(b.at, q) ELSE SubMixed(b.at, q)]

Put(sch, scalars, bases, c, w, i) ==
  LET d    == BoothDigit(w, c, scalars[i])
      b    == Abs(d)
  IN  IF d = 0 THEN sch
      ELSE IF Waiting(sch, b)
        THEN [sch EXCEPT !.others[b] = AddToBucket(@, bases[i], d > 0)]
        ELSE ScheduleAdd(sch, bases, i, b, d > 0)

(* What both kinds of bucket b hold. *)
BothBuckets(sch, b) ==
  LET p == sch.others[b]
      q == sch.affine[b]
  IN  [kind |-> "projective",
       at   |-> IF q = NoAffine THEN p.at
                ELSE IF p.kind = "none" THEN ToCurve(q) ELSE AddMixed(p.at, q)]

(* The window w of the scheduled sum, shifted to its place. *)
ScheduledWindow(scalars, bases, c, w) ==
  LET sch == Execute(FoldLeft(LAMBDA s, i : Put(s, scalars, bases, c, w, i),
                              NewSchedule(c), Indices(Len(bases))), bases)
      onCurve == \A b \in DOMAIN sch.affine : sch.affine[b] # NoAffine => AffineOnCurve(sch.affine[b])
  IN  IF sch.fate # "ok" \/ ~onCurve THEN [fate |-> "panic", sum |-> Identity]
      ELSE [fate |-> "ok",
            sum  |-> Doubled(ByParts([b \in 1 .. 2^(c - 1) |-> BothBuckets(sch, b)], Identity),
                             c * w)]

----------------------------------------------------------------------------
(* The dispatch. *)

MsmInit ==
  msm = [route |-> "idle", scalars |-> <<>>, bases |-> <<>>, c |-> 0, size |-> 0,
         slots |-> <<>>, total |-> Identity, fate |-> "ok"]

NotYet == [fate |-> "running"]

(* Chunks of equal size, the last one shorter. *)
Chunk(seq, size, k) ==
  SubSeq(seq, (k - 1) * size + 1, IF k * size < Len(seq) THEN k * size ELSE Len(seq))

Parallel(m) ==
  LET len  == Len(m.bases)
      size == IF len > Threads THEN len \div Threads ELSE len
  IN  [m EXCEPT !.route = "parallel", !.size = size,
                !.slots = [k \in 1 .. (len + size - 1) \div size |-> NotYet]]

(* Bases at infinity have no affine form: they are dropped with their scalars. *)
Scheduled(m, c) ==
  LET kept == SelectSeq(Indices(Len(m.bases)), LAMBDA i : ~AffineIsIdentity(m.bases[i]))
  IN  [m EXCEPT !.route = "scheduled", !.c = c,
                !.scalars = [k \in DOMAIN kept |-> m.scalars[kept[k]]],
                !.bases = [k \in DOMAIN kept |-> m.bases[kept[k]]],
                !.slots = [k \in 1 .. ScalarBits \div c + 1 |-> NotYet]]

(* The bases are multiples of a generator of the curve. *)
Given(m) ==
  [msm EXCEPT !.scalars = [i \in DOMAIN m.scalars |-> m.scalars[i] % Order],
              !.bases = [i \in DOMAIN m.logs |-> AffineOf(Multiple(SomePoint, m.logs[i]))]]

(* msm_best: specialized_msm of every curve here. *)
StartsBest(m) ==
  LET len == Len(m.logs)
      c   == PippengerC(len)
  IN  /\ len > 0
      /\ msm' = IF len < SmallLen THEN Parallel(Given(m))
                ELSE Scheduled(Given(m), IF c < MinWindow THEN MinWindow ELSE c)

StartsScheduled(m, c) == msm' = Scheduled(Given(m), c)

FinishesSlot(k) ==
  /\ msm.slots[k] = NotYet
  /\ msm' = [msm EXCEPT !.slots[k] =
               IF msm.route = "scheduled"
                 THEN ScheduledWindow(msm.scalars, msm.bases, msm.c, k - 1)
                 ELSE LET bases == Chunk(msm.bases, msm.size, k)
                      IN  [fate |-> "ok",
                           sum  |-> Serial(Chunk(msm.scalars, msm.size, k), bases,
                                           PippengerC(Len(bases)))]]

(* A thread that panics takes the computation with it. *)
AddsSlots ==
  /\ msm.route \in {"parallel", "scheduled"}
  /\ \A k \in DOMAIN msm.slots : msm.slots[k] # NotYet
  /\ msm' = [msm EXCEPT
               !.route = "done",
               !.fate = IF \E k \in DOMAIN msm.slots : msm.slots[k].fate = "panic" THEN "panic" ELSE @,
               !.total = FoldLeft(LAMBDA sum, s : AddProj(sum, s.sum), Identity, msm.slots)]

(* Every slot fills, one after the other. *)
MsmNext ==
  \/ /\ msm.route = "idle"
     /\ \E m \in Products : StartsBest(m) \/ \E c \in Windows : StartsScheduled(m, c)
  \/ \E k \in DOMAIN msm.slots : FinishesSlot(k)
  \/ AddsSlots

(* What it should be. *)
SumOfProducts ==
  FoldLeft(LAMBDA sum, i : ChordSum(sum, Multiple(PointOf(msm.bases[i]), msm.scalars[i])),
           Infinity, Indices(Len(msm.bases)))
=============================================================================
