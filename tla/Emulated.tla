------------------------------ MODULE Emulated ------------------------------
(***************************************************************************)
(* Arithmetic modulo P inside a circuit over another prime field F_N       *)
(* (nr-blind-sig/src/emulated/).  An element is a list of limbs, numbers   *)
(* of F_N that stand for digits of W bits, and an overflow: how many bits  *)
(* beyond W a limb may have grown to.  Sums, differences and products are  *)
(* not reduced until the overflow no longer fits the native field.         *)
(*                                                                         *)
(* A state is a synthesis: the elements made so far and the values modulo  *)
(* P they stand for.  Every operation computes the witness as the code     *)
(* does and says how the operation ends: "ok", "unsat" when the witness    *)
(* breaks a constraint, "error" for an Err and "panic".  No constructor    *)
(* ever clears `internal', so enforce_width_conditional does nothing.      *)
(* Limbs are numbered from 1, limb i weighs 2^(W(i-1)).                    *)
(***************************************************************************)
EXTENDS Integers, FiniteSets, SequencesExt

CONSTANTS
  NativeModulus,   \* F::MODULUS
  Capacity,        \* F::CAPACITY, one less than the bits of NativeModulus
  P,               \* P::modulus()
  L,               \* P::num_limbs()
  W,               \* P::bits_per_limb()
  MersenneE, MersenneC,   \* P::pseudo_mersenne_params(), where there are any
  Values,          \* numbers of the native field that are allocated
  Multipliers,     \* constants given to mul_const
  MaxElems         \* bound on the elements of a synthesis

VARIABLES
  pseudo,  \* P::is_modulus_pseudo_mersenne()
  elems,   \* the elements synthesised
  wants,   \* the value modulo P each stands for
  last     \* the latest operation: its operands, end, answer and the truth

vars == <<pseudo, elems, wants, last>>

----------------------------------------------------------------------------
(* Numbers and limbs. *)

Bits(v) == CHOOSE b \in 0 .. v : v < 2^b /\ (b = 0 \/ 2^(b - 1) <= v)

CeilLog2(n) == Bits(n - 1)

Larger(a, b) == IF a < b THEN b ELSE a

Upto(n) == [i \in 1 .. n |-> i]

(* Decompose a number into n limbs. *)
Digits(v, n) == [i \in 1 .. n |-> (v \div 2^(W * (i - 1))) % 2^W]

Recompose(limbs, width) == FoldRight(LAMBDA d, v : v * 2^width + d, limbs, 0)

Num(e) == Recompose(e.limbs, W)

Const(limbs) == [limbs |-> limbs, kind |-> "const", ov |-> 0]

Var(limbs, ov) == [limbs |-> limbs, kind |-> "var", ov |-> ov]

(* A number larger than the modulus is reduced, the modulus itself is not. *)
FromBig(v) == Const(Digits(IF v > P THEN v % P ELSE v, L))

Limb(e, i) == IF i <= Len(e.limbs) THEN e.limbs[i] ELSE 0

Longer(a, b) == Larger(Len(a.limbs), Len(b.limbs))

BothConst(a, b) == a.kind = "const" /\ b.kind = "const"

MaxOv == Capacity - W

TopWidth == ((Bits(P) - 1) % W) + 1

(* Every limb fits its width, the highest one of L its part of the modulus. *)
WidthsHold(limbs, strict) ==
  \A i \in DOMAIN limbs : limbs[i] < 2^(IF strict /\ i = L THEN TopWidth ELSE W)

(* P is prime, of any form, and fits L limbs, more than one.  A product of a reduced
   element and the modulus fits. *)
ASSUME FieldAssumption ==
  /\ {NativeModulus, Capacity, P, L, W, MersenneE, MersenneC, MaxElems} \subseteq Nat \ {0}
  /\ \A k \in 2 .. P - 1 : P % k # 0
  /\ L > 1 /\ P < 2^(L * W)
  /\ W + CeilLog2(L) + 2 <= MaxOv
  /\ Values \subseteq 0 .. 2^(L * W) - 1
  /\ Multipliers \subseteq Nat \ {0}

(* The native modulus is not close above a power of two: the limbs of a difference
   may need half a bit more than Capacity.  Nothing asserts it. *)
ASSUME NativeRoom == 3 * 2^Capacity <= 2 * NativeModulus

(* "Parameters of a prime of the form 2^e-c": only such a modulus may be used as one. *)
PseudoMersenne == P = 2^MersenneE - MersenneC

(* How an operation ends. *)
Ok(e) == [fate |-> "ok", elem |-> e]

Fails(f) == [fate |-> f, elem |-> <<>>]

Then(r, F(_)) == IF r.fate = "ok" THEN F(r.elem) ELSE r

(* A hint: n limbs are allocated from a number and their widths enforced. *)
Hint(v, n, strict) ==
  IF Bits(v) > n * W THEN Fails("error")
  ELSE IF WidthsHold(Digits(v, n), strict) THEN Ok(Var(Digits(v, n), 0)) ELSE Fails("unsat")

----------------------------------------------------------------------------
(* The overflow each operation needs. *)

AddNext(a, b) == Larger(a.ov, b.ov) + 1

SubNext(a, b) == Larger(a.ov, b.ov + 2)

MulNext(a, b) ==
  W + a.ov + b.ov
    + CeilLog2(IF Len(a.limbs) < Len(b.limbs) THEN Len(a.limbs) ELSE Len(b.limbs))

----------------------------------------------------------------------------
(* The operations on operands whose overflow fits. *)

AddOp(a, b) ==
  IF BothConst(a, b) THEN FromBig((Num(a) + Num(b)) % P)
  ELSE Var([i \in 1 .. Longer(a, b) |-> (Limb(a, i) + Limb(b, i)) % NativeModulus],
           AddNext(a, b))

SubPaddingPlain(ov, n) == [i \in 1 .. n |-> 2^(ov + W)]

(* A multiple of P whose limbs exceed those of a subtrahend. *)
SubPadding(ov, n) ==
  LET upper == [i \in 1 .. n |-> 2^(ov + W)]
      delta == P - (Recompose(upper, W) % P)
  IN  [i \in 1 .. n |-> upper[i] + Digits(delta, n)[i]]

SubOp(a, b) ==
  IF BothConst(a, b)
    THEN FromBig(IF Num(a) >= Num(b) THEN (Num(a) - Num(b)) % P
                 ELSE P - ((Num(b) - Num(a)) % P))
    ELSE LET pad == SubPadding(b.ov, Longer(a, b))
         IN  Var([i \in DOMAIN pad |->
                    ((pad[i] + Limb(a, i)) - Limb(b, i)) % NativeModulus], SubNext(a, b))

Convolution(a, b) ==
  [k \in 1 .. Len(a.limbs) + Len(b.limbs) - 1 |->
     FoldLeft(LAMBDA s, i : (s + Limb(a, i) * IF i <= k THEN Limb(b, k + 1 - i) ELSE 0)
                              % NativeModulus,
              0, Upto(Len(a.limbs)))]

MulOp(a, b) ==
  IF BothConst(a, b) THEN FromBig((Num(a) * Num(b)) % P)
  ELSE Var(Convolution(a, b), MulNext(a, b))

----------------------------------------------------------------------------
(* Equality of two elements as integers, and modulo P. *)

(* Several limbs are packed into one as far as the native field allows. *)
GroupSize(a, b) == (Capacity - 1 - Larger(a.ov, b.ov)) \div W

Compact(e, g) ==
  IF g <= 1 THEN e.limbs
  ELSE [i \in 1 .. (Len(e.limbs) + g - 1) \div g |->
          FoldLeft(LAMBDA s, j : (s + Limb(e, (i - 1) * g + j) * 2^(W * (j - 1)))
                                   % NativeModulus,
                   0, Upto(g))]

(* Limb by limb: a shifted difference must end in zeros, and what is above them
   is the next limb's carry. right_shift allocates carryBits + 1 bits. *)
SlowEqualFate(a, b, width, carryBits) ==
  LET at(s, i)  == IF i <= Len(s) THEN s[i] ELSE 0
      shift     == 2^carryBits
      max       == 2^(width + carryBits)
      next(acc, i) ==
        LET diff == (((acc.carry + max + at(a, i)) - at(b, i))
                       - (IF i > 1 THEN shift ELSE 0)) % NativeModulus
        IN  [carry |-> diff \div 2^width,
             sat   |-> acc.sat /\ diff % 2^width = 0 /\ diff < 2 * max]
      end == FoldLeft(next, [carry |-> 0, sat |-> TRUE], Upto(Larger(Len(a), Len(b))))
  IN  IF width + carryBits + 1 > Capacity THEN "panic"
      ELSE IF end.sat /\ end.carry = shift THEN "ok" ELSE "unsat"

LimbsEqualFate(a, b) ==
  LET g     == GroupSize(a, b)
      width == W * IF g = 0 THEN 1 ELSE g
  IN  IF g > 1 /\ "const" \in {a.kind, b.kind} THEN "error"
      ELSE IF a.ov > b.ov THEN SlowEqualFate(Compact(a, g), Compact(b, g), width, a.ov)
      ELSE SlowEqualFate(Compact(b, g), Compact(a, g), width, b.ov)

QuotientLimbsFloor(e) == ((Len(e.limbs) * W + e.ov + 1) - Bits(P)) \div W

QuotientLimbs(e) == (((Len(e.limbs) + 1) * W + e.ov) - Bits(P)) \div W

(* diff is a multiple of P: its quotient is allocated and multiplied out. *)
MultipleEnds(diff) ==
  Then(Hint(Num(diff) \div P, QuotientLimbs(diff), FALSE),
       LAMBDA k : LET fate == LimbsEqualFate(diff, MulOp(k, FromBig(P)))
                  IN  IF fate = "ok" THEN Ok(diff) ELSE Fails(fate))

(* The remainder is a hint, asserted equal to what it replaces. *)
Reduce(e) ==
  IF e.ov + 2 > MaxOv THEN Fails("panic")
  ELSE IF e.ov = 0 THEN Ok(e)
  ELSE IF e.kind = "const" THEN Fails("error")
  ELSE Then(Hint(Num(e) % P, L, TRUE),
            LAMBDA r : Then(MultipleEnds(SubOp(r, e)), LAMBDA ignored : Ok(r)))

NextOv(op, a, b) ==
  CASE op = "add" -> AddNext(a, b) [] op = "sub" -> SubNext(a, b) [] op = "mul" -> MulNext(a, b)

FitOneSmaller(p, op) ==
  IF NextOv(op, p[1], p[2]) <= MaxOv THEN Ok(p)
  ELSE IF p[1].ov > p[2].ov THEN Then(Reduce(p[2]), LAMBDA r : Ok(<<p[1], r>>))
  ELSE Then(Reduce(p[1]), LAMBDA r : Ok(<<r, p[2]>>))

(* One turn of the loop in reduce_and_apply_op: when the result would not fit,
   the operand with the larger overflow is reduced, the left one of equals. *)
FitOne(p, op) ==
  IF NextOv(op, p[1], p[2]) <= MaxOv THEN Ok(p)
  ELSE IF p[1].ov < p[2].ov THEN Then(Reduce(p[2]), LAMBDA r : Ok(<<p[1], r>>))
  ELSE Then(Reduce(p[1]), LAMBDA r : Ok(<<r, p[2]>>))

(* Two turns leave no overflow to reduce; another would repeat for ever. *)
Fit(a, b, op) ==
  Then(FitOne(<<a, b>>, op), LAMBDA p :
    Then(FitOne(p, op), LAMBDA q :
      IF NextOv(op, q[1], q[2]) <= MaxOv THEN Ok(q) ELSE Fails("loops")))

Add(a, b) == Then(Fit(a, b, "add"), LAMBDA p : Ok(AddOp(p[1], p[2])))

Sub(a, b) == Then(Fit(a, b, "sub"), LAMBDA p : Ok(SubOp(p[1], p[2])))

Neg(a) == Sub(FromBig(0), a)

AssertEqual(a, b) ==
  IF BothConst(a, b)
    THEN IF Num(a) % P = Num(b) % P THEN Ok(a) ELSE Fails("error")
    ELSE Then(Sub(a, b), MultipleEnds)

MulConstUnchecked(e, c) ==
  IF e.kind = "const" THEN Fails("panic")
  ELSE Ok(Var([i \in DOMAIN e.limbs |-> (e.limbs[i] * c) % NativeModulus], Bits(c) + e.ov))

MulConst(e, c) ==
  LET scaled(x, ov) == IF x.kind = "const" THEN Fails("panic")
                       ELSE Ok(Var([i \in DOMAIN x.limbs |->
                                      (x.limbs[i] * c) % NativeModulus], ov))
  IN  IF Bits(c) > MaxOv THEN Fails("error")
      ELSE IF Bits(c) + e.ov > MaxOv THEN Then(Reduce(e), LAMBDA r : scaled(r, Bits(c)))
      ELSE scaled(e, Bits(c) + e.ov)

MersennePower[n \in Nat] == IF n = 0 THEN 1 ELSE MersenneC * MersennePower[n - 1]

(* A pseudo-Mersenne product: chunks of L limbs are scaled by what 2^(LWi) is
   modulo P and added.  That e is no more than L limbs is asserted. *)
FoldLimbs(e) ==
  IF ~pseudo \/ Len(e.limbs) <= L THEN Ok(e)
  ELSE IF L * W < MersenneE THEN Fails("panic")
  ELSE LET chunk(i) == Var(SubSeq(e.limbs, i * L + 1,
                                  IF (i + 1) * L < Len(e.limbs) THEN (i + 1) * L
                                  ELSE Len(e.limbs)), e.ov)
           scale(i) == MersennePower[(i * L * W) \div MersenneE]
                         * 2^((i * L * W) % MersenneE)
       IN  FoldLeft(LAMBDA acc, i :
                      Then(acc, LAMBDA x :
                        Then(MulConst(chunk(i), scale(i)), LAMBDA y : Add(x, y))),
                    Ok(chunk(0)), Upto((Len(e.limbs) + L - 1) \div L - 1))

Mul(a, b) ==
  Then(Fit(a, b, "mul"),
       LAMBDA p : LET m == MulOp(p[1], p[2])
                  IN  IF m.kind = "const" THEN Ok(m) ELSE FoldLimbs(m))

InvP(x) == CHOOSE y \in 0 .. P - 1 : (x * y) % P = 1

(* The quotient is a hint, multiplied back. *)
Divide(a, b) ==
  IF Num(b) % P = 0 THEN Fails("error")
  ELSE Then(Hint((Num(a) * InvP(Num(b) % P)) % P, L, TRUE), LAMBDA ratio :
         Then(Mul(ratio, b), LAMBDA m :
           Then(AssertEqual(m, a), LAMBDA ignored : Ok(ratio))))

Invert(a) ==
  IF Num(a) % P = 0 THEN Fails("error")
  ELSE Then(Hint(InvP(Num(a) % P), L, TRUE), LAMBDA inv :
         Then(Mul(a, inv), LAMBDA m :
           Then(AssertEqual(m, FromBig(1)), LAMBDA ignored : Ok(inv))))

Select(a0, a1, cond) ==
  IF Len(a0.limbs) # Len(a1.limbs) THEN Fails("error")
  ELSE Ok(Var((IF cond THEN a1 ELSE a0).limbs, Larger(a0.ov, a1.ov)))

(* All limbs of the reduced element are zero. *)
IsZero(e) == Then(Reduce(e), LAMBDA r : Ok(\A i \in DOMAIN r.limbs : r.limbs[i] = 0))

(* In range, and the lowest limb has room for c when all the others are full:
   in the circuit only for P = 2^e - c. *)
Membership(e) ==
  LET full == \A i \in 2 .. L : e.limbs[i] = 2^(IF i = L THEN TopWidth ELSE W) - 1
  IN  IF e.kind = "const" THEN (IF Num(e) < P THEN Ok(e) ELSE Fails("error"))
      ELSE IF Len(e.limbs) # L THEN Fails("error")
      ELSE IF ~pseudo THEN Fails("panic")
      ELSE IF /\ WidthsHold(e.limbs, TRUE)
              /\ e.limbs[1] + (IF full THEN MersenneC ELSE 0) < 2^W
             THEN Ok(e) ELSE Fails("unsat")

(* The low L * W bits of a number of the native field, cut into limbs. *)
FromNum(v) == Var(Digits(v, L), 0)

(* Equal limb by limb to a constant. *)
EqualToConst(e, c) ==
  IF e.kind = "const" \/ c.kind # "const" \/ Len(e.limbs) # Len(c.limbs) THEN Fails("error")
  ELSE IF e.limbs = c.limbs THEN Ok(e) ELSE Fails("unsat")

(* The lowest bit of the lowest limb. *)
Sgn0(e) == e.limbs[1] % 2

(* A tree of selections, whose first bit chooses the half: from the leaves up,
   each row is half as long as the one below. *)
MuxTree(bits, inputs) ==
  LET halve(bit, row) ==
        [k \in 1 .. Len(row) \div 2 |->
           Then(row[2 * k - 1], LAMBDA x0 :
             Then(row[2 * k], LAMBDA x1 : Select(x0, x1, bit)))]
  IN  IF Len(inputs) # 2^Len(bits) THEN Fails("error")
      ELSE FoldRight(halve, bits, [k \in DOMAIN inputs |-> Ok(inputs[k])])[1]

(* What NRProofCircuit asserts of the show protocol's response, t = alpha - c * r:
   t and c are public and allocated from integers, r and alpha numbers of the
   native field. *)
ResponseFate(t, c, r, alpha) ==
  LET alloc(v) == Var(FromBig(v).limbs, 0)
  IN  Then(Neg(alloc(c)), LAMBDA n :
        Then(Mul(n, FromNum(r)), LAMBDA m :
          Then(Add(m, FromNum(alpha)), LAMBDA s : AssertEqual(alloc(t), s)))).fate

----------------------------------------------------------------------------
(* Syntheses. *)

Init ==
  /\ pseudo \in BOOLEAN /\ (pseudo => PseudoMersenne)
  /\ elems = <<>>
  /\ wants = <<>>
  /\ last = [op |-> "none", args |-> <<>>, fate |-> "ok", says |-> TRUE, truth |-> TRUE]

Checking == {"equal", "constant", "member", "zero", "sign", "response"}

Running == last.fate = "ok" /\ last.op \notin Checking /\ Len(elems) < MaxElems

Operands == DOMAIN elems

(* Factors are kept to L limbs, so that numbers stay within 31 bits. *)
Factors == {i \in Operands : Len(elems[i].limbs) <= L}

(* An operation that makes an element. *)
Makes(op, r, want, args) ==
  /\ Running
  /\ last' = [op |-> op, args |-> args, fate |-> r.fate, says |-> TRUE, truth |-> TRUE]
  /\ elems' = IF r.fate = "ok" THEN Append(elems, r.elem) ELSE elems
  /\ wants' = IF r.fate = "ok" THEN Append(wants, want) ELSE wants
  /\ UNCHANGED pseudo

(* An operation that constrains or answers. *)
Checks(op, fate, says, truth, args) ==
  /\ Running
  /\ last' = [op |-> op, args |-> args, fate |-> fate, says |-> says, truth |-> truth]
  /\ UNCHANGED <<pseudo, elems, wants>>

Asserts(op, fate, truth, args) == Checks(op, fate, fate = "ok", truth, args)

Constant(v) == Makes("const", Ok(FromBig(v)), v % P, <<>>)

(* From a constant in the field; anything else is an Err. *)
Allocate(v) ==
  Makes("alloc", IF Num(FromBig(v)) < P THEN Ok(Var(FromBig(v).limbs, 0)) ELSE Fails("error"),
        v % P, <<>>)

AllocateNum(v) == Makes("alloc", Ok(FromNum(v)), v % P, <<>>)

Adds(i, j) == Makes("add", Add(elems[i], elems[j]), (wants[i] + wants[j]) % P, <<i, j>>)

Subtracts(i, j) == Makes("sub", Sub(elems[i], elems[j]), (wants[i] - wants[j]) % P, <<i, j>>)

Negates(i) == Makes("neg", Neg(elems[i]), (0 - wants[i]) % P, <<i>>)

Multiplies(i, j) == Makes("mul", Mul(elems[i], elems[j]), (wants[i] * wants[j]) % P, <<i, j>>)

MultipliesConst(i, c) == Makes("mul_const", MulConst(elems[i], c), (wants[i] * c) % P, <<i>>)

Divides(i, j) ==
  Makes("divide", Divide(elems[i], elems[j]),
        IF wants[j] = 0 THEN 0 ELSE (wants[i] * InvP(wants[j])) % P, <<i, j>>)

Inverts(i) == Makes("inverse", Invert(elems[i]), IF wants[i] = 0 THEN 0 ELSE InvP(wants[i]), <<i>>)

Reduces(i) == Makes("reduce", Reduce(elems[i]), wants[i], <<i>>)

Selects(i, j, bits) ==
  LET at == IF bits = <<FALSE, TRUE>> THEN j ELSE i
  IN  Makes("select", MuxTree(bits, <<elems[i], elems[j], elems[i], elems[i]>>), wants[at], <<i, j>>)

ChecksEqual(i, j) ==
  Asserts("equal", AssertEqual(elems[i], elems[j]).fate, wants[i] = wants[j], <<i, j>>)

ChecksConstant(i, v) ==
  Asserts("constant", EqualToConst(elems[i], FromBig(v)).fate, wants[i] = v % P, <<i>>)

ChecksMembership(i) ==
  Asserts("member", Membership(elems[i]).fate, Num(elems[i]) < P, <<i>>)

ChecksZero(i) ==
  LET z == IsZero(elems[i])
  IN  /\ elems[i].kind = "var"
      /\ Checks("zero", z.fate, z.fate = "ok" /\ z.elem, wants[i] = 0, <<i>>)

ChecksSign(i) == Checks("sign", "ok", Sgn0(elems[i]) = 1, wants[i] % 2 = 1, <<i>>)

(* The response of a show proof, right or off by one. *)
ChecksResponse(c, r, alpha, off) ==
  LET t == (alpha + off + P * P - c * (r % P)) % P
  IN  /\ elems = <<>>
      /\ Asserts("response", ResponseFate(t, c, r, alpha), off = 0, <<>>)

Next ==
  \/ \E v \in Values : Constant(v) \/ Allocate(v) \/ AllocateNum(v)
  \/ \E i, j \in Operands :
       \/ Adds(i, j)
       \/ Subtracts(i, j)
       \/ \E bits \in [1 .. 2 -> BOOLEAN] : Selects(i, j, bits)
       \/ ChecksEqual(i, j)
  \/ \E i, j \in Factors : Multiplies(i, j) \/ Divides(i, j)
  \/ \E i \in Factors : Inverts(i)
  \/ \E i \in Operands :
       \/ Negates(i)
       \/ Reduces(i)
       \/ \E c \in Multipliers : MultipliesConst(i, c)
       \/ \E v \in Values : ChecksConstant(i, v)
       \/ ChecksMembership(i)
       \/ ChecksZero(i)
       \/ ChecksSign(i)
  \/ \E c, r, alpha \in Values, off \in {0, 1} :
       c < P /\ ChecksResponse(c, r, alpha, off)

Spec == Init /\ [][Next]_vars

----------------------------------------------------------------------------
(* Properties. *)

(* What a product, its folding and the comparison with it add. *)
MulRoom ==
  W + CeilLog2(L) + 2 + IF pseudo THEN Bits(MersenneC) + (L * W - MersenneE) + 1 ELSE 0

Fates == {"ok", "unsat", "error", "panic", "loops"}

(* Elements are limbs of the native field with an overflow that leaves room for
   a limb: no sequence of operations, reductions included, gets past
   max_overflow (field_ops.rs: the preconditions and mul_const). *)
TypeOK ==
  /\ pseudo \in BOOLEAN
  /\ Len(elems) <= MaxElems
  /\ wants \in Seq(0 .. P - 1) /\ Len(wants) = Len(elems)
  /\ \A i \in DOMAIN elems :
       /\ elems[i].kind \in {"const", "var"}
       /\ elems[i].ov \in 0 .. MaxOv
       /\ elems[i].limbs \in Seq(0 .. NativeModulus - 1)
  /\ last.fate \in Fates

(* Limbs are as wide as the overflow says. *)
Fits(e) == \A k \in DOMAIN e.limbs : e.limbs[k] < 2^(W + e.ov)

(* Every element stands for the value modulo P that its operations compute,
   through additions, padded subtractions, folded products, automatic reductions
   and selections, as long as no overflow was understated: no limb wraps around
   the native field.  Only a difference can understate one: whatever else is made
   of elements whose limbs are as wide as their overflow says is so itself. *)
ValuesKept ==
  /\ (\A i \in DOMAIN elems : Fits(elems[i])) => \A i \in DOMAIN elems : Num(elems[i]) % P = wants[i]
  /\ /\ last.op \notin Checking \cup {"none", "sub", "neg"} /\ last.fate = "ok"
     /\ \A k \in DOMAIN last.args : Fits(elems[last.args[k]])
     => Fits(Last(elems))

(* What the membership check relies on and nothing asserts: that c is smaller than a
   limb, and that P reaches into the highest one.  Of 59 = 2^6 - 5 in limbs of 2 bits
   the modulus itself passes: its limbs, 3, 2 and 3, are not all full. *)
MembershipFits == MersenneC < 2^W /\ P >= 2^((L - 1) * W)

(* The checks of an honest witness say what is true of the values: equality
   modulo P both ways, whatever the overflows and limb counts of its sides, if
   they are not understated; equality to a constant; membership in the field,
   where MembershipFits; zero and the sign, of elements not left unreduced; the
   response of a show proof both ways. *)
AnswersAreRight ==
  LET e    == elems[last.args[1]]
      fits == \A k \in DOMAIN last.args : Fits(elems[last.args[k]])
  IN  /\ last.op = "equal" /\ last.fate # "panic" /\ fits => last.says = last.truth
      /\ last.op = "response" => last.says = last.truth
      /\ last.op = "constant" /\ last.says => last.truth
      /\ last.op = "member" /\ (e.kind = "var" => MembershipFits) =>
           /\ last.says => last.truth
           /\ last.truth /\ e.kind = "var" /\ pseudo =>
                last.says \/ Len(e.limbs) # L \/ e.ov > 0
      /\ last.op = "zero" /\ last.fate = "ok" =>
           last.says = (last.truth /\ ~(e.ov = 0 /\ Num(e) >= P))
      /\ last.op = "sign" /\ e.ov = 0 /\ Num(e) < P => last.says = last.truth

(* A synthesis of honest values stops only for a reason the code names: the
   loop that reduces operands ends and no constraint of a computation is ever
   unsatisfied; an Err means a division by zero, a constant outside the field or
   limb counts that differ; a panic means an operand within two bits of
   max_overflow (for a product, two whose product comes so close), a constant
   where none may be, a product modulo 2^e - c with an e beyond L limbs, or a
   membership check for a modulus of another form. *)
EndsForAReason ==
  LET args == {elems[last.args[k]] : k \in DOMAIN last.args}
      mul  == last.op \in {"mul", "divide", "inverse"}
  IN  /\ last.fate # "loops"
      /\ last.op \notin Checking => last.fate # "unsat"
      /\ last.op \notin Checking /\ last.fate = "error" =>
           \/ last.op = "alloc"
           \/ last.op = "divide" /\ wants[last.args[2]] = 0
           \/ last.op = "inverse" /\ wants[last.args[1]] = 0
           \/ last.op = "select" /\ \E e, f \in args : Len(e.limbs) # Len(f.limbs)
      /\ last.fate = "panic" =>
           \/ \E e \in args : e.ov + 2 >= MaxOv
           \/ mul /\ \E e, f \in args : e.ov + f.ov + MulRoom >= MaxOv
           \/ mul /\ pseudo /\ L * W < MersenneE
           \/ last.op = "mul_const" /\ \E e \in args : e.kind = "const"
           \/ last.op = "member" /\ ~pseudo

(* "Asserts that the limbs represent the same integer value modulo the modulus"
   (assert_is_equal, field_ops.rs:229). *)
EqualityIsAccepted == last.op = "equal" /\ last.truth => last.fate # "unsat"
=============================================================================
