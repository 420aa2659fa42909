--------------------------- MODULE CircuitsProofs ---------------------------
(***************************************************************************)
(* Proofs about what the circuits are built from.                          *)
(*                                                                         *)
(* Emulated arithmetic, for every native field, every prime modulus and    *)
(* every limb width that the assumption admits, and syntheses of any       *)
(* length: as long as no overflow was understated, every element stands    *)
(* for the value that its operations compute, and what is made of elements *)
(* that fit fits, differences apart.  The argument: a list of limbs stands *)
(* for the sum of the limbs times their weights (NumIs), which is linear   *)
(* (LinearLimbs), splits at a limb (ChunksAre) and of which a product's    *)
(* columns are a rearrangement (MulOpIs); a limb that fits leaves the      *)
(* native field unreduced (Narrow, DifferenceLimb, ProductFits), so limbs  *)
(* are combined as integers; what is added to them, padding, quotients or  *)
(* folded chunks, is a multiple of P (PaddingIs, ReduceKeeps, ScaleAlike). *)
(*                                                                         *)
(* The addition of points inside a circuit, for every prime field of more  *)
(* than three elements and every curve the assumption allows: of any two   *)
(* points of the group, equal, opposite and infinite ones included, the    *)
(* selections of AddPoints pick the chord, the tangent, an operand or      *)
(* infinity as the group law does, except where infinity and a finite      *)
(* point with x = 0 pass for opposites; nothing panics, and the sum is a   *)
(* point of the curve.  The argument: CurveP being prime, what is not 0    *)
(* has an inverse (InverseExists), so the comparison's bit is what it      *)
(* should be (NumEqualsIs) and points of one x are equal or opposite       *)
(* (SameX); the order of the group being odd, a tangent has a denominator  *)
(* (NoOrderTwo); a line that meets the curve twice meets it where OnLine   *)
(* says (ThirdPoint), and the chord and the tangent do.                    *)
(***************************************************************************)
EXTENDS Circuits, FiniteSetTheorems, SequenceTheorems, WellFoundedInduction, TLAPS

-----------------------------------------------------------------------------
(* Induction, quotients and powers of two. *)

Less == {ss \in Nat \X Nat : ss[1] < ss[2]}

(* The order of the naturals is well founded. *)
LEMMA LessWellFounded == IsWellFoundedOn(Less, Nat)
BY NatLessThanWellFounded DEF OpToRel, Less

(* The least number of a set. *)
LEMMA SmallestOf ==
  ASSUME NEW T, T \subseteq Nat, T # {}
  PROVE  \E x \in T : \A y \in T : x <= y
<1>1. PICK x \in T : \A y \in T : ~ (<<y, x>> \in Less)
  BY LessWellFounded, WFMin
<1>2. ASSUME NEW y \in T PROVE x <= y
  <2>1. <<y, x>> \in Nat \X Nat /\ <<y, x>>[1] = y /\ <<y, x>>[2] = x  OBVIOUS
  <2>2. ~ (y < x)  BY <1>1, <2>1 DEF Less
  <2> QED BY <2>2
<1> QED BY <1>2

(* Quotient and remainder. *)
LEMMA DivMod ==
  ASSUME NEW x \in Int, NEW m \in Nat \ {0}
  PROVE  /\ x \div m \in Int /\ x % m \in 0 .. m - 1
         /\ x = m * (x \div m) + (x % m)
OBVIOUS

(* Induction, over the set of the numbers that have a property. *)
LEMMA Induction ==
  ASSUME NEW T, 0 \in T, \A k \in Nat : k \in T => k + 1 \in T
  PROVE  \A k \in Nat : k \in T
<1> DEFINE Out == {k \in Nat : k \notin T}
<1>1. SUFFICES ASSUME Out # {} PROVE FALSE  OBVIOUS
<1>2. PICK x \in Out : \A y \in Out : x <= y
  <2> HIDE DEF Out
  <2>1. Out \subseteq Nat  BY DEF Out
  <2> QED BY <1>1, <2>1, SmallestOf
<1>3. x \in Nat /\ x # 0 /\ x \notin T  OBVIOUS
<1>4. x - 1 \in Nat /\ x - 1 \notin Out  BY <1>2, <1>3
<1> QED BY <1>3, <1>4

(* A set with one element more has twice as many subsets. *)
LEMMA Doubling ==
  ASSUME NEW n \in Nat
  PROVE  2^n \in Nat /\ 2^(n + 1) = 2 * 2^n
<1> DEFINE S == 1 .. n
           x == n + 1
           R == SUBSET S
           Rx == {B \cup {x} : B \in R}
           f == [B \in R |-> B \cup {x}]
<1>1. IsFiniteSet(S) /\ Cardinality(S) = n
  <2>1. 1 \in Int /\ n \in Int  OBVIOUS
  <2>2. IsFiniteSet(1 .. n) /\ Cardinality(1 .. n) = IF 1 > n THEN 0 ELSE n - 1 + 1
    BY <2>1, FS_Interval
  <2> QED BY <2>2
<1>2. IsFiniteSet(1 .. n + 1) /\ Cardinality(1 .. n + 1) = n + 1
  <2>1. 1 \in Int /\ n + 1 \in Int  OBVIOUS
  <2>2. IsFiniteSet(1 .. n + 1) /\ Cardinality(1 .. n + 1) = IF 1 > n + 1 THEN 0 ELSE n + 1 - 1 + 1
    BY <2>1, FS_Interval
  <2> QED BY <2>2
<1>3. x \notin S  OBVIOUS
<1>4. 1 .. n + 1 = S \cup {x}  OBVIOUS
<1>5. IsFiniteSet(R) /\ Cardinality(R) = 2^n  BY <1>1, FS_SUBSET
<1>6. Cardinality(SUBSET (1 .. n + 1)) = 2^(n + 1)  BY <1>2, FS_SUBSET
<1> HIDE DEF S, x
<1>7. SUBSET (S \cup {x}) = R \cup Rx
  <2>1. ASSUME NEW B \in SUBSET (S \cup {x}) PROVE B \in R \cup Rx
    <3>1. CASE x \in B
      <4>1. B = (B \ {x}) \cup {x} /\ B \ {x} \in R  BY <3>1
      <4> QED BY <4>1
    <3>2. CASE x \notin B  BY <3>2
    <3> QED BY <3>1, <3>2
  <2>2. R \cup Rx \subseteq SUBSET (S \cup {x})  OBVIOUS
  <2> QED BY <2>1, <2>2
<1>8. R \cap Rx = {}  BY <1>3
<1>9. f \in Bijection(R, Rx)
  <2>1. f \in [R -> Rx]  OBVIOUS
  <2>2. ASSUME NEW B \in R, NEW C \in R, f[B] = f[C] PROVE B = C
    BY <1>3, <2>2, Zenon
  <2>3. \A c \in Rx : \E B \in R : f[B] = c  OBVIOUS
  <2> HIDE DEF f, R, Rx
  <2> QED BY <2>1, <2>2, <2>3 DEF Bijection, Injection, Surjection, IsInjective
<1> HIDE DEF f, R, Rx
<1>10. IsFiniteSet(Rx) /\ Cardinality(Rx) = Cardinality(R)
  BY <1>5, <1>9, FS_Bijection DEF ExistsBijection
<1>11. Cardinality(R \cup Rx) = Cardinality(R) + Cardinality(Rx) - Cardinality(R \cap Rx)
  BY <1>5, <1>10, FS_Union
<1>12. Cardinality(R \cap Rx) = 0  BY <1>8, FS_EmptySet
<1>13. Cardinality(R) \in Nat  BY <1>5, FS_CardinalityType
<1>14. Cardinality(R \cup Rx) = 2^(n + 1)  BY <1>4, <1>6, <1>7
<1> DEFINE y == 2^n
           z == 2^(n + 1)
<1>15. y \in Nat /\ z = y + y - 0  BY <1>5, <1>10, <1>11, <1>12, <1>13, <1>14
<1> HIDE DEF y, z
<1>16. y \in Nat /\ z = 2 * y  BY <1>15
<1> QED BY <1>16 DEF y, z

(* The powers of two are positive. *)
LEMMA TwoPositive == \A n \in Nat : 2^n \in Nat \ {0}
<1> DEFINE T == {n \in Nat : 2^n \in Nat \ {0}}
<1>1. 0 \in T
  <2>1. 2^0 = 1  OBVIOUS
  <2> QED BY <2>1
<1>2. ASSUME NEW k \in Nat, k \in T PROVE k + 1 \in T
  <2>1. 2^k \in Nat \ {0} /\ 2^(k + 1) = 2 * 2^k  BY <1>2, Doubling
  <2> DEFINE y == 2^k
             z == 2^(k + 1)
  <2>2. y \in Nat \ {0} /\ z = 2 * y  BY <2>1
  <2> HIDE DEF y, z
  <2>3. z \in Nat \ {0}  BY <2>2
  <2> QED BY <2>3 DEF z
<1> HIDE DEF T
<1>3. \A k \in Nat : k \in T  BY <1>1, <1>2, Induction
<1> QED BY <1>3 DEF T

(* Exponents add. *)
LEMMA TwoSum ==
  ASSUME NEW m \in Nat, NEW n \in Nat
  PROVE  2^(m + n) = 2^m * 2^n
<1> DEFINE T == {k \in Nat : 2^(m + k) = 2^m * 2^k}
<1>1. 0 \in T
  <2>1. 2^0 = 1 /\ m + 0 = m  OBVIOUS
  <2> DEFINE y == 2^m
  <2>2. y \in Nat  BY TwoPositive
  <2> HIDE DEF y
  <2>3. y = y * 1  BY <2>2
  <2>4. 2^(m + 0) = y  BY <2>1 DEF y
  <2> QED BY <2>1, <2>3, <2>4 DEF y
<1>2. ASSUME NEW k \in Nat, k \in T PROVE k + 1 \in T
  <2> DEFINE a == 2^m
             b == 2^k
             c == 2^(m + k)
             d == 2^(m + k + 1)
             e == 2^(k + 1)
  <2>1. m + k \in Nat /\ m + (k + 1) = m + k + 1  OBVIOUS
  <2>2. a \in Nat /\ b \in Nat /\ c \in Nat  BY <2>1, TwoPositive
  <2>3. d = 2 * c /\ e = 2 * b  BY <2>1, Doubling
  <2>4. c = a * b  BY <1>2
  <2> HIDE DEF a, b, c, d, e
  <2>5. d = a * e  BY <2>2, <2>3, <2>4
  <2>6. 2^(m + (k + 1)) = d  BY <2>1 DEF d
  <2> QED BY <2>5, <2>6 DEF a, e
<1> HIDE DEF T
<1>3. \A k \in Nat : k \in T  BY <1>1, <1>2, Induction
<1> QED BY <1>3 DEF T

(* A larger exponent gives a larger power. *)
LEMMA TwoMonotone ==
  ASSUME NEW m \in Nat, NEW n \in Nat, m <= n
  PROVE  2^m <= 2^n
<1> DEFINE k == n - m
           a == 2^m
           b == 2^k
           c == 2^n
<1>1. k \in Nat /\ m + k = n  OBVIOUS
<1>2. a \in Nat \ {0} /\ b \in Nat \ {0} /\ c \in Nat  BY <1>1, TwoPositive
<1>3. c = a * b
  <2>1. 2^(m + k) = a * b  BY <1>1, TwoSum
  <2> QED BY <1>1, <2>1
<1> HIDE DEF k, a, b, c
<1>4. a <= c  BY <1>2, <1>3
<1> QED BY <1>4 DEF a, c

(* Every number is below its power of two. *)
LEMMA TwoExceeds == \A n \in Nat : n < 2^n
<1> DEFINE T == {n \in Nat : n < 2^n}
<1>1. 0 \in T
  <2>1. 2^0 = 1  OBVIOUS
  <2> QED BY <2>1
<1>2. ASSUME NEW k \in Nat, k \in T PROVE k + 1 \in T
  <2> DEFINE y == 2^k
             z == 2^(k + 1)
  <2>1. y \in Nat \ {0} /\ z = 2 * y /\ k < y  BY <1>2, Doubling, TwoPositive
  <2> HIDE DEF y, z
  <2>2. k + 1 < z  BY <2>1
  <2> QED BY <2>2 DEF z
<1> HIDE DEF T
<1>3. \A k \in Nat : k \in T  BY <1>1, <1>2, Induction
<1> QED BY <1>3 DEF T

(* The bits of a number are enough for it, and no more than any that are. *)
LEMMA BitsIs ==
  ASSUME NEW v \in Nat
  PROVE  /\ Bits(v) \in Nat /\ v < 2^Bits(v)
         /\ \A w \in Nat : v < 2^w => Bits(v) <= w
<1> DEFINE S == {b \in Nat : v < 2^b}
           Fit1(b) == v < 2^b /\ (b = 0 \/ 2^(b - 1) <= v)
<1>1. v \in S  BY TwoExceeds
<1>2. PICK x \in S : \A y \in S : x <= y
  <2>1. S \subseteq Nat /\ S # {}  BY <1>1
  <2> HIDE DEF S
  <2> QED BY <2>1, SmallestOf
<1>3. x \in 0 .. v /\ x \in Nat /\ v < 2^x  BY <1>1, <1>2
<1>4. x = 0 \/ 2^(x - 1) <= v
  <2>1. SUFFICES ASSUME x # 0 PROVE 2^(x - 1) <= v  OBVIOUS
  <2>2. x - 1 \in Nat /\ x - 1 \notin S  BY <1>2, <1>3, <2>1
  <2>3. ~(v < 2^(x - 1)) /\ 2^(x - 1) \in Nat  BY <2>2, TwoPositive
  <2> DEFINE z == 2^(x - 1)
  <2>4. ~(v < z) /\ z \in Nat  BY <2>3
  <2> HIDE DEF z
  <2>5. z <= v  BY <2>4
  <2> QED BY <2>5 DEF z
<1>5. Fit1(x)  BY <1>3, <1>4
<1>6. Bits(v) = CHOOSE b \in 0 .. v : Fit1(b)  BY DEF Bits
<1> HIDE DEF Fit1
<1>7. Bits(v) \in 0 .. v /\ Fit1(Bits(v))  BY <1>3, <1>5, <1>6
<1> DEFINE b == Bits(v)
<1>8. b \in Nat /\ v < 2^b /\ (b = 0 \/ 2^(b - 1) <= v)  BY <1>7 DEF Fit1
<1> HIDE DEF b
<1>9. ASSUME NEW w \in Nat, v < 2^w PROVE b <= w
  <2>1. SUFFICES ASSUME w < b PROVE FALSE  BY <1>8
  <2>2. b # 0 /\ b - 1 \in Nat /\ w <= b - 1  BY <1>8, <2>1
  <2> DEFINE y == 2^w
             z == 2^(b - 1)
  <2>3. y <= z /\ z <= v /\ v < y /\ y \in Nat /\ z \in Nat
    BY <1>8, <1>9, <2>2, TwoMonotone, TwoPositive
  <2> HIDE DEF y, z
  <2> QED BY <2>3
<1> QED BY <1>8, <1>9 DEF b

(* So a number fits w bits when it is below their power. *)
LEMMA BitsFit ==
  ASSUME NEW v \in Nat, NEW w \in Nat, Bits(v) <= w
  PROVE  v < 2^w
<1> DEFINE y == 2^Bits(v)
           z == 2^w
<1>1. Bits(v) \in Nat /\ v < y  BY BitsIs
<1>2. y <= z /\ y \in Nat /\ z \in Nat  BY <1>1, TwoMonotone, TwoPositive
<1> HIDE DEF y, z
<1>3. v < z  BY <1>1, <1>2
<1> QED BY <1>3 DEF z

-----------------------------------------------------------------------------
(* Recursion over the numbers, and sums. *)

(* g goes on from base by step, up to k. *)
Recursive(g, k, base, step) ==
  g[0] = base /\ \A j \in Nat : j < k => g[j + 1] = step[<<g[j], j>>]

(* Two that do agree. *)
LEMMA RecursiveUnique ==
  ASSUME NEW base, NEW step, NEW g, NEW h, NEW m \in Nat,
         Recursive(g, m, base, step), Recursive(h, m, base, step)
  PROVE  \A k \in Nat : k <= m => g[k] = h[k]
<1> DEFINE T == {k \in Nat : k <= m => g[k] = h[k]}
<1>1. 0 \in T  BY DEF Recursive
<1>2. ASSUME NEW k \in Nat, k \in T PROVE k + 1 \in T
  <2>1. ASSUME k + 1 <= m PROVE g[k + 1] = h[k + 1]
    <3>1. k < m /\ k <= m  BY <2>1
    <3>2. g[k] = h[k]  BY <1>2, <3>1
    <3>3. g[k + 1] = step[<<g[k], k>>] /\ h[k + 1] = step[<<h[k], k>>]  BY <3>1 DEF Recursive
    <3> QED BY <3>2, <3>3
  <2> QED BY <2>1
<1> HIDE DEF T
<1>3. \A k \in Nat : k \in T  BY <1>1, <1>2, Induction
<1> QED BY <1>3 DEF T

(* s goes on from base by step for ever. *)
Iterates(s, base, step) == s[0] = base /\ \A k \in Nat : s[k + 1] = step[<<s[k], k>>]

(* A function defined by recursion exists. *)
LEMMA RecursionExists ==
  ASSUME NEW X, NEW base \in X, NEW step \in [X \X Nat -> X]
  PROVE  \E s \in [Nat -> X] : Iterates(s, base, step)
<1> DEFINE Upto1(k) == {g \in [0 .. k -> X] : Recursive(g, k, base, step)}
           T == {k \in Nat : Upto1(k) # {}}
<1>1. 0 \in T
  <2> DEFINE g == [j \in 0 .. 0 |-> base]
  <2>1. g \in [0 .. 0 -> X] /\ g[0] = base  OBVIOUS
  <2>2. Recursive(g, 0, base, step)  BY <2>1 DEF Recursive
  <2> QED BY <2>1, <2>2
<1>2. ASSUME NEW k \in Nat, k \in T PROVE k + 1 \in T
  <2>1. PICK g \in [0 .. k -> X] : Recursive(g, k, base, step)  BY <1>2
  <2> DEFINE h == [j \in 0 .. k + 1 |-> IF j = k + 1 THEN step[<<g[k], k>>] ELSE g[j]]
  <2>2. h \in [0 .. k + 1 -> X]
    <3>1. g[k] \in X  BY <2>1
    <3>2. step[<<g[k], k>>] \in X  BY <3>1
    <3>3. \A j \in 0 .. k + 1 : j # k + 1 => j \in 0 .. k  OBVIOUS
    <3> QED BY <2>1, <3>2, <3>3
  <2>3. Recursive(h, k + 1, base, step)
    <3>1. h[0] = base  BY <2>1 DEF Recursive
    <3>2. ASSUME NEW j \in Nat, j < k + 1 PROVE h[j + 1] = step[<<h[j], j>>]
      <4>1. j \in 0 .. k + 1 /\ j + 1 \in 0 .. k + 1 /\ h[j] = g[j]  BY <3>2
      <4>2. CASE j = k  BY <4>1, <4>2
      <4>3. CASE j # k
        <5>1. j < k /\ h[j + 1] = g[j + 1]  BY <3>2, <4>1, <4>3
        <5> QED BY <2>1, <4>1, <5>1 DEF Recursive
      <4> QED BY <4>2, <4>3
    <3> HIDE DEF h
    <3> QED BY <3>1, <3>2 DEF Recursive
  <2> QED BY SMTT(60), <2>2, <2>3
<1> HIDE DEF T
<1>3. \A k \in Nat : k \in T  BY <1>1, <1>2, Induction
<1> DEFINE ch == [k \in Nat |-> CHOOSE g \in Upto1(k) : TRUE]
           s == [k \in Nat |-> ch[k][k]]
<1>4. ASSUME NEW k \in Nat PROVE ch[k] \in [0 .. k -> X] /\ Recursive(ch[k], k, base, step)
  BY <1>3 DEF T
<1> HIDE DEF ch
<1>5. s \in [Nat -> X]  BY <1>4
<1>6. s[0] = base  BY <1>4 DEF Recursive
<1>7. ASSUME NEW k \in Nat PROVE s[k + 1] = step[<<s[k], k>>]
  <2> DEFINE g == ch[k]
             h == ch[k + 1]
  <2>1. Recursive(g, k, base, step) /\ Recursive(h, k + 1, base, step)  BY <1>4
  <2> HIDE DEF g, h
  <2>2. Recursive(h, k, base, step)  BY <2>1 DEF Recursive
  <2>3. g[k] = h[k]  BY <2>1, <2>2, RecursiveUnique
  <2>4. h[k + 1] = step[<<h[k], k>>]  BY <2>1 DEF Recursive
  <2> QED BY <2>3, <2>4 DEF g, h
<1> HIDE DEF s
<1>8. Iterates(s, base, step)  BY <1>6, <1>7 DEF Iterates
<1> QED BY <1>5, <1>8

(* f[1] + ... + f[k]. *)
Totals(f) == CHOOSE s \in [Nat -> Int] : s[0] = 0 /\ \A k \in Nat : s[k + 1] = s[k] + f[k + 1]

Total(f, k) == Totals(f)[k]

(* An integer for every number but 0. *)
Terms(f) == \A k \in Nat : f[k + 1] \in Int

(* What determines a sum. *)
LEMMA TotalIs ==
  ASSUME NEW f, Terms(f)
  PROVE  /\ Total(f, 0) = 0
         /\ \A k \in Nat : Total(f, k) \in Int /\ Total(f, k + 1) = Total(f, k) + f[k + 1]
<1> DEFINE step == [p \in Int \X Nat |-> p[1] + f[p[2] + 1]]
<1>1. step \in [Int \X Nat -> Int]  BY DEF Terms
<1>2. \A x \in Int, k \in Nat : step[<<x, k>>] = x + f[k + 1]  OBVIOUS
<1> HIDE DEF step
<1>3. PICK s \in [Nat -> Int] : Iterates(s, 0, step)
  <2>1. 0 \in Int  OBVIOUS
  <2> QED BY <1>1, <2>1, RecursionExists
<1>4. s[0] = 0 /\ \A k \in Nat : s[k + 1] = s[k] + f[k + 1]  BY <1>2, <1>3 DEF Iterates
<1>5. \E t \in [Nat -> Int] : t[0] = 0 /\ \A k \in Nat : t[k + 1] = t[k] + f[k + 1]
  BY <1>3, <1>4
<1>6. Totals(f) \in [Nat -> Int] /\ Totals(f)[0] = 0
      /\ \A k \in Nat : Totals(f)[k + 1] = Totals(f)[k] + f[k + 1]
  BY <1>5 DEF Totals
<1> QED BY <1>6 DEF Total

(* Sums of equal terms are equal. *)
LEMMA TotalSame ==
  ASSUME NEW f, NEW g, Terms(f), Terms(g), NEW n \in Nat, \A k \in 1 .. n : f[k] = g[k]
  PROVE  Total(f, n) = Total(g, n)
<1> DEFINE T == {k \in Nat : k <= n => Total(f, k) = Total(g, k)}
<1>1. 0 \in T  BY TotalIs
<1>2. ASSUME NEW k \in Nat, k \in T PROVE k + 1 \in T
  <2>1. ASSUME k + 1 <= n PROVE Total(f, k + 1) = Total(g, k + 1)
    <3>1. k + 1 \in 1 .. n /\ k <= n  BY <2>1
    <3>2. Total(f, k) = Total(g, k) /\ f[k + 1] = g[k + 1]  BY <1>2, <3>1
    <3>3. Total(f, k + 1) = Total(f, k) + f[k + 1] /\ Total(g, k + 1) = Total(g, k) + g[k + 1]
      BY TotalIs
    <3> QED BY <3>2, <3>3
  <2> QED BY <2>1
<1> HIDE DEF T
<1>3. \A k \in Nat : k \in T  BY <1>1, <1>2, Induction
<1> QED BY <1>3 DEF T

(* h is the combination of f and g, term by term. *)
Mixes(h, f, g, a, b, n) == \A k \in 1 .. n : h[k] = a * f[k] + b * g[k]

(* A sum of combinations is the combination of the sums. *)
LEMMA TotalLinear ==
  ASSUME NEW f, NEW g, NEW h, Terms(f), Terms(g), Terms(h), NEW a \in Int, NEW b \in Int,
         NEW n \in Nat, Mixes(h, f, g, a, b, n)
  PROVE  Total(h, n) = a * Total(f, n) + b * Total(g, n)
<1> DEFINE T == {k \in Nat : k <= n => Total(h, k) = a * Total(f, k) + b * Total(g, k)}
<1>1. 0 \in T  BY TotalIs
<1>2. ASSUME NEW k \in Nat, k \in T PROVE k + 1 \in T
  <2>1. ASSUME k + 1 <= n PROVE Total(h, k + 1) = a * Total(f, k + 1) + b * Total(g, k + 1)
    <3> DEFINE F == Total(f, k)
               G1 == Total(g, k)
               H1 == Total(h, k)
               x == f[k + 1]
               y == g[k + 1]
    <3>1. k + 1 \in 1 .. n /\ k <= n  BY <2>1
    <3>2. H1 = a * F + b * G1 /\ h[k + 1] = a * x + b * y
      BY <1>2, <3>1 DEF Mixes
    <3>3. /\ Total(f, k + 1) = F + x /\ Total(g, k + 1) = G1 + y
          /\ Total(h, k + 1) = H1 + h[k + 1]
          /\ F \in Int /\ G1 \in Int /\ H1 \in Int
      BY TotalIs
    <3>4. x \in Int /\ y \in Int  BY DEF Terms
    <3> HIDE DEF F, G1, H1, x, y
    <3>5. a * F + b * G1 + (a * x + b * y) = a * (F + x) + b * (G1 + y)  BY <3>3, <3>4
    <3> QED BY <3>2, <3>3, <3>5
  <2> QED BY <2>1
<1> HIDE DEF T
<1>3. \A k \in Nat : k \in T  BY <1>1, <1>2, Induction
<1> QED BY <1>3 DEF T

(* What comes after the first m terms. *)
After(f, m) == [k \in Nat \ {0} |-> f[m + k]]

(* They are terms of a sum themselves. *)
LEMMA AfterTerms ==
  ASSUME NEW f, Terms(f), NEW m \in Nat
  PROVE  Terms(After(f, m))
<1>1. ASSUME NEW k \in Nat PROVE After(f, m)[k + 1] \in Int
  <2>1. After(f, m)[k + 1] = f[(m + k) + 1] /\ m + k \in Nat
    <3>1. k + 1 \in Nat \ {0} /\ m + (k + 1) = (m + k) + 1  OBVIOUS
    <3> QED BY <3>1 DEF After
  <2> QED BY <2>1 DEF Terms
<1> QED BY <1>1 DEF Terms

(* A sum splits anywhere. *)
LEMMA TotalSplit ==
  ASSUME NEW f, Terms(f), NEW m \in Nat, NEW n \in Nat
  PROVE  Total(f, m + n) = Total(f, m) + Total(After(f, m), n)
<1> DEFINE g == After(f, m)
           T == {k \in Nat : Total(f, m + k) = Total(f, m) + Total(g, k)}
<1>1. Terms(g)  BY AfterTerms
<1>2. 0 \in T
  <2>1. Total(g, 0) = 0 /\ Total(f, m) \in Int  BY <1>1, TotalIs
  <2>2. m + 0 = m  OBVIOUS
  <2> HIDE DEF g
  <2> QED BY <2>1, <2>2
<1>3. ASSUME NEW k \in Nat, k \in T PROVE k + 1 \in T
  <2>1. m + k \in Nat /\ m + (k + 1) = (m + k) + 1 /\ k + 1 \in Nat \ {0}  OBVIOUS
  <2>2. g[k + 1] = f[(m + k) + 1]  BY <2>1 DEF After
  <2> HIDE DEF g
  <2>3. /\ Total(f, (m + k) + 1) = Total(f, m + k) + f[(m + k) + 1]
        /\ Total(g, k + 1) = Total(g, k) + g[k + 1]
        /\ Total(f, m) \in Int /\ Total(g, k) \in Int /\ g[k + 1] \in Int
    BY <1>1, <2>1, TotalIs DEF Terms
  <2>4. Total(f, m + k) = Total(f, m) + Total(g, k)  BY <1>3
  <2>5. Total(f, (m + k) + 1) = Total(f, m) + Total(g, k + 1)
    BY <2>2, <2>3, <2>4
  <2> QED BY <2>1, <2>5
<1> HIDE DEF T, g
<1>4. \A k \in Nat : k \in T  BY <1>2, <1>3, Induction
<1> QED BY <1>4 DEF T, g

(* Terms between 0 and c sum to no more than as many times c. *)
LEMMA TotalBound ==
  ASSUME NEW f, Terms(f), NEW c \in Int, NEW n \in Nat, \A k \in 1 .. n : 0 <= f[k] /\ f[k] <= c
  PROVE  0 <= Total(f, n) /\ Total(f, n) <= n * c
<1> DEFINE T == {k \in Nat : k <= n => 0 <= Total(f, k) /\ Total(f, k) <= k * c}
<1>1. 0 \in T  BY TotalIs
<1>2. ASSUME NEW k \in Nat, k \in T PROVE k + 1 \in T
  <2>1. ASSUME k + 1 <= n PROVE 0 <= Total(f, k + 1) /\ Total(f, k + 1) <= (k + 1) * c
    <3> DEFINE F == Total(f, k)
               x == f[k + 1]
    <3>1. k + 1 \in 1 .. n /\ k <= n  BY <2>1
    <3>2. 0 <= F /\ F <= k * c /\ 0 <= x /\ x <= c  BY <1>2, <3>1
    <3>3. Total(f, k + 1) = F + x /\ F \in Int  BY TotalIs
    <3>4. x \in Int  BY DEF Terms
    <3> HIDE DEF F, x
    <3>5. (k + 1) * c = k * c + c  OBVIOUS
    <3>6. k * c \in Int  OBVIOUS
    <3> QED BY <3>2, <3>3, <3>4, <3>5, <3>6
  <2> QED BY <2>1
<1> HIDE DEF T
<1>3. \A k \in Nat : k \in T  BY <1>1, <1>2, Induction
<1> QED BY <1>3 DEF T

-----------------------------------------------------------------------------
(* Folds over the indices of a list. *)

(* Sets of at most k elements. *)
SmallSubsets(S, k) == {s \in SUBSET S : Cardinality(s) <= k}

(* What is left of a finite set without one of its elements.               *)
LEMMA RemoveOne ==
  ASSUME NEW S, IsFiniteSet(S), NEW s \in SUBSET S, NEW x \in s
  PROVE  /\ IsFiniteSet(s) /\ Cardinality(s) \in Nat \ {0}
         /\ IsFiniteSet(s \ {x}) /\ Cardinality(s \ {x}) = Cardinality(s) - 1
         /\ s \ {x} \in SUBSET S
<1>1. IsFiniteSet(s)  BY FS_Subset
<1>2. Cardinality(s) \in Nat BY <1>1, FS_CardinalityType
<1>3. Cardinality(s) # 0 BY <1>1, FS_EmptySet
<1>4. IsFiniteSet(s \ {x}) /\ Cardinality(s \ {x}) = Cardinality(s) - 1
  BY <1>1, FS_RemoveElement
<1> QED BY <1>1, <1>2, <1>3, <1>4

(* it folds step over the subsets of S in T. *)
Folds(it, T, base, ch, step) ==
  \A s \in T : it[s] = IF s = {} THEN base ELSE step[<<ch[s], it[s \ {ch[s]}]>>]

(* A fold over a finite set, choosing an element at a time, is a function. *)
LEMMA FoldExists ==
  ASSUME NEW S, IsFiniteSet(S), NEW X, NEW base \in X, NEW step \in [S \X X -> X],
         NEW ch, \A s \in SUBSET S : s # {} => ch[s] \in s
  PROVE  \E it \in [SUBSET S -> X] : Folds(it, SUBSET S, base, ch, step)
<1> DEFINE D(k) == SmallSubsets(S, k)
           T == {k \in Nat : \E it \in [D(k) -> X] : Folds(it, D(k), base, ch, step)}
<1>1. 0 \in T
  <2> DEFINE it == [s \in D(0) |-> base]
  <2>1. ASSUME NEW s \in D(0) PROVE s = {}
    <3>1. IsFiniteSet(s) BY FS_Subset DEF SmallSubsets
    <3>2. Cardinality(s) = 0 BY <3>1, FS_CardinalityType DEF SmallSubsets
    <3> QED BY <3>1, <3>2, FS_EmptySet
  <2>2. it \in [D(0) -> X] /\ Folds(it, D(0), base, ch, step)
    <3> HIDE DEF D
    <3> QED BY <2>1 DEF Folds
  <2> HIDE DEF it, D
  <2> QED BY <2>2
<1>2. ASSUME NEW k \in Nat, k \in T PROVE k + 1 \in T
  <2>1. PICK it \in [D(k) -> X] : Folds(it, D(k), base, ch, step)
    BY <1>2
  <2>2. ASSUME NEW s \in D(k + 1), s # {}
        PROVE  ch[s] \in s /\ ch[s] \in S /\ s \ {ch[s]} \in D(k)
    <3>1. ch[s] \in s /\ s \in SUBSET S /\ Cardinality(s) <= k + 1 BY <2>2 DEF SmallSubsets
    <3>2. \A y \in s : /\ IsFiniteSet(s) /\ Cardinality(s) \in Nat \ {0}
                      /\ IsFiniteSet(s \ {y}) /\ Cardinality(s \ {y}) = Cardinality(s) - 1
                      /\ s \ {y} \in SUBSET S
      BY <3>1, RemoveOne
    <3>3. Cardinality(s) \in Nat /\ Cardinality(s \ {ch[s]}) = Cardinality(s) - 1
      BY <3>1, <3>2, Zenon
    <3>4. s \ {ch[s]} \in SUBSET S /\ Cardinality(s \ {ch[s]}) <= k
      BY <3>1, <3>3
    <3> QED BY <3>1, <3>4 DEF SmallSubsets
  <2> DEFINE nx == [s \in D(k + 1) |->
                      IF s \in D(k) THEN it[s] ELSE step[<<ch[s], it[s \ {ch[s]}]>>]]
  <2>3. {} \in D(k)
    BY FS_EmptySet DEF SmallSubsets
  <2>5. D(k) \subseteq D(k + 1)
    <3>1. ASSUME NEW s \in D(k) PROVE s \in D(k + 1)
      <4>1. IsFiniteSet(s) BY FS_Subset DEF SmallSubsets
      <4> QED BY <4>1, FS_CardinalityType DEF SmallSubsets
    <3> QED BY <3>1
  <2> HIDE DEF D
  <2>4. nx \in [D(k + 1) -> X]
    BY <2>2, <2>3
  <2>6. ASSUME NEW s \in D(k + 1)
        PROVE  nx[s] = IF s = {} THEN base ELSE step[<<ch[s], nx[s \ {ch[s]}]>>]
    <3>1. CASE s = {}
      BY <3>1, <2>1, <2>3 DEF Folds
    <3>2. CASE s # {}
      <4>1. s \ {ch[s]} \in D(k) BY <2>2, <3>2
      <4>2. nx[s \ {ch[s]}] = it[s \ {ch[s]}] BY <4>1, <2>5
      <4>3. s \in D(k) => it[s] = step[<<ch[s], it[s \ {ch[s]}]>>] BY <2>1, <3>2 DEF Folds
      <4> QED BY <3>2, <4>2, <4>3
    <3> QED BY <3>1, <3>2
  <2> HIDE DEF nx
  <2>7. Folds(nx, D(k + 1), base, ch, step)  BY <2>6 DEF Folds
  <2> QED BY <2>4, <2>7
<1> HIDE DEF T
<1>3. \A k \in Nat : k \in T BY <1>1, <1>2, Induction
<1>4. Cardinality(S) \in Nat BY FS_CardinalityType
<1>5. D(Cardinality(S)) = SUBSET S
  BY FS_Subset DEF SmallSubsets
<1> HIDE DEF D
<1>6. \E it \in [D(Cardinality(S)) -> X] : Folds(it, D(Cardinality(S)), base, ch, step)
  BY <1>3, <1>4 DEF T
<1> QED BY <1>5, <1>6

-----------------------------------------------------------------------------
(* The number that a list of limbs stands for. *)

(* Its limbs, each times its weight; beyond its end they are 0. *)
Weighted(l) == [i \in Nat \ {0} |-> (IF i <= Len(l) THEN l[i] ELSE 0) * 2^(W * (i - 1))]

(* The parameters are what the assumption says. *)
LEMMA Parameters ==
  /\ NativeModulus \in Nat \ {0} /\ Capacity \in Nat \ {0} /\ P \in Nat \ {0} /\ L \in Nat \ {0}
  /\ W \in Nat \ {0} /\ MersenneE \in Nat \ {0} /\ MersenneC \in Nat \ {0}
  /\ L > 1
BY FieldAssumption

(* A limb's weight, and the next one's. *)
LEMMA Weights ==
  ASSUME NEW k \in Nat
  PROVE  /\ W * k \in Nat /\ 2^(W * k) \in Nat \ {0} /\ 2^W \in Nat \ {0}
         /\ 2^(W * (k + 1)) = 2^W * 2^(W * k)
<1>1. W \in Nat  BY Parameters
<1>2. W * k \in Nat /\ W * (k + 1) = W + W * k  BY <1>1
<1>3. 2^(W + W * k) = 2^W * 2^(W * k)  BY <1>1, <1>2, TwoSum
<1> QED BY <1>1, <1>2, <1>3, TwoPositive

(* Its terms are integers. *)
LEMMA WeightedTerms ==
  ASSUME NEW l \in Seq(Int)
  PROVE  /\ Terms(Weighted(l))
         /\ \A k \in Nat : Weighted(l)[k + 1] = (IF k + 1 <= Len(l) THEN l[k + 1] ELSE 0) * 2^(W * k)
<1>1. ASSUME NEW k \in Nat
      PROVE  /\ Weighted(l)[k + 1] = (IF k + 1 <= Len(l) THEN l[k + 1] ELSE 0) * 2^(W * k)
             /\ Weighted(l)[k + 1] \in Int
  <2> DEFINE x == IF k + 1 <= Len(l) THEN l[k + 1] ELSE 0
             w == 2^(W * k)
  <2>1. k + 1 \in Nat \ {0} /\ (k + 1) - 1 = k  OBVIOUS
  <2>2. Weighted(l)[k + 1] = x * w  BY <2>1 DEF Weighted
  <2>3. x \in Int  OBVIOUS
  <2>4. w \in Int  BY Weights
  <2> HIDE DEF x, w
  <2>5. x * w \in Int  BY <2>3, <2>4
  <2> QED BY <2>2, <2>5 DEF x, w
<1> QED BY <1>1 DEF Terms

(* The fold that makes a number of limbs. *)
Recomposes(it, l, b) ==
  it = [s \in SUBSET DOMAIN l |-> IF s = {} THEN 0 ELSE it[s \ {Min(s)}] * b + l[Min(s)]]

(* The smallest of an interval is its first. *)
LEMMA MinInterval ==
  ASSUME NEW a \in Int, NEW b \in Int, a <= b
  PROVE  Min(a .. b) = a /\ (a .. b) \ {a} = a + 1 .. b
<1>1. a \in a .. b /\ \A y \in a .. b : a <= y  OBVIOUS
<1>2. \A x \in a .. b : (\A y \in a .. b : x <= y) => x = a  BY <1>1
<1>3. Min(a .. b) = a  BY <1>1, <1>2 DEF Min
<1> QED BY <1>3

(* A set of indices has a smallest. *)
LEMMA MinOf ==
  ASSUME NEW s, s \subseteq Nat, s # {}
  PROVE  Min(s) \in s
<1>1. \E x \in s : \A y \in s : x <= y  BY SmallestOf
<1> QED BY <1>1 DEF Min

(* That fold exists, and what it returns is one. *)
LEMMA RecomposeFolds ==
  ASSUME NEW l \in Seq(Int), NEW width, 2^width \in Int
  PROVE  \E it : Recomposes(it, l, 2^width) /\ it[DOMAIN l] = Recompose(l, width)
<1> DEFINE D == DOMAIN l
           b == 2^width
           step == [p \in D \X Int |-> p[2] * b + l[p[1]]]
           ch == [s \in SUBSET D |-> Min(s)]
           iter == CHOOSE it : Recomposes(it, l, b)
<1>1. D = 1 .. Len(l) /\ Len(l) \in Nat  OBVIOUS
<1>2. IsFiniteSet(D)  BY <1>1, FS_Interval
<1>3. \A s \in SUBSET D : s # {} => ch[s] \in s  BY <1>1, MinOf
<1>4. \A s \in SUBSET D : ch[s] = Min(s)  OBVIOUS
<1>5. step \in [D \X Int -> Int]
  <2>1. \A i \in D : l[i] \in Int  OBVIOUS
  <2>2. b \in Int  OBVIOUS
  <2> HIDE DEF D, b
  <2>3. \A x \in Int, i \in D : x * b + l[i] \in Int  BY <2>1, <2>2
  <2> QED BY <2>3
<1>6. \A i \in D, x \in Int : step[<<i, x>>] = x * b + l[i]  OBVIOUS
<1>7. Recompose(l, width) = iter[D]
  BY DEF Recompose, FoldRight, MapThenFoldSet, Recomposes
<1> HIDE DEF D, step, ch, b
<1>8. PICK it \in [SUBSET D -> Int] : Folds(it, SUBSET D, 0, ch, step)
  <2>1. 0 \in Int  OBVIOUS
  <2> QED BY <1>2, <1>3, <1>5, <2>1, FoldExists
<1>9. \A s \in SUBSET D : it[s] = IF s = {} THEN 0 ELSE it[s \ {Min(s)}] * b + l[Min(s)]
  <2> SUFFICES ASSUME NEW s \in SUBSET D, s # {}
               PROVE  it[s] = it[s \ {Min(s)}] * b + l[Min(s)]
    BY <1>8 DEF Folds
  <2>1. ch[s] \in D /\ ch[s] = Min(s) /\ s \ {ch[s]} \in SUBSET D  BY <1>3, <1>4
  <2>2. it[s \ {ch[s]}] \in Int  BY <2>1
  <2>3. it[s] = step[<<ch[s], it[s \ {ch[s]}]>>]  BY <1>8 DEF Folds
  <2> QED BY <1>6, <2>1, <2>2, <2>3
<1>10. Recomposes(it, l, b)
  <2>1. it = [s \in SUBSET D |-> it[s]]  OBVIOUS
  <2>2. it = [s \in SUBSET D |-> IF s = {} THEN 0 ELSE it[s \ {Min(s)}] * b + l[Min(s)]]
    BY <1>9, <2>1
  <2> QED BY <2>2 DEF Recomposes, D
<1>11. Recomposes(iter, l, b)  BY <1>10
<1> HIDE DEF iter
<1> QED BY <1>7, <1>11 DEF D, b

(* Two that fold the same list agree from any index on. *)
LEMMA RecomposeStep ==
  ASSUME NEW l \in Seq(Int), NEW it, NEW b, Recomposes(it, l, b), NEW k \in 1 .. Len(l)
  PROVE  it[k .. Len(l)] = it[k + 1 .. Len(l)] * b + l[k]
<1> DEFINE s == k .. Len(l)
<1>1. Len(l) \in Nat /\ DOMAIN l = 1 .. Len(l)  OBVIOUS
<1>2. s \in SUBSET DOMAIN l /\ s # {}  BY <1>1
<1>3. Min(s) = k /\ s \ {k} = k + 1 .. Len(l)  BY <1>1, MinInterval
<1> HIDE DEF s
<1>4. it[s] = IF s = {} THEN 0 ELSE it[s \ {Min(s)}] * b + l[Min(s)]
  BY <1>2 DEF Recomposes
<1> QED BY <1>2, <1>3, <1>4 DEF s

(* What is folded past the end is nothing. *)
LEMMA RecomposeEnd ==
  ASSUME NEW l \in Seq(Int), NEW it, NEW b, Recomposes(it, l, b)
  PROVE  it[Len(l) + 1 .. Len(l)] = 0
<1>1. Len(l) + 1 .. Len(l) = {}  OBVIOUS
<1>2. {} \in SUBSET DOMAIN l  OBVIOUS
<1>3. it[{}] = 0  BY <1>2 DEF Recomposes
<1> QED BY <1>1, <1>3

(* Of limbs of weights 2^(W k), it is the sum of the weighted limbs. *)
LEMMA NumIs ==
  ASSUME NEW l \in Seq(Int)
  PROVE  Recompose(l, W) = Total(Weighted(l), Len(l)) /\ Recompose(l, W) \in Int
<1> DEFINE n == Len(l)
           f == Weighted(l)
<1>0. W \in Nat /\ 2^W \in Int /\ n \in Nat  BY Parameters, TwoPositive
<1>1. PICK it : Recomposes(it, l, 2^W) /\ it[DOMAIN l] = Recompose(l, W)
  BY <1>0, RecomposeFolds
<1>2. DOMAIN l = 1 .. n  OBVIOUS
<1>3. Terms(f)  BY WeightedTerms
<1> DEFINE b == 2^W
           R(k) == it[n - k + 1 .. n]
           T == {k \in Nat : k <= n => R(k) \in Int /\ Total(f, n - k) + R(k) * 2^(W * (n - k)) = Total(f, n)}
<1>4. 0 \in T
  <2>1. n - 0 + 1 = n + 1 /\ n - 0 = n  BY <1>0
  <2>2. it[n + 1 .. n] = 0  BY <1>1, RecomposeEnd
  <2>3. R(0) = 0  BY <2>1, <2>2
  <2>4. Total(f, n) \in Int  BY <1>0, <1>3, TotalIs
  <2> DEFINE w == 2^(W * (n - 0))
             t == Total(f, n)
  <2>5. w \in Int  BY <1>0, <2>1, Weights
  <2>6. t + 0 * w = t
    <3> HIDE DEF w, t
    <3> QED BY <2>4, <2>5 DEF t
  <2> QED BY <2>1, <2>3, <2>6
<1>5. ASSUME NEW k \in Nat, k \in T PROVE k + 1 \in T
  <2>1. SUFFICES ASSUME k + 1 <= n
        PROVE  R(k + 1) \in Int /\ Total(f, n - (k + 1)) + R(k + 1) * 2^(W * (n - (k + 1))) = Total(f, n)
    OBVIOUS
  <2> DEFINE j == n - (k + 1)
             x == l[j + 1]
             w == 2^(W * j)
             v == 2^(W * (j + 1))
             s == Total(f, j)
             t == Total(f, j + 1)
             r == R(k)
             q == R(k + 1)
  <2>2. j \in Nat /\ j + 1 \in 1 .. n /\ n - k = j + 1 /\ n - k + 1 = j + 2 /\ n - (k + 1) + 1 = j + 1
    BY <1>0, <2>1
  <2>3. k <= n  BY <2>1, <1>0
  <2>4. r \in Int /\ t + r * v = Total(f, n)  BY <1>5, <2>2, <2>3
  <2>5. q = r * b + x
    <3>1. it[j + 1 .. n] = it[(j + 1) + 1 .. n] * b + l[j + 1]  BY SMTT(60), <1>1, <2>2, RecomposeStep
    <3>2. (j + 1) + 1 = j + 2  BY <2>2
    <3> HIDE DEF b, j
    <3> QED BY <2>2, <3>1, <3>2
  <2>6. v = b * w /\ w \in Nat /\ v \in Nat
    <3>1. j \in Nat  BY <2>2
    <3> HIDE DEF j
    <3>2. 2^(W * j) \in Nat \ {0} /\ 2^W \in Nat \ {0} /\ 2^(W * (j + 1)) = 2^W * 2^(W * j)
      BY <3>1, Weights
    <3>3. j + 1 \in Nat  BY <3>1
    <3>4. 2^(W * (j + 1)) \in Nat \ {0}  BY <3>3, Weights
    <3> QED BY <3>2, <3>4
  <2>7. t = s + f[j + 1] /\ s \in Int  BY <1>3, <2>2, TotalIs
  <2>8. f[j + 1] = x * w
    <3>1. f[j + 1] = (IF j + 1 <= Len(l) THEN l[j + 1] ELSE 0) * w  BY <2>2, WeightedTerms
    <3> QED BY <2>2, <3>1
  <2>9. x \in Int  BY <2>2
  <2>10. b \in Int  BY <1>0
  <2> HIDE DEF x, w, v, s, t, r, q, b, f
  <2>11. q \in Int  BY <2>4, <2>5, <2>9, <2>10
  <2>12. s + q * w = t + r * v
    <3>1. s + (r * b + x) * w = (s + x * w) + r * (b * w)
      BY <2>4, <2>6, <2>7, <2>9, <2>10
    <3> QED BY <2>5, <2>6, <2>7, <2>8, <3>1
  <2> QED BY <2>2, <2>4, <2>11, <2>12 DEF s, q, w
<1> HIDE DEF T
<1>6. \A k \in Nat : k \in T  BY <1>4, <1>5, Induction
<1>7. n \in T  BY <1>0, <1>6
<1>8. R(n) \in Int /\ Total(f, 0) + R(n) * 2^(W * 0) = Total(f, n)
  <2>1. n - n = 0  BY <1>0
  <2> QED BY <1>0, <1>7, <2>1 DEF T
<1>9. 2^(W * 0) = 1
  <2>1. W * 0 = 0 /\ 2^0 = 1  BY <1>0
  <2> QED BY <2>1
<1>10. Total(f, 0) = 0  BY <1>3, TotalIs
<1>11. R(n) = Recompose(l, W)
  <2>1. n - n + 1 = 1  BY <1>0
  <2> QED BY <1>1, <1>2, <2>1
<1> HIDE DEF R, f, n
<1>12. R(n) = Total(f, n)
  <2> DEFINE r == R(n)
  <2>1. r \in Int /\ 0 + r * 1 = Total(f, n)  BY <1>8, <1>9, <1>10
  <2> HIDE DEF r
  <2>2. 0 + r * 1 = r  BY <2>1
  <2> QED BY <2>1, <2>2 DEF r
<1> QED BY <1>8, <1>11, <1>12 DEF f, n

(* Limbs of 0 above the highest add nothing. *)
LEMMA TotalBeyond ==
  ASSUME NEW l \in Seq(Int), NEW n \in Nat, Len(l) <= n
  PROVE  Recompose(l, W) = Total(Weighted(l), n)
<1> DEFINE f == Weighted(l)
           m == Len(l)
           T == {k \in Nat : Total(f, m + k) = Total(f, m)}
<1>0. m \in Nat /\ Terms(f)  BY WeightedTerms
<1>1. 0 \in T
  <2>1. m + 0 = m  BY <1>0
  <2> QED BY <2>1
<1>2. ASSUME NEW k \in Nat, k \in T PROVE k + 1 \in T
  <2> DEFINE j == m + k
             w == 2^(W * j)
  <2>1. j \in Nat /\ m + (k + 1) = j + 1 /\ ~(j + 1 <= m)  BY <1>0
  <2>2. f[j + 1] = (IF j + 1 <= m THEN l[j + 1] ELSE 0) * w  BY <2>1, WeightedTerms
  <2>3. w \in Int  BY <2>1, Weights
  <2>4. Total(f, j + 1) = Total(f, j) + f[j + 1] /\ Total(f, j) \in Int  BY <1>0, <2>1, TotalIs
  <2>5. Total(f, j) = Total(f, m)  BY <1>2
  <2>6. f[j + 1] = 0 * w  BY <2>1, <2>2
  <2> HIDE DEF w, f, j, m
  <2>7. Total(f, j + 1) = Total(f, j)  BY <2>3, <2>4, <2>6
  <2> QED BY <2>1, <2>5, <2>7
<1> HIDE DEF T
<1>3. \A k \in Nat : k \in T  BY <1>1, <1>2, Induction
<1>4. n - m \in Nat /\ m + (n - m) = n  BY <1>0
<1>5. n - m \in T  BY <1>3, <1>4
<1>6. Total(f, n) = Total(f, m)  BY <1>4, <1>5 DEF T
<1> QED BY <1>6, NumIs

(* A quotient is the only one. *)
LEMMA DivUnique ==
  ASSUME NEW x \in Int, NEW m \in Nat \ {0}, NEW q \in Int, NEW r \in 0 .. m - 1, x = m * q + r
  PROVE  x \div m = q /\ x % m = r
<1> DEFINE a == x \div m
           s == x % m
<1>1. a \in Int /\ s \in 0 .. m - 1 /\ x = m * a + s  BY DivMod
<1> HIDE DEF a, s
<1>2. a = q
  <2>1. CASE a < q
    <3>1. a + 1 <= q  BY <1>1, <2>1
    <3>2. m * (a + 1) <= m * q  BY <1>1, <3>1
    <3>3. m * (a + 1) = m * a + m  BY <1>1
    <3> QED BY <1>1, <3>2, <3>3
  <2>2. CASE q < a
    <3>1. q + 1 <= a  BY <1>1, <2>2
    <3>2. m * (q + 1) <= m * a  BY <1>1, <3>1
    <3>3. m * (q + 1) = m * q + m  BY <1>1
    <3> QED BY <1>1, <3>2, <3>3
  <2> QED BY <1>1, <2>1, <2>2
<1>3. s = r  BY <1>1, <1>2
<1> QED BY <1>2, <1>3 DEF a, s

(* Dividing twice is dividing by the product. *)
LEMMA DivDiv ==
  ASSUME NEW v \in Nat, NEW a \in Nat \ {0}, NEW b \in Nat \ {0}
  PROVE  (v \div a) \div b = v \div (a * b) /\ v \div a \in Nat
<1> DEFINE x == v \div a
           r == v % a
           y == x \div b
           s == x % b
<1>1. x \in Int /\ r \in 0 .. a - 1 /\ v = a * x + r  BY DivMod
<1>2. y \in Int /\ s \in 0 .. b - 1 /\ x = b * y + s
  <2> HIDE DEF x
  <2> QED BY <1>1, DivMod
<1> HIDE DEF x, r, y, s
<1>3. a * b \in Nat \ {0}  OBVIOUS
<1>4. v = (a * b) * y + (a * s + r)
  <2>1. a * (b * y + s) + r = (a * b) * y + (a * s + r)  BY <1>1, <1>2
  <2> QED BY <1>1, <1>2, <2>1
<1>5. a * s + r \in 0 .. (a * b) - 1
  <2>1. s + 1 <= b  BY <1>2
  <2>2. a * (s + 1) <= a * b  BY <1>2, <2>1
  <2>3. a * (s + 1) = a * s + a  BY <1>2
  <2>4. 0 <= a * s  BY <1>2
  <2> QED BY <1>1, <1>2, <1>3, <2>2, <2>3, <2>4
<1>6. v \div (a * b) = y
  <2> DEFINE m == a * b
             t == a * s + r
  <2>1. m \in Nat \ {0} /\ t \in 0 .. m - 1 /\ v = m * y + t  BY <1>3, <1>4, <1>5
  <2> HIDE DEF m, t
  <2>2. v \div m = y  BY <1>2, <2>1, DivUnique
  <2> QED BY <2>2 DEF m
<1>7. x \in Nat
  <2>1. SUFFICES ASSUME x < 0 PROVE FALSE  BY <1>1
  <2>2. x <= -1  BY <1>1, <2>1
  <2>3. a * x <= a * (-1)  BY <1>1, <2>2
  <2>4. a * (-1) = -a  OBVIOUS
  <2> QED BY <1>1, <2>3, <2>4
<1> QED BY <1>6, <1>7 DEF x, y

(* Digits are below 2^W. *)
LEMMA DigitsTyped ==
  ASSUME NEW v \in Nat, NEW n \in Nat
  PROVE  /\ Digits(v, n) \in Seq(Nat) /\ Len(Digits(v, n)) = n
         /\ \A i \in 1 .. n : Digits(v, n)[i] = (v \div 2^(W * (i - 1))) % 2^W /\ Digits(v, n)[i] < 2^W
<1>1. ASSUME NEW i \in 1 .. n PROVE (v \div 2^(W * (i - 1))) % 2^W \in 0 .. 2^W - 1
  <2> DEFINE a == 2^(W * (i - 1))
             b == 2^W
             x == v \div a
  <2>1. i - 1 \in Nat  OBVIOUS
  <2>2. a \in Nat \ {0} /\ b \in Nat \ {0}  BY <2>1, Weights
  <2> HIDE DEF a, b
  <2>3. x \in Int  BY <2>2, DivMod
  <2> HIDE DEF x
  <2>4. x % b \in 0 .. b - 1  BY <2>2, <2>3, DivMod
  <2> QED BY <2>4 DEF x, a, b
<1> DEFINE b == 2^W
           D(i) == (v \div 2^(W * (i - 1))) % 2^W
<1>2. b \in Nat  BY Weights
<1>3. \A i \in 1 .. n : D(i) \in 0 .. b - 1  BY <1>1
<1>4. Digits(v, n) = [i \in 1 .. n |-> D(i)]  BY DEF Digits
<1> HIDE DEF b, D
<1>5. \A i \in 1 .. n : D(i) \in Nat /\ D(i) < b  BY <1>2, <1>3
<1>6. Digits(v, n) \in Seq(Nat) /\ Len(Digits(v, n)) = n  BY <1>4, <1>5
<1>7. \A i \in 1 .. n : Digits(v, n)[i] = D(i) /\ Digits(v, n)[i] < b  BY <1>4, <1>5
<1> QED BY <1>6, <1>7 DEF b, D

(* Enough digits make the number again. *)
LEMMA DigitsMake ==
  ASSUME NEW v \in Nat, NEW n \in Nat, v < 2^(W * n)
  PROVE  Recompose(Digits(v, n), W) = v
<1> DEFINE d == Digits(v, n)
           f == Weighted(d)
           b == 2^W
           w(k) == 2^(W * k)
           T == {k \in Nat : k <= n => Total(f, k) + (v \div w(k)) * w(k) = v}
<1>1. d \in Seq(Nat) /\ Len(d) = n
      /\ \A i \in 1 .. n : d[i] = (v \div 2^(W * (i - 1))) % b
  BY DigitsTyped
<1> HIDE DEF d
<1>2. d \in Seq(Int)  BY <1>1
<1>3. Terms(f)  BY <1>2, WeightedTerms
<1>4. 0 \in T
  <2>1. W * 0 = 0 /\ 2^0 = 1  BY Parameters
  <2>2. w(0) = 1  BY <2>1
  <2>3. Total(f, 0) = 0  BY <1>3, TotalIs
  <2>4. (v \div 1) * 1 = v
    <3>1. v = 1 * v + 0 /\ 0 \in 0 .. 1 - 1 /\ 1 \in Nat \ {0}  OBVIOUS
    <3>2. v \div 1 = v  BY <3>1, DivUnique
    <3> QED BY <3>2
  <2> QED BY <2>2, <2>3, <2>4
<1>5. ASSUME NEW k \in Nat, k \in T PROVE k + 1 \in T
  <2>1. SUFFICES ASSUME k + 1 <= n
        PROVE  Total(f, k + 1) + (v \div w(k + 1)) * w(k + 1) = v
    OBVIOUS
  <2> DEFINE a == w(k)
             c == w(k + 1)
             x == v \div a
             y == x \div b
             s == x % b
             t == Total(f, k)
  <2>2. a \in Nat \ {0} /\ b \in Nat \ {0} /\ c = b * a  BY Weights
  <2>3. t + x * a = v /\ t \in Int  BY <1>3, <1>5, <2>1, TotalIs
  <2>4. Total(f, k + 1) = t + f[k + 1]  BY <1>3, TotalIs
  <2>5. f[k + 1] = (IF k + 1 <= Len(d) THEN d[k + 1] ELSE 0) * 2^(W * k)  BY <1>2, WeightedTerms
  <2>6. k + 1 \in 1 .. n /\ (k + 1) - 1 = k  BY <2>1
  <2>7. d[k + 1] = s  BY <1>1, <2>6
  <2>8. f[k + 1] = s * a  BY <1>1, <2>1, <2>5, <2>7
  <2> HIDE DEF a, c, b, t, f, d
  <2>9. x \in Int  BY <2>2, DivMod
  <2>10. v \div (a * b) = y  BY <2>2, DivDiv
  <2>11. a * b = c  BY <2>2
  <2>12. v \div c = y  BY <2>10, <2>11
  <2> HIDE DEF x
  <2>13. y \in Int /\ s \in Int /\ x = b * y + s  BY <2>2, <2>9, DivMod
  <2> HIDE DEF y, s
  <2>14. t + s * a + y * (b * a) = t + (b * y + s) * a  BY <2>2, <2>3, <2>13
  <2>15. t + s * a + y * c = v  BY <2>2, <2>3, <2>13, <2>14
  <2>16. Total(f, k + 1) + (v \div c) * c = v  BY <2>4, <2>8, <2>12, <2>15
  <2> QED BY <2>16 DEF c
<1> HIDE DEF T
<1>6. \A k \in Nat : k \in T  BY <1>4, <1>5, Induction
<1>7. n \in T  BY <1>6
<1>8. Total(f, n) + (v \div w(n)) * w(n) = v  BY <1>7 DEF T
<1>9. v \div w(n) = 0
  <2> DEFINE c == w(n)
  <2>1. c \in Nat \ {0}  BY Weights
  <2>2. v < c  OBVIOUS
  <2> HIDE DEF c
  <2>3. v \in 0 .. c - 1 /\ v = c * 0 + v /\ 0 \in Int  BY <2>1, <2>2
  <2>4. v \div c = 0  BY <2>1, <2>3, DivUnique
  <2> QED BY <2>4 DEF c
<1>10. Total(f, n) = v
  <2> DEFINE c == w(n)
             t == Total(f, n)
  <2>1. c \in Nat \ {0} /\ t \in Int /\ t + 0 * c = v  BY <1>3, <1>8, <1>9, Weights, TotalIs
  <2> HIDE DEF c, t
  <2>2. t = v  BY <2>1
  <2> QED BY <2>2 DEF t
<1> HIDE DEF f
<1>11. Recompose(d, W) = Total(Weighted(d), Len(d))  BY <1>2, NumIs
<1> QED BY <1>1, <1>10, <1>11 DEF d, f

-----------------------------------------------------------------------------
(* Numbers that are alike modulo m. *)

Alike(m, x, y) == \E c \in Int : x = y + c * m

(* A number is alike itself. *)
LEMMA AlikeRefl == ASSUME NEW m \in Int, NEW x \in Int PROVE Alike(m, x, x)
<1>1. x = x + 0 * m /\ 0 \in Int  OBVIOUS
<1> QED BY <1>1 DEF Alike

(* Either way round. *)
LEMMA AlikeSym ==
  ASSUME NEW m \in Int, NEW x \in Int, NEW y \in Int, Alike(m, x, y)
  PROVE  Alike(m, y, x)
<1>1. PICK c \in Int : x = y + c * m  BY DEF Alike
<1>2. y = x + (-c) * m /\ -c \in Int  BY <1>1
<1> QED BY <1>2 DEF Alike

(* And in a chain. *)
LEMMA AlikeTrans ==
  ASSUME NEW m \in Int, NEW x \in Int, NEW y \in Int, NEW z \in Int,
         Alike(m, x, y), Alike(m, y, z)
  PROVE  Alike(m, x, z)
<1>1. PICK c \in Int : x = y + c * m  BY DEF Alike
<1>2. PICK d \in Int : y = z + d * m  BY DEF Alike
<1>3. x = z + (c + d) * m /\ c + d \in Int  BY <1>1, <1>2
<1> QED BY <1>3 DEF Alike

(* Sums of alike numbers are alike. *)
LEMMA AlikeSum ==
  ASSUME NEW m \in Int, NEW x \in Int, NEW y \in Int, NEW u \in Int, NEW v \in Int,
         Alike(m, x, y), Alike(m, u, v)
  PROVE  Alike(m, x + u, y + v)
<1>1. PICK c \in Int : x = y + c * m  BY DEF Alike
<1>2. PICK d \in Int : u = v + d * m  BY DEF Alike
<1>3. x + u = (y + v) + (c + d) * m /\ c + d \in Int  BY <1>1, <1>2
<1> QED BY <1>3 DEF Alike

(* And differences. *)
LEMMA AlikeDiff ==
  ASSUME NEW m \in Int, NEW x \in Int, NEW y \in Int, NEW u \in Int, NEW v \in Int,
         Alike(m, x, y), Alike(m, u, v)
  PROVE  Alike(m, x - u, y - v)
<1>1. PICK c \in Int : x = y + c * m  BY DEF Alike
<1>2. PICK d \in Int : u = v + d * m  BY DEF Alike
<1>3. x - u = (y - v) + (c - d) * m /\ c - d \in Int  BY <1>1, <1>2
<1> QED BY <1>3 DEF Alike

(* And products. *)
LEMMA AlikeProd ==
  ASSUME NEW m \in Int, NEW x \in Int, NEW y \in Int, NEW u \in Int, NEW v \in Int,
         Alike(m, x, y), Alike(m, u, v)
  PROVE  Alike(m, x * u, y * v)
<1>1. PICK c \in Int : x = y + c * m  BY DEF Alike
<1>2. PICK d \in Int : u = v + d * m  BY DEF Alike
<1>3. (y + c * m) * (v + d * m) = y * v + (y * d + c * v + c * d * m) * m  BY <1>1, <1>2
<1>4. y * d + c * v + c * d * m \in Int  BY <1>1, <1>2
<1>5. x * u = y * v + (y * d + c * v + c * d * m) * m  BY <1>1, <1>2, <1>3
<1> QED BY <1>4, <1>5 DEF Alike

(* A number is alike its remainder. *)
LEMMA AlikeMod ==
  ASSUME NEW m \in Nat \ {0}, NEW x \in Int
  PROVE  x % m \in 0 .. m - 1 /\ Alike(m, x % m, x) /\ Alike(m, x, x % m)
<1> DEFINE q == x \div m
           r == x % m
<1>1. q \in Int /\ r \in 0 .. m - 1 /\ x = m * q + r  BY DivMod
<1> HIDE DEF q, r
<1>2. r = x + (-q) * m /\ x = r + q * m /\ -q \in Int  BY <1>1
<1>3. r \in 0 .. m - 1 /\ Alike(m, r, x) /\ Alike(m, x, r)  BY <1>1, <1>2 DEF Alike
<1> QED BY <1>3 DEF r

(* Alike numbers have one remainder. *)
LEMMA AlikeEqual ==
  ASSUME NEW m \in Nat \ {0}, NEW x \in Int, NEW y \in Int, Alike(m, x, y)
  PROVE  x % m = y % m
<1> DEFINE q == y \div m
           r == y % m
<1>1. PICK c \in Int : x = y + c * m  BY DEF Alike
<1>2. q \in Int /\ r \in 0 .. m - 1 /\ y = m * q + r  BY DivMod
<1> HIDE DEF q, r
<1>3. (m * q + r) + c * m = m * (q + c) + r  BY <1>1, <1>2
<1>4. x = m * (q + c) + r /\ q + c \in Int  BY <1>1, <1>2, <1>3
<1>5. x % m = r  BY <1>2, <1>4, DivUnique
<1> QED BY <1>5 DEF r

(* And the other way round. *)
LEMMA EqualAlike ==
  ASSUME NEW m \in Nat \ {0}, NEW x \in Int, NEW y \in Int, x % m = y % m
  PROVE  Alike(m, x, y)
<1> DEFINE r == x % m
<1>1. r \in Int /\ Alike(m, x, r)
  <2>1. x % m \in 0 .. m - 1 /\ Alike(m, x, x % m)  BY AlikeMod
  <2> QED BY <2>1
<1>2. Alike(m, r, y)
  <2>1. Alike(m, y % m, y)  BY AlikeMod
  <2> QED BY <2>1
<1> HIDE DEF r
<1>3. m \in Int  OBVIOUS
<1> QED BY <1>1, <1>2, <1>3, AlikeTrans

(* A remainder is its own. *)
LEMMA ModSmall ==
  ASSUME NEW m \in Nat \ {0}, NEW r \in 0 .. m - 1
  PROVE  r % m = r /\ r \div m = 0
<1>1. r = m * 0 + r /\ r \in Int /\ 0 \in Int  OBVIOUS
<1> QED BY <1>1, DivUnique

(* Modulo a prime, every number but 0 has an inverse. *)
LEMMA InverseModulo ==
  ASSUME NEW p \in Nat, p > 1, \A k \in 2 .. p - 1 : p % k # 0, NEW x \in 1 .. p - 1
  PROVE  \E y \in 0 .. p - 1 : (x * y) % p = 1
<1> DEFINE T == {m \in 1 .. p - 1 : \E y \in Int : Alike(p, x * y, m)}
<1>0. p \in Nat \ {0} /\ p \in Int /\ x \in Int  OBVIOUS
<1>1. x \in T
  <2>1. x * 1 = x  BY <1>0
  <2>2. Alike(p, x * 1, x)  BY <1>0, <2>1, AlikeRefl
  <2>3. \E y \in Int : Alike(p, x * y, x)
    <3>1. 1 \in Int  OBVIOUS
    <3> QED BY <2>2, <3>1
  <2> QED BY <1>0, <2>3
<1>2. T \subseteq Nat  OBVIOUS
<1>3. PICK m \in T : \A k \in T : m <= k
  <2> HIDE DEF T
  <2> QED BY <1>1, <1>2, SmallestOf
<1>4. PICK y \in Int : Alike(p, x * y, m)  OBVIOUS
<1>5. m \in 1 .. p - 1  OBVIOUS
<1> DEFINE k == p \div m
           r == p % m
<1>6. k \in Int /\ r \in 0 .. m - 1 /\ p = m * k + r
  <2>1. m \in Nat \ {0}  BY <1>5
  <2> QED BY <1>0, <2>1, DivMod
<1>r. r = p % m  OBVIOUS
<1> HIDE DEF k, r
<1>7. Alike(p, x * (y * (-k)), r)
  <2>1. -k \in Int /\ x * y \in Int /\ m \in Int /\ r \in Int  BY <1>0, <1>5, <1>6
  <2>2. Alike(p, -k, -k)  BY <1>0, <2>1, AlikeRefl
  <2>3. Alike(p, (x * y) * (-k), m * (-k))  BY <1>0, <1>4, <2>1, <2>2, AlikeProd
  <2>4. m * (-k) = r + (-1) * p /\ (-1) \in Int /\ m * (-k) \in Int  BY <1>0, <1>5, <1>6
  <2>5. Alike(p, m * (-k), r)  BY <2>4 DEF Alike
  <2>6. (x * y) * (-k) \in Int  BY <2>1
  <2>7. Alike(p, (x * y) * (-k), r)  BY <1>0, <2>1, <2>3, <2>4, <2>5, <2>6, AlikeTrans
  <2>8. (x * y) * (-k) = x * (y * (-k))  BY <1>0, <2>1
  <2> QED BY <2>7, <2>8
<1>8. r = 0
  <2>1. SUFFICES ASSUME r # 0 PROVE FALSE  OBVIOUS
  <2>2. r \in 1 .. p - 1 /\ r < m  BY <1>5, <1>6, <2>1
  <2>3. y * (-k) \in Int  BY <1>6
  <2>4. r \in T  BY <1>7, <2>2, <2>3
  <2> HIDE DEF T
  <2>5. m <= r  BY <1>3, <2>4
  <2> QED BY <1>5, <2>2, <2>5
<1>9. m = 1
  <2>1. SUFFICES ASSUME m # 1 PROVE FALSE  OBVIOUS
  <2>2. m \in 2 .. p - 1  BY <1>5, <2>1
  <2> QED BY <1>8, <1>r, <2>2
<1> DEFINE z == y % p
<1>10. z \in 0 .. p - 1 /\ Alike(p, z, y)  BY <1>0, AlikeMod
<1> HIDE DEF z
<1>11. z \in Int /\ x * z \in Int /\ x * y \in Int  BY <1>0, <1>10
<1>12. Alike(p, x * z, 1)
  <2>1. Alike(p, x, x)  BY <1>0, AlikeRefl
  <2>2. Alike(p, x * z, x * y)  BY <1>0, <1>10, <1>11, <2>1, AlikeProd
  <2>3. Alike(p, x * y, 1) /\ 1 \in Int  BY <1>4, <1>9
  <2> QED BY <1>0, <1>11, <2>2, <2>3, AlikeTrans
<1>13. (x * z) % p = 1 % p
  <2>1. 1 \in Int  OBVIOUS
  <2> QED BY <1>0, <1>11, <1>12, <2>1, AlikeEqual
<1>14. 1 % p = 1
  <2>1. 1 \in 0 .. p - 1  OBVIOUS
  <2> QED BY <1>0, <2>1, ModSmall
<1> QED BY <1>10, <1>13, <1>14

(* Modulo P a number that is no multiple of it has one. *)
LEMMA InvPIs ==
  ASSUME NEW x \in 1 .. P - 1
  PROVE  InvP(x) \in 0 .. P - 1
<1>1. P \in Nat /\ P > 1 /\ \A k \in 2 .. P - 1 : P % k # 0  BY FieldAssumption
<1>2. \E y \in 0 .. P - 1 : (x * y) % P = 1  BY <1>1, InverseModulo
<1> QED BY <1>2 DEF InvP

(* The powers of MersenneC. *)
LEMMA MersennePowerIs ==
  /\ MersennePower[0] = 1
  /\ \A n \in Nat : /\ MersennePower[n] \in Nat \ {0}
                    /\ MersennePower[n + 1] = MersenneC * MersennePower[n]
<1> DEFINE C == MersenneC
           X == Nat \ {0}
           step == [p \in X \X Nat |-> C * p[1]]
<1>0. C \in X  BY Parameters
<1>1. step \in [X \X Nat -> X]
  <2>1. \A x \in X : C * x \in X  BY <1>0
  <2> HIDE DEF X
  <2> QED BY <2>1
<1>2. \A x \in X, k \in Nat : step[<<x, k>>] = C * x  OBVIOUS
<1> HIDE DEF step
<1>3. PICK s \in [Nat -> X] : Iterates(s, 1, step)
  <2>1. 1 \in X  OBVIOUS
  <2> HIDE DEF X
  <2> QED BY <1>1, <2>1, RecursionExists
<1>4. s[0] = 1 /\ \A k \in Nat : s[k + 1] = C * s[k]  BY <1>2, <1>3 DEF Iterates
<1>5. \A n \in Nat : s[n] = IF n = 0 THEN 1 ELSE C * s[n - 1]
  <2> SUFFICES ASSUME NEW n \in Nat, n # 0 PROVE s[n] = C * s[n - 1]  BY <1>4
  <2>1. n - 1 \in Nat /\ (n - 1) + 1 = n  OBVIOUS
  <2> QED BY <1>4, <2>1
<1> DEFINE Rec(g) == g = [n \in Nat |-> IF n = 0 THEN 1 ELSE MersenneC * g[n - 1]]
<1>6. Rec(s)
  <2>1. s = [n \in Nat |-> s[n]]  OBVIOUS
  <2> QED BY <1>5, <2>1
<1>7. MersennePower = CHOOSE g : Rec(g)  BY DEF MersennePower
<1>8. Rec(MersennePower)
  <2> HIDE DEF Rec
  <2> QED BY <1>6, <1>7
<1> DEFINE M == MersennePower
<1>9. M = [n \in Nat |-> IF n = 0 THEN 1 ELSE C * M[n - 1]]  BY <1>8
<1> HIDE DEF M
<1>10. M[0] = 1  BY <1>9
<1>11. \A n \in Nat : M[n + 1] = C * M[n]
  <2> TAKE n \in Nat
  <2>1. n + 1 \in Nat /\ n + 1 # 0 /\ (n + 1) - 1 = n  OBVIOUS
  <2> QED BY <1>9, <2>1
<1> DEFINE T == {n \in Nat : M[n] \in X}
<1>12. 0 \in T  BY <1>10
<1>13. ASSUME NEW k \in Nat, k \in T PROVE k + 1 \in T  BY <1>0, <1>11, <1>13
<1> HIDE DEF T
<1>14. \A n \in Nat : n \in T  BY <1>12, <1>13, Induction
<1>15. \A n \in Nat : M[n] \in X  BY <1>14 DEF T
<1> QED BY <1>10, <1>11, <1>15 DEF M

(* 2^MersenneE is alike MersenneC, and so are their powers. *)
LEMMA MersenneAlike ==
  ASSUME NEW q \in Nat
  PROVE  PseudoMersenne => Alike(P, MersennePower[q], 2^(MersenneE * q))
<1> SUFFICES ASSUME PseudoMersenne PROVE Alike(P, MersennePower[q], 2^(MersenneE * q))  OBVIOUS
<1> DEFINE E == MersenneE
           M == MersennePower
           T == {k \in Nat : Alike(P, M[k], 2^(E * k))}
<1>0. E \in Nat /\ P \in Int /\ MersenneC \in Int /\ P = 2^E - MersenneC /\ 2^E \in Int
  BY Parameters, TwoPositive DEF PseudoMersenne
<1>1. 0 \in T
  <2>1. M[0] = 1 /\ 2^0 = 1 /\ E * 0 = 0  BY <1>0, MersennePowerIs
  <2>2. Alike(P, 1, 1)
    <3>1. 1 \in Int  OBVIOUS
    <3> QED BY <1>0, <3>1, AlikeRefl
  <2> QED BY <2>1, <2>2
<1>2. ASSUME NEW k \in Nat, k \in T PROVE k + 1 \in T
  <2> DEFINE x == M[k]
             y == 2^(E * k)
             C == MersenneC
             t == 2^E
  <2>1. E * k \in Nat /\ E * (k + 1) = E + E * k  BY <1>0
  <2>2. x \in Int /\ y \in Int /\ M[k + 1] = C * x  BY <2>1, MersennePowerIs, TwoPositive
  <2>3. 2^(E + E * k) = t * y  BY <1>0, <2>1, TwoSum
  <2>4. Alike(P, x, y)  BY <1>2
  <2>5. C = t + (-1) * P /\ -1 \in Int  BY <1>0
  <2>6. Alike(P, C, t)  BY <2>5 DEF Alike
  <2> HIDE DEF x, y, C, t
  <2>7. C \in Int /\ t \in Int  BY <1>0 DEF C, t
  <2>8. Alike(P, C * x, t * y)  BY <1>0, <2>2, <2>4, <2>6, <2>7, AlikeProd
  <2> QED BY <2>1, <2>2, <2>3, <2>8
<1> HIDE DEF T
<1>3. \A k \in Nat : k \in T  BY <1>1, <1>2, Induction
<1> QED BY <1>3 DEF T

(* What a chunk of limbs is scaled by is alike its weight. *)
LEMMA ScaleAlike ==
  ASSUME PseudoMersenne, NEW x \in Nat
  PROVE  LET scale == MersennePower[x \div MersenneE] * 2^(x % MersenneE)
         IN  scale \in Nat \ {0} /\ Alike(P, scale, 2^x)
<1> DEFINE E == MersenneE
           q == x \div E
           r == x % E
           m == MersennePower[q]
           t == 2^r
           u == 2^(E * q)
<1>0. E \in Nat \ {0} /\ P \in Int  BY Parameters
<1>1. q \in Int /\ r \in 0 .. E - 1 /\ x = E * q + r  BY <1>0, DivMod
<1>2. q \in Nat
  <2>1. E \in Nat \ {0} /\ 1 \in Nat \ {0}  BY <1>0
  <2> QED BY <2>1, DivDiv
<1>3. r \in Nat  BY <1>0, <1>1
<1> HIDE DEF q, r
<1>4. m \in Nat \ {0} /\ t \in Nat \ {0}  BY <1>2, <1>3, MersennePowerIs, TwoPositive
<1>5. Alike(P, m, u)  BY <1>2, MersenneAlike
<1>6. E * q \in Nat  BY <1>0, <1>2
<1>7. u \in Nat  BY <1>6, TwoPositive
<1>8. 2^x = u * t
  <2>1. 2^(E * q + r) = u * t  BY <1>3, <1>6, TwoSum
  <2> QED BY <1>1, <2>1
<1> HIDE DEF m, t, u
<1>9. Alike(P, t, t)  BY <1>0, <1>4, AlikeRefl
<1>10. Alike(P, m * t, u * t)  BY <1>0, <1>4, <1>5, <1>7, <1>9, AlikeProd
<1>11. m * t \in Nat \ {0}  BY <1>4
<1> QED BY <1>8, <1>10, <1>11 DEF m, t, q, r

-----------------------------------------------------------------------------
(* Elements: what every operation makes of its operands. *)

(* A constant has no overflow, no other element one beyond the largest. *)
IsElem(e) ==
  /\ e.kind \in {"const", "var"} /\ (e.kind = "const" => e.ov = 0)
  /\ e.ov \in 0 .. MaxOv
  /\ e.limbs \in Seq(Nat)

(* It has the limbs of the modulus at least. *)
Full(e) == L <= Len(e.limbs)

(* r stands for what e does. *)
Keeps(r, e) ==
  /\ IsElem(r) /\ Alike(P, Num(r), Num(e))
  /\ (Fits(e) => Fits(r))
  /\ (Full(e) => Full(r))
  /\ (Len(e.limbs) <= L => Len(r.limbs) <= L)

(* What the assumption says of overflows and widths. *)
LEMMA Room ==
  /\ MaxOv \in Nat /\ W + MaxOv = Capacity /\ 2 <= MaxOv
  /\ 2^Capacity \in Nat \ {0} /\ 3 * 2^Capacity <= 2 * NativeModulus /\ 2^Capacity < NativeModulus
<1> DEFINE c == CeilLog2(L)
           z == 2^Capacity
<1>0. W \in Nat \ {0} /\ L \in Nat /\ L > 1 /\ Capacity \in Nat /\ NativeModulus \in Nat  BY Parameters
<1>1. c \in Nat
  <2>1. L - 1 \in Nat  BY <1>0
  <2> QED BY <2>1, BitsIs DEF CeilLog2
<1>2. W + c + 2 <= MaxOv /\ 3 * z <= 2 * NativeModulus  BY FieldAssumption, NativeRoom
<1>3. z \in Nat \ {0}  BY <1>0, TwoPositive
<1> HIDE DEF c, z
<1>4. MaxOv = Capacity - W  BY DEF MaxOv
<1>5. MaxOv \in Nat /\ W + MaxOv = Capacity /\ 2 <= MaxOv  BY <1>0, <1>1, <1>2, <1>4
<1>6. z < NativeModulus  BY <1>0, <1>2, <1>3
<1> QED BY <1>2, <1>3, <1>5, <1>6 DEF z

(* The modulus is below the weight of L limbs. *)
LEMMA ModulusFits == P < 2^(W * L)
<1>1. L * W = W * L  BY Parameters
<1> QED BY <1>1, FieldAssumption

(* What an element stands for is an integer. *)
LEMMA NumTyped ==
  ASSUME NEW e, e.limbs \in Seq(Nat)
  PROVE  Num(e) \in Int /\ e.limbs \in Seq(Int)
<1>1. e.limbs \in Seq(Int)  OBVIOUS
<1>2. Recompose(e.limbs, W) \in Int  BY <1>1, NumIs
<1> QED BY <1>1, <1>2 DEF Num

(* An element of digits. *)
LEMMA DigitsElem ==
  ASSUME NEW v \in Nat, NEW n \in Nat, v < 2^(W * n), NEW e, e.limbs = Digits(v, n), e.ov = 0,
         e.kind \in {"const", "var"}
  PROVE  IsElem(e) /\ Fits(e) /\ Num(e) = v /\ Len(e.limbs) = n
<1>1. Digits(v, n) \in Seq(Nat) /\ Len(Digits(v, n)) = n
      /\ \A i \in 1 .. n : Digits(v, n)[i] < 2^W
  BY DigitsTyped
<1>2. Num(e) = v  BY DigitsMake DEF Num
<1>3. IsElem(e)  BY <1>1, Room DEF IsElem
<1>4. W + e.ov = W
  <2>1. W \in Nat  BY Parameters
  <2> QED BY <2>1
<1>5. DOMAIN e.limbs = 1 .. n  BY <1>1
<1>6. Fits(e)  BY <1>1, <1>4, <1>5 DEF Fits
<1> QED BY <1>1, <1>2, <1>3, <1>6

(* A constant stands for its number. *)
LEMMA FromBigIs ==
  ASSUME NEW v \in Nat
  PROVE  /\ IsElem(FromBig(v)) /\ Fits(FromBig(v)) /\ Full(FromBig(v)) /\ FromBig(v).kind = "const"
         /\ FromBig(v).limbs \in Seq(Nat) /\ Len(FromBig(v).limbs) = L
         /\ Alike(P, Num(FromBig(v)), v) /\ Num(FromBig(v)) \in Nat
<1> DEFINE x == IF v > P THEN v % P ELSE v
           e == FromBig(v)
<1>0. P \in Nat \ {0} /\ L \in Nat /\ P \in Int  BY Parameters
<1>1. x \in Nat /\ x <= P /\ Alike(P, x, v)
  <2>1. CASE v > P
    <3>1. v % P \in 0 .. P - 1 /\ Alike(P, v % P, v)  BY <1>0, AlikeMod
    <3> DEFINE r == v % P
    <3>2. r \in 0 .. P - 1 /\ Alike(P, r, v) /\ x = r  BY <2>1, <3>1
    <3> HIDE DEF r, x
    <3>3. r \in Nat /\ r <= P  BY <1>0, <3>2
    <3> QED BY <3>2, <3>3
  <2>2. CASE ~(v > P)
    <3>1. Alike(P, v, v)  BY <1>0, AlikeRefl
    <3> QED BY <1>0, <2>2, <3>1
  <2> QED BY <2>1, <2>2
<1>2. e = [limbs |-> Digits(x, L), kind |-> "const", ov |-> 0]  BY DEF FromBig, Const
<1> HIDE DEF x
<1>3. x < 2^(W * L)
  <2> DEFINE y == 2^(W * L)
  <2>1. P < y  BY ModulusFits
  <2>2. y \in Nat  BY <1>0, Weights
  <2> HIDE DEF y
  <2>3. x < y  BY <1>0, <1>1, <2>1, <2>2
  <2> QED BY <2>3 DEF y
<1>4. e.limbs = Digits(x, L) /\ e.kind = "const" /\ e.ov = 0  BY <1>2
<1> HIDE DEF e
<1>5. e.kind \in {"const", "var"}  BY <1>4
<1>6. IsElem(e) /\ Fits(e) /\ Num(e) = x /\ Len(e.limbs) = L
  BY <1>0, <1>1, <1>3, <1>4, <1>5, DigitsElem
<1>7. Full(e)  BY <1>0, <1>6 DEF Full
<1>8. e.limbs \in Seq(Nat)  BY <1>6 DEF IsElem
<1> QED BY <1>1, <1>4, <1>6, <1>7, <1>8 DEF e

(* A hint that is allocated stands for the number hinted. *)
LEMMA HintIs ==
  ASSUME NEW v \in Nat, NEW n \in Nat, NEW strict \in BOOLEAN, Hint(v, n, strict).fate = "ok"
  PROVE  LET e == Hint(v, n, strict).elem
         IN  IsElem(e) /\ Fits(e) /\ Num(e) = v /\ Len(e.limbs) = n /\ e.ov = 0 /\ e.kind = "var"
<1> DEFINE e == Hint(v, n, strict).elem
<1>1. e = [limbs |-> Digits(v, n), kind |-> "var", ov |-> 0] /\ ~(Bits(v) > n * W)
  BY DEF Hint, Ok, Fails, Var
<1>2. e.limbs = Digits(v, n) /\ e.kind = "var" /\ e.ov = 0  BY <1>1
<1>3. v < 2^(W * n)
  <2> DEFINE k == W * n
  <2>1. W \in Nat  BY Parameters
  <2>2. k \in Nat /\ n * W = k  BY <2>1
  <2>3. Bits(v) \in Nat  BY BitsIs
  <2> HIDE DEF k
  <2>4. Bits(v) <= k  BY <1>1, <2>2, <2>3
  <2>5. v < 2^k  BY <2>2, <2>4, BitsFit
  <2> QED BY <2>5 DEF k
<1> HIDE DEF e
<1>4. e.kind \in {"const", "var"}  BY <1>2
<1>5. IsElem(e) /\ Fits(e) /\ Num(e) = v /\ Len(e.limbs) = n  BY <1>2, <1>3, <1>4, DigitsElem
<1> QED BY <1>2, <1>5 DEF e

(* An element keeps what it is, *)
LEMMA KeepsItself == ASSUME NEW e, IsElem(e) PROVE Keeps(e, e)
<1>1. Num(e) \in Int /\ P \in Int  BY NumTyped, Parameters DEF IsElem
<1>2. Alike(P, Num(e), Num(e))  BY <1>1, AlikeRefl
<1> QED BY <1>2 DEF Keeps

(* and so do the elements of a chain. *)
LEMMA KeepsTrans ==
  ASSUME NEW e, NEW f, NEW g, IsElem(e), Keeps(f, e), Keeps(g, f)
  PROVE  Keeps(g, e)
<1>1. Num(e) \in Int /\ Num(f) \in Int /\ Num(g) \in Int /\ P \in Int
  BY NumTyped, Parameters DEF IsElem, Keeps
<1>2. Alike(P, Num(g), Num(f)) /\ Alike(P, Num(f), Num(e))  BY DEF Keeps
<1>3. Alike(P, Num(g), Num(e))  BY <1>1, <1>2, AlikeTrans
<1> QED BY <1>3 DEF Keeps

(* Reducing an element keeps what it stands for. *)
LEMMA ReduceKeeps ==
  ASSUME NEW e, IsElem(e), Reduce(e).fate = "ok"
  PROVE  Keeps(Reduce(e).elem, e) /\ Reduce(e).elem.ov = 0
<1> DEFINE v == Num(e) % P
           h == Hint(v, L, TRUE)
<1>0. P \in Nat \ {0} /\ L \in Nat /\ Num(e) \in Int  BY Parameters, NumTyped DEF IsElem
<1>1. \/ e.ov = 0 /\ Reduce(e).elem = e
      \/ h.fate = "ok" /\ Reduce(e).elem = h.elem
  BY DEF Reduce, Then, Ok, Fails
<1>2. CASE e.ov = 0 /\ Reduce(e).elem = e  BY <1>2, KeepsItself
<1>3. CASE h.fate = "ok" /\ Reduce(e).elem = h.elem
  <2> DEFINE r == h.elem
  <2>1. v \in 0 .. P - 1 /\ Alike(P, v, Num(e))  BY <1>0, AlikeMod
  <2>2. v \in Nat /\ TRUE \in BOOLEAN
    <3> HIDE DEF v
    <3> QED BY <1>0, <2>1
  <2> HIDE DEF v
  <2>3. IsElem(r) /\ Fits(r) /\ Num(r) = v /\ Len(r.limbs) = L /\ r.ov = 0
    BY <1>0, <1>3, <2>2, HintIs
  <2> HIDE DEF r
  <2>4. L <= Len(r.limbs) /\ Len(r.limbs) <= L  BY <1>0, <2>3
  <2>5. Keeps(r, e)  BY <2>1, <2>3, <2>4 DEF Keeps, Full
  <2> QED BY <1>3, <2>3, <2>5 DEF r
<1> QED BY <1>1, <1>2, <1>3

(* A turn of the loop keeps what the operands stand for. *)
LEMMA FitOneKeeps ==
  ASSUME NEW p, IsElem(p[1]), IsElem(p[2]), NEW op, FitOne(p, op).fate = "ok"
  PROVE  LET q == FitOne(p, op).elem IN Keeps(q[1], p[1]) /\ Keeps(q[2], p[2])
<1> DEFINE q == FitOne(p, op).elem
           r == Reduce(p[1])
           s == Reduce(p[2])
<1>1. \/ q = p
      \/ s.fate = "ok" /\ q = <<p[1], s.elem>>
      \/ r.fate = "ok" /\ q = <<r.elem, p[2]>>
  BY DEF FitOne, Then, Ok, Fails
<1>2. Keeps(p[1], p[1]) /\ Keeps(p[2], p[2])  BY KeepsItself
<1>3. s.fate = "ok" => Keeps(s.elem, p[2])  BY ReduceKeeps
<1>4. r.fate = "ok" => Keeps(r.elem, p[1])  BY ReduceKeeps
<1> HIDE DEF r, s, q
<1>5. Keeps(q[1], p[1]) /\ Keeps(q[2], p[2])
  <2>1. CASE q = p  BY <1>2, <2>1
  <2>2. CASE s.fate = "ok" /\ q = <<p[1], s.elem>>
    <3>1. q[1] = p[1] /\ q[2] = s.elem  BY <2>2
    <3> QED BY <1>2, <1>3, <2>2, <3>1
  <2>3. CASE r.fate = "ok" /\ q = <<r.elem, p[2]>>
    <3>1. q[1] = r.elem /\ q[2] = p[2]  BY <2>3
    <3> QED BY <1>2, <1>4, <2>3, <3>1
  <2> QED BY <1>1, <2>1, <2>2, <2>3
<1> QED BY <1>5 DEF q

(* Operands that were made to fit stand for what they did, and fit. *)
LEMMA FitKeeps ==
  ASSUME NEW a, NEW b, IsElem(a), IsElem(b), NEW op, Fit(a, b, op).fate = "ok"
  PROVE  LET q == Fit(a, b, op).elem
         IN  Keeps(q[1], a) /\ Keeps(q[2], b) /\ NextOv(op, q[1], q[2]) <= MaxOv
<1> DEFINE p == <<a, b>>
           r == FitOne(p, op)
           s == FitOne(r.elem, op)
           q == Fit(a, b, op).elem
<1>1. r.fate = "ok" /\ s.fate = "ok" /\ q = s.elem /\ NextOv(op, q[1], q[2]) <= MaxOv
  BY DEF Fit, Then, Ok, Fails
<1>2. p[1] = a /\ p[2] = b  OBVIOUS
<1> HIDE DEF p
<1>3. Keeps(r.elem[1], a) /\ Keeps(r.elem[2], b)  BY <1>1, <1>2, FitOneKeeps
<1> HIDE DEF r
<1>4. IsElem(r.elem[1]) /\ IsElem(r.elem[2])  BY <1>3 DEF Keeps
<1>5. Keeps(s.elem[1], r.elem[1]) /\ Keeps(s.elem[2], r.elem[2])  BY <1>1, <1>4, FitOneKeeps
<1> HIDE DEF s, q
<1>6. Keeps(q[1], a)  BY <1>1, <1>3, <1>5, KeepsTrans
<1>7. Keeps(q[2], b)  BY <1>1, <1>3, <1>5, KeepsTrans
<1> QED BY <1>1, <1>6, <1>7 DEF q

-----------------------------------------------------------------------------
(* Sums and differences. *)

At(l, i) == IF i <= Len(l) THEN l[i] ELSE 0

(* k is the combination of l and m, limb by limb. *)
Combines(k, l, m, x, y, n) == \A i \in 1 .. n : At(k, i) = x * At(l, i) + y * At(m, i)

(* A combination of limbs stands for the combination of the numbers. *)
LEMMA LinearLimbs ==
  ASSUME NEW l \in Seq(Int), NEW m \in Seq(Int), NEW k \in Seq(Int), NEW n \in Nat,
         Len(l) <= n, Len(m) <= n, Len(k) <= n, NEW x \in Int, NEW y \in Int,
         Combines(k, l, m, x, y, n)
  PROVE  Recompose(k, W) = x * Recompose(l, W) + y * Recompose(m, W)
<1> DEFINE f == Weighted(l)
           g == Weighted(m)
           h == Weighted(k)
<1>1. Terms(f) /\ Terms(g) /\ Terms(h)  BY WeightedTerms
<1>2. ASSUME NEW i \in 1 .. n PROVE h[i] = x * f[i] + y * g[i]
  <2> DEFINE w == 2^(W * (i - 1))
             u == At(l, i)
             v == At(m, i)
             z == At(k, i)
  <2>1. i \in Nat \ {0} /\ i - 1 \in Nat  OBVIOUS
  <2>2. f[i] = u * w /\ g[i] = v * w /\ h[i] = z * w  BY <2>1 DEF Weighted, At
  <2>3. w \in Int  BY <2>1, Weights
  <2>4. u \in Int /\ v \in Int  BY <2>1 DEF At
  <2>5. z = x * u + y * v  BY DEF Combines
  <2> HIDE DEF w, u, v, z
  <2>6. (x * u + y * v) * w = x * (u * w) + y * (v * w)  BY <2>3, <2>4
  <2> HIDE DEF f, g, h
  <2> QED BY <2>2, <2>5, <2>6
<1> HIDE DEF f, g, h
<1>3. Total(h, n) = x * Total(f, n) + y * Total(g, n)
  <2>1. Mixes(h, f, g, x, y, n)  BY <1>2 DEF Mixes
  <2> QED BY <1>1, <2>1, TotalLinear
<1> QED BY <1>3, TotalBeyond DEF f, g, h

(* A limb is a number, and as wide as the overflow says. *)
LEMMA LimbFits ==
  ASSUME NEW e, IsElem(e), NEW i \in Nat \ {0}
  PROVE  /\ Limb(e, i) \in Nat /\ Limb(e, i) = At(e.limbs, i)
         /\ \A m \in Nat : Fits(e) /\ e.ov <= m => Limb(e, i) < 2^(W + m)
<1>0. W \in Nat /\ e.ov \in Nat /\ e.limbs \in Seq(Nat)  BY Parameters, Room DEF IsElem
<1>1. Limb(e, i) \in Nat  BY <1>0 DEF Limb
<1>2. ASSUME NEW m \in Nat, Fits(e), e.ov <= m PROVE Limb(e, i) < 2^(W + m)
  <2> DEFINE x == 2^(W + e.ov)
             y == 2^(W + m)
  <2>1. W + e.ov \in Nat /\ W + m \in Nat /\ W + e.ov <= W + m  BY <1>0, <1>2
  <2>2. x <= y /\ x \in Nat \ {0} /\ y \in Nat  BY <2>1, TwoMonotone, TwoPositive
  <2>3. Limb(e, i) < x
    <3>1. CASE i <= Len(e.limbs)
      <4>1. i \in DOMAIN e.limbs  BY <1>0, <3>1
      <4> QED BY <1>2, <3>1, <4>1 DEF Fits, Limb
    <3>2. CASE ~(i <= Len(e.limbs))
      <4>1. Limb(e, i) = 0  BY <3>2 DEF Limb
      <4> QED BY <2>2, <4>1
    <3> QED BY <3>1, <3>2
  <2> HIDE DEF x, y
  <2>4. Limb(e, i) < y  BY <1>1, <2>2, <2>3
  <2> QED BY <2>4 DEF y
<1> QED BY <1>1, <1>2 DEF Limb, At

(* A remainder by the native modulus is a number, and a smaller number its own. *)
LEMMA NativeMod ==
  ASSUME NEW x \in Int
  PROVE  /\ x % NativeModulus \in Nat
         /\ (0 <= x /\ x < NativeModulus => x % NativeModulus = x)
<1>0. NativeModulus \in Nat \ {0}  BY Parameters
<1>1. x % NativeModulus \in 0 .. NativeModulus - 1  BY <1>0, DivMod
<1>2. ASSUME 0 <= x, x < NativeModulus PROVE x % NativeModulus = x
  <2>1. x \in 0 .. NativeModulus - 1  BY <1>0, <1>2
  <2> QED BY <1>0, <2>1, ModSmall
<1>3. x % NativeModulus \in Nat
  <2> DEFINE r == x % NativeModulus
  <2>1. r \in 0 .. NativeModulus - 1  BY <1>1
  <2> HIDE DEF r
  <2>2. r \in Nat  BY <1>0, <2>1
  <2> QED BY <2>2 DEF r
<1> QED BY <1>2, <1>3

(* What is narrower than a limb with the largest overflow does not wrap around. *)
LEMMA Narrow ==
  ASSUME NEW m \in Nat, m <= MaxOv, NEW x \in Int, x < 2^(W + m)
  PROVE  x < NativeModulus
<1> DEFINE y == 2^(W + m)
           z == 2^Capacity
<1>1. W + m \in Nat /\ Capacity \in Nat /\ W + m <= Capacity  BY Parameters, Room
<1>2. y <= z /\ y \in Nat /\ z \in Nat /\ z < NativeModulus  BY <1>1, TwoMonotone, TwoPositive, Room
<1>3. NativeModulus \in Nat  BY Parameters
<1> HIDE DEF y, z
<1>4. ASSUME x < y PROVE x < NativeModulus  BY <1>2, <1>3, <1>4
<1> QED BY <1>4 DEF y

(* A variable that was computed. *)
LEMMA VarIs ==
  ASSUME NEW l \in Seq(Nat), NEW ov \in 0 .. MaxOv
  PROVE  IsElem(Var(l, ov)) /\ Var(l, ov).limbs = l /\ Var(l, ov).ov = ov /\ Var(l, ov).kind = "var"
BY DEF Var, IsElem

(* The longer of two lists. *)
LEMMA LongerIs ==
  ASSUME NEW a, NEW b, IsElem(a), IsElem(b)
  PROVE  Longer(a, b) \in Nat /\ Len(a.limbs) <= Longer(a, b) /\ Len(b.limbs) <= Longer(a, b)
<1>1. Len(a.limbs) \in Nat /\ Len(b.limbs) \in Nat  BY DEF IsElem
<1> QED BY <1>1 DEF Longer, Larger

(* A sum of elements stands for the sum. *)
LEMMA AddOpIs ==
  ASSUME NEW a, NEW b, IsElem(a), IsElem(b), AddNext(a, b) <= MaxOv
  PROVE  LET e == AddOp(a, b)
         IN  /\ IsElem(e) /\ (Full(a) \/ Full(b) => Full(e))
             /\ Fits(a) /\ Fits(b) => Fits(e) /\ Alike(P, Num(e), Num(a) + Num(b))
<1> DEFINE e == AddOp(a, b)
           m == Larger(a.ov, b.ov)
           n == Longer(a, b)
           x == Num(a)
           y == Num(b)
<1>0. /\ a.ov \in Nat /\ b.ov \in Nat /\ W \in Nat /\ P \in Nat \ {0} /\ x \in Int /\ y \in Int
      /\ a.limbs \in Seq(Int) /\ b.limbs \in Seq(Int) /\ Len(a.limbs) \in Nat /\ Len(b.limbs) \in Nat
      /\ L \in Nat
  BY Parameters, Room, NumTyped DEF IsElem
<1>1. CASE BothConst(a, b)
  <2> DEFINE v == (x + y) % P
  <2>1. e = FromBig(v)  BY <1>1 DEF AddOp
  <2>2. v \in Nat /\ Alike(P, v, x + y) /\ v \in Int
    <3>1. x + y \in Int  BY <1>0
    <3> DEFINE s == x + y
    <3> HIDE DEF s, x, y
    <3>2. s % P \in 0 .. P - 1 /\ Alike(P, s % P, s)  BY <1>0, <3>1, AlikeMod DEF s
    <3> QED BY <1>0, <3>2 DEF s
  <2> HIDE DEF v, x, y, e
  <2>3. IsElem(FromBig(v)) /\ Fits(FromBig(v)) /\ Full(FromBig(v)) /\ Alike(P, Num(FromBig(v)), v)
        /\ Num(FromBig(v)) \in Int
    BY <2>2, FromBigIs
  <2>4. Alike(P, Num(FromBig(v)), x + y)
    <3>1. x + y \in Int /\ P \in Int  BY <1>0
    <3> QED BY <2>2, <2>3, <3>1, AlikeTrans
  <2> QED BY <2>1, <2>3, <2>4 DEF x, y, e
<1>2. CASE ~BothConst(a, b)
  <2> DEFINE l == [i \in 1 .. n |-> (Limb(a, i) + Limb(b, i)) % NativeModulus]
  <2>1. e = Var(l, m + 1) /\ m + 1 <= MaxOv  BY <1>2 DEF AddOp, AddNext
  <2>2. m \in Nat /\ a.ov <= m /\ b.ov <= m  BY <1>0 DEF Larger
  <2>3. m + 1 \in 0 .. MaxOv
    <3> HIDE DEF m
    <3> QED BY <2>1, <2>2, Room
  <2>4. n \in Nat /\ Len(a.limbs) <= n /\ Len(b.limbs) <= n  BY LongerIs
  <2> HIDE DEF m, n
  <2>5. l \in Seq(Nat) /\ Len(l) = n /\ DOMAIN l = 1 .. n
    <3>1. ASSUME NEW i \in 1 .. n PROVE (Limb(a, i) + Limb(b, i)) % NativeModulus \in Nat
      <4>1. i \in Nat \ {0}  BY <2>4
      <4>2. Limb(a, i) + Limb(b, i) \in Int  BY <4>1, LimbFits
      <4> QED BY <4>2, NativeMod
    <3> QED BY <2>4, <3>1
  <2>6. l \in Seq(Int)  BY <2>5
  <2>7. \A i \in 1 .. n : l[i] = (Limb(a, i) + Limb(b, i)) % NativeModulus  OBVIOUS
  <2> HIDE DEF l
  <2>8. IsElem(e) /\ e.limbs = l /\ e.ov = m + 1  BY <2>1, <2>3, <2>5, VarIs
  <2> HIDE DEF e
  <2>9. Full(a) \/ Full(b) => Full(e)  BY <1>0, <2>4, <2>5, <2>8 DEF Full
  <2>10. ASSUME Fits(a), Fits(b) PROVE Fits(e) /\ Num(e) = x + y
    <3>1. ASSUME NEW i \in 1 .. n PROVE l[i] = Limb(a, i) + Limb(b, i) /\ l[i] < 2^(W + (m + 1))
      <4> DEFINE c == 2^(W + m)
                 d == 2^(W + (m + 1))
                 u == Limb(a, i)
                 v == Limb(b, i)
      <4>1. i \in Nat \ {0}  BY <2>4
      <4>2. u \in Nat /\ v \in Nat /\ u < c /\ v < c  BY <2>2, <2>10, <4>1, LimbFits
      <4>3. W + m \in Nat /\ W + (m + 1) = (W + m) + 1 /\ m + 1 \in Nat  BY <1>0, <2>2
      <4>4. c \in Nat /\ d = 2 * c  BY <4>3, Doubling
      <4> HIDE DEF c, d
      <4>5. u + v < d /\ u + v \in Int /\ 0 <= u + v  BY <4>2, <4>4
      <4>6. u + v < NativeModulus  BY <2>1, <4>3, <4>5, Narrow DEF d
      <4>7. (u + v) % NativeModulus = u + v  BY <4>5, <4>6, NativeMod
      <4> QED BY <2>7, <4>5, <4>7 DEF d
    <3>2. Fits(e)  BY <2>5, <2>8, <3>1 DEF Fits
    <3>3. \A i \in 1 .. n : At(l, i) = 1 * At(a.limbs, i) + 1 * At(b.limbs, i)
      <4> TAKE i \in 1 .. n
      <4>1. i \in Nat \ {0} /\ i <= Len(l)  BY <2>4, <2>5
      <4>2. At(l, i) = Limb(a, i) + Limb(b, i)  BY <3>1, <4>1 DEF At
      <4>3. Limb(a, i) = At(a.limbs, i) /\ Limb(b, i) = At(b.limbs, i)
            /\ Limb(a, i) \in Nat /\ Limb(b, i) \in Nat
        BY <4>1, LimbFits
      <4> HIDE DEF At
      <4> QED BY <4>2, <4>3
    <3>4. Len(l) <= n /\ 1 \in Int /\ Combines(l, a.limbs, b.limbs, 1, 1, n)
      BY <2>4, <2>5, <3>3 DEF Combines
    <3>5. Recompose(l, W) = 1 * Recompose(a.limbs, W) + 1 * Recompose(b.limbs, W)
      BY <1>0, <2>4, <2>6, <3>4, LinearLimbs
    <3>6. Num(e) = 1 * x + 1 * y  BY <2>8, <3>5 DEF Num
    <3> HIDE DEF x, y
    <3> QED BY <1>0, <3>2, <3>6
  <2>11. ASSUME Fits(a), Fits(b) PROVE Fits(e) /\ Alike(P, Num(e), x + y)
    <3>1. x + y \in Int /\ P \in Int  BY <1>0
    <3>2. Alike(P, x + y, x + y)  BY <3>1, AlikeRefl
    <3> QED BY <2>10, <2>11, <3>2
  <2> QED BY <2>8, <2>9, <2>11 DEF e
<1> QED BY <1>1, <1>2

(* And so does a sum whose operands were made to fit first. *)
LEMMA AddIs ==
  ASSUME NEW a, NEW b, IsElem(a), IsElem(b), Add(a, b).fate = "ok"
  PROVE  LET e == Add(a, b).elem
         IN  /\ IsElem(e) /\ (Full(a) \/ Full(b) => Full(e))
             /\ Fits(a) /\ Fits(b) => Fits(e) /\ Alike(P, Num(e), Num(a) + Num(b))
<1> DEFINE r == Fit(a, b, "add")
           q == r.elem
           e == Add(a, b).elem
<1>1. r.fate = "ok" /\ e = AddOp(q[1], q[2])  BY DEF Add, Then, Ok
<1>2. Keeps(q[1], a) /\ Keeps(q[2], b) /\ NextOv("add", q[1], q[2]) <= MaxOv  BY <1>1, FitKeeps
<1>3. AddNext(q[1], q[2]) <= MaxOv  BY <1>2 DEF NextOv
<1> HIDE DEF r, q, e
<1>4. IsElem(q[1]) /\ IsElem(q[2])  BY <1>2 DEF Keeps
<1>5. /\ IsElem(e) /\ (Full(q[1]) \/ Full(q[2]) => Full(e))
      /\ Fits(q[1]) /\ Fits(q[2]) => Fits(e) /\ Alike(P, Num(e), Num(q[1]) + Num(q[2]))
  BY <1>1, <1>3, <1>4, AddOpIs
<1>6. Full(a) \/ Full(b) => Full(e)  BY <1>2, <1>5 DEF Keeps
<1>7. ASSUME Fits(a), Fits(b) PROVE Fits(e) /\ Alike(P, Num(e), Num(a) + Num(b))
  <2>1. Fits(e) /\ Alike(P, Num(e), Num(q[1]) + Num(q[2]))  BY <1>2, <1>5, <1>7 DEF Keeps
  <2>2. Alike(P, Num(q[1]), Num(a)) /\ Alike(P, Num(q[2]), Num(b))  BY <1>2 DEF Keeps
  <2>3. Num(q[1]) \in Int /\ Num(q[2]) \in Int /\ Num(a) \in Int /\ Num(b) \in Int /\ Num(e) \in Int
        /\ P \in Int
    BY SMTT(60), <1>4, <1>5, NumTyped, Parameters DEF IsElem
  <2>4. Alike(P, Num(q[1]) + Num(q[2]), Num(a) + Num(b))  BY <2>2, <2>3, AlikeSum
  <2>5. Num(q[1]) + Num(q[2]) \in Int /\ Num(a) + Num(b) \in Int  BY <2>3
  <2>6. Alike(P, Num(e), Num(a) + Num(b))  BY <2>1, <2>3, <2>4, <2>5, AlikeTrans
  <2> QED BY <2>1, <2>6
<1> QED BY <1>5, <1>6, <1>7 DEF e

(* The weight of n limbs, when there are at least those of the modulus. *)
LEMMA WeightCovers ==
  ASSUME NEW n \in Nat, L <= n
  PROVE  P < 2^(W * n)
<1> DEFINE j == W * L
           k == W * n
           x == 2^j
           y == 2^k
<1>1. W \in Nat /\ L \in Nat /\ P \in Nat  BY Parameters
<1>2. W * L \in Nat /\ W * n \in Nat /\ W * L <= W * n
  <2>1. n - L \in Nat /\ W * n = W * L + W * (n - L)  BY <1>1
  <2>2. W * (n - L) \in Nat  BY <1>1, <2>1
  <2> QED BY <1>1, <2>1, <2>2
<1>3. P < x  BY ModulusFits
<1>4. j \in Nat /\ k \in Nat /\ j <= k  BY <1>2
<1> HIDE DEF j, k
<1>5. x <= y /\ x \in Nat /\ y \in Nat  BY <1>4, TwoMonotone, TwoPositive
<1> HIDE DEF x, y
<1>6. P < y  BY <1>1, <1>3, <1>5
<1> QED BY <1>6 DEF y, k

(* The padding is a multiple of P, of limbs barely above those of a subtrahend. *)
LEMMA PaddingIs ==
  ASSUME NEW ov \in Nat, NEW n \in Nat, L <= n
  PROVE  LET pad == SubPadding(ov, n)
         IN  /\ pad \in Seq(Nat) /\ Len(pad) = n /\ DOMAIN pad = 1 .. n
             /\ \A i \in 1 .. n : 2^(ov + W) <= pad[i] /\ pad[i] < 2^(ov + W) + 2^W
             /\ Alike(P, Recompose(pad, W), 0)
<1> DEFINE t == 2^(ov + W)
           b == 2^W
           u == [i \in 1 .. n |-> t]
           U == Recompose(u, W)
           delta == P - (U % P)
           d == Digits(delta, n)
           pad == SubPadding(ov, n)
<1>0. W \in Nat /\ L \in Nat /\ P \in Nat \ {0} /\ ov + W \in Nat  BY Parameters
<1>1. t \in Nat /\ b \in Nat  BY <1>0, TwoPositive
<1>2. pad = [i \in 1 .. n |-> u[i] + d[i]]  BY DEF SubPadding
<1> HIDE DEF t, b, pad
<1>3. u \in Seq(Int) /\ Len(u) = n /\ \A i \in 1 .. n : u[i] = t  BY <1>1
<1> HIDE DEF u
<1>4. U \in Int  BY <1>3, NumIs
<1> HIDE DEF U
<1>5. delta \in Nat /\ delta <= P /\ Alike(P, U + delta, 0)
  <2> DEFINE q == U \div P
             r == U % P
  <2>1. q \in Int /\ r \in 0 .. P - 1 /\ U = P * q + r  BY <1>0, <1>4, DivMod
  <2> HIDE DEF q, r
  <2>2. delta = P - r  BY DEF r
  <2> HIDE DEF delta
  <2>3. delta \in Nat /\ delta <= P  BY <1>0, <2>1, <2>2
  <2>4. U + delta = 0 + (q + 1) * P /\ q + 1 \in Int  BY <1>0, <2>1, <2>2
  <2> QED BY <2>3, <2>4 DEF Alike
<1> HIDE DEF delta
<1>6. delta < 2^(W * n)
  <2> DEFINE y == 2^(W * n)
  <2>1. P < y /\ y \in Nat  BY WeightCovers, Weights
  <2> HIDE DEF y
  <2>2. delta < y  BY <1>0, <1>5, <2>1
  <2> QED BY <2>2 DEF y
<1>7. d \in Seq(Nat) /\ Len(d) = n /\ \A i \in 1 .. n : d[i] < b  BY <1>5, DigitsTyped DEF b
<1>8. Recompose(d, W) = delta  BY <1>5, <1>6, DigitsMake
<1> HIDE DEF d
<1>9. d \in Seq(Int) /\ \A i \in 1 .. n : d[i] \in Nat  BY <1>7
<1>10. ASSUME NEW i \in 1 .. n PROVE pad[i] = t + d[i] /\ pad[i] \in Nat /\ t <= pad[i] /\ pad[i] < t + b
  <2>1. pad[i] = t + d[i] /\ d[i] \in Nat /\ d[i] < b  BY <1>2, <1>3, <1>7, <1>9
  <2> QED BY <1>1, <2>1
<1>11. pad \in Seq(Nat) /\ Len(pad) = n /\ DOMAIN pad = 1 .. n  BY <1>2, <1>3, <1>10
<1>12. pad \in Seq(Int)  BY <1>11
<1>13. Combines(pad, u, d, 1, 1, n)
  <2>1. ASSUME NEW i \in 1 .. n PROVE At(pad, i) = 1 * At(u, i) + 1 * At(d, i)
    <3>1. At(pad, i) = t + d[i] /\ At(u, i) = t /\ At(d, i) = d[i] /\ d[i] \in Nat
      BY <1>3, <1>7, <1>9, <1>10, <1>11 DEF At
    <3> QED BY <1>1, <3>1
  <2> QED BY <2>1 DEF Combines
<1>14. Recompose(pad, W) = 1 * U + 1 * delta
  <2>1. Len(pad) <= n /\ Len(u) <= n /\ Len(d) <= n /\ 1 \in Int  BY <1>3, <1>7, <1>11
  <2>2. Recompose(pad, W) = 1 * Recompose(u, W) + 1 * Recompose(d, W)
    BY <1>3, <1>9, <1>12, <1>13, <2>1, LinearLimbs
  <2> QED BY <1>8, <2>2 DEF U
<1>15. 1 * U + 1 * delta = U + delta  BY <1>4, <1>5
<1>16. Alike(P, Recompose(pad, W), 0)  BY <1>5, <1>14, <1>15
<1> QED BY <1>10, <1>11, <1>16 DEF pad, t, b

(* With it no limb of a difference is negative, nor wraps around. *)
LEMMA DifferenceLimb ==
  ASSUME NEW a, NEW b, IsElem(a), IsElem(b), SubNext(a, b) <= MaxOv, Fits(a), Fits(b),
         NEW i \in Nat \ {0}, NEW x \in Nat, 2^(b.ov + W) <= x, x < 2^(b.ov + W) + 2^W
  PROVE  ((x + Limb(a, i)) - Limb(b, i)) % NativeModulus = (x + Limb(a, i)) - Limb(b, i)
<1> DEFINE u == Limb(a, i)
           v == Limb(b, i)
           s == 2^(b.ov + W)
           t == 2^W
           z == 2^Capacity
<1>0. /\ a.ov \in Nat /\ b.ov \in Nat /\ W \in Nat \ {0} /\ a.ov <= MaxOv /\ b.ov + 2 <= MaxOv
      /\ Capacity \in Nat /\ NativeModulus \in Nat /\ W + MaxOv = Capacity /\ MaxOv \in Nat
  BY SMTT(60), Parameters, Room DEF IsElem, SubNext, Larger
<1>1. u \in Nat /\ v \in Nat /\ u < z /\ v < s
  <2>1. u \in Nat /\ v \in Nat /\ u < 2^(W + MaxOv)  BY <1>0, LimbFits
  <2>2. v < 2^(W + b.ov)
    <3>1. b.ov <= b.ov  BY <1>0
    <3> QED BY <1>0, <3>1, LimbFits
  <2>3. W + b.ov = b.ov + W  BY <1>0
  <2> QED BY <1>0, <2>1, <2>2, <2>3
<1>2. s \in Nat /\ t \in Nat /\ z \in Nat /\ t <= s /\ 4 * s <= z
  <2> DEFINE j == b.ov + W
             y == 2^(j + 2)
  <2>1. j \in Nat /\ W <= j /\ j + 2 <= Capacity /\ j + 1 \in Nat /\ j + 2 \in Nat /\ (j + 1) + 1 = j + 2
    BY <1>0
  <2>2. s = 2^j  OBVIOUS
  <2> HIDE DEF j
  <2>3. 2^(j + 1) = 2 * 2^j /\ 2^((j + 1) + 1) = 2 * 2^(j + 1)  BY <2>1, Doubling
  <2>4. 2^W <= 2^j  BY <1>0, <2>1, TwoMonotone
  <2>5. y <= z  BY <1>0, <2>1, TwoMonotone
  <2>6. s \in Nat /\ t \in Nat /\ z \in Nat /\ 2^(j + 1) \in Nat  BY <1>0, <2>1, <2>2, TwoPositive
  <2>7. y = 2 * 2^(j + 1)  BY <2>1, <2>3
  <2> DEFINE k == 2^(j + 1)
  <2>8. k = 2 * s /\ y = 2 * k /\ t <= s /\ y <= z /\ k \in Nat  BY <2>2, <2>3, <2>4, <2>5, <2>6, <2>7
  <2> HIDE DEF k, y, s, t, z
  <2> QED BY <2>6, <2>8
<1>3. 3 * z <= 2 * NativeModulus  BY Room
<1>4. s <= x /\ x < s + t  OBVIOUS
<1> HIDE DEF u, v, s, t, z
<1> DEFINE y == (x + u) - v
<1>5. y \in Int /\ 0 <= y  BY <1>1, <1>2, <1>4
<1>6. 2 * (x + u) < 3 * z  BY <1>1, <1>2, <1>4
<1>7. y < NativeModulus
  <2>1. y <= x + u  BY <1>1
  <2> HIDE DEF y
  <2>2. 2 * y <= 2 * (x + u)  BY <1>1, <1>5, <2>1
  <2>3. 2 * y < 2 * NativeModulus  BY <1>0, <1>1, <1>2, <1>3, <1>5, <1>6, <2>2
  <2> QED BY <1>0, <1>5, <2>3
<1> HIDE DEF y
<1>8. y % NativeModulus = y  BY <1>5, <1>7, NativeMod
<1> QED BY <1>8 DEF y, u, v

(* A difference stands for the difference, as wide as it may have become. *)
LEMMA SubOpIs ==
  ASSUME NEW a, NEW b, IsElem(a), IsElem(b), SubNext(a, b) <= MaxOv, Full(a) \/ Full(b)
  PROVE  LET e == SubOp(a, b)
         IN  /\ IsElem(e) /\ Full(e)
             /\ Fits(a) /\ Fits(b) => Alike(P, Num(e), Num(a) - Num(b))
<1> DEFINE e == SubOp(a, b)
           ov == SubNext(a, b)
           n == Longer(a, b)
           x == Num(a)
           y == Num(b)
<1>0. /\ a.ov \in Nat /\ b.ov \in Nat /\ W \in Nat /\ P \in Nat \ {0} /\ x \in Int /\ y \in Int
      /\ a.limbs \in Seq(Int) /\ b.limbs \in Seq(Int) /\ Len(a.limbs) \in Nat /\ Len(b.limbs) \in Nat
      /\ L \in Nat /\ P \in Int /\ x - y \in Int
  BY Parameters, Room, NumTyped DEF IsElem
<1>1. CASE BothConst(a, b)
  <2> DEFINE v == IF x >= y THEN (x - y) % P ELSE P - ((y - x) % P)
  <2>1. e = FromBig(v)  BY <1>1 DEF SubOp
  <2> HIDE DEF x, y, e
  <2>2. v \in Nat /\ Alike(P, v, x - y)
    <3>1. CASE x >= y
      <4> DEFINE s == x - y
                 r == s % P
      <4> HIDE DEF s
      <4>1. s \in Int  BY <1>0 DEF s
      <4>2. r \in 0 .. P - 1 /\ Alike(P, r, s)  BY <1>0, <4>1, AlikeMod
      <4> HIDE DEF r
      <4>3. r \in Nat  BY <1>0, <4>2
      <4> QED BY <3>1, <4>2, <4>3 DEF r, s
    <3>2. CASE ~(x >= y)
      <4> DEFINE s == y - x
                 r == s % P
                 q == s \div P
      <4> HIDE DEF s
      <4>1. s \in Int  BY <1>0 DEF s
      <4>2. q \in Int /\ r \in 0 .. P - 1 /\ s = P * q + r  BY <1>0, <4>1, DivMod
      <4>3. v = P - r  BY <3>2 DEF s
      <4> HIDE DEF r, q, v
      <4>4. v \in Nat  BY <1>0, <4>2, <4>3
      <4>5. x - y = -s  BY <1>0 DEF s
      <4>6. P - r = -(P * q + r) + (q + 1) * P  BY <1>0, <4>2
      <4>7. v = (x - y) + (q + 1) * P /\ q + 1 \in Int  BY <4>2, <4>3, <4>5, <4>6
      <4>8. Alike(P, v, x - y)  BY <4>7 DEF Alike
      <4> QED BY <4>4, <4>8
    <3> QED BY <3>1, <3>2
  <2> HIDE DEF v
  <2>3. IsElem(FromBig(v)) /\ Full(FromBig(v)) /\ Alike(P, Num(FromBig(v)), v)
        /\ Num(FromBig(v)) \in Int
    BY <2>2, FromBigIs
  <2>4. Alike(P, Num(FromBig(v)), x - y)
    <3>1. v \in Int  BY <2>2
    <3> QED BY <1>0, <2>2, <2>3, <3>1, AlikeTrans
  <2> QED BY <2>1, <2>3, <2>4 DEF x, y, e
<1>2. CASE ~BothConst(a, b)
  <2> DEFINE pad == SubPadding(b.ov, n)
             l == [i \in DOMAIN pad |-> ((pad[i] + Limb(a, i)) - Limb(b, i)) % NativeModulus]
  <2>1. e = Var(l, ov)  BY <1>2 DEF SubOp
  <2>2. ov \in 0 .. MaxOv  BY SMTT(60), <1>0, Room DEF SubNext, Larger
  <2>3. n \in Nat /\ Len(a.limbs) <= n /\ Len(b.limbs) <= n  BY LongerIs
  <2> HIDE DEF ov, n
  <2>4. L <= n  BY <1>0, <2>3 DEF Full
  <2>5. /\ pad \in Seq(Nat) /\ Len(pad) = n /\ DOMAIN pad = 1 .. n
        /\ \A i \in 1 .. n : 2^(b.ov + W) <= pad[i] /\ pad[i] < 2^(b.ov + W) + 2^W
        /\ Alike(P, Recompose(pad, W), 0)
    BY <1>0, <2>3, <2>4, PaddingIs
  <2> HIDE DEF pad
  <2>6. \A i \in 1 .. n : pad[i] \in Nat /\ i \in Nat \ {0}  BY <2>3, <2>5
  <2>7. l \in Seq(Nat) /\ Len(l) = n
    <3>1. ASSUME NEW i \in 1 .. n PROVE ((pad[i] + Limb(a, i)) - Limb(b, i)) % NativeModulus \in Nat
      <4>1. Limb(a, i) \in Nat /\ Limb(b, i) \in Nat  BY <2>6, LimbFits
      <4>2. (pad[i] + Limb(a, i)) - Limb(b, i) \in Int  BY <2>6, <4>1
      <4> QED BY <4>2, NativeMod
    <3> QED BY <2>3, <2>5, <3>1
  <2>8. \A i \in 1 .. n : l[i] = ((pad[i] + Limb(a, i)) - Limb(b, i)) % NativeModulus  BY <2>5
  <2> HIDE DEF l
  <2>9. IsElem(e) /\ e.limbs = l  BY <2>1, <2>2, <2>7, VarIs
  <2> HIDE DEF e
  <2>10. Full(e)  BY <2>4, <2>7, <2>9 DEF Full
  <2>11. ASSUME Fits(a), Fits(b) PROVE Alike(P, Num(e), x - y)
    <3> DEFINE s == [i \in 1 .. n |-> pad[i] + Limb(a, i)]
               z == Recompose(pad, W)
    <3>1. s \in Seq(Int) /\ Len(s) = n /\ pad \in Seq(Int) /\ l \in Seq(Int)
      <4>1. \A i \in 1 .. n : Limb(a, i) \in Nat  BY <2>6, LimbFits
      <4>2. \A i \in 1 .. n : pad[i] + Limb(a, i) \in Int  BY <2>6, <4>1
      <4> QED BY <2>3, <2>5, <2>7, <4>2
    <3>2. Combines(s, pad, a.limbs, 1, 1, n)
      <4>1. ASSUME NEW i \in 1 .. n PROVE At(s, i) = 1 * At(pad, i) + 1 * At(a.limbs, i)
        <5>1. Limb(a, i) \in Nat /\ Limb(a, i) = At(a.limbs, i)  BY <2>6, LimbFits
        <5>2. At(s, i) = pad[i] + Limb(a, i) /\ At(pad, i) = pad[i]  BY <2>5, <3>1 DEF At
        <5> QED BY <2>6, <5>1, <5>2
      <4> QED BY <4>1 DEF Combines
    <3>14. PICK neg \in Int : neg = -1  OBVIOUS
    <3>15. neg \in Int  OBVIOUS
    <3>3. Combines(l, s, b.limbs, 1, neg, n)
      <4>1. ASSUME NEW i \in 1 .. n PROVE At(l, i) = 1 * At(s, i) + neg * At(b.limbs, i)
        <5>1. Limb(a, i) \in Nat /\ Limb(b, i) \in Nat /\ Limb(b, i) = At(b.limbs, i)  BY <2>6, LimbFits
        <5>2. At(s, i) = pad[i] + Limb(a, i)
          <6>1. s[i] = pad[i] + Limb(a, i) /\ i <= Len(s)  BY <2>3, <3>1
          <6> HIDE DEF s
          <6> QED BY <6>1 DEF At
        <5>3. At(l, i) = l[i]  BY <2>7 DEF At
        <5>4. l[i] = (pad[i] + Limb(a, i)) - Limb(b, i)
          BY <2>5, <2>6, <2>8, <2>11, DifferenceLimb
        <5> QED BY <2>6, <3>14, <5>1, <5>2, <5>3, <5>4
      <4> QED BY <4>1 DEF Combines
    <3> HIDE DEF s
    <3>4. Len(l) <= n /\ Len(s) <= n /\ Len(pad) <= n /\ 1 \in Int  BY <2>3, <2>5, <2>7, <3>1
    <3>5. Recompose(s, W) = 1 * Recompose(pad, W) + 1 * Recompose(a.limbs, W)
      BY SMTT(60), <1>0, <2>3, <3>1, <3>2, <3>4, LinearLimbs
    <3>16. /\ l \in Seq(Int) /\ s \in Seq(Int) /\ b.limbs \in Seq(Int) /\ n \in Nat
           /\ Len(l) <= n /\ Len(s) <= n /\ Len(b.limbs) <= n /\ 1 \in Int
      BY <1>0, <2>3, <3>1, <3>4
    <3>6. Recompose(l, W) = 1 * Recompose(s, W) + neg * Recompose(b.limbs, W)
      BY <3>3, <3>15, <3>16, LinearLimbs
    <3>7. z \in Int  BY <3>1, NumIs
    <3>8. Num(e) = 1 * (1 * z + 1 * x) + neg * y  BY <2>9, <3>5, <3>6 DEF Num
    <3>9. Alike(P, z, 0)  BY <2>5
    <3> HIDE DEF x, y, z
    <3>10. Num(e) = z + (x - y)  BY <1>0, <3>7, <3>8, <3>14
    <3>11. Alike(P, x - y, x - y) /\ 0 \in Int  BY <1>0, AlikeRefl
    <3>12. Alike(P, z + (x - y), 0 + (x - y))  BY <1>0, <3>7, <3>9, <3>11, AlikeSum
    <3>13. 0 + (x - y) = x - y  BY <1>0
    <3> QED BY <3>10, <3>12, <3>13
  <2> QED BY <2>9, <2>10, <2>11 DEF e
<1> QED BY <1>1, <1>2

(* And so does one whose operands were made to fit first. *)
LEMMA SubIs ==
  ASSUME NEW a, NEW b, IsElem(a), IsElem(b), Full(a) \/ Full(b), Sub(a, b).fate = "ok"
  PROVE  LET e == Sub(a, b).elem
         IN  /\ IsElem(e) /\ Full(e)
             /\ Fits(a) /\ Fits(b) => Alike(P, Num(e), Num(a) - Num(b))
<1> DEFINE r == Fit(a, b, "sub")
           q == r.elem
           e == Sub(a, b).elem
<1>1. r.fate = "ok" /\ e = SubOp(q[1], q[2])  BY DEF Sub, Then, Ok
<1>2. Keeps(q[1], a) /\ Keeps(q[2], b) /\ NextOv("sub", q[1], q[2]) <= MaxOv  BY <1>1, FitKeeps
<1>3. SubNext(q[1], q[2]) <= MaxOv  BY <1>2 DEF NextOv
<1> HIDE DEF r, q, e
<1>4. IsElem(q[1]) /\ IsElem(q[2]) /\ (Full(q[1]) \/ Full(q[2]))  BY <1>2 DEF Keeps
<1>5. IsElem(e) /\ Full(e) /\ (Fits(q[1]) /\ Fits(q[2]) => Alike(P, Num(e), Num(q[1]) - Num(q[2])))
  BY <1>1, <1>3, <1>4, SubOpIs
<1>6. ASSUME Fits(a), Fits(b) PROVE Alike(P, Num(e), Num(a) - Num(b))
  <2>1. Alike(P, Num(e), Num(q[1]) - Num(q[2]))  BY <1>2, <1>5, <1>6 DEF Keeps
  <2>2. Alike(P, Num(q[1]), Num(a)) /\ Alike(P, Num(q[2]), Num(b))  BY <1>2 DEF Keeps
  <2>3. Num(q[1]) \in Int /\ Num(q[2]) \in Int /\ Num(a) \in Int /\ Num(b) \in Int /\ Num(e) \in Int
        /\ P \in Int
    BY SMTT(60), <1>4, <1>5, NumTyped, Parameters DEF IsElem
  <2>4. Alike(P, Num(q[1]) - Num(q[2]), Num(a) - Num(b))  BY <2>2, <2>3, AlikeDiff
  <2>5. Num(q[1]) - Num(q[2]) \in Int /\ Num(a) - Num(b) \in Int  BY <2>3
  <2> QED BY <2>1, <2>3, <2>4, <2>5, AlikeTrans
<1> QED BY <1>5, <1>6 DEF e

-----------------------------------------------------------------------------
(* Multiples. *)

(* Limbs times a constant stand for the multiple. *)
LEMMA ScaledIs ==
  ASSUME NEW e, IsElem(e), NEW c \in Nat, Bits(c) + e.ov <= MaxOv
  PROVE  LET l == [i \in DOMAIN e.limbs |-> (e.limbs[i] * c) % NativeModulus]
             m == Var(l, Bits(c) + e.ov)
         IN  /\ IsElem(m) /\ Len(m.limbs) = Len(e.limbs)
             /\ Fits(e) => Fits(m) /\ Num(m) = Num(e) * c
<1> DEFINE l == [i \in DOMAIN e.limbs |-> (e.limbs[i] * c) % NativeModulus]
           k == Bits(c)
           ov == k + e.ov
           m == Var(l, ov)
           n == Len(e.limbs)
           x == Num(e)
<1>0. /\ e.ov \in Nat /\ W \in Nat /\ k \in Nat /\ c < 2^k /\ n \in Nat /\ x \in Int
      /\ e.limbs \in Seq(Int) /\ DOMAIN e.limbs = 1 .. n /\ \A i \in 1 .. n : e.limbs[i] \in Nat
  <2>1. k \in Nat /\ c < 2^k  BY BitsIs
  <2>2. e.limbs \in Seq(Nat) /\ e.ov \in Nat /\ W \in Nat  BY Parameters, Room DEF IsElem
  <2>3. x \in Int /\ e.limbs \in Seq(Int)  BY <2>2, NumTyped
  <2> HIDE DEF k, x
  <2>4. n \in Nat /\ DOMAIN e.limbs = 1 .. n /\ \A i \in 1 .. n : e.limbs[i] \in Nat  BY <2>2
  <2> QED BY <2>1, <2>2, <2>3, <2>4
<1>1. ov \in 0 .. MaxOv
  <2> HIDE DEF k
  <2> QED BY SMTT(60), <1>0, Room DEF k
<1> HIDE DEF k
<1>6. W + e.ov \in Nat /\ W + ov = (W + e.ov) + k /\ ov \in Nat /\ ov <= MaxOv
  <2>1. e.ov \in Nat /\ W \in Nat /\ k \in Nat  BY <1>0
  <2>2. MaxOv \in Nat  BY Room
  <2>3. ov <= MaxOv /\ ov \in Nat
    <3> HIDE DEF ov
    <3> QED BY <1>1, <2>2
  <2> QED BY <2>1, <2>3
<1>2. l \in Seq(Nat) /\ Len(l) = n
  <2>1. ASSUME NEW i \in 1 .. n PROVE (e.limbs[i] * c) % NativeModulus \in Nat
    <3>1. e.limbs[i] * c \in Int  BY <1>0
    <3> QED BY <3>1, NativeMod
  <2> QED BY <1>0, <2>1
<1>3. \A i \in 1 .. n : l[i] = (e.limbs[i] * c) % NativeModulus  BY <1>0
<1> HIDE DEF l
<1>4. IsElem(m) /\ m.limbs = l /\ m.ov = ov  BY <1>1, <1>2, VarIs
<1> HIDE DEF m
<1>5. ASSUME Fits(e) PROVE Fits(m) /\ Num(m) = x * c
  <2>1. ASSUME NEW i \in 1 .. n PROVE l[i] = e.limbs[i] * c /\ l[i] < 2^(W + ov)
    <3> DEFINE u == e.limbs[i]
               s == 2^(W + e.ov)
               t == 2^k
               y == u * c
    <3>1. W + e.ov \in Nat /\ W + ov = (W + e.ov) + k /\ ov \in Nat /\ ov <= MaxOv
      BY <1>6
    <3>2. 2^((W + e.ov) + k) = s * t /\ s \in Nat \ {0} /\ t \in Nat \ {0}
      BY <1>0, <3>1, TwoSum, TwoPositive
    <3>3. u \in Nat /\ u < s /\ c < t  BY <1>0, <1>5 DEF Fits
    <3> HIDE DEF s, t, u
    <3>4. u + 1 <= s /\ c + 1 <= t  BY <3>2, <3>3
    <3>5. y < s * t
      <4>1. (u + 1) * c <= s * c  BY <3>2, <3>3, <3>4
      <4>2. s * (c + 1) <= s * t  BY <3>2, <3>3, <3>4
      <4>3. (u + 1) * c = y + c /\ s * (c + 1) = s * c + s /\ y \in Int /\ s * c \in Int /\ s * t \in Int
        BY <3>2, <3>3
      <4> QED BY <3>2, <3>3, <4>1, <4>2, <4>3
    <3>6. y \in Int /\ 0 <= y  BY <3>3
    <3>7. y < 2^(W + ov)  BY <3>1, <3>2, <3>5
    <3> HIDE DEF y, ov
    <3>8. y < NativeModulus  BY <3>1, <3>6, <3>7, Narrow
    <3>9. y % NativeModulus = y  BY <3>6, <3>8, NativeMod
    <3> QED BY <1>3, <3>7, <3>9 DEF y, u
  <2>2. DOMAIN l = 1 .. n  BY <1>2
  <2>3. Fits(m)  BY <1>4, <2>1, <2>2 DEF Fits
  <2>4. Combines(l, e.limbs, e.limbs, c, 0, n)
    <3>1. ASSUME NEW i \in 1 .. n PROVE At(l, i) = c * At(e.limbs, i) + 0 * At(e.limbs, i)
      <4>1. At(l, i) = e.limbs[i] * c /\ At(e.limbs, i) = e.limbs[i]  BY <1>2, <2>1 DEF At
      <4>2. e.limbs[i] \in Nat  BY <1>0
      <4> QED BY <4>1, <4>2
    <3> QED BY <3>1 DEF Combines
  <2>5. l \in Seq(Int) /\ Len(l) <= n /\ n <= n /\ c \in Int /\ 0 \in Int  BY <1>0, <1>2
  <2>6. Recompose(l, W) = c * Recompose(e.limbs, W) + 0 * Recompose(e.limbs, W)
    BY SMTT(60), <1>0, <2>4, <2>5, LinearLimbs
  <2>7. Num(m) = c * x + 0 * x  BY <1>4, <2>6 DEF Num
  <2> HIDE DEF x
  <2>8. Num(m) = x * c  BY <1>0, <2>7
  <2> QED BY <2>3, <2>8
<1> QED BY <1>2, <1>4, <1>5 DEF m, l, k

(* So does the element that mul_const makes. *)
LEMMA MulConstIs ==
  ASSUME NEW e, IsElem(e), NEW c \in Nat, MulConst(e, c).fate = "ok"
  PROVE  LET m == MulConst(e, c).elem
         IN  /\ IsElem(m) /\ (Full(e) => Full(m))
             /\ Fits(e) => Fits(m) /\ Alike(P, Num(m), Num(e) * c)
<1> DEFINE k == Bits(c)
           scaled(x, ov) == Var([i \in DOMAIN x.limbs |-> (x.limbs[i] * c) % NativeModulus], ov)
           m == MulConst(e, c).elem
           r == Reduce(e)
<1>0. k \in Nat /\ e.ov \in Nat /\ P \in Int /\ Num(e) \in Int
  <2>1. k \in Nat  BY BitsIs
  <2>2. e.limbs \in Seq(Nat) /\ e.ov \in Nat /\ P \in Int  BY Parameters, Room DEF IsElem
  <2> QED BY <2>1, <2>2, NumTyped
<1>1. /\ ~(k > MaxOv)
      /\ \/ k + e.ov <= MaxOv /\ m = scaled(e, k + e.ov)
         \/ r.fate = "ok" /\ m = scaled(r.elem, k)
  <2>1. ~(k + e.ov > MaxOv) => k + e.ov <= MaxOv  BY <1>0, Room
  <2> HIDE DEF k
  <2> QED BY <2>1 DEF MulConst, Then, Ok, Fails, k
<1>2. \E x : /\ Keeps(x, e) /\ k + x.ov <= MaxOv /\ m = scaled(x, k + x.ov)
  <2>1. CASE k + e.ov <= MaxOv /\ m = scaled(e, k + e.ov)  BY <2>1, KeepsItself
  <2>2. CASE r.fate = "ok" /\ m = scaled(r.elem, k)
    <3>1. Keeps(r.elem, e) /\ r.elem.ov = 0  BY <2>2, ReduceKeeps
    <3> HIDE DEF r, m
    <3>2. k + r.elem.ov = k /\ k <= MaxOv  BY <1>0, <1>1, <3>1, Room
    <3> QED BY <2>2, <3>1, <3>2
  <2> QED BY <1>1, <2>1, <2>2
<1> HIDE DEF m, r
<1>3. PICK x : Keeps(x, e) /\ k + x.ov <= MaxOv /\ m = scaled(x, k + x.ov)  BY <1>2
<1>4. IsElem(x) /\ Alike(P, Num(x), Num(e))  BY <1>3 DEF Keeps
<1>5. IsElem(m) /\ Len(m.limbs) = Len(x.limbs) /\ (Fits(x) => Fits(m) /\ Num(m) = Num(x) * c)
  BY <1>3, <1>4, ScaledIs
<1>6. Full(e) => Full(m)  BY <1>3, <1>5 DEF Keeps, Full
<1>7. ASSUME Fits(e) PROVE Fits(m) /\ Alike(P, Num(m), Num(e) * c)
  <2>1. Fits(m) /\ Num(m) = Num(x) * c  BY <1>3, <1>5, <1>7 DEF Keeps
  <2>2. Num(x) \in Int /\ c \in Int  BY <1>4, NumTyped DEF IsElem
  <2>3. Alike(P, c, c)  BY <1>0, <2>2, AlikeRefl
  <2>4. Alike(P, Num(x) * c, Num(e) * c)  BY <1>0, <1>4, <2>2, <2>3, AlikeProd
  <2> QED BY <2>1, <2>4
<1> QED BY <1>5, <1>6, <1>7 DEF m

-----------------------------------------------------------------------------
(* Products. *)

(* The products of limbs that make limb k of a product. *)
LimbProducts(a, b, k) ==
  [i \in Nat \ {0} |-> Limb(a, i) * IF i <= k THEN Limb(b, k + 1 - i) ELSE 0]

(* They are numbers. *)
LEMMA ProductsTyped ==
  ASSUME NEW a, NEW b, IsElem(a), IsElem(b), NEW k \in Nat
  PROVE  /\ Terms(LimbProducts(a, b, k))
         /\ \A i \in Nat \ {0} : LimbProducts(a, b, k)[i] \in Nat
<1>1. ASSUME NEW i \in Nat \ {0} PROVE LimbProducts(a, b, k)[i] \in Nat
  <2>1. Limb(a, i) \in Nat  BY LimbFits
  <2>2. i <= k => k + 1 - i \in Nat \ {0}  OBVIOUS
  <2>3. i <= k => Limb(b, k + 1 - i) \in Nat  BY <2>2, LimbFits
  <2> DEFINE y == IF i <= k THEN Limb(b, k + 1 - i) ELSE 0
  <2>4. y \in Nat  BY <2>3
  <2>5. LimbProducts(a, b, k)[i] = Limb(a, i) * y  BY DEF LimbProducts
  <2> HIDE DEF y
  <2> QED BY <2>1, <2>4, <2>5
<1>2. \A i \in Nat : LimbProducts(a, b, k)[i + 1] \in Int
  <2> TAKE i \in Nat
  <2>1. i + 1 \in Nat \ {0}  OBVIOUS
  <2>2. LimbProducts(a, b, k)[i + 1] \in Nat  BY <1>1, <2>1
  <2> QED BY <2>2
<1> QED BY <1>1, <1>2 DEF Terms

(* The fold that adds them up. *)
Convolves(it, D, u, a, b, k) ==
  it = [s \in SUBSET D |->
          IF s = {} THEN 0
          ELSE (it[s \ {Max(s)}]
                  + Limb(a, u[Max(s)]) * IF u[Max(s)] <= k THEN Limb(b, k + 1 - u[Max(s)]) ELSE 0)
                 % NativeModulus]

(* The largest of an interval is its last. *)
LEMMA MaxInterval ==
  ASSUME NEW a \in Int, NEW b \in Int, a <= b
  PROVE  Max(a .. b) = b /\ (a .. b) \ {b} = a .. b - 1
<1>1. b \in a .. b /\ \A y \in a .. b : b >= y  OBVIOUS
<1>2. \A x \in a .. b : (\A y \in a .. b : x >= y) => x = b  BY <1>1
<1>3. Max(a .. b) = b  BY <1>1, <1>2 DEF Max
<1> QED BY <1>3

(* A finite set of indices has a largest. *)
LEMMA MaxOf ==
  ASSUME NEW n \in Nat, NEW s, s \subseteq 1 .. n, s # {}
  PROVE  Max(s) \in s
<1> DEFINE T == {n - x : x \in s}
<1>1. T \subseteq Nat /\ T # {}  OBVIOUS
<1>2. PICK y \in T : \A z \in T : y <= z
  <2> HIDE DEF T
  <2> QED BY <1>1, SmallestOf
<1>3. PICK x \in s : y = n - x  OBVIOUS
<1>4. \A z \in s : x >= z
  <2> TAKE z \in s
  <2>1. n - z \in T  OBVIOUS
  <2> HIDE DEF T
  <2>2. n - x <= n - z  BY <1>2, <1>3, <2>1
  <2> QED BY <2>2
<1>5. \E w \in s : \A z \in s : w >= z  BY <1>4
<1> QED BY <1>5 DEF Max

(* A limb of a product is the sum of the products, in the native field. *)
LEMMA ConvolutionLimb ==
  ASSUME NEW a, NEW b, IsElem(a), IsElem(b),
         NEW k \in 1 .. Len(a.limbs) + Len(b.limbs) - 1
  PROVE  Convolution(a, b)[k] = Total(LimbProducts(a, b, k), Len(a.limbs)) % NativeModulus
<1> DEFINE n == Len(a.limbs)
           u == Upto(n)
           D == DOMAIN u
           f == LimbProducts(a, b, k)
           step == [p \in D \X Int |-> (p[2] + f[p[1]]) % NativeModulus]
           ch == [s \in SUBSET D |-> Max(s)]
           iter == CHOOSE it : Convolves(it, D, u, a, b, k)
<1>0. n \in Nat /\ k \in Nat /\ Len(b.limbs) \in Nat  BY DEF IsElem
<1>1. D = 1 .. n /\ \A i \in D : u[i] = i  BY DEF Upto
<1>2. IsFiniteSet(D)
  <2>1. 1 \in Int /\ n \in Int  BY <1>0
  <2> HIDE DEF D, n
  <2> QED BY <1>1, <2>1, FS_Interval
<1>3. \A s \in SUBSET D : s # {} => Max(s) \in s  BY <1>0, <1>1, MaxOf
<1>4. \A s \in SUBSET D : ch[s] = Max(s)  OBVIOUS
<1>5. Convolution(a, b)[k] = iter[D]
  BY DEF Convolution, FoldLeft, MapThenFoldSet, Convolves
<1>6. Terms(f) /\ \A i \in Nat \ {0} : f[i] \in Nat  BY <1>0, ProductsTyped
<1>7. \A i \in D : f[i] = Limb(a, i) * IF i <= k THEN Limb(b, k + 1 - i) ELSE 0
  BY <1>1 DEF LimbProducts
<1> HIDE DEF f
<1>8. \A i \in D : f[i] \in Int /\ i \in Nat \ {0}
  <2> HIDE DEF D
  <2> QED BY <1>0, <1>1, <1>6
<1>9. step \in [D \X Int -> Int] /\ \A i \in D, x \in Int : step[<<i, x>>] = (x + f[i]) % NativeModulus
  <2> HIDE DEF D
  <2>1. \A i \in D, x \in Int : x + f[i] \in Int  BY <1>8
  <2>2. \A i \in D, x \in Int : (x + f[i]) % NativeModulus \in Int
    <3> TAKE i \in D, x \in Int
    <3>1. (x + f[i]) % NativeModulus \in Nat  BY <2>1, NativeMod
    <3> QED BY <3>1
  <2> QED BY <2>2
<1> HIDE DEF step, ch, D, u
<1>10. PICK it \in [SUBSET D -> Int] : Folds(it, SUBSET D, 0, ch, step)
  <2>1. 0 \in Int  OBVIOUS
  <2>2. \A s \in SUBSET D : s # {} => ch[s] \in s  BY <1>3, <1>4
  <2> QED BY <1>2, <1>9, <2>1, <2>2, FoldExists
<1>11. ASSUME NEW s \in SUBSET D, s # {}
       PROVE  it[s] = (it[s \ {Max(s)}]
                 + Limb(a, u[Max(s)]) * IF u[Max(s)] <= k THEN Limb(b, k + 1 - u[Max(s)]) ELSE 0)
                 % NativeModulus
  <2> DEFINE i == Max(s)
             r == s \ {Max(s)}
  <2>1. i \in D /\ ch[s] = i /\ r \in SUBSET D  BY <1>3, <1>4, <1>11
  <2>2. it[r] \in Int  BY <1>10, <2>1
  <2>3. it[s] = step[<<ch[s], it[s \ {ch[s]}]>>]  BY <1>10, <1>11 DEF Folds
  <2>4. u[i] = i  BY <1>1, <2>1
  <2>5. f[i] = Limb(a, i) * IF i <= k THEN Limb(b, k + 1 - i) ELSE 0  BY <1>7, <2>1
  <2>6. it[s] = (it[r] + f[i]) % NativeModulus  BY <1>9, <2>1, <2>2, <2>3
  <2> QED BY <2>4, <2>5, <2>6
<1>12. Convolves(it, D, u, a, b, k)
  <2>1. it = [s \in SUBSET D |-> it[s]]  BY <1>10
  <2>2. \A s \in SUBSET D : s = {} => it[s] = 0  BY <1>10 DEF Folds
  <2>3. it = [s \in SUBSET D |->
          IF s = {} THEN 0
          ELSE (it[s \ {Max(s)}]
                  + Limb(a, u[Max(s)]) * IF u[Max(s)] <= k THEN Limb(b, k + 1 - u[Max(s)]) ELSE 0)
                 % NativeModulus]
    BY <1>11, <2>1, <2>2
  <2> QED BY <2>3 DEF Convolves
<1>13. Convolves(iter, D, u, a, b, k)  BY <1>12
<1> HIDE DEF iter
<1> DEFINE T == {m \in Nat : m <= n => iter[1 .. m] = Total(f, m) % NativeModulus}
<1>14. 0 \in T
  <2>1. 1 .. 0 = {} /\ {} \in SUBSET D  OBVIOUS
  <2>2. iter[{}] = 0  BY <1>13, <2>1 DEF Convolves
  <2>3. Total(f, 0) = 0  BY <1>6, TotalIs
  <2>4. 0 % NativeModulus = 0
    <3>1. 0 \in Int /\ 0 <= 0 /\ 0 < NativeModulus  BY Parameters
    <3> QED BY <3>1, NativeMod
  <2> QED BY <2>1, <2>2, <2>3, <2>4
<1>15. ASSUME NEW m \in Nat, m \in T PROVE m + 1 \in T
  <2>1. SUFFICES ASSUME m + 1 <= n PROVE iter[1 .. m + 1] = Total(f, m + 1) % NativeModulus
    OBVIOUS
  <2> DEFINE s == 1 .. m + 1
             t == Total(f, m)
             y == f[m + 1]
             N == NativeModulus
  <2>2. s \in SUBSET D /\ s # {} /\ m + 1 \in D
    <3> HIDE DEF n
    <3>1. m + 1 \in s /\ \A i \in s : i \in 1 .. n  BY <1>0, <2>1
    <3> HIDE DEF s
    <3> QED BY <1>0, <1>1, <2>1, <3>1
  <2>3. Max(s) = m + 1 /\ s \ {m + 1} = 1 .. m
    <3>1. Max(s) = m + 1 /\ s \ {m + 1} = 1 .. (m + 1) - 1  BY MaxInterval
    <3> QED BY <3>1
  <2>4. u[m + 1] = m + 1  BY <1>1, <2>2
  <2> HIDE DEF s
  <2>5. iter[s] = (iter[s \ {Max(s)}]
                 + Limb(a, u[Max(s)]) * IF u[Max(s)] <= k THEN Limb(b, k + 1 - u[Max(s)]) ELSE 0)
                 % NativeModulus
    BY <1>13, <2>2 DEF Convolves
  <2>6. y = Limb(a, m + 1) * IF m + 1 <= k THEN Limb(b, k + 1 - (m + 1)) ELSE 0  BY <1>7, <2>2
  <2>7. iter[s] = (iter[1 .. m] + y) % N  BY <2>3, <2>4, <2>5, <2>6
  <2>8. m <= n  BY <1>0, <2>1
  <2>9. iter[1 .. m] = t % N  BY <1>15, <2>8
  <2>10. Total(f, m + 1) = t + y /\ t \in Int /\ y \in Int  BY <1>6, TotalIs DEF Terms
  <2>11. ((t % N) + y) % N = (t + y) % N
    <3> HIDE DEF t, y
    <3>1. N \in Nat \ {0} /\ N \in Int  BY Parameters
    <3>2. t % N \in 0 .. N - 1 /\ Alike(N, t % N, t)  BY <2>10, <3>1, AlikeMod
    <3> DEFINE r == t % N
    <3>3. r \in Int  BY <3>1, <3>2
    <3> HIDE DEF r, N
    <3>4. Alike(N, y, y)  BY <2>10, <3>1, AlikeRefl
    <3>5. Alike(N, r, t)  BY <3>2 DEF r
    <3>6. Alike(N, r + y, t + y)  BY <2>10, <3>1, <3>3, <3>4, <3>5, AlikeSum
    <3>7. r + y \in Int /\ t + y \in Int  BY <2>10, <3>3
    <3>8. (r + y) % N = (t + y) % N  BY <3>1, <3>6, <3>7, AlikeEqual
    <3> QED BY <3>8 DEF r
  <2> HIDE DEF t, y, N
  <2>12. iter[s] = (t + y) % N  BY <2>7, <2>9, <2>11
  <2> QED BY <2>10, <2>12 DEF s, N
<1> HIDE DEF T
<1>16. \A m \in Nat : m \in T  BY <1>14, <1>15, Induction
<1>17. iter[1 .. n] = Total(f, n) % NativeModulus
  <2>1. n \in T /\ n <= n  BY <1>0, <1>16
  <2> QED BY <2>1 DEF T
<1> QED BY <1>1, <1>5, <1>17 DEF f

(* Terms up to c, of which at most w in a row are not 0, sum to no more than w times c. *)
LEMMA WindowBound ==
  ASSUME NEW f, Terms(f), NEW c \in Nat, NEW n \in Nat, NEW q \in Int, NEW w \in Nat,
         \A k \in 1 .. n : 0 <= f[k] /\ f[k] <= c,
         \A k \in 1 .. n : (k <= q \/ q + w < k) => f[k] = 0
  PROVE  Total(f, n) <= w * c
<1> DEFINE cnt(m) == IF m <= q THEN 0 ELSE IF m <= q + w THEN m - q ELSE w
           T == {m \in Nat : m <= n => Total(f, m) <= cnt(m) * c}
<1>1. 0 \in T
  <2>1. Total(f, 0) = 0  BY TotalIs
  <2>2. cnt(0) \in Nat  OBVIOUS
  <2> HIDE DEF cnt
  <2>3. 0 <= cnt(0) * c  BY <2>2
  <2> QED BY <2>1, <2>3
<1>2. ASSUME NEW m \in Nat, m \in T PROVE m + 1 \in T
  <2>1. SUFFICES ASSUME m + 1 <= n PROVE Total(f, m + 1) <= cnt(m + 1) * c  OBVIOUS
  <2> DEFINE t == Total(f, m)
             x == f[m + 1]
             g == cnt(m)
             h == cnt(m + 1)
  <2>2. Total(f, m + 1) = t + x /\ t \in Int /\ x \in Int  BY TotalIs DEF Terms
  <2>3. m + 1 \in 1 .. n /\ m <= n  BY <2>1
  <2>4. t <= g * c /\ 0 <= x /\ x <= c  BY <1>2, <2>3
  <2>5. (m + 1 <= q \/ q + w < m + 1) => x = 0  BY <2>3
  <2>6. g \in Nat /\ h \in Nat /\ g <= h  OBVIOUS
  <2>7. x = 0 \/ g + 1 <= h  BY <2>5
  <2> HIDE DEF t, x, g, h
  <2>8. g * c + x <= h * c
    <3>1. CASE x = 0
      <4>1. g * c <= h * c  BY <2>6
      <4>2. g * c + x = g * c  BY <2>6, <3>1
      <4> QED BY <4>1, <4>2
    <3>2. CASE g + 1 <= h
      <4>1. (g + 1) * c <= h * c  BY <2>6, <3>2
      <4>2. (g + 1) * c = g * c + c /\ g * c \in Int /\ h * c \in Int  BY <2>6
      <4> QED BY <2>2, <2>4, <4>1, <4>2
    <3> QED BY <2>7, <3>1, <3>2
  <2>9. g * c \in Int /\ h * c \in Int  BY <2>6
  <2>10. t + x <= h * c  BY <2>2, <2>4, <2>8, <2>9
  <2> QED BY <2>2, <2>10 DEF h
<1> HIDE DEF T
<1>3. \A m \in Nat : m \in T  BY <1>1, <1>2, Induction
<1>4. n \in T /\ n <= n  BY <1>3
<1>5. Total(f, n) <= cnt(n) * c  BY <1>4 DEF T
<1>6. cnt(n) \in Nat /\ cnt(n) <= w  OBVIOUS
<1> DEFINE g == cnt(n)
<1>7. g \in Nat /\ g <= w /\ Total(f, n) <= g * c /\ Total(f, n) \in Int  BY <1>5, <1>6, TotalIs
<1> HIDE DEF g
<1>8. g * c <= w * c /\ g * c \in Int /\ w * c \in Int  BY <1>7
<1> QED BY <1>7, <1>8

(* No limb of a product is wider than its overflow says. *)
LEMMA ProductFits ==
  ASSUME NEW a, NEW b, IsElem(a), IsElem(b), Full(a), Full(b), Fits(a), Fits(b), NEW k \in Nat
  PROVE  /\ MulNext(a, b) \in Nat
         /\ 0 <= Total(LimbProducts(a, b, k), Len(a.limbs))
         /\ Total(LimbProducts(a, b, k), Len(a.limbs)) < 2^(W + MulNext(a, b))
<1> DEFINE la == Len(a.limbs)
           lb == Len(b.limbs)
           n == IF la < lb THEN la ELSE lb
           c == CeilLog2(n)
           f == LimbProducts(a, b, k)
           x == 2^(W + a.ov)
           y == 2^(W + b.ov)
           z == 2^c
           M == x * y - 1
<1>0. /\ a.ov \in Nat /\ b.ov \in Nat /\ W \in Nat /\ L \in Nat /\ L > 1
      /\ la \in Nat /\ lb \in Nat /\ L <= la /\ L <= lb
  BY SMTT(60), Parameters, Room DEF IsElem, Full
<1>1. n \in Nat /\ n - 1 \in Nat  BY <1>0
<1>2. c \in Nat /\ n <= z
  <2> HIDE DEF n
  <2>1. Bits(n - 1) \in Nat /\ n - 1 < 2^Bits(n - 1)  BY <1>1, BitsIs
  <2>2. c = Bits(n - 1)  BY DEF CeilLog2
  <2> DEFINE t == 2^Bits(n - 1)
  <2>3. t \in Nat /\ n - 1 < t  BY <2>1, TwoPositive
  <2> HIDE DEF t
  <2>4. n <= t  BY <1>1, <2>3
  <2> QED BY <2>1, <2>2, <2>4 DEF t
<1>3. MulNext(a, b) = W + a.ov + b.ov + c  BY DEF MulNext
<1> HIDE DEF c
<1>4. W + a.ov \in Nat /\ W + b.ov \in Nat /\ x \in Nat \ {0} /\ y \in Nat \ {0} /\ z \in Nat \ {0}
  <2>1. W + a.ov \in Nat /\ W + b.ov \in Nat  BY <1>0
  <2> QED BY <1>2, <2>1, TwoPositive
<1>5. 2^(W + MulNext(a, b)) = (x * y) * z /\ MulNext(a, b) \in Nat
  <2> DEFINE i == W + a.ov
             j == W + b.ov
  <2>1. i \in Nat /\ j \in Nat /\ i + j \in Nat /\ MulNext(a, b) \in Nat /\ W + MulNext(a, b) = (i + j) + c
    <3>1. a.ov \in Nat /\ b.ov \in Nat /\ W \in Nat /\ c \in Nat  BY <1>0, <1>2
    <3> HIDE DEF la, lb, n
    <3> QED BY <1>3, <3>1
  <2>2. x = 2^i /\ y = 2^j  OBVIOUS
  <2> HIDE DEF i, j, x, y
  <2>3. 2^(i + j) = x * y  BY <2>1, <2>2, TwoSum
  <2>4. 2^((i + j) + c) = 2^(i + j) * z  BY <1>2, <2>1, TwoSum
  <2> QED BY <2>1, <2>3, <2>4
<1>6. ASSUME NEW i \in Nat \ {0} PROVE 0 <= f[i] /\ f[i] <= M
  <2> DEFINE u == Limb(a, i)
             v == IF i <= k THEN Limb(b, k + 1 - i) ELSE 0
  <2>1. u \in Nat /\ u < x
    <3>1. a.ov <= a.ov  BY <1>0
    <3> QED BY <1>0, <3>1, LimbFits
  <2>2. v \in Nat /\ v < y
    <3>1. CASE i <= k
      <4>1. k + 1 - i \in Nat \ {0} /\ b.ov <= b.ov  BY <1>0, <3>1
      <4>2. Limb(b, k + 1 - i) \in Nat /\ Limb(b, k + 1 - i) < y  BY <1>0, <4>1, LimbFits
      <4> QED BY <3>1, <4>2
    <3>2. CASE ~(i <= k)
      <4>1. v = 0  BY <3>2
      <4> HIDE DEF v, y
      <4> QED BY <1>4, <4>1
    <3> QED BY <3>1, <3>2
  <2>3. f[i] = u * v  BY DEF LimbProducts
  <2> HIDE DEF u, v, x, y
  <2>4. 0 <= u * v  BY <2>1, <2>2
  <2>5. u * v <= x * y - 1
    <3>1. (u + 1) * v <= x * v  BY <1>4, <2>1, <2>2
    <3>2. x * (v + 1) <= x * y  BY <1>4, <2>1, <2>2
    <3>3. (u + 1) * v = u * v + v /\ x * (v + 1) = x * v + x  BY <1>4, <2>1, <2>2
    <3>4. u * v \in Int /\ x * v \in Int /\ x * y \in Int  BY <1>4, <2>1, <2>2
    <3> QED BY <1>4, <2>2, <3>1, <3>2, <3>3, <3>4
  <2> QED BY <2>3, <2>4, <2>5
<1>7. Terms(f)  BY ProductsTyped
<1>8. \A i \in 1 .. la : i \in Nat \ {0}  BY <1>0
<1>9. \A i \in 1 .. la : (i <= k - lb \/ (k - lb) + lb < i) => f[i] = 0
  <2> TAKE i \in 1 .. la
  <2>1. i \in Nat \ {0}  BY <1>8
  <2>2. CASE i <= k - lb
    <3>1. i <= k /\ k + 1 - i > lb /\ k + 1 - i \in Nat \ {0}  BY <1>0, <2>1, <2>2
    <3>2. Limb(b, k + 1 - i) = 0  BY <1>0, <3>1 DEF Limb
    <3>3. Limb(a, i) \in Nat  BY <2>1, LimbFits
    <3>4. f[i] = Limb(a, i) * 0  BY <2>1, <3>1, <3>2 DEF LimbProducts
    <3> QED BY <3>3, <3>4
  <2>3. CASE (k - lb) + lb < i
    <3>1. ~(i <= k)  BY <1>0, <2>1, <2>3
    <3>2. Limb(a, i) \in Nat  BY <2>1, LimbFits
    <3>3. f[i] = Limb(a, i) * 0  BY <2>1, <3>1 DEF LimbProducts
    <3> QED BY <3>2, <3>3
  <2>4. SUFFICES ASSUME i <= k - lb \/ (k - lb) + lb < i PROVE f[i] = 0  OBVIOUS
  <2> QED BY <2>2, <2>3, <2>4
<1>10. M \in Nat /\ x * y \in Nat \ {0} /\ M + 1 = x * y
  <2> HIDE DEF x, y
  <2> QED BY <1>4
<1> DEFINE s == Total(f, la)
<1> HIDE DEF f, la, lb, x, y, z, M
<1>11. s \in Int /\ 0 <= s /\ s <= la * M
  <2>1. \A i \in 1 .. la : 0 <= f[i] /\ f[i] <= M  BY <1>6, <1>8
  <2>2. M \in Int  BY <1>10
  <2>3. 0 <= Total(f, la) /\ Total(f, la) <= la * M  BY <1>0, <1>7, <2>1, <2>2, TotalBound
  <2> QED BY <1>0, <1>7, <2>3, TotalIs
<1>12. s <= lb * M
  <2>1. \A i \in 1 .. la : 0 <= f[i] /\ f[i] <= M  BY <1>6, <1>8
  <2>2. k - lb \in Int  BY <1>0
  <2> QED BY <1>0, <1>7, <1>9, <1>10, <2>1, <2>2, WindowBound
<1> HIDE DEF s
<1>13. s <= n * M  BY <1>11, <1>12
<1> HIDE DEF n
<1>14. n * M <= z * M  BY <1>1, <1>2, <1>4, <1>10
<1>15. z * M < z * (M + 1)
  <2>1. z * (M + 1) = z * M + z /\ z * M \in Int  BY <1>4, <1>10
  <2> QED BY <1>4, <2>1
<1>16. z * (M + 1) = (x * y) * z
  <2> DEFINE t == x * y
  <2>1. t \in Nat /\ M + 1 = t  BY <1>10
  <2> HIDE DEF t
  <2>2. z * t = t * z  BY <1>4, <2>1
  <2> QED BY <2>1, <2>2 DEF t
<1>17. s < (x * y) * z
  <2>1. n * M \in Int /\ z * M \in Int /\ z * (M + 1) \in Int  BY <1>1, <1>4, <1>10
  <2> QED BY <1>11, <1>13, <1>14, <1>15, <1>16, <2>1
<1> QED BY <1>5, <1>11, <1>17 DEF s, f, la

(* The limbs of b, moved up by m, weighted. *)
Moved(b, m) ==
  [k \in Nat \ {0} |-> (IF m + 1 <= k THEN Limb(b, k + 1 - (m + 1)) ELSE 0) * 2^(W * (k - 1))]

(* They stand for what b does, times the weight of m limbs. *)
LEMMA MovedIs ==
  ASSUME NEW b, IsElem(b), NEW m \in Nat, NEW n \in Nat, m + Len(b.limbs) <= n
  PROVE  Terms(Moved(b, m)) /\ Total(Moved(b, m), n) = 2^(W * m) * Num(b)
<1> DEFINE h == Moved(b, m)
           f == Weighted(b.limbs)
           v == 2^(W * m)
           g == After(h, m)
           j == n - m
           y == Num(b)
<1>0. /\ b.limbs \in Seq(Int) /\ Len(b.limbs) \in Nat /\ y \in Int /\ W \in Nat /\ v \in Int
      /\ j \in Nat /\ n = m + j /\ Len(b.limbs) <= j
  <2>1. b.limbs \in Seq(Nat) /\ W \in Nat  BY Parameters DEF IsElem
  <2>2. b.limbs \in Seq(Int) /\ y \in Int  BY <2>1, NumTyped
  <2>3. v \in Int  BY Weights
  <2>4. Len(b.limbs) \in Nat  BY <2>1
  <2>5. j \in Nat /\ n = m + j /\ Len(b.limbs) <= j  BY <2>4
  <2> QED BY <2>1, <2>2, <2>3, <2>4, <2>5
<1>1. ASSUME NEW k \in Nat \ {0}
      PROVE  h[k] \in Int /\ (k <= m => h[k] = 0)
  <2> DEFINE w == 2^(W * (k - 1))
             x == IF m + 1 <= k THEN Limb(b, k + 1 - (m + 1)) ELSE 0
  <2>1. k - 1 \in Nat  OBVIOUS
  <2>2. w \in Int  BY <2>1, Weights
  <2>3. m + 1 <= k => k + 1 - (m + 1) \in Nat \ {0}  OBVIOUS
  <2>4. m + 1 <= k => Limb(b, k + 1 - (m + 1)) \in Nat  BY <2>3, LimbFits
  <2>5. x \in Int /\ (k <= m => x = 0)  BY <2>4
  <2>6. h[k] = x * w  BY DEF Moved
  <2> HIDE DEF x, w, h
  <2> QED BY <2>2, <2>5, <2>6
<1>2. Terms(h)
  <2>1. \A k \in Nat : k + 1 \in Nat \ {0}  OBVIOUS
  <2> HIDE DEF h
  <2> QED BY <1>1, <2>1 DEF Terms
<1>3. Total(h, m) = 0
  <2>1. \A k \in 1 .. m : 0 <= h[k] /\ h[k] <= 0
    <3> TAKE k \in 1 .. m
    <3>1. k \in Nat \ {0} /\ k <= m  OBVIOUS
    <3>2. h[k] = 0  BY <1>1, <3>1
    <3> QED BY <3>2
  <2> HIDE DEF h
  <2>2. 0 \in Int  OBVIOUS
  <2>3. 0 <= Total(h, m) /\ Total(h, m) <= m * 0  BY <1>2, <2>1, <2>2, TotalBound
  <2>4. Total(h, m) \in Int  BY <1>2, TotalIs
  <2> QED BY <2>3, <2>4
<1>4. \A i \in 1 .. j : g[i] = v * f[i] + 0 * f[i]
  <2> TAKE i \in 1 .. j
  <2> DEFINE w == 2^(W * (i - 1))
             x == Limb(b, i)
             t == 2^(W * ((m + i) - 1))
  <2>1. i \in Nat \ {0} /\ i - 1 \in Nat /\ m + i \in Nat \ {0} /\ m + 1 <= m + i
        /\ (m + i) + 1 - (m + 1) = i
    BY <1>0
  <2>2. g[i] = h[m + i]  BY <2>1 DEF After
  <2>3. h[m + i] = x * t  BY <2>1 DEF Moved
  <2>4. t = v * w
    <3> DEFINE p == W * m
               q == W * (i - 1)
    <3>1. p \in Nat /\ q \in Nat /\ W * ((m + i) - 1) = p + q  BY <1>0, <2>1
    <3>2. v = 2^p /\ w = 2^q  OBVIOUS
    <3>3. t = 2^(p + q)  BY <3>1
    <3> HIDE DEF p, q, t, v, w
    <3>4. 2^(p + q) = 2^p * 2^q  BY <3>1, TwoSum
    <3> QED BY <3>2, <3>3, <3>4
  <2>5. x \in Nat /\ x = At(b.limbs, i)  BY <2>1, LimbFits
  <2>6. f[i] = x * w
    <3>1. f[i] = At(b.limbs, i) * w  BY <2>1 DEF Weighted, At
    <3> QED BY <2>5, <3>1
  <2>7. w \in Int  BY <2>1, Weights
  <2> HIDE DEF w, x, t, v, f, g, h
  <2>8. x * (v * w) = v * (x * w) + 0 * (x * w)  BY <1>0, <2>5, <2>7
  <2> QED BY <2>2, <2>3, <2>4, <2>6, <2>8
<1>5. Terms(f)  BY <1>0, WeightedTerms
<1>6. Terms(g)  BY <1>2, AfterTerms
<1>7. Total(f, j) = y  BY <1>0, TotalBeyond DEF Num
<1>8. Total(h, m + j) = Total(h, m) + Total(g, j)
  <2> HIDE DEF h, j
  <2> QED BY <1>0, <1>2, TotalSplit
<1> HIDE DEF h, f, g, j, v, y
<1>9. Total(g, j) = v * Total(f, j) + 0 * Total(f, j)
  <2>1. 0 \in Int  OBVIOUS
  <2>2. Mixes(g, f, f, v, 0, j)  BY <1>4 DEF Mixes
  <2> QED BY <1>0, <1>5, <1>6, <2>1, <2>2, TotalLinear
<1>10. Total(h, n) = v * y  BY <1>0, <1>3, <1>7, <1>8, <1>9
<1> QED BY <1>2, <1>10 DEF h, v, y

(* The limbs of a product, with m limbs of a only, weighted. *)
Partial(a, b, m) == [k \in Nat \ {0} |-> Total(LimbProducts(a, b, k), m) * 2^(W * (k - 1))]

(* A limb more of a adds that limb times b. *)
LEMMA PartialStep ==
  ASSUME NEW a, NEW b, IsElem(a), IsElem(b), NEW m \in Nat, NEW k \in Nat \ {0}
  PROVE  /\ Partial(a, b, m)[k] \in Int
         /\ Partial(a, b, m + 1)[k] = 1 * Partial(a, b, m)[k] + Limb(a, m + 1) * Moved(b, m)[k]
<1> DEFINE g == LimbProducts(a, b, k)
           w == 2^(W * (k - 1))
           x == Limb(a, m + 1)
           y == IF m + 1 <= k THEN Limb(b, k + 1 - (m + 1)) ELSE 0
           t == Total(g, m)
<1>0. k \in Nat /\ k - 1 \in Nat /\ m + 1 \in Nat \ {0}  OBVIOUS
<1>1. Terms(g)  BY <1>0, ProductsTyped
<1>2. t \in Int /\ Total(g, m + 1) = t + g[m + 1]  BY <1>1, TotalIs
<1>3. g[m + 1] = x * y  BY <1>0 DEF LimbProducts
<1>4. w \in Int  BY <1>0, Weights
<1>5. x \in Int  BY <1>0, LimbFits
<1>6. y \in Int
  <2>1. m + 1 <= k => k + 1 - (m + 1) \in Nat \ {0}  BY <1>0
  <2>2. m + 1 <= k => Limb(b, k + 1 - (m + 1)) \in Nat  BY <2>1, LimbFits
  <2> QED BY <2>2
<1>7. Partial(a, b, m)[k] = t * w /\ Partial(a, b, m + 1)[k] = Total(g, m + 1) * w
      /\ Moved(b, m)[k] = y * w
  BY DEF Partial, Moved
<1> HIDE DEF g, w, x, y, t
<1>8. (t + x * y) * w = 1 * (t * w) + x * (y * w) /\ t * w \in Int  BY <1>2, <1>4, <1>5, <1>6
<1> QED BY <1>2, <1>3, <1>7, <1>8 DEF x

(* So all the limbs of a product stand for the product. *)
LEMMA PartialSum ==
  ASSUME NEW a, NEW b, IsElem(a), IsElem(b), NEW n \in Nat, Len(a.limbs) + Len(b.limbs) <= n + 1
  PROVE  Total(Partial(a, b, Len(a.limbs)), n) = Num(a) * Num(b)
<1> DEFINE la == Len(a.limbs)
           lb == Len(b.limbs)
           f == Weighted(a.limbs)
           x == Num(a)
           y == Num(b)
           T == {m \in Nat : m <= la => Total(Partial(a, b, m), n) = Total(f, m) * y}
<1>0. a.limbs \in Seq(Int) /\ la \in Nat /\ lb \in Nat /\ x \in Int /\ y \in Int
  <2>1. a.limbs \in Seq(Nat) /\ b.limbs \in Seq(Nat)  BY DEF IsElem
  <2>2. a.limbs \in Seq(Int) /\ x \in Int /\ y \in Int  BY <2>1, NumTyped
  <2> QED BY <2>1, <2>2
<1>1. ASSUME NEW m \in Nat PROVE Terms(Partial(a, b, m))
  <2>1. \A k \in Nat : k + 1 \in Nat \ {0}  OBVIOUS
  <2> QED BY <2>1, PartialStep DEF Terms
<1>2. Terms(f)  BY <1>0, WeightedTerms
<1>3. 0 \in T
  <2> DEFINE h == Partial(a, b, 0)
  <2>1. \A k \in 1 .. n : 0 <= h[k] /\ h[k] <= 0
    <3> TAKE k \in 1 .. n
    <3> DEFINE w == 2^(W * (k - 1))
    <3>1. k \in Nat \ {0} /\ k \in Nat /\ k - 1 \in Nat  OBVIOUS
    <3>2. Total(LimbProducts(a, b, k), 0) = 0
      <4>1. Terms(LimbProducts(a, b, k))  BY <3>1, ProductsTyped
      <4> QED BY <4>1, TotalIs
    <3>3. h[k] = 0 * w  BY <3>1, <3>2 DEF Partial
    <3>4. w \in Int  BY <3>1, Weights
    <3> HIDE DEF w, h
    <3> QED BY <3>3, <3>4
  <2>2. 0 \in Int /\ Terms(h)  BY <1>1
  <2> HIDE DEF h
  <2>3. 0 <= Total(h, n) /\ Total(h, n) <= n * 0  BY <2>1, <2>2, TotalBound
  <2>4. Total(h, n) \in Int  BY <2>2, TotalIs
  <2>5. Total(h, n) = 0  BY <2>3, <2>4
  <2>6. Total(f, 0) = 0  BY <1>2, TotalIs
  <2> HIDE DEF f, y
  <2>7. 0 * y = 0  BY <1>0
  <2> QED BY <2>5, <2>6, <2>7 DEF h
<1>4. ASSUME NEW m \in Nat, m \in T PROVE m + 1 \in T
  <2>1. SUFFICES ASSUME m + 1 <= la
        PROVE  Total(Partial(a, b, m + 1), n) = Total(f, m + 1) * y
    OBVIOUS
  <2> DEFINE g == Partial(a, b, m)
             h == Partial(a, b, m + 1)
             v == Moved(b, m)
             z == Limb(a, m + 1)
             t == Total(f, m)
             w == 2^(W * m)
  <2>2. m <= la /\ m + lb <= n /\ m + 1 \in Nat /\ m + 1 \in Nat \ {0}
    <3> HIDE DEF la, lb
    <3>1. la + lb <= n + 1  BY DEF la, lb
    <3> QED BY <1>0, <2>1, <3>1
  <2>3. Terms(g) /\ Terms(h)  BY <1>1, <2>2
  <2>4. Terms(v) /\ Total(v, n) = w * y  BY <2>2, MovedIs
  <2>5. \A k \in 1 .. n : h[k] = 1 * g[k] + z * v[k]
    <3> TAKE k \in 1 .. n
    <3>1. k \in Nat \ {0}  OBVIOUS
    <3> QED BY <3>1, PartialStep
  <2>6. z \in Int /\ z = At(a.limbs, m + 1)
    <3>1. z \in Nat /\ z = At(a.limbs, m + 1)  BY <2>2, LimbFits
    <3> QED BY <3>1
  <2>7. Total(f, m + 1) = t + f[m + 1] /\ t \in Int  BY <1>2, TotalIs
  <2>8. f[m + 1] = z * w
    <3>1. f[m + 1] = (IF m + 1 <= Len(a.limbs) THEN a.limbs[m + 1] ELSE 0) * w  BY <1>0, WeightedTerms
    <3> QED BY <2>6, <3>1 DEF At
  <2>9. w \in Int  BY Weights
  <2>10. Total(g, n) = t * y  BY <1>4, <2>2
  <2> HIDE DEF g, h, v, z, t, w, f, y
  <2>11. Total(h, n) = 1 * Total(g, n) + z * Total(v, n)
    <3>1. 1 \in Int  OBVIOUS
    <3>2. Mixes(h, g, v, 1, z, n)  BY <2>5 DEF Mixes
    <3> QED BY <2>3, <2>4, <2>6, <3>1, <3>2, TotalLinear
  <2>12. (t + z * w) * y = 1 * (t * y) + z * (w * y)  BY <1>0, <2>6, <2>7, <2>9
  <2>13. Total(h, n) = Total(f, m + 1) * y  BY <2>4, <2>7, <2>8, <2>10, <2>11, <2>12
  <2> QED BY <2>13 DEF h
<1> HIDE DEF T
<1>5. \A m \in Nat : m \in T  BY <1>3, <1>4, Induction
<1>6. la \in T /\ la <= la  BY <1>0, <1>5
<1>7. Total(Partial(a, b, la), n) = Total(f, la) * y  BY <1>6 DEF T
<1>8. Total(f, la) = x  BY <1>0, NumIs DEF Num
<1> QED BY <1>7, <1>8

(* The product of two elements stands for the product. *)
LEMMA MulOpIs ==
  ASSUME NEW a, NEW b, IsElem(a), IsElem(b), Full(a), Full(b), MulNext(a, b) <= MaxOv
  PROVE  LET e == MulOp(a, b)
         IN  /\ IsElem(e) /\ Full(e)
             /\ Len(e.limbs) <= Larger(L, Len(a.limbs) + Len(b.limbs) - 1)
             /\ Fits(a) /\ Fits(b) => Fits(e) /\ Alike(P, Num(e), Num(a) * Num(b))
<1> DEFINE e == MulOp(a, b)
           x == Num(a)
           y == Num(b)
           la == Len(a.limbs)
           lb == Len(b.limbs)
           n == la + lb - 1
           ov == MulNext(a, b)
<1>0. /\ a.ov \in Nat /\ b.ov \in Nat /\ W \in Nat /\ P \in Nat \ {0} /\ P \in Int
      /\ x \in Int /\ y \in Int /\ x * y \in Int
      /\ la \in Nat /\ lb \in Nat /\ L \in Nat /\ L > 1 /\ L <= la /\ L <= lb
  <2>1. a.limbs \in Seq(Nat) /\ b.limbs \in Seq(Nat) /\ a.ov \in Nat /\ b.ov \in Nat
    BY Room DEF IsElem
  <2>2. x \in Int /\ y \in Int  BY <2>1, NumTyped
  <2>3. la \in Nat /\ lb \in Nat /\ L <= la /\ L <= lb  BY <2>1 DEF Full
  <2>4. W \in Nat /\ P \in Nat \ {0} /\ P \in Int /\ L \in Nat /\ L > 1  BY Parameters
  <2> HIDE DEF x, y
  <2>5. x * y \in Int  BY <2>2
  <2> QED BY <2>1, <2>2, <2>3, <2>4, <2>5
<1>1. CASE BothConst(a, b)
  <2> DEFINE v == (x * y) % P
             s == x * y
  <2>1. e = FromBig(v)  BY <1>1 DEF MulOp
  <2> HIDE DEF s, x, y, e, la, lb
  <2>2. v = s % P /\ s \in Int  BY <1>0 DEF s
  <2> HIDE DEF v
  <2>3. s % P \in 0 .. P - 1 /\ Alike(P, s % P, s)  BY <1>0, <2>2, AlikeMod
  <2>4. v \in Nat /\ v \in Int /\ Alike(P, v, s)  BY <1>0, <2>2, <2>3
  <2>5. IsElem(FromBig(v)) /\ Fits(FromBig(v)) /\ Full(FromBig(v)) /\ Alike(P, Num(FromBig(v)), v)
        /\ Num(FromBig(v)) \in Nat /\ Len(FromBig(v).limbs) = L
    BY <2>4, FromBigIs
  <2>6. Alike(P, Num(FromBig(v)), s)
    <3>1. Num(FromBig(v)) \in Int  BY <2>5
    <3> QED BY <1>0, <2>2, <2>4, <2>5, <3>1, AlikeTrans
  <2>7. Len(e.limbs) <= Larger(L, n)  BY <1>0, <2>1, <2>5 DEF Larger
  <2> QED BY <2>1, <2>5, <2>6, <2>7 DEF x, y, e, s, la, lb
<1>2. CASE ~BothConst(a, b)
  <2> DEFINE l == Convolution(a, b)
             t(k) == Total(LimbProducts(a, b, k), la)
  <2>1. e = Var(l, ov)  BY <1>2 DEF MulOp
  <2>2. n \in Nat /\ L <= n /\ la + lb <= n + 1
    <3> HIDE DEF la, lb
    <3> QED BY <1>0
  <2>3. DOMAIN l = 1 .. n  BY DEF Convolution
  <2>4. l = [k \in 1 .. n |-> l[k]]  BY DEF Convolution
  <2>5. \A k \in 1 .. n : l[k] = t(k) % NativeModulus  BY ConvolutionLimb
  <2> HIDE DEF l
  <2>6. \A k \in 1 .. n : k \in Nat /\ k \in Nat \ {0}  BY <2>2
  <2>7. \A k \in 1 .. n : t(k) \in Int
    <3> TAKE k \in 1 .. n
    <3>1. Terms(LimbProducts(a, b, k))  BY <2>6, ProductsTyped
    <3> QED BY <1>0, <3>1, TotalIs
  <2> HIDE DEF n, t
  <2>8. \A k \in 1 .. n : l[k] \in Nat  BY <2>5, <2>7, NativeMod
  <2>9. l \in Seq(Nat) /\ Len(l) = n  BY <2>2, <2>3, <2>4, <2>8
  <2>10. ov \in 0 .. MaxOv
    <3>1. MulNext(a, b) \in Nat
      <4> DEFINE m == IF la < lb THEN la ELSE lb
      <4>1. m - 1 \in Nat  BY <1>0
      <4>2. CeilLog2(m) \in Nat
        <5> HIDE DEF m
        <5> QED BY <4>1, BitsIs DEF CeilLog2
      <4>3. MulNext(a, b) = W + a.ov + b.ov + CeilLog2(m)  BY DEF MulNext
      <4> HIDE DEF m
      <4> QED BY SMTT(60), <1>0, <4>2, <4>3
    <3> HIDE DEF ov
    <3> QED BY <3>1, Room DEF ov
  <2> HIDE DEF ov
  <2>11. IsElem(e) /\ e.limbs = l /\ e.ov = ov  BY <2>1, <2>9, <2>10, VarIs
  <2> HIDE DEF e
  <2>12. Full(e) /\ Len(e.limbs) <= Larger(L, n)  BY SMTT(60), <1>0, <2>2, <2>9, <2>11 DEF Full, Larger
  <2>13. ASSUME Fits(a), Fits(b) PROVE Fits(e) /\ Num(e) = x * y
    <3>1. ASSUME NEW k \in 1 .. n PROVE l[k] = t(k) /\ l[k] < 2^(W + ov)
      <4>1. ov \in Nat /\ 0 <= t(k) /\ t(k) < 2^(W + ov)
        BY <2>6, <2>13, ProductFits DEF t, ov
      <4>2. ov <= MaxOv /\ t(k) \in Int  BY <2>7 DEF ov
      <4> DEFINE u == t(k)
      <4> HIDE DEF u
      <4>3. ov \in Nat /\ 0 <= u /\ u < 2^(W + ov) /\ u \in Int  BY <4>1, <4>2 DEF u
      <4>4. u < NativeModulus  BY <4>2, <4>3, Narrow
      <4>5. u % NativeModulus = u  BY <4>3, <4>4, NativeMod
      <4> QED BY <2>5, <4>1, <4>5 DEF u
    <3>2. Fits(e)  BY <2>3, <2>11, <3>1 DEF Fits
    <3> DEFINE f == Weighted(l)
               g == Partial(a, b, la)
    <3>3. l \in Seq(Int)  BY <2>9
    <3>4. Terms(f)  BY <3>3, WeightedTerms
    <3>5. Terms(g)
      <4>1. \A k \in Nat : k + 1 \in Nat \ {0}  OBVIOUS
      <4> HIDE DEF la
      <4> QED BY <1>0, <4>1, PartialStep DEF Terms
    <3>6. \A k \in 1 .. n : f[k] = g[k]
      <4> TAKE k \in 1 .. n
      <4> DEFINE w == 2^(W * (k - 1))
      <4>1. k \in Nat \ {0} /\ k <= Len(l)  BY <2>2, <2>9
      <4>2. f[k] = l[k] * w  BY <4>1 DEF Weighted
      <4>3. g[k] = t(k) * w  BY <4>1 DEF Partial, t
      <4> QED BY <3>1, <4>2, <4>3
    <3> HIDE DEF f, g
    <3>7. Total(f, n) = Total(g, n)  BY <2>2, <3>4, <3>5, <3>6, TotalSame
    <3>8. Total(g, n) = x * y  BY <2>2, PartialSum DEF g
    <3>9. Num(e) = Total(f, n)  BY <2>9, <2>11, <3>3, NumIs DEF Num, f
    <3> QED BY <3>2, <3>7, <3>8, <3>9
  <2>14. ASSUME Fits(a), Fits(b) PROVE Fits(e) /\ Alike(P, Num(e), x * y)
    <3>1. Alike(P, x * y, x * y)  BY <1>0, AlikeRefl
    <3> QED BY <2>13, <2>14, <3>1
  <2> QED BY <2>11, <2>12, <2>14 DEF e, n
<1> QED BY <1>1, <1>2

(* What FoldLimbs cuts an element into, and what it scales a chunk by. *)
LimbChunk(e, i) ==
  Var(SubSeq(e.limbs, i * L + 1, IF (i + 1) * L < Len(e.limbs) THEN (i + 1) * L ELSE Len(e.limbs)),
      e.ov)

Scale(i) == MersennePower[(i * L * W) \div MersenneE] * 2^((i * L * W) % MersenneE)

(* A chunk more. *)
AddsChunk(acc, e, i) ==
  IF acc.fate = "ok"
    THEN IF MulConst(LimbChunk(e, i), Scale(i)).fate = "ok"
           THEN Add(acc.elem, MulConst(LimbChunk(e, i), Scale(i)).elem)
           ELSE MulConst(LimbChunk(e, i), Scale(i))
    ELSE acc

FoldsChunks(it, D, u, e) ==
  it = [s \in SUBSET D |->
          IF s = {} THEN Ok(LimbChunk(e, 0)) ELSE AddsChunk(it[s \ {Max(s)}], e, u[Max(s)])]

(* A product of elements no longer than the modulus has one chunk to fold. *)
LEMMA FoldsOneChunk ==
  ASSUME NEW e, IsElem(e), pseudo, L * W >= MersenneE, L < Len(e.limbs), Len(e.limbs) <= 2 * L
  PROVE  FoldLimbs(e) = AddsChunk(Ok(LimbChunk(e, 0)), e, 1)
<1> DEFINE n == (Len(e.limbs) + L - 1) \div L - 1
           u == Upto(n)
           D == DOMAIN u
           base == Ok(LimbChunk(e, 0))
           iter == CHOOSE it : FoldsChunks(it, D, u, e)
<1>1. n = 1
  <2> DEFINE len == Len(e.limbs)
             x == len + L - 1
             r == x - 2 * L
  <2>1. len \in Nat /\ L \in Nat \ {0}  BY Parameters DEF IsElem
  <2>4. L < len /\ len <= 2 * L  OBVIOUS
  <2> HIDE DEF len
  <2>2. x \in Int /\ r \in 0 .. L - 1 /\ x = L * 2 + r /\ 2 \in Int  BY <2>1, <2>4
  <2> HIDE DEF x, r
  <2>3. x \div L = 2  BY <2>1, <2>2, DivUnique
  <2> QED BY <2>3 DEF x, len
<1>2. D = {1} /\ u[1] = 1  BY <1>1 DEF Upto
<1>3. FoldLimbs(e) = iter[D]
  <2>1. ~(~pseudo \/ Len(e.limbs) <= L)
    <3>1. Len(e.limbs) \in Nat /\ L \in Nat  BY Parameters DEF IsElem
    <3> QED BY <3>1
  <2>2. ~(L * W < MersenneE)  BY Parameters
  <2> QED BY <2>1, <2>2 DEF FoldLimbs, FoldLeft, MapThenFoldSet, FoldsChunks, AddsChunk, Then, LimbChunk, Scale
<1> HIDE DEF u, D, n
<1> DEFINE it == [s \in SUBSET D |-> IF s = {} THEN base ELSE AddsChunk(base, e, 1)]
<1>4. FoldsChunks(it, D, u, e)
  <2>1. ASSUME NEW s \in SUBSET D, s # {}
        PROVE  it[s] = AddsChunk(it[s \ {Max(s)}], e, u[Max(s)])
    <3>1. s = 1 .. 1
      <4>1. s = {1}  BY <1>2, <2>1
      <4>2. 1 .. 1 = {1}  OBVIOUS
      <4> QED BY <4>1, <4>2
    <3>2. Max(s) = 1 /\ s \ {1} = {}
      <4>1. 1 \in Int /\ 1 <= 1  OBVIOUS
      <4>2. Max(1 .. 1) = 1  BY <4>1, MaxInterval
      <4> QED BY <1>2, <2>1, <3>1, <4>2
    <3>3. it[{}] = base  OBVIOUS
    <3>4. it[s] = AddsChunk(base, e, 1)  BY <2>1
    <3> HIDE DEF it
    <3> QED BY <1>2, <3>2, <3>3, <3>4
  <2>2. it[{}] = base  OBVIOUS
  <2>3. it = [s \in SUBSET D |-> it[s]]  OBVIOUS
  <2> HIDE DEF it, base
  <2>4. it = [s \in SUBSET D |-> IF s = {} THEN base ELSE AddsChunk(it[s \ {Max(s)}], e, u[Max(s)])]
    BY <2>1, <2>2, <2>3
  <2> QED BY <2>4 DEF FoldsChunks, base
<1>5. FoldsChunks(iter, D, u, e)
  <2> HIDE DEF it
  <2> QED BY <1>4
<1> HIDE DEF iter
<1>6. iter[{}] = base  BY <1>5 DEF FoldsChunks
<1>7. iter[D] = AddsChunk(iter[D \ {Max(D)}], e, u[Max(D)])  BY <1>2, <1>5 DEF FoldsChunks
<1>8. Max(D) = 1
  <2>1. 1 \in Int /\ 1 <= 1 /\ D = 1 .. 1  BY <1>2
  <2>2. Max(1 .. 1) = 1  BY <2>1, MaxInterval
  <2> QED BY <2>1, <2>2
<1>9. D \ {1} = {}  BY <1>2
<1> HIDE DEF base
<1>10. iter[D] = AddsChunk(base, e, 1)  BY <1>2, <1>6, <1>7, <1>8, <1>9
<1> QED BY <1>3, <1>10 DEF base

(* The chunks of an element. *)
LEMMA ChunksAre ==
  ASSUME NEW e, IsElem(e), L < Len(e.limbs), Len(e.limbs) <= 2 * L
  PROVE  LET c == LimbChunk(e, 0)
             d == LimbChunk(e, 1)
         IN  /\ IsElem(c) /\ IsElem(d) /\ Full(c)
             /\ Fits(e) => Fits(c) /\ Fits(d)
             /\ Num(e) = Num(c) + Num(d) * 2^(W * L)
<1> DEFINE l == e.limbs
           n == Len(l)
           c == LimbChunk(e, 0)
           d == LimbChunk(e, 1)
           f == Weighted(l)
           j == n - L
<1>0. l \in Seq(Nat) /\ l \in Seq(Int) /\ n \in Nat /\ L \in Nat \ {0} /\ e.ov \in 0 .. MaxOv /\ j \in Nat
      /\ n = L + j /\ \A i \in 1 .. n : l[i] \in Nat
  <2>1. l \in Seq(Nat) /\ e.ov \in 0 .. MaxOv /\ L \in Nat \ {0}  BY Parameters DEF IsElem
  <2>2. l \in Seq(Int) /\ n \in Nat /\ \A i \in 1 .. n : l[i] \in Nat  BY SMTT(60), <2>1
  <2> QED BY SMTT(60), <2>1, <2>2
<1> HIDE DEF l, n, j
<1>1. c = Var(SubSeq(l, 1, L), e.ov) /\ d = Var(SubSeq(l, L + 1, n), e.ov)
  <2>1. 0 * L + 1 = 1 /\ (0 + 1) * L = L /\ 1 * L + 1 = L + 1 /\ (1 + 1) * L = 2 * L  BY <1>0
  <2>2. L < n /\ n <= 2 * L  BY DEF n, l
  <2>3. (IF L < n THEN L ELSE n) = L /\ (IF 2 * L < n THEN 2 * L ELSE n) = n  BY <1>0, <2>2
  <2>4. c = Var(SubSeq(l, 0 * L + 1, IF (0 + 1) * L < n THEN (0 + 1) * L ELSE n), e.ov)
        /\ d = Var(SubSeq(l, 1 * L + 1, IF (1 + 1) * L < n THEN (1 + 1) * L ELSE n), e.ov)
    BY DEF LimbChunk, l, n
  <2> HIDE DEF c, d
  <2> QED BY <2>1, <2>3, <2>4
<1> HIDE DEF c, d
<1>2. SubSeq(l, 1, L) \in Seq(Nat) /\ Len(SubSeq(l, 1, L)) = L
      /\ \A i \in 1 .. L : SubSeq(l, 1, L)[i] = l[i]
  <2>1. 1 \in Int /\ L \in Int /\ \A i \in 1 .. L : l[i] \in Nat  BY <1>0
  <2>2. SubSeq(l, 1, L) \in Seq(Nat)
        /\ Len(SubSeq(l, 1, L)) = (IF 1 <= L THEN L - 1 + 1 ELSE 0)
        /\ \A i \in 1 .. L - 1 + 1 : SubSeq(l, 1, L)[i] = l[1 + i - 1]
    BY <2>1, SubSeqProperties
  <2>3. 1 <= L /\ L - 1 + 1 = L /\ \A i \in 1 .. L : 1 + i - 1 = i  BY <1>0
  <2> QED BY <2>2, <2>3
<1>3. SubSeq(l, L + 1, n) \in Seq(Nat) /\ Len(SubSeq(l, L + 1, n)) = j
      /\ \A i \in 1 .. j : SubSeq(l, L + 1, n)[i] = l[L + i]
  <2>1. L + 1 \in Int /\ n \in Int /\ \A i \in L + 1 .. n : l[i] \in Nat  BY <1>0
  <2>2. SubSeq(l, L + 1, n) \in Seq(Nat)
        /\ Len(SubSeq(l, L + 1, n)) = (IF L + 1 <= n THEN n - (L + 1) + 1 ELSE 0)
        /\ \A i \in 1 .. n - (L + 1) + 1 : SubSeq(l, L + 1, n)[i] = l[L + 1 + i - 1]
    BY <2>1, SubSeqProperties
  <2>3. L < n  BY DEF n, l
  <2>4. L + 1 <= n /\ n - (L + 1) + 1 = j /\ \A i \in 1 .. j : L + 1 + i - 1 = L + i  BY <1>0, <2>3
  <2> QED BY <2>2, <2>4
<1> DEFINE s == SubSeq(l, 1, L)
           t == SubSeq(l, L + 1, n)
<1> HIDE DEF s, t
<1>4. IsElem(c) /\ c.limbs = s /\ c.ov = e.ov /\ IsElem(d) /\ d.limbs = t /\ d.ov = e.ov
  BY <1>0, <1>1, <1>2, <1>3, VarIs DEF s, t
<1>5. s \in Seq(Int) /\ t \in Seq(Int) /\ Len(s) = L /\ Len(t) = j
  BY <1>2, <1>3 DEF s, t
<1>6. Full(c)  BY <1>0, <1>4, <1>5 DEF Full
<1>7. ASSUME Fits(e) PROVE Fits(c) /\ Fits(d)
  <2>1. \A i \in 1 .. n : l[i] < 2^(W + e.ov)  BY <1>7 DEF Fits, l, n, IsElem
  <2>2. \A i \in 1 .. L : s[i] < 2^(W + e.ov)
    <3> TAKE i \in 1 .. L
    <3>1. i \in 1 .. n  BY <1>0
    <3> QED BY <1>2, <2>1, <3>1 DEF s
  <2>3. \A i \in 1 .. j : t[i] < 2^(W + e.ov)
    <3> TAKE i \in 1 .. j
    <3>1. L + i \in 1 .. n  BY <1>0
    <3> QED BY <1>3, <2>1, <3>1 DEF t
  <2>4. DOMAIN s = 1 .. L /\ DOMAIN t = 1 .. j  BY <1>5
  <2> QED BY <1>4, <2>2, <2>3, <2>4 DEF Fits
<1> DEFINE v == 2^(W * L)
           g == After(f, L)
           h == Weighted(t)
           k == Weighted(s)
<1>8. Terms(f) /\ Terms(h) /\ Terms(k)  BY <1>0, <1>5, WeightedTerms
<1>9. Terms(g)
  <2>1. L \in Nat  BY <1>0
  <2> HIDE DEF f
  <2> QED BY <1>8, <2>1, AfterTerms
<1>10. W \in Nat /\ v \in Int  BY <1>0, Parameters, Weights
<1>11. Total(f, n) = Total(f, L) + Total(g, j)
  <2>1. L \in Nat  BY <1>0
  <2> HIDE DEF f
  <2>2. Total(f, L + j) = Total(f, L) + Total(g, j)  BY <1>0, <1>8, <2>1, TotalSplit
  <2> QED BY <1>0, <2>2
<1>12. \A i \in 1 .. L : f[i] = k[i]
  <2> TAKE i \in 1 .. L
  <2>1. i \in Nat \ {0} /\ i <= n /\ i <= Len(s) /\ l[i] = s[i]  BY <1>0, <1>2, <1>5 DEF s
  <2> QED BY <2>1 DEF Weighted, n
<1>13. Mixes(g, h, h, v, 0, j)
  <2>1. ASSUME NEW i \in 1 .. j PROVE g[i] = v * h[i] + 0 * h[i]
    <3> DEFINE w == 2^(W * (i - 1))
               z == 2^(W * ((L + i) - 1))
               x == l[L + i]
    <3>1. i \in Nat \ {0} /\ i - 1 \in Nat /\ L + i \in Nat \ {0} /\ L + i \in 1 .. n /\ i <= Len(t)
      BY <1>0, <1>5
    <3>2. g[i] = x * z  BY <3>1 DEF After, Weighted, n
    <3>3. h[i] = x * w  BY <1>3, <3>1 DEF Weighted, t
    <3>4. z = v * w
      <4> DEFINE p == W * L
                 q == W * (i - 1)
      <4>1. p \in Nat /\ q \in Nat /\ W * ((L + i) - 1) = p + q  BY <1>0, <1>10, <3>1
      <4>2. v = 2^p /\ w = 2^q /\ z = 2^(p + q)  BY <4>1
      <4> HIDE DEF p, q, z, v, w
      <4>3. 2^(p + q) = 2^p * 2^q  BY <4>1, TwoSum
      <4> QED BY <4>2, <4>3
    <3>5. x \in Int /\ w \in Int
      <4>1. w \in Int  BY <3>1, Weights
      <4>2. l[L + i] \in Nat  BY <1>0, <3>1
      <4> QED BY <4>1, <4>2
    <3> HIDE DEF w, z, x, v, g, h
    <3>6. x * (v * w) = v * (x * w) + 0 * (x * w)  BY <1>10, <3>5
    <3> QED BY <3>2, <3>3, <3>4, <3>6
  <2> QED BY <2>1 DEF Mixes
<1>14. Total(f, L) = Total(k, L)
  <2>1. L \in Nat  BY <1>0
  <2> HIDE DEF f, k
  <2> QED BY <1>8, <1>12, <2>1, TotalSame
<1>15. Total(g, j) = v * Total(h, j) + 0 * Total(h, j)
  <2>1. 0 \in Int  OBVIOUS
  <2> HIDE DEF g, h, v
  <2> QED BY <1>0, <1>8, <1>9, <1>10, <1>13, <2>1, TotalLinear
<1>16. Num(e) = Total(f, n)  BY <1>0, NumIs DEF Num, l, n
<1>17. Num(c) = Total(k, L)  BY <1>4, <1>5, NumIs DEF Num
<1>18. Num(d) = Total(h, j)  BY <1>4, <1>5, NumIs DEF Num
<1>19. Total(h, j) \in Int  BY <1>0, <1>8, TotalIs
<1> HIDE DEF f, g, h, k, v
<1>20. Num(e) = Num(c) + Num(d) * v
  <2> DEFINE y == Num(d)
  <2>1. y \in Int /\ Num(e) = Num(c) + (v * y + 0 * y)
    BY <1>11, <1>14, <1>15, <1>16, <1>17, <1>18, <1>19
  <2> HIDE DEF y
  <2>2. v * y + 0 * y = y * v  BY <1>10, <2>1
  <2> QED BY <2>1, <2>2 DEF y
<1> QED BY <1>4, <1>6, <1>7, <1>20 DEF c, d, v

(* Folding a product does not change what it stands for modulo P. *)
LEMMA FoldLimbsIs ==
  ASSUME pseudo => PseudoMersenne, NEW e, IsElem(e), Full(e), Len(e.limbs) <= 2 * L, FoldLimbs(e).fate = "ok"
  PROVE  LET r == FoldLimbs(e).elem
         IN  IsElem(r) /\ Full(r) /\ (Fits(e) => Fits(r) /\ Alike(P, Num(r), Num(e)))
<1> DEFINE r == FoldLimbs(e).elem
<1>0. P \in Int /\ Num(e) \in Int /\ L \in Nat /\ W \in Nat /\ Len(e.limbs) \in Nat
  <2>1. e.limbs \in Seq(Nat) /\ P \in Int /\ L \in Nat /\ W \in Nat  BY Parameters DEF IsElem
  <2>2. Num(e) \in Int  BY <2>1, NumTyped
  <2> QED BY <2>1, <2>2
<1>1. CASE ~pseudo \/ Len(e.limbs) <= L
  <2>1. r = e  BY <1>1 DEF FoldLimbs, Ok
  <2>2. Alike(P, Num(e), Num(e))  BY <1>0, AlikeRefl
  <2> HIDE DEF r
  <2> QED BY <2>1, <2>2 DEF r
<1>2. CASE pseudo /\ L < Len(e.limbs)
  <2> DEFINE c == LimbChunk(e, 0)
             d == LimbChunk(e, 1)
             s == Scale(1)
             m == MulConst(d, s)
             y == m.elem
             v == 2^(W * L)
  <2>0. L * W >= MersenneE
    <3>1. ~(~pseudo \/ Len(e.limbs) <= L)  BY <1>0, <1>2
    <3>2. CASE L * W < MersenneE
      <4>1. FoldLimbs(e) = Fails("panic")  BY <3>1, <3>2 DEF FoldLimbs
      <4> QED BY <4>1 DEF Fails
    <3> QED BY <3>2, Parameters
  <2>1. FoldLimbs(e) = AddsChunk(Ok(c), e, 1)  BY <1>2, <2>0, FoldsOneChunk
  <2>2. m.fate = "ok" /\ Add(c, y).fate = "ok" /\ r = Add(c, y).elem
    <3>1. Ok(c).fate = "ok" /\ Ok(c).elem = c  BY DEF Ok
    <3>2. AddsChunk(Ok(c), e, 1) = IF m.fate = "ok" THEN Add(c, y) ELSE m
      <4> HIDE DEF c, r
      <4> QED BY <3>1 DEF AddsChunk
    <3> HIDE DEF c, m
    <3> QED BY <2>1, <3>2
  <2>3. /\ IsElem(c) /\ IsElem(d) /\ Full(c)
        /\ Fits(e) => Fits(c) /\ Fits(d)
        /\ Num(e) = Num(c) + Num(d) * v
    BY <1>2, ChunksAre
  <2>4. s \in Nat \ {0} /\ Alike(P, s, v)
    <3> DEFINE x == W * L
    <3>1. x \in Nat /\ 1 * L * W = x  BY <1>0
    <3>2. s = MersennePower[(1 * L * W) \div MersenneE] * 2^((1 * L * W) % MersenneE)  BY DEF Scale
    <3>3. v = 2^x  OBVIOUS
    <3> HIDE DEF x, s, v
    <3>4. s = MersennePower[x \div MersenneE] * 2^(x % MersenneE)  BY <3>1, <3>2
    <3>5. s \in Nat \ {0} /\ Alike(P, s, 2^x)  BY <1>2, <3>1, <3>4, ScaleAlike
    <3> QED BY <3>3, <3>5
  <2>5. v \in Int  BY <1>0, Weights
  <2> HIDE DEF c, d, s, v, r
  <2>6. s \in Nat  BY <2>4
  <2>7. IsElem(y) /\ (Fits(d) => Fits(y) /\ Alike(P, Num(y), Num(d) * s))
    BY <2>2, <2>3, <2>6, MulConstIs
  <2> HIDE DEF m, y
  <2>8. /\ IsElem(r) /\ (Full(c) \/ Full(y) => Full(r))
        /\ Fits(c) /\ Fits(y) => Fits(r) /\ Alike(P, Num(r), Num(c) + Num(y))
    BY <2>2, <2>3, <2>7, AddIs
  <2>9. ASSUME Fits(e) PROVE Fits(r) /\ Alike(P, Num(r), Num(e))
    <3>1. Fits(r) /\ Alike(P, Num(r), Num(c) + Num(y)) /\ Alike(P, Num(y), Num(d) * s)
      BY <2>3, <2>7, <2>8, <2>9
    <3>2. Num(c) \in Int /\ Num(d) \in Int /\ Num(y) \in Int /\ Num(r) \in Int
      BY <2>3, <2>7, <2>8, NumTyped DEF IsElem
    <3> DEFINE a == Num(c)
               b == Num(d)
               z == Num(y)
    <3> HIDE DEF a, b, z
    <3>3. a \in Int /\ b \in Int /\ z \in Int /\ b * s \in Int /\ b * v \in Int
          /\ a + z \in Int /\ a + b * v \in Int
      BY SMTT(60), <2>5, <2>6, <3>2 DEF a, b, z
    <3>4. Alike(P, b, b) /\ Alike(P, a, a)  BY <1>0, <3>3, AlikeRefl
    <3>5. Alike(P, b * s, b * v)  BY <1>0, <2>4, <2>5, <2>6, <3>3, <3>4, AlikeProd
    <3>6. Alike(P, z, b * v)
      <4>1. Alike(P, z, b * s)  BY <3>1 DEF z, b
      <4> QED BY <1>0, <3>3, <3>5, <4>1, AlikeTrans
    <3>7. Alike(P, a + z, a + b * v)  BY <1>0, <3>3, <3>4, <3>6, AlikeSum
    <3>8. Alike(P, Num(r), a + z)  BY <3>1 DEF a, z
    <3>9. Alike(P, Num(r), a + b * v)  BY <1>0, <3>2, <3>3, <3>7, <3>8, AlikeTrans
    <3> QED BY <2>3, <3>1, <3>9 DEF a, b
  <2> QED BY <2>3, <2>8, <2>9 DEF r
<1>3. (~pseudo \/ Len(e.limbs) <= L) \/ (pseudo /\ L < Len(e.limbs))  BY <1>0
<1> QED BY <1>1, <1>2, <1>3

(* A product stands for the product. *)
LEMMA MulIs ==
  ASSUME pseudo => PseudoMersenne, NEW a, NEW b, IsElem(a), IsElem(b), Full(a), Full(b),
         Len(a.limbs) <= L, Len(b.limbs) <= L, Mul(a, b).fate = "ok"
  PROVE  LET e == Mul(a, b).elem
         IN  /\ IsElem(e) /\ Full(e)
             /\ Fits(a) /\ Fits(b) => Fits(e) /\ Alike(P, Num(e), Num(a) * Num(b))
<1> DEFINE r == Fit(a, b, "mul")
           q == r.elem
           m == MulOp(q[1], q[2])
           e == Mul(a, b).elem
<1>1. r.fate = "ok"
      /\ \/ e = m
         \/ FoldLimbs(m).fate = "ok" /\ e = FoldLimbs(m).elem
  BY DEF Mul, Then, Ok
<1>2. Keeps(q[1], a) /\ Keeps(q[2], b) /\ NextOv("mul", q[1], q[2]) <= MaxOv  BY <1>1, FitKeeps
<1>3. MulNext(q[1], q[2]) <= MaxOv  BY <1>2 DEF NextOv
<1> HIDE DEF r, q, e
<1>4. IsElem(q[1]) /\ IsElem(q[2]) /\ Full(q[1]) /\ Full(q[2])
      /\ Len(q[1].limbs) <= L /\ Len(q[2].limbs) <= L
  BY <1>2 DEF Keeps
<1>5. /\ IsElem(m) /\ Full(m)
      /\ Len(m.limbs) <= Larger(L, Len(q[1].limbs) + Len(q[2].limbs) - 1)
      /\ Fits(q[1]) /\ Fits(q[2]) => Fits(m) /\ Alike(P, Num(m), Num(q[1]) * Num(q[2]))
  BY <1>3, <1>4, MulOpIs
<1> HIDE DEF m
<1>6. Len(m.limbs) <= 2 * L
  <2>1. Len(q[1].limbs) \in Nat /\ Len(q[2].limbs) \in Nat /\ Len(m.limbs) \in Nat /\ L \in Nat \ {0}
    BY SMTT(60), <1>4, <1>5, Parameters DEF IsElem
  <2> DEFINE x == Len(q[1].limbs)
             y == Len(q[2].limbs)
             z == Len(m.limbs)
  <2>2. x <= L /\ y <= L /\ z <= Larger(L, x + y - 1)  BY <1>4, <1>5
  <2>3. x \in Nat /\ y \in Nat /\ z \in Nat  BY <2>1
  <2> HIDE DEF x, y, z
  <2>4. z <= 2 * L  BY <2>1, <2>2, <2>3 DEF Larger
  <2> QED BY <2>4 DEF z
<1>7. IsElem(e) /\ Full(e) /\ (Fits(m) => Fits(e) /\ Alike(P, Num(e), Num(m)))
  <2>1. CASE e = m
    <3>1. Num(m) \in Int /\ P \in Int  BY <1>5, NumTyped, Parameters DEF IsElem
    <3>2. Alike(P, Num(m), Num(m))  BY <3>1, AlikeRefl
    <3> QED BY <1>5, <2>1, <3>2
  <2>2. CASE FoldLimbs(m).fate = "ok" /\ e = FoldLimbs(m).elem
    BY <1>5, <1>6, <2>2, FoldLimbsIs
  <2> QED BY <1>1, <2>1, <2>2
<1>8. ASSUME Fits(a), Fits(b) PROVE Fits(e) /\ Alike(P, Num(e), Num(a) * Num(b))
  <2>1. Fits(m) /\ Alike(P, Num(m), Num(q[1]) * Num(q[2]))  BY <1>2, <1>5, <1>8 DEF Keeps
  <2>2. Fits(e) /\ Alike(P, Num(e), Num(m))  BY <1>7, <2>1
  <2>3. Alike(P, Num(q[1]), Num(a)) /\ Alike(P, Num(q[2]), Num(b))  BY <1>2 DEF Keeps
  <2>4. Num(q[1]) \in Int /\ Num(q[2]) \in Int /\ Num(a) \in Int /\ Num(b) \in Int
    <3>1. a.limbs \in Seq(Nat) /\ b.limbs \in Seq(Nat) /\ q[1].limbs \in Seq(Nat) /\ q[2].limbs \in Seq(Nat)
      BY <1>4 DEF IsElem
    <3> QED BY <3>1, NumTyped
  <2>5. Num(m) \in Int /\ Num(e) \in Int /\ P \in Int
    <3>1. m.limbs \in Seq(Nat) /\ e.limbs \in Seq(Nat) /\ P \in Int  BY <1>5, <1>7, Parameters DEF IsElem
    <3> QED BY <3>1, NumTyped
  <2>6. Alike(P, Num(q[1]) * Num(q[2]), Num(a) * Num(b))  BY <2>3, <2>4, <2>5, AlikeProd
  <2>7. Num(q[1]) * Num(q[2]) \in Int /\ Num(a) * Num(b) \in Int  BY <2>4
  <2>8. Alike(P, Num(m), Num(a) * Num(b))  BY <2>1, <2>5, <2>6, <2>7, AlikeTrans
  <2>9. Alike(P, Num(e), Num(a) * Num(b))  BY <2>2, <2>5, <2>7, <2>8, AlikeTrans
  <2> QED BY <2>2, <2>9
<1> QED BY <1>7, <1>8 DEF e

-----------------------------------------------------------------------------
(* Allocated elements, quotients and selections. *)

(* A negated element stands for the negated number. *)
LEMMA NegIs ==
  ASSUME NEW a, IsElem(a), Neg(a).fate = "ok"
  PROVE  LET e == Neg(a).elem
         IN  IsElem(e) /\ Full(e) /\ (Fits(a) => Alike(P, Num(e), 0 - Num(a)))
<1> DEFINE z == FromBig(0)
           e == Neg(a).elem
<1>1. IsElem(z) /\ Fits(z) /\ Full(z) /\ Alike(P, Num(z), 0) /\ Num(z) \in Int
  <2>1. 0 \in Nat  OBVIOUS
  <2> QED BY <2>1, FromBigIs
<1>2. Sub(z, a).fate = "ok" /\ e = Sub(z, a).elem  BY DEF Neg
<1> HIDE DEF z, e
<1>3. IsElem(e) /\ Full(e) /\ (Fits(z) /\ Fits(a) => Alike(P, Num(e), Num(z) - Num(a)))
  BY <1>1, <1>2, SubIs
<1>4. ASSUME Fits(a) PROVE Alike(P, Num(e), 0 - Num(a))
  <2>1. Num(e) \in Int /\ Num(a) \in Int
    <3>1. e.limbs \in Seq(Nat) /\ a.limbs \in Seq(Nat)  BY <1>3 DEF IsElem
    <3> QED BY <3>1, NumTyped
  <2>2. P \in Int /\ 0 \in Int  BY Parameters
  <2>3. Alike(P, Num(a), Num(a))  BY <2>1, <2>2, AlikeRefl
  <2>4. Alike(P, Num(z) - Num(a), 0 - Num(a))  BY <1>1, <2>1, <2>2, <2>3, AlikeDiff
  <2>5. Num(z) - Num(a) \in Int /\ 0 - Num(a) \in Int  BY <1>1, <2>1
  <2>6. Alike(P, Num(e), Num(z) - Num(a))  BY <1>1, <1>3, <1>4
  <2> QED BY <2>1, <2>2, <2>4, <2>5, <2>6, AlikeTrans
<1> QED BY <1>3, <1>4 DEF e

(* An allocated constant stands for the constant. *)
LEMMA AllocatedIs ==
  ASSUME NEW v \in Nat
  PROVE  LET e == Var(FromBig(v).limbs, 0)
         IN  IsElem(e) /\ Full(e) /\ Fits(e) /\ Alike(P, Num(e), v)
<1> DEFINE c == FromBig(v)
           e == Var(c.limbs, 0)
<1>1. IsElem(c) /\ Fits(c) /\ Full(c) /\ c.kind = "const" /\ c.limbs \in Seq(Nat)
      /\ Alike(P, Num(c), v)
  BY FromBigIs
<1> HIDE DEF c
<1>2. 0 \in 0 .. MaxOv  BY Room
<1>3. IsElem(e) /\ e.limbs = c.limbs /\ e.ov = 0  BY <1>1, <1>2, VarIs
<1>4. c.ov = 0  BY <1>1 DEF IsElem
<1> HIDE DEF e
<1> QED BY <1>1, <1>3, <1>4 DEF Full, Fits, Num, e, c

(* So does a number of the native field that is cut into limbs. *)
LEMMA FromNumIs ==
  ASSUME NEW v \in Values
  PROVE  v \in Nat /\ IsElem(FromNum(v)) /\ Full(FromNum(v)) /\ Fits(FromNum(v)) /\ Num(FromNum(v)) = v
<1> DEFINE e == FromNum(v)
<1>1. v \in Nat /\ v < 2^(W * L)
  <2>1. v \in 0 .. 2^(L * W) - 1 /\ L * W = W * L /\ L \in Nat  BY FieldAssumption
  <2> DEFINE b == 2^(W * L)
  <2>2. b \in Nat  BY <2>1, Weights
  <2>3. v \in 0 .. b - 1  BY <2>1
  <2> HIDE DEF b
  <2>4. v \in Nat /\ v < b  BY <2>2, <2>3
  <2> QED BY <2>4 DEF b
<1>2. e.limbs = Digits(v, L) /\ e.ov = 0 /\ e.kind = "var"  BY DEF FromNum, Var
<1>3. L \in Nat  BY Parameters
<1> HIDE DEF e
<1>4. IsElem(e) /\ Fits(e) /\ Num(e) = v /\ Len(e.limbs) = L  BY <1>1, <1>2, <1>3, DigitsElem
<1> QED BY <1>1, <1>3, <1>4 DEF e, Full

(* A quotient stands for the product with the inverse. *)
LEMMA DivideIs ==
  ASSUME NEW a, NEW b, IsElem(a), IsElem(b), Divide(a, b).fate = "ok"
  PROVE  LET e == Divide(a, b).elem
             y == Num(b) % P
         IN  /\ IsElem(e) /\ Full(e) /\ Fits(e)
             /\ y \in 1 .. P - 1 /\ Num(e) = (Num(a) * InvP(y)) % P
<1> DEFINE e == Divide(a, b).elem
           y == Num(b) % P
           v == (Num(a) * InvP(y)) % P
           h == Hint(v, L, TRUE)
<1>1. y # 0 /\ h.fate = "ok" /\ e = h.elem  BY DEF Divide, Then, Ok, Fails
<1>2. Num(a) \in Int /\ Num(b) \in Int
  <2>1. a.limbs \in Seq(Nat) /\ b.limbs \in Seq(Nat)  BY DEF IsElem
  <2> QED BY <2>1, NumTyped
<1>3. P \in Nat \ {0} /\ L \in Nat  BY Parameters
<1>4. y \in 0 .. P - 1  BY <1>2, <1>3, AlikeMod
<1>5. y \in 1 .. P - 1  BY <1>1, <1>3, <1>4
<1> HIDE DEF y, e
<1>6. InvP(y) \in 0 .. P - 1  BY <1>5, InvPIs
<1>7. v \in Nat
  <2> DEFINE x == Num(a) * InvP(y)
  <2>1. x \in Int  BY <1>2, <1>6
  <2> HIDE DEF x
  <2>2. x % P \in 0 .. P - 1  BY <1>3, <2>1, AlikeMod
  <2>3. x % P \in Nat  BY <1>3, <2>2
  <2> QED BY <2>3 DEF x
<1> HIDE DEF v
<1>8. IsElem(e) /\ Fits(e) /\ Num(e) = v /\ Len(e.limbs) = L
  <2>1. TRUE \in BOOLEAN  OBVIOUS
  <2>2. Hint(v, L, TRUE).fate = "ok" /\ e = Hint(v, L, TRUE).elem  BY <1>1
  <2> QED BY <1>3, <1>7, <2>1, <2>2, HintIs
<1>9. Full(e)  BY <1>3, <1>8 DEF Full
<1> QED BY <1>5, <1>8, <1>9 DEF e, v, y

(* An inverse stands for the inverse. *)
LEMMA InvertIs ==
  ASSUME NEW a, IsElem(a), Invert(a).fate = "ok"
  PROVE  LET e == Invert(a).elem
             y == Num(a) % P
         IN  IsElem(e) /\ Full(e) /\ Fits(e) /\ y \in 1 .. P - 1 /\ Num(e) = InvP(y)
<1> DEFINE e == Invert(a).elem
           y == Num(a) % P
           v == InvP(y)
<1>1. y # 0 /\ Hint(v, L, TRUE).fate = "ok" /\ e = Hint(v, L, TRUE).elem
  BY DEF Invert, Then, Ok, Fails
<1>2. Num(a) \in Int
  <2>1. a.limbs \in Seq(Nat)  BY DEF IsElem
  <2> QED BY <2>1, NumTyped
<1>3. P \in Nat \ {0} /\ L \in Nat  BY Parameters
<1>4. y \in 0 .. P - 1  BY <1>2, <1>3, AlikeMod
<1>5. y \in 1 .. P - 1  BY <1>1, <1>3, <1>4
<1> HIDE DEF y, e
<1>6. v \in Nat
  <2>1. v \in 0 .. P - 1  BY <1>5, InvPIs
  <2> QED BY <1>3, <2>1
<1> HIDE DEF v
<1>7. IsElem(e) /\ Fits(e) /\ Num(e) = v /\ Len(e.limbs) = L
  <2>1. TRUE \in BOOLEAN  OBVIOUS
  <2> QED BY <1>1, <1>3, <1>6, <2>1, HintIs
<1>8. Full(e)  BY <1>3, <1>7 DEF Full
<1> QED BY <1>5, <1>7, <1>8 DEF e, v, y

(* A selection stands for what is selected, as wide as the wider of the two. *)
LEMMA SelectIs ==
  ASSUME NEW a, NEW b, IsElem(a), IsElem(b), NEW cond \in BOOLEAN, Select(a, b, cond).fate = "ok"
  PROVE  LET e == Select(a, b, cond).elem
             s == IF cond THEN b ELSE a
         IN  /\ IsElem(e) /\ (Full(s) => Full(e)) /\ Num(e) = Num(s)
             /\ (Fits(a) /\ Fits(b) => Fits(e))
<1> DEFINE e == Select(a, b, cond).elem
           s == IF cond THEN b ELSE a
           ov == Larger(a.ov, b.ov)
<1>1. e = Var(s.limbs, ov)  BY DEF Select, Ok, Fails
<1>2. IsElem(s) /\ (Fits(a) /\ Fits(b) => Fits(s)) /\ s \in {a, b}  OBVIOUS
<1>3. a.ov \in Nat /\ b.ov \in Nat /\ a.ov <= MaxOv /\ b.ov <= MaxOv /\ MaxOv \in Nat
  BY Room DEF IsElem
<1>4. s.ov \in Nat /\ s.ov <= ov /\ ov \in 0 .. MaxOv  BY <1>2, <1>3 DEF Larger
<1> HIDE DEF s, ov, e
<1>5. s.limbs \in Seq(Nat)  BY <1>2 DEF IsElem
<1>6. IsElem(e) /\ e.limbs = s.limbs /\ e.ov = ov  BY <1>1, <1>4, <1>5, VarIs
<1>7. ASSUME Fits(s) PROVE Fits(e)
  <2>1. W \in Nat /\ ov \in Nat  BY <1>3, <1>4, Parameters
  <2> DEFINE m == W + s.ov
             n == W + ov
             x == 2^m
             y == 2^n
  <2>2. m \in Nat /\ n \in Nat /\ m <= n  BY <1>4, <2>1
  <2> HIDE DEF m, n
  <2>3. x <= y  BY <2>2, TwoMonotone
  <2>4. x \in Nat /\ y \in Nat  BY <2>2, TwoPositive
  <2>5. \A k \in DOMAIN s.limbs : s.limbs[k] \in Nat  BY <1>5
  <2>6. \A k \in DOMAIN s.limbs : s.limbs[k] < x  BY <1>7 DEF Fits, m
  <2> HIDE DEF x, y
  <2>7. \A k \in DOMAIN s.limbs : s.limbs[k] < y  BY <2>3, <2>4, <2>5, <2>6
  <2> QED BY <1>6, <2>7 DEF Fits, y, n
<1>8. Num(e) = Num(s) /\ (Full(s) => Full(e))  BY <1>6 DEF Num, Full
<1> QED BY <1>2, <1>6, <1>7, <1>8 DEF e, s

(* What MuxTree selects from two rows, and from a row. *)
Chosen(x, y, bit) ==
  IF x.fate = "ok" THEN IF y.fate = "ok" THEN Select(x.elem, y.elem, bit) ELSE y ELSE x

Halved(bit, row) == [k \in 1 .. Len(row) \div 2 |-> Chosen(row[2 * k - 1], row[2 * k], bit)]

HalvesRows(it, D, bits, base) ==
  it = [s \in SUBSET D |->
          IF s = {} THEN base ELSE Halved(bits[Min(s)], it[s \ {Min(s)}])]

(* A tree of two bits: the second selects within the halves, the first one of them. *)
LEMMA TreeOfTwo ==
  ASSUME NEW bits \in [1 .. 2 -> BOOLEAN], NEW inputs, Len(inputs) = 4, DOMAIN inputs = 1 .. 4
  PROVE  MuxTree(bits, inputs)
           = Halved(bits[1], Halved(bits[2], [k \in DOMAIN inputs |-> Ok(inputs[k])]))[1]
<1> DEFINE base == [k \in DOMAIN inputs |-> Ok(inputs[k])]
           D == DOMAIN bits
           iter == CHOOSE it : HalvesRows(it, D, bits, base)
           it == [s \in SUBSET D |->
                    IF s = {} THEN base
                    ELSE IF s = {2} THEN Halved(bits[2], base)
                    ELSE IF s = {1} THEN Halved(bits[1], base)
                    ELSE Halved(bits[1], Halved(bits[2], base))]
<1>1. D = {1, 2} /\ Len(bits) = 2 /\ 2^2 = 4
  <2>1. D = 1 .. 2  OBVIOUS
  <2>2. 1 .. 2 = {1, 2}  OBVIOUS
  <2>3. Len(bits) = 2  BY SMTT(60)
  <2> QED BY <2>1, <2>2, <2>3
<1>2. MuxTree(bits, inputs) = iter[D][1]
  <2>1. Len(inputs) = 2^Len(bits)  BY <1>1
  <2> QED BY <2>1 DEF MuxTree, FoldRight, MapThenFoldSet, HalvesRows, Halved, Chosen, Then
<1> HIDE DEF D
<1>3. Min({1}) = 1 /\ Min({2}) = 2 /\ Min({1, 2}) = 1
  <2>1. 1 .. 1 = {1} /\ 2 .. 2 = {2} /\ 1 .. 2 = {1, 2}  OBVIOUS
  <2>2. 1 \in Int /\ 2 \in Int /\ 1 <= 1 /\ 2 <= 2 /\ 1 <= 2  OBVIOUS
  <2>3. Min(1 .. 1) = 1 /\ Min(2 .. 2) = 2 /\ Min(1 .. 2) = 1  BY <2>2, MinInterval
  <2> QED BY <2>1, <2>3
<1>4. it[{}] = base /\ it[{1}] = Halved(bits[1], base) /\ it[{2}] = Halved(bits[2], base)
      /\ it[{1, 2}] = Halved(bits[1], Halved(bits[2], base))
  <2>1. {} \in SUBSET D /\ {1} \in SUBSET D /\ {2} \in SUBSET D /\ {1, 2} \in SUBSET D  BY <1>1
  <2>2. {1} # {} /\ {2} # {} /\ {1, 2} # {} /\ {1} # {2} /\ {1, 2} # {1} /\ {1, 2} # {2}
    <3>1. 1 # 2  OBVIOUS
    <3> QED BY <3>1
  <2> HIDE DEF base
  <2> QED BY <2>1, <2>2
<1>5. ASSUME NEW s \in SUBSET D, s # {}
      PROVE  it[s] = Halved(bits[Min(s)], it[s \ {Min(s)}])
  <2>1. s = {1} \/ s = {2} \/ s = {1, 2}  BY ZenonT(60), <1>1, <1>5
  <2>2. {1} \ {1} = {} /\ {2} \ {2} = {} /\ {1, 2} \ {1} = {2}
    <3>1. 1 # 2  OBVIOUS
    <3> QED BY <3>1
  <2> HIDE DEF it, base
  <2>3. CASE s = {1}  BY <1>3, <1>4, <2>2, <2>3
  <2>4. CASE s = {2}  BY <1>3, <1>4, <2>2, <2>4
  <2>5. CASE s = {1, 2}  BY <1>3, <1>4, <2>2, <2>5
  <2> QED BY <2>1, <2>3, <2>4, <2>5
<1>6. HalvesRows(it, D, bits, base)
  <2>1. it = [s \in SUBSET D |-> it[s]]  OBVIOUS
  <2> HIDE DEF it, base
  <2>2. it = [s \in SUBSET D |-> IF s = {} THEN base ELSE Halved(bits[Min(s)], it[s \ {Min(s)}])]
    BY <1>4, <1>5, <2>1
  <2> QED BY <2>2 DEF HalvesRows
<1> HIDE DEF it, base
<1>7. HalvesRows(iter, D, bits, base)  BY <1>6
<1> HIDE DEF iter
<1>8. iter[{}] = base
  <2>1. {} \in SUBSET D  OBVIOUS
  <2> QED BY <1>7, <2>1 DEF HalvesRows
<1>9. iter[{2}] = Halved(bits[2], base)
  <2>1. {2} \in SUBSET D /\ {2} # {} /\ {2} \ {2} = {}  BY <1>1
  <2>2. iter[{2}] = Halved(bits[Min({2})], iter[{2} \ {Min({2})}])  BY <1>7, <2>1 DEF HalvesRows
  <2> QED BY <1>3, <1>8, <2>1, <2>2
<1>10. iter[D] = Halved(bits[1], iter[{2}])
  <2>1. D \in SUBSET D /\ D # {} /\ D \ {1} = {2}
    <3>1. 1 # 2  OBVIOUS
    <3> QED BY <1>1, <3>1
  <2>2. iter[D] = Halved(bits[Min(D)], iter[D \ {Min(D)}])  BY <1>7, <2>1 DEF HalvesRows
  <2> QED BY <1>1, <1>3, <2>1, <2>2
<1> QED BY <1>2, <1>9, <1>10 DEF base

(* A selection between an element and a second that is there once. *)
LEMMA TreeSelects ==
  ASSUME NEW bits \in [1 .. 2 -> BOOLEAN], NEW a, NEW b, MuxTree(bits, <<a, b, a, a>>).fate = "ok"
  PROVE  LET s == Select(a, b, bits[2])
             t == Select(a, a, bits[2])
         IN  /\ s.fate = "ok" /\ t.fate = "ok" /\ Select(s.elem, t.elem, bits[1]).fate = "ok"
             /\ MuxTree(bits, <<a, b, a, a>>) = Select(s.elem, t.elem, bits[1])
<1> DEFINE inputs == <<a, b, a, a>>
           base == [k \in DOMAIN inputs |-> Ok(inputs[k])]
           row == Halved(bits[2], base)
           s == Select(a, b, bits[2])
           t == Select(a, a, bits[2])
<1>1. Len(inputs) = 4 /\ DOMAIN inputs = 1 .. 4
  OBVIOUS
<1>2. inputs[1] = a /\ inputs[2] = b /\ inputs[3] = a /\ inputs[4] = a  OBVIOUS
<1> HIDE DEF inputs
<1>3. MuxTree(bits, inputs) = Halved(bits[1], row)[1]  BY <1>1, TreeOfTwo
<1>4. base[1] = Ok(a) /\ base[2] = Ok(b) /\ base[3] = Ok(a) /\ base[4] = Ok(a) /\ Len(base) = 4
  <2>1. base = [k \in 1 .. 4 |-> Ok(inputs[k])]  BY <1>1
  <2>2. 1 \in 1 .. 4 /\ 2 \in 1 .. 4 /\ 3 \in 1 .. 4 /\ 4 \in 1 .. 4 /\ 4 \in Nat  OBVIOUS
  <2> QED BY <1>2, <2>1, <2>2
<1> HIDE DEF base
<1>5. row = [k \in 1 .. 2 |-> Chosen(base[2 * k - 1], base[2 * k], bits[2])]
  <2>1. 4 \div 2 = 2  OBVIOUS
  <2> QED BY <1>4, <2>1 DEF Halved
<1>6. row[1] = Chosen(Ok(a), Ok(b), bits[2]) /\ row[2] = Chosen(Ok(a), Ok(a), bits[2]) /\ Len(row) = 2
  <2>1. 1 \in 1 .. 2 /\ 2 \in 1 .. 2 /\ 2 * 1 - 1 = 1 /\ 2 * 1 = 2 /\ 2 * 2 - 1 = 3 /\ 2 * 2 = 4 /\ 2 \in Nat
    OBVIOUS
  <2> HIDE DEF row
  <2> QED BY <1>4, <1>5, <2>1
<1>7. Chosen(Ok(a), Ok(b), bits[2]) = s /\ Chosen(Ok(a), Ok(a), bits[2]) = t
  BY DEF Chosen, Ok
<1> HIDE DEF row, s, t
<1>8. Halved(bits[1], row)[1] = Chosen(s, t, bits[1])
  <2>1. 2 \div 2 = 1 /\ 1 \in 1 .. 1 /\ 2 * 1 - 1 = 1 /\ 2 * 1 = 2  OBVIOUS
  <2>2. Halved(bits[1], row) = [k \in 1 .. 1 |-> Chosen(row[2 * k - 1], row[2 * k], bits[1])]
    BY <1>6, <2>1 DEF Halved
  <2> QED BY <1>6, <1>7, <2>1, <2>2
<1>9. Chosen(s, t, bits[1]).fate = "ok"  BY <1>3, <1>8 DEF inputs
<1>10. s.fate = "ok" /\ t.fate = "ok" /\ Chosen(s, t, bits[1]) = Select(s.elem, t.elem, bits[1])
  BY <1>9 DEF Chosen
<1> QED BY <1>3, <1>8, <1>9, <1>10 DEF inputs, s, t

(* Every selection of a tree stands for what its bits choose. *)
LEMMA TreeIs ==
  ASSUME NEW bits \in [1 .. 2 -> BOOLEAN], NEW a, NEW b, IsElem(a), IsElem(b), Full(a), Full(b),
         MuxTree(bits, <<a, b, a, a>>).fate = "ok"
  PROVE  LET e == MuxTree(bits, <<a, b, a, a>>).elem
         IN  /\ IsElem(e) /\ Full(e) /\ Num(e) = Num(IF bits = <<FALSE, TRUE>> THEN b ELSE a)
             /\ Fits(a) /\ Fits(b) => Fits(e)
<1> DEFINE s == Select(a, b, bits[2])
           t == Select(a, a, bits[2])
           u == Select(s.elem, t.elem, bits[1])
           e == MuxTree(bits, <<a, b, a, a>>).elem
<1>1. s.fate = "ok" /\ t.fate = "ok" /\ u.fate = "ok" /\ e = u.elem  BY TreeSelects
<1>2. bits[1] \in BOOLEAN /\ bits[2] \in BOOLEAN  OBVIOUS
<1>3. (bits = <<FALSE, TRUE>>) <=> (bits[1] = FALSE /\ bits[2] = TRUE)
  <2>1. ASSUME bits[1] = FALSE, bits[2] = TRUE PROVE bits = <<FALSE, TRUE>>
    <3> DEFINE c == <<FALSE, TRUE>>
    <3>1. c \in [1 .. 2 -> BOOLEAN] /\ c[1] = FALSE /\ c[2] = TRUE
      <4>1. c[1] = FALSE /\ c[2] = TRUE  OBVIOUS
      <4>2. FALSE \in BOOLEAN /\ TRUE \in BOOLEAN  OBVIOUS
      <4>3. c = [k \in 1 .. 2 |-> c[k]]  OBVIOUS
      <4>4. \A k \in 1 .. 2 : k = 1 \/ k = 2  OBVIOUS
      <4> HIDE DEF c
      <4>5. \A k \in 1 .. 2 : c[k] \in BOOLEAN  BY <4>1, <4>2, <4>4, Zenon
      <4>6. c \in [1 .. 2 -> BOOLEAN]  BY <4>3, <4>5, Zenon
      <4> QED BY <4>1, <4>6
    <3>2. \A k \in 1 .. 2 : bits[k] = c[k]
      <4>1. \A k \in 1 .. 2 : k = 1 \/ k = 2  OBVIOUS
      <4> HIDE DEF c
      <4> QED BY <2>1, <3>1, <4>1
    <3> HIDE DEF c
    <3>3. bits = c  BY <3>1, <3>2
    <3> QED BY <3>3 DEF c
  <2>2. bits = <<FALSE, TRUE>> => bits[1] = FALSE /\ bits[2] = TRUE  OBVIOUS
  <2> QED BY <2>1, <2>2
<1> HIDE DEF e
<1>4. /\ IsElem(s.elem) /\ Full(s.elem) /\ Num(s.elem) = Num(IF bits[2] THEN b ELSE a)
      /\ Fits(a) /\ Fits(b) => Fits(s.elem)
  BY <1>1, <1>2, SelectIs
<1>5. IsElem(t.elem) /\ Full(t.elem) /\ Num(t.elem) = Num(a) /\ (Fits(a) => Fits(t.elem))
  BY <1>1, <1>2, SelectIs
<1> HIDE DEF s, t
<1>6. /\ IsElem(e) /\ Full(e) /\ Num(e) = Num(IF bits[1] THEN t.elem ELSE s.elem)
      /\ Fits(s.elem) /\ Fits(t.elem) => Fits(e)
  BY <1>1, <1>2, <1>4, <1>5, SelectIs
<1> HIDE DEF u
<1>7. Num(e) = Num(IF bits = <<FALSE, TRUE>> THEN b ELSE a)
  <2>1. CASE bits[1]
    <3>1. bits # <<FALSE, TRUE>>  BY <1>3, <2>1
    <3> QED BY <1>5, <1>6, <2>1, <3>1
  <2>2. CASE ~bits[1]
    <3>1. bits[1] = FALSE  BY <1>2, <2>2
    <3>2. bits[2] => bits = <<FALSE, TRUE>>  BY <1>2, <1>3, <3>1
    <3>3. ~bits[2] => bits # <<FALSE, TRUE>>  BY <1>3
    <3> QED BY <1>4, <1>6, <2>2, <3>2, <3>3
  <2> QED BY <2>1, <2>2
<1> QED BY <1>4, <1>5, <1>6, <1>7 DEF e

-----------------------------------------------------------------------------
(* Syntheses. *)

AllFit == \A i \in DOMAIN elems : Fits(elems[i])

AllKnown == \A i \in DOMAIN elems : Num(elems[i]) % P = wants[i]

(* A sequence of elements, and one of numbers modulo P beside it; a modulus is used as *)
(* one of the form 2^e - c only if it is. *)
Elements ==
  /\ \E S : elems \in Seq(S)
  /\ wants \in Seq(0 .. P - 1) /\ Len(wants) = Len(elems)
  /\ \A i \in DOMAIN elems : IsElem(elems[i]) /\ Full(elems[i])
  /\ pseudo => PseudoMersenne

SynthesisInv == Elements /\ ValuesKept

(* The element that an operation makes stands for the number it computes, and fits
   as far as its operands do. *)
Made(op, r, want, args) ==
  /\ want \in 0 .. P - 1
  /\ \A k \in DOMAIN args : args[k] \in DOMAIN elems
  /\ r.fate = "ok" =>
       /\ IsElem(r.elem) /\ Full(r.elem)
       /\ AllFit /\ AllKnown => Num(r.elem) % P = want
       /\ op \notin {"sub", "neg"} /\ (\A k \in DOMAIN args : Fits(elems[args[k]])) => Fits(r.elem)

(* Such an operation preserves the invariant. *)
LEMMA MakesKeeps ==
  ASSUME SynthesisInv, NEW op, NEW r, NEW want, NEW args,
         Makes(op, r, want, args), Made(op, r, want, args)
  PROVE  SynthesisInv'
<1> DEFINE n == Len(elems)
<1>1. PICK S : elems \in Seq(S)  BY DEF SynthesisInv, Elements
<1>2. n \in Nat /\ DOMAIN elems = 1 .. n /\ wants \in Seq(0 .. P - 1) /\ Len(wants) = n
      /\ DOMAIN wants = 1 .. n
  BY <1>1 DEF SynthesisInv, Elements
<1>3. last' = [op |-> op, args |-> args, fate |-> r.fate, says |-> TRUE, truth |-> TRUE]  BY DEF Makes
<1>4. CASE r.fate # "ok"
  <2>1. elems' = elems /\ wants' = wants /\ pseudo' = pseudo /\ last'.fate # "ok"
    BY <1>3, <1>4 DEF Makes
  <2>2. Elements'  BY <2>1 DEF SynthesisInv, Elements, PseudoMersenne
  <2>3. ValuesKept'  BY <2>1 DEF SynthesisInv, ValuesKept
  <2> QED BY <2>2, <2>3 DEF SynthesisInv
<1>5. CASE r.fate = "ok"
  <2>1. elems' = Append(elems, r.elem) /\ wants' = Append(wants, want) /\ last'.op = op /\ last'.args = args
    BY <1>3, <1>5 DEF Makes
  <2>2. IsElem(r.elem) /\ Full(r.elem) /\ want \in 0 .. P - 1  BY <1>5 DEF Made
  <2> DEFINE T == S \cup {r.elem}
  <2>3. elems \in Seq(T) /\ r.elem \in T
    <3>1. \A i \in 1 .. n : elems[i] \in T  BY <1>1
    <3>2. elems = [i \in 1 .. n |-> elems[i]]  BY <1>1
    <3> QED BY <1>2, <3>1, <3>2
  <2> HIDE DEF T
  <2>4. elems' \in Seq(T) /\ Len(elems') = n + 1 /\ elems'[n + 1] = r.elem
        /\ \A i \in 1 .. n : elems'[i] = elems[i]
    BY <2>1, <2>3
  <2>5. wants' \in Seq(0 .. P - 1) /\ Len(wants') = n + 1 /\ wants'[n + 1] = want
        /\ \A i \in 1 .. n : wants'[i] = wants[i]
    BY <1>2, <2>1, <2>2
  <2>6. DOMAIN elems' = 1 .. n + 1 /\ \A i \in 1 .. n + 1 : i \in 1 .. n \/ i = n + 1
    BY <1>2, <2>4
  <2>7. \A i \in 1 .. n + 1 : IsElem(elems'[i]) /\ Full(elems'[i])
    BY <1>2, <2>2, <2>4, <2>6 DEF SynthesisInv, Elements
  <2>8. (pseudo => PseudoMersenne)'  BY DEF Makes, SynthesisInv, Elements, PseudoMersenne
  <2>9. ASSUME \A i \in 1 .. n + 1 : Fits(elems'[i])
        PROVE  \A i \in 1 .. n + 1 : Num(elems'[i]) % P = wants'[i]
    <3>1. \A i \in 1 .. n : i \in 1 .. n + 1  BY <1>2
    <3>2. AllFit  BY <1>2, <2>4, <2>9, <3>1 DEF AllFit
    <3>3. AllKnown  BY <3>2 DEF SynthesisInv, ValuesKept, AllFit, AllKnown
    <3>4. Num(r.elem) % P = want  BY <1>5, <3>2, <3>3 DEF Made
    <3>5. \A i \in 1 .. n : Num(elems'[i]) % P = wants'[i]  BY <1>2, <2>4, <2>5, <3>3 DEF AllKnown
    <3> QED BY <2>4, <2>5, <2>6, <3>4, <3>5
  <2>10. ASSUME op \notin {"sub", "neg"}, \A k \in DOMAIN args : Fits(elems'[args[k]])
         PROVE  Fits(r.elem)
    <3>1. \A k \in DOMAIN args : args[k] \in 1 .. n  BY <1>2 DEF Made
    <3>2. \A k \in DOMAIN args : Fits(elems[args[k]])  BY <2>4, <2>10, <3>1
    <3> QED BY <1>5, <2>10, <3>2 DEF Made
  <2>11. Last(elems') = r.elem  BY <2>4 DEF Last
  <2>12. ValuesKept'  BY <2>1, <2>6, <2>9, <2>10, <2>11 DEF ValuesKept
  <2>13. Elements'  BY <2>4, <2>5, <2>6, <2>7, <2>8 DEF Elements
  <2> QED BY <2>12, <2>13 DEF SynthesisInv
<1> QED BY <1>4, <1>5

(* A check leaves the elements and what they stand for alone. *)
LEMMA ChecksKeeps ==
  ASSUME SynthesisInv, pseudo' = pseudo, elems' = elems, wants' = wants, last'.op \in Checking
  PROVE  SynthesisInv'
<1>1. Elements'  BY DEF SynthesisInv, Elements, PseudoMersenne
<1>2. ValuesKept'  BY DEF SynthesisInv, ValuesKept
<1> QED BY <1>1, <1>2 DEF SynthesisInv

(* What an operand is. *)
LEMMA OperandIs ==
  ASSUME SynthesisInv, NEW i \in Operands
  PROVE  /\ i \in DOMAIN elems /\ IsElem(elems[i]) /\ Full(elems[i])
         /\ Num(elems[i]) \in Int /\ wants[i] \in Int /\ wants[i] \in 0 .. P - 1
         /\ AllFit => Fits(elems[i])
         /\ AllKnown => Alike(P, Num(elems[i]), wants[i]) /\ Num(elems[i]) % P = wants[i]
<1>1. IsElem(elems[i]) /\ Full(elems[i]) /\ i \in DOMAIN elems
  BY DEF SynthesisInv, Elements, Operands
<1>2. wants[i] \in 0 .. P - 1
  <2>1. DOMAIN elems = DOMAIN wants /\ wants \in Seq(0 .. P - 1)
    <3>1. PICK S : elems \in Seq(S)  BY DEF SynthesisInv, Elements
    <3> QED BY <3>1 DEF SynthesisInv, Elements
  <2> DEFINE R == 0 .. P - 1
  <2> HIDE DEF R
  <2>2. wants \in Seq(R)  BY <2>1 DEF R
  <2>3. wants[i] \in R  BY <1>1, <2>1, <2>2
  <2> QED BY <2>3 DEF R
<1>3. P \in Nat \ {0}  BY Parameters
<1>4. wants[i] \in Int  BY <1>2, <1>3
<1>5. Num(elems[i]) \in Int
  <2>1. elems[i].limbs \in Seq(Nat)  BY <1>1 DEF IsElem
  <2> QED BY <2>1, NumTyped
<1>6. ASSUME AllKnown PROVE Alike(P, Num(elems[i]), wants[i]) /\ Num(elems[i]) % P = wants[i]
  <2>1. Num(elems[i]) % P = wants[i]  BY <1>1, <1>6 DEF AllKnown
  <2>2. Alike(P, Num(elems[i]), Num(elems[i]) % P)  BY <1>3, <1>5, AlikeMod
  <2> QED BY <2>1, <2>2
<1> QED BY <1>1, <1>2, <1>4, <1>5, <1>6 DEF AllFit

(* A remainder is in the field. *)
LEMMA WantIs ==
  ASSUME NEW x \in Int PROVE x % P \in 0 .. P - 1
<1>1. P \in Nat \ {0}  BY Parameters
<1> QED BY <1>1, AlikeMod

(* What is alike a sum, difference or product has the remainder computed from
   what its operands are alike. *)
LEMMA Carried ==
  ASSUME NEW x \in Int, NEW a \in Int, NEW b \in Int, NEW u \in Int, NEW v \in Int,
         Alike(P, a, u), Alike(P, b, v)
  PROVE  /\ Alike(P, x, a + b) => x % P = (u + v) % P
         /\ Alike(P, x, a - b) => x % P = (u - v) % P
         /\ Alike(P, x, a * b) => x % P = (u * v) % P
<1>1. P \in Nat \ {0} /\ P \in Int  BY Parameters
<1>2. ASSUME NEW y \in Int, NEW z \in Int, Alike(P, x, y), Alike(P, y, z) PROVE x % P = z % P
  <2>1. Alike(P, x, z)  BY <1>1, <1>2, AlikeTrans
  <2> QED BY <1>1, <1>2, <2>1, AlikeEqual
<1>3. Alike(P, a + b, u + v)  BY <1>1, AlikeSum
<1>4. Alike(P, a - b, u - v)  BY <1>1, AlikeDiff
<1>5. Alike(P, a * b, u * v)  BY <1>1, AlikeProd
<1>6. a + b \in Int /\ u + v \in Int /\ a - b \in Int /\ u - v \in Int /\ a * b \in Int /\ u * v \in Int
  OBVIOUS
<1>7. Alike(P, x, a + b) => x % P = (u + v) % P  BY <1>2, <1>3, <1>6
<1>8. Alike(P, x, a - b) => x % P = (u - v) % P  BY <1>2, <1>4, <1>6
<1>9. Alike(P, x, a * b) => x % P = (u * v) % P  BY <1>2, <1>5, <1>6
<1> QED BY <1>7, <1>8, <1>9

(* The initial synthesis is empty. *)
LEMMA SynthesisInit == Init => SynthesisInv
<1> SUFFICES ASSUME Init PROVE SynthesisInv  OBVIOUS
<1>1. elems = <<>> /\ wants = <<>> /\ last.op = "none"  BY DEF Init
<1>2. elems \in Seq({}) /\ wants \in Seq(0 .. P - 1) /\ Len(wants) = Len(elems) /\ DOMAIN elems = {}
  BY <1>1
<1>3. Elements
  <2>1. \E S : elems \in Seq(S)  BY <1>2
  <2>2. pseudo => PseudoMersenne  BY DEF Init
  <2> QED BY <1>2, <2>1, <2>2 DEF Elements
<1>4. ValuesKept  BY <1>1, <1>2 DEF ValuesKept, Checking
<1> QED BY <1>3, <1>4 DEF SynthesisInv

(* A pair of operands, or one, is among the elements; both fit if all do. *)
LEMMA Arguments ==
  ASSUME NEW i \in DOMAIN elems, NEW j \in DOMAIN elems
  PROVE  /\ \A k \in DOMAIN <<i, j>> : <<i, j>>[k] \in DOMAIN elems
         /\ \A k \in DOMAIN <<i>> : <<i>>[k] \in DOMAIN elems
         /\ \A k \in DOMAIN <<>> : <<>>[k] \in DOMAIN elems
         /\ (\A k \in DOMAIN <<i, j>> : Fits(elems[<<i, j>>[k]])) => Fits(elems[i]) /\ Fits(elems[j])
         /\ (\A k \in DOMAIN <<i>> : Fits(elems[<<i>>[k]])) => Fits(elems[i])
<1> DEFINE p == <<i, j>>
           q == <<i>>
<1>1. DOMAIN p = 1 .. 2 /\ p[1] = i /\ p[2] = j /\ DOMAIN q = 1 .. 1 /\ q[1] = i
  OBVIOUS
<1>2. (\A k \in 1 .. 2 : k = 1 \/ k = 2) /\ (\A k \in 1 .. 1 : k = 1)
      /\ 1 \in 1 .. 2 /\ 2 \in 1 .. 2 /\ 1 \in 1 .. 1
  OBVIOUS
<1>3. DOMAIN <<>> = {}  OBVIOUS
<1> HIDE DEF p, q
<1>4. /\ \A k \in DOMAIN p : p[k] \in DOMAIN elems
      /\ \A k \in DOMAIN q : q[k] \in DOMAIN elems
      /\ (\A k \in DOMAIN p : Fits(elems[p[k]])) => Fits(elems[i]) /\ Fits(elems[j])
      /\ (\A k \in DOMAIN q : Fits(elems[q[k]])) => Fits(elems[i])
  BY <1>1, <1>2, Zenon
<1> QED BY <1>3, <1>4 DEF p, q

(* Constants and allocated elements. *)
LEMMA AllocationsMade ==
  ASSUME SynthesisInv, NEW v \in Values
  PROVE  /\ Constant(v) => SynthesisInv'
         /\ Allocate(v) => SynthesisInv'
         /\ AllocateNum(v) => SynthesisInv'
<1>1. v \in Nat /\ IsElem(FromNum(v)) /\ Full(FromNum(v)) /\ Fits(FromNum(v)) /\ Num(FromNum(v)) = v
  BY FromNumIs
<1>2. v % P \in 0 .. P - 1 /\ P \in Nat \ {0}  BY <1>1, WantIs, Parameters
<1>3. \A k \in DOMAIN <<>> : <<>>[k] \in DOMAIN elems  OBVIOUS
<1>4. ASSUME NEW e, IsElem(e), Alike(P, Num(e), v) PROVE Num(e) % P = v % P
  <2>1. e.limbs \in Seq(Nat)  BY <1>4 DEF IsElem
  <2>2. Num(e) \in Int /\ v \in Int  BY <1>1, <2>1, NumTyped
  <2> QED BY <1>2, <1>4, <2>2, AlikeEqual
<1>5. ASSUME Constant(v) PROVE SynthesisInv'
  <2> DEFINE e == FromBig(v)
  <2>1. IsElem(e) /\ Full(e) /\ Fits(e) /\ Alike(P, Num(e), v)  BY <1>1, FromBigIs
  <2>2. Makes("const", Ok(e), v % P, <<>>)  BY <1>5 DEF Constant
  <2> HIDE DEF e
  <2>3. Num(e) % P = v % P  BY <1>4, <2>1
  <2>4. Ok(e).elem = e  BY DEF Ok
  <2>5. Made("const", Ok(e), v % P, <<>>)  BY <1>2, <1>3, <2>1, <2>3, <2>4 DEF Made
  <2> QED BY <2>2, <2>5, MakesKeeps
<1>6. ASSUME Allocate(v) PROVE SynthesisInv'
  <2> DEFINE e == Var(FromBig(v).limbs, 0)
             r == IF Num(FromBig(v)) < P THEN Ok(e) ELSE Fails("error")
  <2>1. IsElem(e) /\ Full(e) /\ Fits(e) /\ Alike(P, Num(e), v)  BY <1>1, AllocatedIs
  <2>2. Makes("alloc", r, v % P, <<>>)  BY <1>6 DEF Allocate
  <2> HIDE DEF e
  <2>3. Num(e) % P = v % P  BY <1>4, <2>1
  <2>4. r.fate = "ok" => r.elem = e  BY DEF Ok, Fails
  <2> HIDE DEF r
  <2>5. Made("alloc", r, v % P, <<>>)  BY <1>2, <1>3, <2>1, <2>3, <2>4 DEF Made
  <2> QED BY <2>2, <2>5, MakesKeeps
<1>7. ASSUME AllocateNum(v) PROVE SynthesisInv'
  <2> DEFINE e == FromNum(v)
  <2>1. Makes("alloc", Ok(e), v % P, <<>>)  BY <1>7 DEF AllocateNum
  <2> HIDE DEF e
  <2>2. IsElem(e) /\ Full(e) /\ Fits(e) /\ Num(e) % P = v % P  BY <1>1 DEF e
  <2>3. Ok(e).elem = e  BY DEF Ok
  <2>4. Made("alloc", Ok(e), v % P, <<>>)  BY <1>2, <1>3, <2>2, <2>3 DEF Made
  <2> QED BY <2>1, <2>4, MakesKeeps
<1> QED BY <1>5, <1>6, <1>7

(* Sums. *)
LEMMA AddsMade ==
  ASSUME SynthesisInv, NEW i \in Operands, NEW j \in Operands, Adds(i, j)
  PROVE  SynthesisInv'
<1> DEFINE a == elems[i]
           b == elems[j]
           r == Add(a, b)
           w == (wants[i] + wants[j]) % P
<1>1. i \in DOMAIN elems /\ IsElem(a) /\ Full(a) /\ Num(a) \in Int /\ wants[i] \in Int
      /\ (AllFit => Fits(a)) /\ (AllKnown => Alike(P, Num(a), wants[i]))
  BY OperandIs
<1>2. j \in DOMAIN elems /\ IsElem(b) /\ Full(b) /\ Num(b) \in Int /\ wants[j] \in Int
      /\ (AllFit => Fits(b)) /\ (AllKnown => Alike(P, Num(b), wants[j]))
  BY OperandIs
<1>3. Makes("add", r, w, <<i, j>>)  BY DEF Adds
<1>4. w \in 0 .. P - 1
  <2>1. wants[i] + wants[j] \in Int  BY <1>1, <1>2
  <2> QED BY <2>1, WantIs
<1>5. /\ \A k \in DOMAIN <<i, j>> : <<i, j>>[k] \in DOMAIN elems
      /\ (\A k \in DOMAIN <<i, j>> : Fits(elems[<<i, j>>[k]])) => Fits(a) /\ Fits(b)
  BY <1>1, <1>2, Arguments
<1> HIDE DEF a, b
<1>6. ASSUME r.fate = "ok"
      PROVE  /\ IsElem(r.elem) /\ Full(r.elem)
             /\ AllFit /\ AllKnown => Num(r.elem) % P = w
             /\ Fits(a) /\ Fits(b) => Fits(r.elem)
  <2>1. /\ IsElem(r.elem) /\ (Full(a) \/ Full(b) => Full(r.elem))
        /\ Fits(a) /\ Fits(b) => Fits(r.elem) /\ Alike(P, Num(r.elem), Num(a) + Num(b))
    BY <1>1, <1>2, <1>6, AddIs
  <2>2. Num(r.elem) \in Int
    <3>1. r.elem.limbs \in Seq(Nat)  BY <2>1 DEF IsElem
    <3> QED BY <3>1, NumTyped
  <2>3. ASSUME AllFit, AllKnown PROVE Num(r.elem) % P = w
    <3>1. Alike(P, Num(r.elem), Num(a) + Num(b))  BY <1>1, <1>2, <2>1, <2>3
    <3>2. Alike(P, Num(a), wants[i]) /\ Alike(P, Num(b), wants[j])  BY <1>1, <1>2, <2>3
    <3> QED BY <1>1, <1>2, <2>2, <3>1, <3>2, Carried
  <2> QED BY <1>1, <2>1, <2>3
<1> HIDE DEF r, w
<1>7. Made("add", r, w, <<i, j>>)  BY <1>4, <1>5, <1>6 DEF Made, a, b
<1> QED BY <1>3, <1>7, MakesKeeps

(* Differences. *)
LEMMA SubtractsMade ==
  ASSUME SynthesisInv, NEW i \in Operands, NEW j \in Operands, Subtracts(i, j)
  PROVE  SynthesisInv'
<1> DEFINE a == elems[i]
           b == elems[j]
           r == Sub(a, b)
           w == (wants[i] - wants[j]) % P
<1>1. i \in DOMAIN elems /\ IsElem(a) /\ Full(a) /\ Num(a) \in Int /\ wants[i] \in Int
      /\ (AllFit => Fits(a)) /\ (AllKnown => Alike(P, Num(a), wants[i]))
  BY OperandIs
<1>2. j \in DOMAIN elems /\ IsElem(b) /\ Full(b) /\ Num(b) \in Int /\ wants[j] \in Int
      /\ (AllFit => Fits(b)) /\ (AllKnown => Alike(P, Num(b), wants[j]))
  BY OperandIs
<1>3. Makes("sub", r, w, <<i, j>>)  BY DEF Subtracts
<1>4. w \in 0 .. P - 1
  <2>1. wants[i] - wants[j] \in Int  BY <1>1, <1>2
  <2> QED BY <2>1, WantIs
<1>5. \A k \in DOMAIN <<i, j>> : <<i, j>>[k] \in DOMAIN elems  BY <1>1, <1>2, Arguments
<1> HIDE DEF a, b
<1>6. ASSUME r.fate = "ok"
      PROVE  /\ IsElem(r.elem) /\ Full(r.elem)
             /\ AllFit /\ AllKnown => Num(r.elem) % P = w
  <2>1. /\ IsElem(r.elem) /\ Full(r.elem)
        /\ Fits(a) /\ Fits(b) => Alike(P, Num(r.elem), Num(a) - Num(b))
    BY <1>1, <1>2, <1>6, SubIs
  <2>2. Num(r.elem) \in Int
    <3>1. r.elem.limbs \in Seq(Nat)  BY <2>1 DEF IsElem
    <3> QED BY <3>1, NumTyped
  <2>3. ASSUME AllFit, AllKnown PROVE Num(r.elem) % P = w
    <3>1. Alike(P, Num(r.elem), Num(a) - Num(b))  BY <1>1, <1>2, <2>1, <2>3
    <3>2. Alike(P, Num(a), wants[i]) /\ Alike(P, Num(b), wants[j])  BY <1>1, <1>2, <2>3
    <3> QED BY <1>1, <1>2, <2>2, <3>1, <3>2, Carried
  <2> QED BY <2>1, <2>3
<1> HIDE DEF r, w
<1>7. Made("sub", r, w, <<i, j>>)  BY <1>4, <1>5, <1>6 DEF Made
<1> QED BY <1>3, <1>7, MakesKeeps

(* Negated elements. *)
LEMMA NegatesMade ==
  ASSUME SynthesisInv, NEW i \in Operands, Negates(i)
  PROVE  SynthesisInv'
<1> DEFINE a == elems[i]
           r == Neg(a)
           w == (0 - wants[i]) % P
<1>1. i \in DOMAIN elems /\ IsElem(a) /\ Full(a) /\ Num(a) \in Int /\ wants[i] \in Int
      /\ (AllFit => Fits(a)) /\ (AllKnown => Alike(P, Num(a), wants[i]))
  BY OperandIs
<1>2. Makes("neg", r, w, <<i>>)  BY DEF Negates
<1>3. w \in 0 .. P - 1
  <2>1. 0 - wants[i] \in Int  BY <1>1
  <2> QED BY <2>1, WantIs
<1>4. \A k \in DOMAIN <<i>> : <<i>>[k] \in DOMAIN elems  BY <1>1, Arguments
<1> HIDE DEF a
<1>5. ASSUME r.fate = "ok"
      PROVE  /\ IsElem(r.elem) /\ Full(r.elem)
             /\ AllFit /\ AllKnown => Num(r.elem) % P = w
  <2>1. IsElem(r.elem) /\ Full(r.elem) /\ (Fits(a) => Alike(P, Num(r.elem), 0 - Num(a)))
    BY <1>1, <1>5, NegIs
  <2>2. Num(r.elem) \in Int
    <3>1. r.elem.limbs \in Seq(Nat)  BY <2>1 DEF IsElem
    <3> QED BY <3>1, NumTyped
  <2>3. ASSUME AllFit, AllKnown PROVE Num(r.elem) % P = w
    <3> DEFINE z == 0
    <3>1. Alike(P, Num(r.elem), z - Num(a)) /\ Alike(P, Num(a), wants[i])  BY <1>1, <2>1, <2>3
    <3>2. z \in Int /\ P \in Int  BY Parameters
    <3>3. w = (z - wants[i]) % P  OBVIOUS
    <3> HIDE DEF z, w
    <3>4. Alike(P, z, z)  BY <3>2, AlikeRefl
    <3>5. Num(r.elem) % P = (z - wants[i]) % P  BY <1>1, <2>2, <3>1, <3>2, <3>4, Carried
    <3> QED BY <3>3, <3>5
  <2> QED BY <2>1, <2>3
<1> HIDE DEF r, w
<1>6. Made("neg", r, w, <<i>>)  BY <1>3, <1>4, <1>5 DEF Made
<1> QED BY <1>2, <1>6, MakesKeeps

(* Products. *)
LEMMA MultipliesMade ==
  ASSUME SynthesisInv, NEW i \in Factors, NEW j \in Factors, Multiplies(i, j)
  PROVE  SynthesisInv'
<1> DEFINE a == elems[i]
           b == elems[j]
           r == Mul(a, b)
           w == (wants[i] * wants[j]) % P
<1>0. i \in Operands /\ j \in Operands /\ Len(a.limbs) <= L /\ Len(b.limbs) <= L  BY DEF Factors
<1>1. i \in DOMAIN elems /\ IsElem(a) /\ Full(a) /\ Num(a) \in Int /\ wants[i] \in Int
      /\ (AllFit => Fits(a)) /\ (AllKnown => Alike(P, Num(a), wants[i]))
  BY <1>0, OperandIs
<1>2. j \in DOMAIN elems /\ IsElem(b) /\ Full(b) /\ Num(b) \in Int /\ wants[j] \in Int
      /\ (AllFit => Fits(b)) /\ (AllKnown => Alike(P, Num(b), wants[j]))
  BY <1>0, OperandIs
<1>3. Makes("mul", r, w, <<i, j>>)  BY DEF Multiplies
<1>4. w \in 0 .. P - 1
  <2>1. wants[i] * wants[j] \in Int  BY <1>1, <1>2
  <2> QED BY <2>1, WantIs
<1>5. /\ \A k \in DOMAIN <<i, j>> : <<i, j>>[k] \in DOMAIN elems
      /\ (\A k \in DOMAIN <<i, j>> : Fits(elems[<<i, j>>[k]])) => Fits(a) /\ Fits(b)
  BY <1>1, <1>2, Arguments
<1> HIDE DEF a, b
<1>6. ASSUME r.fate = "ok"
      PROVE  /\ IsElem(r.elem) /\ Full(r.elem)
             /\ AllFit /\ AllKnown => Num(r.elem) % P = w
             /\ Fits(a) /\ Fits(b) => Fits(r.elem)
  <2>1. /\ IsElem(r.elem) /\ Full(r.elem)
        /\ Fits(a) /\ Fits(b) => Fits(r.elem) /\ Alike(P, Num(r.elem), Num(a) * Num(b))
    BY <1>0, <1>1, <1>2, <1>6, MulIs DEF SynthesisInv, Elements
  <2>2. Num(r.elem) \in Int
    <3>1. r.elem.limbs \in Seq(Nat)  BY <2>1 DEF IsElem
    <3> QED BY <3>1, NumTyped
  <2>3. ASSUME AllFit, AllKnown PROVE Num(r.elem) % P = w
    <3>1. Alike(P, Num(r.elem), Num(a) * Num(b))  BY <1>1, <1>2, <2>1, <2>3
    <3>2. Alike(P, Num(a), wants[i]) /\ Alike(P, Num(b), wants[j])  BY <1>1, <1>2, <2>3
    <3> QED BY <1>1, <1>2, <2>2, <3>1, <3>2, Carried
  <2> QED BY <2>1, <2>3
<1> HIDE DEF r, w
<1>7. Made("mul", r, w, <<i, j>>)  BY <1>4, <1>5, <1>6 DEF Made, a, b
<1> QED BY <1>3, <1>7, MakesKeeps

(* Multiples by a constant. *)
LEMMA MultipliesConstMade ==
  ASSUME SynthesisInv, NEW i \in Operands, NEW c \in Multipliers, MultipliesConst(i, c)
  PROVE  SynthesisInv'
<1> DEFINE a == elems[i]
           r == MulConst(a, c)
           w == (wants[i] * c) % P
<1>0. c \in Nat  BY FieldAssumption
<1>1. i \in DOMAIN elems /\ IsElem(a) /\ Full(a) /\ Num(a) \in Int /\ wants[i] \in Int
      /\ (AllFit => Fits(a)) /\ (AllKnown => Alike(P, Num(a), wants[i]))
  BY OperandIs
<1>2. Makes("mul_const", r, w, <<i>>)  BY DEF MultipliesConst
<1>3. w \in 0 .. P - 1
  <2>1. wants[i] * c \in Int  BY <1>0, <1>1
  <2> QED BY <2>1, WantIs
<1>4. /\ \A k \in DOMAIN <<i>> : <<i>>[k] \in DOMAIN elems
      /\ (\A k \in DOMAIN <<i>> : Fits(elems[<<i>>[k]])) => Fits(a)
  BY <1>1, Arguments
<1> HIDE DEF a
<1>5. ASSUME r.fate = "ok"
      PROVE  /\ IsElem(r.elem) /\ Full(r.elem)
             /\ AllFit /\ AllKnown => Num(r.elem) % P = w
             /\ Fits(a) => Fits(r.elem)
  <2>1. /\ IsElem(r.elem) /\ (Full(a) => Full(r.elem))
        /\ Fits(a) => Fits(r.elem) /\ Alike(P, Num(r.elem), Num(a) * c)
    BY <1>0, <1>1, <1>5, MulConstIs
  <2>2. Num(r.elem) \in Int
    <3>1. r.elem.limbs \in Seq(Nat)  BY <2>1 DEF IsElem
    <3> QED BY <3>1, NumTyped
  <2>3. ASSUME AllFit, AllKnown PROVE Num(r.elem) % P = w
    <3>1. Alike(P, Num(r.elem), Num(a) * c) /\ Alike(P, Num(a), wants[i])  BY <1>1, <2>1, <2>3
    <3>2. c \in Int /\ P \in Int  BY <1>0, Parameters
    <3>3. Alike(P, c, c)  BY <3>2, AlikeRefl
    <3> QED BY <1>1, <2>2, <3>1, <3>2, <3>3, Carried
  <2> QED BY <1>1, <2>1, <2>3
<1> HIDE DEF r, w
<1>6. Made("mul_const", r, w, <<i>>)  BY <1>3, <1>4, <1>5 DEF Made, a
<1> QED BY <1>2, <1>6, MakesKeeps

(* Quotients. *)
LEMMA DividesMade ==
  ASSUME SynthesisInv, NEW i \in Factors, NEW j \in Factors, Divides(i, j)
  PROVE  SynthesisInv'
<1> DEFINE a == elems[i]
           b == elems[j]
           r == Divide(a, b)
           w == IF wants[j] = 0 THEN 0 ELSE (wants[i] * InvP(wants[j])) % P
<1>0. i \in Operands /\ j \in Operands  BY DEF Factors
<1>1. i \in DOMAIN elems /\ IsElem(a) /\ Num(a) \in Int /\ wants[i] \in Int
      /\ (AllKnown => Alike(P, Num(a), wants[i]))
  BY <1>0, OperandIs
<1>2. j \in DOMAIN elems /\ IsElem(b) /\ wants[j] \in 0 .. P - 1
      /\ (AllKnown => Num(b) % P = wants[j])
  BY <1>0, OperandIs
<1>3. Makes("divide", r, w, <<i, j>>)  BY DEF Divides
<1>4. P \in Nat \ {0} /\ P \in Int  BY Parameters
<1>5. w \in 0 .. P - 1
  <2>1. CASE wants[j] = 0  BY <1>4, <2>1
  <2>2. CASE wants[j] # 0
    <3> DEFINE x == wants[i] * InvP(wants[j])
    <3>1. wants[j] \in 1 .. P - 1  BY <1>2, <1>4, <2>2
    <3>2. InvP(wants[j]) \in 0 .. P - 1  BY <3>1, InvPIs
    <3>3. x \in Int  BY <1>1, <3>2
    <3> HIDE DEF x
    <3>4. x % P \in 0 .. P - 1  BY <3>3, WantIs
    <3> QED BY <2>2, <3>4 DEF x
  <2> QED BY <2>1, <2>2
<1>6. \A k \in DOMAIN <<i, j>> : <<i, j>>[k] \in DOMAIN elems  BY <1>1, <1>2, Arguments
<1> HIDE DEF a, b
<1>7. ASSUME r.fate = "ok"
      PROVE  IsElem(r.elem) /\ Full(r.elem) /\ Fits(r.elem) /\ (AllKnown => Num(r.elem) % P = w)
  <2> DEFINE y == Num(b) % P
             q == InvP(y)
             x == Num(a) * q
  <2>1. /\ IsElem(r.elem) /\ Full(r.elem) /\ Fits(r.elem)
        /\ y \in 1 .. P - 1 /\ Num(r.elem) = x % P
    BY <1>1, <1>2, <1>7, DivideIs
  <2>2. Num(r.elem) \in Int
    <3>1. r.elem.limbs \in Seq(Nat)  BY <2>1 DEF IsElem
    <3> QED BY <3>1, NumTyped
  <2>3. q \in Int
    <3>1. q \in 0 .. P - 1  BY <2>1, InvPIs
    <3> QED BY <3>1
  <2>4. ASSUME AllKnown PROVE Num(r.elem) % P = w
    <3>1. y = wants[j] /\ Alike(P, Num(a), wants[i])  BY <1>1, <1>2, <2>4
    <3>2. w = (wants[i] * q) % P
      <4>1. wants[j] # 0  BY <1>4, <2>1, <3>1
      <4> QED BY <3>1, <4>1
    <3> HIDE DEF w, y, q
    <3>3. x \in Int  BY <1>1, <2>3
    <3>4. Alike(P, q, q)  BY <1>4, <2>3, AlikeRefl
    <3>5. Alike(P, Num(r.elem), Num(a) * q)
      <4> HIDE DEF x
      <4>1. Alike(P, x % P, x)  BY <1>4, <3>3, AlikeMod
      <4> QED BY <2>1, <4>1 DEF x
    <3>6. Num(r.elem) % P = (wants[i] * q) % P
      BY <1>1, <2>2, <2>3, <3>1, <3>4, <3>5, Carried
    <3> QED BY <3>2, <3>6
  <2> QED BY <2>1, <2>4
<1> HIDE DEF r, w
<1>8. Made("divide", r, w, <<i, j>>)  BY <1>5, <1>6, <1>7 DEF Made
<1> QED BY <1>3, <1>8, MakesKeeps

(* Inverses. *)
LEMMA InvertsMade ==
  ASSUME SynthesisInv, NEW i \in Factors, Inverts(i)
  PROVE  SynthesisInv'
<1> DEFINE a == elems[i]
           r == Invert(a)
           w == IF wants[i] = 0 THEN 0 ELSE InvP(wants[i])
<1>0. i \in Operands  BY DEF Factors
<1>1. i \in DOMAIN elems /\ IsElem(a) /\ wants[i] \in 0 .. P - 1 /\ (AllKnown => Num(a) % P = wants[i])
  BY <1>0, OperandIs
<1>2. Makes("inverse", r, w, <<i>>)  BY DEF Inverts
<1>3. P \in Nat \ {0}  BY Parameters
<1>4. w \in 0 .. P - 1
  <2>1. CASE wants[i] = 0  BY <1>3, <2>1
  <2>2. CASE wants[i] # 0
    <3>1. wants[i] \in 1 .. P - 1  BY <1>1, <1>3, <2>2
    <3> QED BY <2>2, <3>1, InvPIs
  <2> QED BY <2>1, <2>2
<1>5. \A k \in DOMAIN <<i>> : <<i>>[k] \in DOMAIN elems  BY <1>1, Arguments
<1> HIDE DEF a
<1>6. ASSUME r.fate = "ok"
      PROVE  IsElem(r.elem) /\ Full(r.elem) /\ Fits(r.elem) /\ (AllKnown => Num(r.elem) % P = w)
  <2> DEFINE y == Num(a) % P
             q == InvP(y)
  <2>1. IsElem(r.elem) /\ Full(r.elem) /\ Fits(r.elem) /\ y \in 1 .. P - 1 /\ Num(r.elem) = q
    BY <1>1, <1>6, InvertIs
  <2>2. q \in 0 .. P - 1  BY <2>1, InvPIs
  <2>3. ASSUME AllKnown PROVE Num(r.elem) % P = w
    <3>1. y = wants[i]  BY <1>1, <2>3
    <3>2. w = q
      <4>1. wants[i] # 0  BY <1>3, <2>1, <3>1
      <4> QED BY <3>1, <4>1
    <3> HIDE DEF w, y, q
    <3>3. q % P = q  BY <1>3, <2>2, ModSmall
    <3> QED BY <2>1, <3>2, <3>3
  <2> QED BY <2>1, <2>3
<1> HIDE DEF r, w
<1>7. Made("inverse", r, w, <<i>>)  BY <1>4, <1>5, <1>6 DEF Made
<1> QED BY <1>2, <1>7, MakesKeeps

(* Reduced elements. *)
LEMMA ReducesMade ==
  ASSUME SynthesisInv, NEW i \in Operands, Reduces(i)
  PROVE  SynthesisInv'
<1> DEFINE a == elems[i]
           r == Reduce(a)
           w == wants[i]
<1>1. i \in DOMAIN elems /\ IsElem(a) /\ Full(a) /\ Num(a) \in Int /\ w \in 0 .. P - 1
      /\ (AllFit => Fits(a)) /\ (AllKnown => Num(a) % P = w)
  BY OperandIs
<1>2. Makes("reduce", r, w, <<i>>)  BY DEF Reduces
<1>3. P \in Nat \ {0}  BY Parameters
<1>4. /\ \A k \in DOMAIN <<i>> : <<i>>[k] \in DOMAIN elems
      /\ (\A k \in DOMAIN <<i>> : Fits(elems[<<i>>[k]])) => Fits(a)
  BY <1>1, Arguments
<1> HIDE DEF a, w
<1>5. ASSUME r.fate = "ok"
      PROVE  /\ IsElem(r.elem) /\ Full(r.elem)
             /\ AllFit /\ AllKnown => Num(r.elem) % P = w
             /\ Fits(a) => Fits(r.elem)
  <2>1. Keeps(r.elem, a)  BY <1>1, <1>5, ReduceKeeps
  <2>2. IsElem(r.elem) /\ Alike(P, Num(r.elem), Num(a)) /\ (Fits(a) => Fits(r.elem))
        /\ (Full(a) => Full(r.elem))
    BY <2>1 DEF Keeps
  <2>3. Num(r.elem) \in Int
    <3>1. r.elem.limbs \in Seq(Nat)  BY <2>2 DEF IsElem
    <3> QED BY <3>1, NumTyped
  <2>4. Num(r.elem) % P = Num(a) % P  BY <1>1, <1>3, <2>2, <2>3, AlikeEqual
  <2> QED BY <1>1, <2>2, <2>4
<1> HIDE DEF r
<1>6. Made("reduce", r, w, <<i>>)  BY <1>1, <1>4, <1>5 DEF Made, a
<1> QED BY <1>2, <1>6, MakesKeeps

(* Selections. *)
LEMMA SelectsMade ==
  ASSUME SynthesisInv, NEW i \in Operands, NEW j \in Operands, NEW bits \in [1 .. 2 -> BOOLEAN],
         Selects(i, j, bits)
  PROVE  SynthesisInv'
<1> DEFINE a == elems[i]
           b == elems[j]
           r == MuxTree(bits, <<a, b, a, a>>)
           second == bits = <<FALSE, TRUE>>
           w == wants[IF second THEN j ELSE i]
<1>1. i \in DOMAIN elems /\ IsElem(a) /\ Full(a) /\ wants[i] \in 0 .. P - 1
      /\ (AllFit => Fits(a)) /\ (AllKnown => Num(a) % P = wants[i])
  BY OperandIs
<1>2. j \in DOMAIN elems /\ IsElem(b) /\ Full(b) /\ wants[j] \in 0 .. P - 1
      /\ (AllFit => Fits(b)) /\ (AllKnown => Num(b) % P = wants[j])
  BY OperandIs
<1>3. Makes("select", r, w, <<i, j>>)  BY DEF Selects
<1>4. w \in 0 .. P - 1  BY <1>1, <1>2
<1>5. /\ \A k \in DOMAIN <<i, j>> : <<i, j>>[k] \in DOMAIN elems
      /\ (\A k \in DOMAIN <<i, j>> : Fits(elems[<<i, j>>[k]])) => Fits(a) /\ Fits(b)
  BY <1>1, <1>2, Arguments
<1> HIDE DEF a, b
<1>6. ASSUME r.fate = "ok"
      PROVE  /\ IsElem(r.elem) /\ Full(r.elem)
             /\ AllKnown => Num(r.elem) % P = w
             /\ Fits(a) /\ Fits(b) => Fits(r.elem)
  <2>1. /\ IsElem(r.elem) /\ Full(r.elem) /\ Num(r.elem) = Num(IF second THEN b ELSE a)
        /\ Fits(a) /\ Fits(b) => Fits(r.elem)
    BY <1>1, <1>2, <1>6, TreeIs
  <2> HIDE DEF second
  <2>2. ASSUME AllKnown PROVE Num(IF second THEN b ELSE a) % P = w  BY <1>1, <1>2, <2>2
  <2> HIDE DEF r
  <2> QED BY <2>1, <2>2
<1> HIDE DEF r, w
<1>7. Made("select", r, w, <<i, j>>)  BY <1>4, <1>5, <1>6 DEF Made, a, b
<1> QED BY <1>3, <1>7, MakesKeeps

(* Every operation preserves the invariant. *)
LEMMA SynthesisStep ==
  ASSUME SynthesisInv, Next
  PROVE  SynthesisInv'
<1>1. ASSUME NEW v \in Values, Constant(v) \/ Allocate(v) \/ AllocateNum(v) PROVE SynthesisInv'
  BY <1>1, AllocationsMade
<1>2. ASSUME NEW i \in Operands, NEW j \in Operands, Adds(i, j) PROVE SynthesisInv'
  BY <1>2, AddsMade
<1>3. ASSUME NEW i \in Operands, NEW j \in Operands, Subtracts(i, j) PROVE SynthesisInv'
  BY <1>3, SubtractsMade
<1>4. ASSUME NEW i \in Operands, NEW j \in Operands, NEW bits \in [1 .. 2 -> BOOLEAN],
             Selects(i, j, bits)
      PROVE  SynthesisInv'
  BY <1>4, SelectsMade
<1>5. ASSUME NEW i \in Factors, NEW j \in Factors, Multiplies(i, j) \/ Divides(i, j)
      PROVE  SynthesisInv'
  BY <1>5, MultipliesMade, DividesMade
<1>6. ASSUME NEW i \in Factors, Inverts(i) PROVE SynthesisInv'  BY <1>6, InvertsMade
<1>7. ASSUME NEW i \in Operands, Negates(i) PROVE SynthesisInv'  BY <1>7, NegatesMade
<1>8. ASSUME NEW i \in Operands, Reduces(i) PROVE SynthesisInv'  BY <1>8, ReducesMade
<1>9. ASSUME NEW i \in Operands, NEW c \in Multipliers, MultipliesConst(i, c) PROVE SynthesisInv'
  BY <1>9, MultipliesConstMade
<1>10. ASSUME NEW op, op \in Checking, NEW fate, NEW says, NEW truth, NEW args,
              Checks(op, fate, says, truth, args)
       PROVE  SynthesisInv'
  <2>1. pseudo' = pseudo /\ elems' = elems /\ wants' = wants /\ last'.op = op  BY <1>10 DEF Checks
  <2> QED BY <1>10, <2>1, ChecksKeeps
<1>11. {"equal", "constant", "member", "zero", "sign", "response"} \subseteq Checking  BY DEF Checking
<1>12. ASSUME NEW i \in Operands, NEW j \in Operands, ChecksEqual(i, j) PROVE SynthesisInv'
  BY <1>10, <1>11, <1>12 DEF ChecksEqual, Asserts
<1>13. ASSUME NEW i \in Operands, NEW v \in Values, ChecksConstant(i, v) PROVE SynthesisInv'
  BY <1>10, <1>11, <1>13 DEF ChecksConstant, Asserts
<1>14. ASSUME NEW i \in Operands, ChecksMembership(i) \/ ChecksZero(i) \/ ChecksSign(i)
       PROVE  SynthesisInv'
  BY <1>10, <1>11, <1>14 DEF ChecksMembership, ChecksZero, ChecksSign, Asserts
<1>15. ASSUME NEW c, NEW r, NEW alpha, NEW off, ChecksResponse(c, r, alpha, off)
       PROVE  SynthesisInv'
  BY <1>10, <1>11, <1>15 DEF ChecksResponse, Asserts
<1> QED BY <1>1, <1>2, <1>3, <1>4, <1>5, <1>6, <1>7, <1>8, <1>9, <1>12, <1>13, <1>14, <1>15
        DEF Next

(* A synthesis of honest values, of any length, over any native field and any    *)
(* prime modulus that the assumptions admit, of whatever form, and used as       *)
(* 2^e - c only if it is that, with a c of any size: as long as no overflow was  *)
(* understated, every element stands for the value that its operations compute,  *)
(* and only differences can understate one. *)
THEOREM CircuitsKeepValues == CircuitsSpec => []ValuesKept
<1>1. CircuitsInit => SynthesisInv  BY SynthesisInit DEF CircuitsInit
<1>2. SynthesisInv /\ [CircuitsNext]_circuitsVars => SynthesisInv'
  <2>1. SynthesisInv /\ Next => SynthesisInv'  BY SynthesisStep
  <2>2. SynthesisInv /\ UNCHANGED vars => SynthesisInv'
    BY DEF vars, SynthesisInv, Elements, ValuesKept, PseudoMersenne
  <2>3. [CircuitsNext]_circuitsVars => Next \/ UNCHANGED vars
    BY DEF CircuitsNext, EmulatedStep, SumStep, MultipleStep, MsmStep, SpongeStep, circuitsVars
  <2> QED BY <2>1, <2>2, <2>3
<1>3. SynthesisInv => ValuesKept  BY DEF SynthesisInv
<1> QED BY <1>1, <1>2, <1>3, PTL DEF CircuitsSpec

-----------------------------------------------------------------------------
(* The field of the coordinates: residues, congruence, inverses. *)

Cong(x, y) == \E c \in Int : x = y + c * CurveP

(* The coordinates' field is a prime field of more than three elements. *)
LEMMA PrimeField ==
  /\ CurveP \in Nat \ {0, 1} /\ CurveP > 3
  /\ \A d \in 2 .. CurveP - 1 : CurveP % d # 0
<1>1. CurveP \in Nat /\ CurveP > 3 /\ \A d \in 2 .. CurveP - 1 : CurveP % d # 0
  BY CurveAssumption, Zenon
<1>2. CurveP \in Nat /\ CurveP > 3 => CurveP \in Nat \ {0, 1}  OBVIOUS
<1> QED BY <1>1, <1>2

(* Reduction leaves the class and ends in the field. *)
LEMMA ModCong ==
  ASSUME NEW x \in Int
  PROVE  x % CurveP \in Field /\ Cong(x % CurveP, x)
<1>1. x \div CurveP \in Int /\ x % CurveP \in 0 .. CurveP - 1 /\ x = CurveP * (x \div CurveP) + (x % CurveP)
  BY PrimeField, DivMod
<1> DEFINE c == x \div CurveP
           r == x % CurveP
<1> HIDE DEF c, r
<1>2. r = x + (-c) * CurveP /\ -c \in Int
  <2>1. c \in Int /\ r \in Int /\ x = CurveP * c + r /\ CurveP \in Int BY <1>1, PrimeField DEF c, r
  <2> QED BY <2>1
<1> QED BY <1>1, <1>2 DEF Cong, Field, r

(* Congruence is reflexive. *)
LEMMA CongRefl == ASSUME NEW x \in Int PROVE Cong(x, x)
<1>1. x = x + 0 * CurveP  BY PrimeField
<1> QED BY <1>1 DEF Cong

(* Congruence is symmetric. *)
LEMMA CongSym == ASSUME NEW x \in Int, NEW y \in Int, Cong(x, y) PROVE Cong(y, x)
<1>1. PICK c \in Int : x = y + c * CurveP  BY DEF Cong
<1>2. y = x + (-c) * CurveP /\ -c \in Int BY <1>1, PrimeField
<1> QED BY <1>2 DEF Cong

(* Congruence is transitive. *)
LEMMA CongTrans ==
  ASSUME NEW x \in Int, NEW y \in Int, NEW z \in Int, Cong(x, y), Cong(y, z)
  PROVE  Cong(x, z)
<1>1. PICK c \in Int : x = y + c * CurveP  BY DEF Cong
<1>2. PICK d \in Int : y = z + d * CurveP  BY DEF Cong
<1>3. x = z + (c + d) * CurveP /\ c + d \in Int BY <1>1, <1>2, PrimeField
<1> QED BY <1>3 DEF Cong

(* Congruent terms have congruent sums. *)
LEMMA CongAdd ==
  ASSUME NEW x \in Int, NEW y \in Int, NEW v \in Int, NEW w \in Int, Cong(x, y), Cong(v, w)
  PROVE  Cong(x + v, y + w)
<1>1. PICK c \in Int : x = y + c * CurveP  BY DEF Cong
<1>2. PICK d \in Int : v = w + d * CurveP  BY DEF Cong
<1>3. x + v = (y + w) + (c + d) * CurveP /\ c + d \in Int BY <1>1, <1>2, PrimeField
<1> QED BY <1>3 DEF Cong

(* Congruent factors have congruent products. *)
LEMMA CongMul ==
  ASSUME NEW x \in Int, NEW y \in Int, NEW v \in Int, NEW w \in Int, Cong(x, y), Cong(v, w)
  PROVE  Cong(x * v, y * w)
<1>1. PICK c \in Int : x = y + c * CurveP  BY DEF Cong
<1>2. PICK d \in Int : v = w + d * CurveP  BY DEF Cong
<1> DEFINE e == y * d + c * w + c * d * CurveP
<1>3. x * v = y * w + e * CurveP /\ e \in Int
  BY <1>1, <1>2, PrimeField
<1> QED BY <1>3 DEF Cong

(* Congruent scalars are equal. *)
LEMMA CongEqual ==
  ASSUME NEW x \in Field, NEW y \in Field, Cong(x, y)
  PROVE  x = y
<1>1. PICK c \in Int : x = y + c * CurveP  BY DEF Cong
<1>2. x \in Int /\ y \in Int /\ 0 <= x /\ x < CurveP /\ 0 <= y /\ y < CurveP /\ CurveP \in Int /\ CurveP > 0
  BY PrimeField DEF Field
<1>3. CASE c >= 1
  <2>1. c * CurveP >= CurveP BY <1>2, <1>3
  <2> QED BY <1>1, <1>2, <2>1
<1>4. CASE c <= -1
  <2>1. c * CurveP <= -CurveP BY <1>2, <1>4
  <2> QED BY <1>1, <1>2, <2>1
<1>5. CASE c = 0  BY <1>1, <1>2, <1>5
<1> QED BY <1>3, <1>4, <1>5

(* Congruent integers reduce to one scalar. *)
LEMMA CongMod ==
  ASSUME NEW x \in Int, NEW y \in Int, Cong(x, y)
  PROVE  x % CurveP = y % CurveP
<1>1. x % CurveP \in Field /\ y % CurveP \in Field /\ Cong(x % CurveP, x) /\ Cong(y % CurveP, y)
  BY ModCong
<1>2. x % CurveP \in Int /\ y % CurveP \in Int BY <1>1 DEF Field
<1>3. Cong(x % CurveP, y) /\ Cong(y, y % CurveP) BY <1>1, <1>2, CongTrans, CongSym
<1>4. Cong(x % CurveP, y % CurveP) BY <1>2, <1>3, CongTrans
<1> QED BY <1>1, <1>4, CongEqual

(* A scalar is reduced already. *)
LEMMA ModOf ==
  ASSUME NEW x \in Field
  PROVE  x % CurveP = x
<1>1. x \in Int /\ CurveP \in Int BY PrimeField DEF Field
<1>2. x % CurveP \in Field /\ Cong(x % CurveP, x) BY <1>1, ModCong
<1> QED BY <1>2, CongEqual

(* A scalar that is not zero has an inverse, CurveP being a prime: the   *)
(* least positive remainder of its multiples divides it. *)
LEMMA InverseExists ==
  ASSUME NEW x \in Field, x # 0
  PROVE  \E y \in Field : (x * y) % CurveP = 1
<1> DEFINE p == CurveP
<1>1. p \in Nat /\ p > 3 /\ p \in Int  BY PrimeField
<1>2. \A k \in 2 .. p - 1 : p % k # 0  BY PrimeField, Zenon
<1>3. p > 1 /\ x \in 1 .. p - 1  BY <1>1 DEF Field
<1> HIDE DEF p
<1>4. \E y \in 0 .. p - 1 : (x * y) % p = 1  BY <1>1, <1>2, <1>3, InverseModulo
<1> QED BY <1>4 DEF Field, p

-----------------------------------------------------------------------------
(* Comparisons, reciprocals and selections. *)

(* A pair of coordinates and a flag, whatever they mean. *)
Points == [x : Field, y : Field, inf : {0, 1}]

(* Reduction ends in the field, in the class it started from. *)
LEMMA ModTyped ==
  ASSUME NEW x \in Int
  PROVE  Mod(x) \in Field /\ Mod(x) \in Int /\ Cong(Mod(x), x)
<1>1. x % CurveP \in Field /\ Cong(x % CurveP, x)  BY ModCong
<1>2. \A v \in Field : v \in Int  BY PrimeField DEF Field
<1> QED BY <1>1, <1>2 DEF Mod

(* Members of the field are integers, 0 and 1 among them. *)
LEMMA FieldTyped ==
  /\ CurveP \in Int
  /\ Field \subseteq Int
  /\ 0 \in Field /\ 1 \in Field
BY PrimeField DEF Field

(* Field members are reduced. *)
LEMMA Reduced == ASSUME NEW x \in Field PROVE Mod(x) = x
BY ModOf DEF Mod

(* Congruent numbers reduce to one member of the field. *)
LEMMA SameMod ==
  ASSUME NEW x \in Int, NEW y \in Int, Cong(x, y)
  PROVE  Mod(x) = Mod(y)
BY CongMod DEF Mod

(* And numbers with one residue are congruent. *)
LEMMA ModSame ==
  ASSUME NEW x \in Int, NEW y \in Int, Mod(x) = Mod(y)
  PROVE  Cong(x, y)
<1> DEFINE m == Mod(x)
<1>1. m \in Int /\ Cong(m, x) /\ Cong(m, y)  BY ModTyped
<1> HIDE DEF m
<1>2. Cong(x, m)  BY <1>1, CongSym
<1> QED BY <1>1, <1>2, CongTrans

(* The difference of two members is 0 only if they are equal. *)
LEMMA DifferenceZero ==
  ASSUME NEW u \in Field, NEW v \in Field
  PROVE  Mod(u - v) = 0 <=> u = v
<1>1. u \in Int /\ v \in Int /\ u - v \in Int /\ 0 \in Int /\ 0 \in Field  BY FieldTyped
<1>2. ASSUME Mod(u - v) = 0 PROVE u = v
  <2>1. Mod(0) = 0  BY <1>1, Reduced
  <2>2. Cong(u - v, 0)  BY <1>1, <1>2, <2>1, ModSame
  <2>3. Cong(v, v)  BY <1>1, CongRefl
  <2>4. Cong((u - v) + v, 0 + v)  BY <1>1, <2>2, <2>3, CongAdd
  <2>5. (u - v) + v = u /\ 0 + v = v  BY <1>1
  <2>6. Cong(u, v)  BY <2>4, <2>5
  <2> QED BY <2>6, CongEqual
<1>3. ASSUME u = v PROVE Mod(u - v) = 0
  <2>1. u - v = 0  BY <1>1, <1>3
  <2> QED BY <1>1, <2>1, Reduced
<1> QED BY <1>2, <1>3

(* The comparison's bit is 1 for equal numbers and 0 for others, which have an *)
(* invertible difference. *)
LEMMA NumEqualsIs ==
  ASSUME NEW u \in Field, NEW v \in Field
  PROVE  NumEquals(u, v) = IF u = v THEN 1 ELSE 0
<1> DEFINE Allowed(r) == /\ \E t \in Field : Mod(t * (u - v)) = Mod(1 - r)
                    /\ Mod(r * (u - v)) = 0
           d == u - v
<1>1. u \in Int /\ v \in Int /\ d \in Int /\ 0 \in Field /\ 1 \in Field  BY FieldTyped
<1>2. Mod(0) = 0 /\ Mod(1) = 1  BY <1>1, Reduced
<1>3. CASE u = v
  <2>1. d = 0  BY <1>1, <1>3
  <2>2. \A t \in Field : t * d = 0  BY <2>1, FieldTyped
  <2>3. ~Allowed(0)
    <3>1. 1 - 0 = 1  OBVIOUS
    <3> QED BY <1>2, <2>2, <3>1
  <2>4. Allowed(1)
    <3>1. 1 - 1 = 0 /\ 1 * d = 0  BY <2>1
    <3>2. 0 * d = 0  BY <2>1
    <3>3. Mod(0 * d) = Mod(1 - 1) /\ Mod(1 * d) = 0  BY <1>2, <3>1, <3>2
    <3> QED BY <1>1, <3>3
  <2> HIDE DEF Allowed
  <2>5. \A r \in {0, 1} : Allowed(r) <=> r = 1  BY <2>3, <2>4
  <2>6. (CHOOSE r \in {0, 1} : Allowed(r)) = 1  BY <2>5
  <2> QED BY <1>3, <2>6 DEF Allowed, NumEquals
<1>4. CASE u # v
  <2>1. Mod(d) # 0  BY <1>4, DifferenceZero
  <2>2. ~Allowed(1)
    <3>1. 1 * d = d  BY <1>1
    <3> QED BY <2>1, <3>1
  <2>3. Allowed(0)
    <3>1. Mod(d) \in Field /\ Mod(d) \in Int /\ Cong(Mod(d), d)  BY <1>1, ModTyped
    <3> DEFINE m == Mod(d)
    <3>2. PICK t \in Field : (m * t) % CurveP = 1  BY <2>1, <3>1, InverseExists
    <3> HIDE DEF m, d
    <3>3. t \in Int /\ m \in Int  BY <3>1, FieldTyped DEF m
    <3>4. Cong(t, t)  BY <3>3, CongRefl
    <3>5. Cong(m, d)  BY <3>1 DEF m
    <3>6. Cong(t * m, t * d)  BY <1>1, <3>3, <3>4, <3>5, CongMul
    <3>7. t * m = m * t /\ t * m \in Int /\ t * d \in Int  BY <1>1, <3>3
    <3>8. Mod(t * m) = Mod(t * d)  BY <3>6, <3>7, SameMod
    <3>9. Mod(m * t) = 1  BY <3>2 DEF Mod
    <3>10. Mod(t * d) = Mod(1 - 0)  BY <1>2, <3>7, <3>8, <3>9
    <3>11. Mod(0 * d) = 0
      <4>1. 0 * d = 0  BY <1>1
      <4> QED BY <1>2, <4>1
    <3> QED BY <3>10, <3>11 DEF d
  <2> HIDE DEF Allowed
  <2>5. \A r \in {0, 1} : Allowed(r) <=> r = 0  BY <2>2, <2>3
  <2>6. (CHOOSE r \in {0, 1} : Allowed(r)) = 0  BY <2>5
  <2> QED BY <1>4, <2>6 DEF Allowed, NumEquals
<1> QED BY <1>3, <1>4

(* A number that is not 0 has the reciprocal the table gives. *)
LEMMA RecipIs ==
  ASSUME NEW v \in Field
  PROVE  /\ Recip(v) \in Field
         /\ v # 0 => Cong(v * Recip(v), 1)
<1>1. CASE v = 0
  <2>1. Recip(v) = 0  BY <1>1 DEF Recip, RecipTable
  <2> QED BY <1>1, <2>1, FieldTyped
<1>2. CASE v # 0
  <2> DEFINE R(w) == (v * w) % CurveP = 1
  <2>1. \E w \in Field : R(w)  BY <1>2, InverseExists
  <2>2. Recip(v) = CHOOSE w \in Field : R(w)  BY <1>2 DEF Recip, RecipTable
  <2> HIDE DEF R
  <2>3. Recip(v) \in Field /\ R(Recip(v))  BY <2>1, <2>2
  <2>4. Mod(v * Recip(v)) = 1  BY <2>3 DEF R, Mod
  <2>5. Mod(1) = 1 /\ 1 \in Int  BY FieldTyped, Reduced
  <2>6. v * Recip(v) \in Int
    <3>1. v \in Int /\ Recip(v) \in Int  BY <2>3, FieldTyped
    <3> QED BY <3>1
  <2>7. Cong(v * Recip(v), 1)  BY <2>4, <2>5, <2>6, ModSame
  <2> QED BY <2>3, <2>7
<1> QED BY <1>1, <1>2

(* What the selections select. *)
LEMMA Selections ==
  ASSUME NEW u \in Field, NEW v \in Field
  PROVE  /\ ConditionallySelect(u, v, 0) = v /\ ConditionallySelect(u, v, 1) = u
         /\ SelectZeroOrNum(u, 0) = u /\ SelectZeroOrNum(u, 1) = 0
         /\ SelectNumOrZero(u, 0) = 0 /\ SelectNumOrZero(u, 1) = u
         /\ SelectOneOrNum(u, 0) = u /\ SelectOneOrNum(u, 1) = 1
         /\ SelectOneOrDiff(u, v, 0) = Mod(u - v) /\ SelectOneOrDiff(u, v, 1) = 1
         /\ SelectNumOrOne(u, 0) = 1 /\ SelectNumOrOne(u, 1) = u
<1>1. u \in Int /\ v \in Int  BY FieldTyped
<1>2. Mod(0) = 0 /\ Mod(1) = 1 /\ Mod(u) = u /\ Mod(v) = v  BY FieldTyped, Reduced
<1>3. v + 0 * (u - v) = v /\ v + 1 * (u - v) = u  BY <1>1
<1>4. u * (1 - 0) = u /\ u * (1 - 1) = 0 /\ u * 0 = 0 /\ u * 1 = u  BY <1>1
<1>5. u + 0 * (1 - u) = u /\ u + 1 * (1 - u) = 1  BY <1>1
<1>6. (u - v) + 0 * (1 - (u - v)) = u - v /\ (u - v) + 1 * (1 - (u - v)) = 1  BY <1>1
<1>7. 1 + 0 * (u - 1) = 1 /\ 1 + 1 * (u - 1) = u  BY <1>1
<1>8. /\ ConditionallySelect(u, v, 0) = v /\ ConditionallySelect(u, v, 1) = u
      /\ SelectZeroOrNum(u, 0) = u /\ SelectZeroOrNum(u, 1) = 0
      /\ SelectNumOrZero(u, 0) = 0 /\ SelectNumOrZero(u, 1) = u
  BY <1>2, <1>3, <1>4 DEF ConditionallySelect, SelectZeroOrNum, SelectNumOrZero
<1>9. /\ SelectOneOrNum(u, 0) = u /\ SelectOneOrNum(u, 1) = 1
      /\ SelectOneOrDiff(u, v, 0) = Mod(u - v) /\ SelectOneOrDiff(u, v, 1) = 1
      /\ SelectNumOrOne(u, 0) = 1 /\ SelectNumOrOne(u, 1) = u
  BY <1>2, <1>5, <1>6, <1>7 DEF SelectOneOrNum, SelectOneOrDiff, SelectNumOrOne
<1> QED BY <1>8, <1>9

-----------------------------------------------------------------------------
(* What the gadgets compute, selection by selection. *)

(* The constants of a curve. *)
LEMMA CurveTyped ==
  ASSUME curve \in Curves
  PROVE  curve.a \in Int /\ curve.b \in Int /\ curve.b \in Field
<1>1. curve.a \in {-3, 0} /\ curve.b \in Field  BY CurveAssumption, Zenon
<1>2. \A a \in {-3, 0} : a \in Int  OBVIOUS
<1> QED BY <1>1, <1>2, FieldTyped

(* The parts of a point that is put together. *)
LEMMA PointTyped ==
  ASSUME NEW x \in Field, NEW y \in Field, NEW i \in {0, 1}
  PROVE  /\ Point(x, y, i) \in Points
         /\ Point(x, y, i).x = x /\ Point(x, y, i).y = y /\ Point(x, y, i).inf = i
BY DEF Point, Points

(* And a point is put together from its parts. *)
LEMMA PointParts ==
  ASSUME NEW p \in Points
  PROVE  /\ p.x \in Field /\ p.y \in Field /\ p.inf \in {0, 1} /\ p.inf \in Field
         /\ p = Point(p.x, p.y, p.inf)
BY FieldTyped DEF Point, Points

(* The third point of a line has coordinates in the field, and is finite. *)
LEMMA OnLineTyped ==
  ASSUME NEW s \in Field, NEW p \in Points, NEW q \in Points
  PROVE  OnLine(s, p, q) \in Points /\ OnLine(s, p, q).inf = 0
<1>1. s \in Int /\ p.x \in Int /\ q.x \in Int /\ p.y \in Int  BY FieldTyped, PointParts
<1> DEFINE x == Mod(s * s - p.x - q.x)
<1>2. s * s - p.x - q.x \in Int  BY <1>1
<1>3. x \in Field /\ x \in Int  BY <1>2, ModTyped
<1> HIDE DEF x
<1>4. s * (p.x - x) - p.y \in Int  BY <1>1, <1>3
<1>5. Mod(s * (p.x - x) - p.y) \in Field  BY <1>4, ModTyped
<1>6. OnLine(s, p, q) = Point(x, Mod(s * (p.x - x) - p.y), 0)  BY DEF OnLine, x
<1> DEFINE y == Mod(s * (p.x - x) - p.y)
<1>7. Point(x, y, 0) \in Points /\ Point(x, y, 0).inf = 0
  <2> HIDE DEF y
  <2> QED BY ZenonT(60), <1>3, <1>5, PointTyped DEF y
<1> QED BY <1>6, <1>7

(* A condition selects one point or the other, or infinity. *)
LEMMA PointSelections ==
  ASSUME NEW p \in Points, NEW q \in Points
  PROVE  /\ SelectPoint(p, q, 0) = q /\ SelectPoint(p, q, 1) = p
         /\ SelectPointOrInfinity(p, 0) = Infinity /\ SelectPointOrInfinity(p, 1) = p
<1>1. p = Point(p.x, p.y, p.inf) /\ q = Point(q.x, q.y, q.inf)  BY PointParts
<1>2. /\ p.x \in Field /\ p.y \in Field /\ p.inf \in Field
      /\ q.x \in Field /\ q.y \in Field /\ q.inf \in Field  BY PointParts
<1>3. SelectPoint(p, q, 0) = Point(q.x, q.y, q.inf)  BY <1>2, Selections DEF SelectPoint
<1>4. SelectPoint(p, q, 1) = Point(p.x, p.y, p.inf)  BY <1>2, Selections DEF SelectPoint
<1>5. SelectPointOrInfinity(p, 0) = Point(0, 0, 1)  BY <1>2, Selections DEF SelectPointOrInfinity
<1>6. SelectPointOrInfinity(p, 1) = Point(p.x, p.y, p.inf)
  BY <1>2, Selections DEF SelectPointOrInfinity
<1> QED BY <1>1, <1>3, <1>4, <1>5, <1>6 DEF Infinity

(* The slope of the chord, in the field. *)
LEMMA ChordTyped ==
  ASSUME NEW p \in Points, NEW q \in Points, NEW d \in Field
  PROVE  Mod((q.y - p.y) * Recip(d)) \in Field
<1>1. q.y \in Int /\ p.y \in Int /\ Recip(d) \in Int  BY FieldTyped, PointParts, RecipIs
<1>2. (q.y - p.y) * Recip(d) \in Int  BY <1>1
<1> QED BY <1>2, ModTyped

(* The slope of the tangent, in the field. *)
LEMMA TangentTyped ==
  ASSUME curve \in Curves, NEW p \in Points, NEW d \in Field
  PROVE  Mod((3 * p.x * p.x + curve.a) * Recip(d)) \in Field
<1>1. p.x \in Int /\ curve.a \in Int /\ Recip(d) \in Int
  BY FieldTyped, PointParts, RecipIs, CurveTyped
<1>2. (3 * p.x * p.x + curve.a) * Recip(d) \in Int  BY <1>1
<1> QED BY <1>2, ModTyped

(* Two finite points are added along their chord; infinity adds nothing, *)
(* whatever the comparison of the coordinates said. *)
LEMMA AddInternalIs ==
  ASSUME NEW p \in Points, NEW q \in Points, NEW e \in {0, 1}
  PROVE  /\ AddInternal(p, q, e) \in Points
         /\ p.inf = 1 => AddInternal(p, q, e) = q
         /\ p.inf = 0 /\ q.inf = 1 => AddInternal(p, q, e) = p
         /\ p.inf = 0 /\ q.inf = 0 /\ e = 0 =>
              AddInternal(p, q, e) = OnLine(Mod((q.y - p.y) * Recip(Mod(q.x - p.x))), p, q)
<1> DEFINE oneInf  == Mod(1 - (1 - p.inf) * (1 - q.inf))
           cond    == Mod(1 - (1 - oneInf) * (1 - e))
           xDiff   == SelectOneOrDiff(q.x, p.x, cond)
           sum     == OnLine(Mod((q.y - p.y) * Recip(xDiff)), p, q)
           pIfQInf == SelectPoint(p, sum, q.inf)
           R       == Point(ConditionallySelect(q.x, pIfQInf.x, p.inf),
                            ConditionallySelect(q.y, pIfQInf.y, p.inf),
                            ConditionallySelect(q.inf, SelectNumOrZero(p.inf, q.inf), p.inf))
<1>1. AddInternal(p, q, e) = R  BY DEF AddInternal
<1>2. /\ p.x \in Field /\ p.y \in Field /\ p.inf \in {0, 1} /\ p.inf \in Field
      /\ q.x \in Field /\ q.y \in Field /\ q.inf \in {0, 1} /\ q.inf \in Field
      /\ p = Point(p.x, p.y, p.inf) /\ q = Point(q.x, q.y, q.inf)  BY PointParts
<1>3. Mod(0) = 0 /\ Mod(1) = 1  BY FieldTyped, Reduced
<1>4. oneInf = (IF p.inf = 0 /\ q.inf = 0 THEN 0 ELSE 1)
  <2>1. 1 - (1 - p.inf) * (1 - q.inf) = (IF p.inf = 0 /\ q.inf = 0 THEN 0 ELSE 1)  BY <1>2
  <2> QED BY <1>3, <2>1
<1>5. cond = (IF oneInf = 0 /\ e = 0 THEN 0 ELSE 1)
  <2> HIDE DEF oneInf
  <2>1. 1 - (1 - oneInf) * (1 - e) = (IF oneInf = 0 /\ e = 0 THEN 0 ELSE 1)  BY <1>4
  <2> QED BY <1>3, <2>1
<1> HIDE DEF oneInf
<1>6. cond \in {0, 1}  BY <1>5
<1> HIDE DEF cond
<1>7. xDiff = (IF cond = 0 THEN Mod(q.x - p.x) ELSE 1)  BY <1>2, <1>6, Selections
<1>8. xDiff \in Field
  <2>0. q.x \in Int /\ p.x \in Int  BY <1>2, FieldTyped
  <2>1. q.x - p.x \in Int  BY <2>0
  <2>2. Mod(q.x - p.x) \in Field /\ 1 \in Field  BY <2>1, ModTyped, FieldTyped
  <2> HIDE DEF xDiff
  <2> QED BY <1>7, <2>2
<1> HIDE DEF xDiff
<1>9. sum \in Points /\ sum.inf = 0  BY <1>8, ChordTyped, OnLineTyped
<1> HIDE DEF sum
<1>10. pIfQInf = (IF q.inf = 1 THEN p ELSE sum)  BY <1>2, <1>9, PointSelections
<1> HIDE DEF pIfQInf
<1>11. pIfQInf \in Points  BY <1>9, <1>10
<1>12. /\ pIfQInf.x \in Field /\ pIfQInf.y \in Field /\ pIfQInf = Point(pIfQInf.x, pIfQInf.y, pIfQInf.inf)
  BY <1>11, PointParts
<1>13. SelectNumOrZero(p.inf, q.inf) = (IF q.inf = 1 THEN p.inf ELSE 0)  BY <1>2, Selections
<1> DEFINE i == SelectNumOrZero(p.inf, q.inf)
<1>14. i \in {0, 1} /\ i \in Field  BY <1>2, <1>13, FieldTyped
<1> HIDE DEF i
<1>15. p.inf = 1 => R = q
  <2> SUFFICES ASSUME p.inf = 1 PROVE R = q  OBVIOUS
  <2>1. ConditionallySelect(q.x, pIfQInf.x, 1) = q.x  BY <1>2, <1>12, Selections
  <2>2. ConditionallySelect(q.y, pIfQInf.y, 1) = q.y  BY <1>2, <1>12, Selections
  <2>3. ConditionallySelect(q.inf, i, 1) = q.inf  BY <1>2, <1>14, Selections
  <2> QED BY <1>2, <2>1, <2>2, <2>3 DEF i
<1>16. p.inf = 0 => R = Point(pIfQInf.x, pIfQInf.y, i)
  <2> SUFFICES ASSUME p.inf = 0 PROVE R = Point(pIfQInf.x, pIfQInf.y, i)  OBVIOUS
  <2>1. ConditionallySelect(q.x, pIfQInf.x, 0) = pIfQInf.x  BY <1>2, <1>12, Selections
  <2>2. ConditionallySelect(q.y, pIfQInf.y, 0) = pIfQInf.y  BY <1>2, <1>12, Selections
  <2>3. ConditionallySelect(q.inf, i, 0) = i  BY <1>2, <1>14, Selections
  <2> QED BY <2>1, <2>2, <2>3 DEF i
<1>17. R \in Points
  <2>1. Point(pIfQInf.x, pIfQInf.y, i) \in Points  BY <1>12, <1>14, PointTyped
  <2> HIDE DEF R
  <2> QED BY <1>2, <1>15, <1>16, <2>1
<1>18. p.inf = 0 => i = 0  BY <1>2, <1>13 DEF i
<1>19. p.inf = 0 /\ q.inf = 1 => R = p
  <2> HIDE DEF R
  <2> QED BY <1>2, <1>10, <1>16, <1>18
<1>20. p.inf = 0 /\ q.inf = 0 => R = sum
  <2>1. sum = Point(sum.x, sum.y, sum.inf)  BY <1>9, PointParts
  <2> HIDE DEF R
  <2> QED BY <1>2, <1>9, <1>10, <1>16, <1>18, <2>1
<1>21. p.inf = 0 /\ q.inf = 0 /\ e = 0 => xDiff = Mod(q.x - p.x)  BY <1>4, <1>5, <1>7
<1>22. p.inf = 0 /\ q.inf = 0 /\ e = 0 =>
         sum = OnLine(Mod((q.y - p.y) * Recip(Mod(q.x - p.x))), p, q)
  BY <1>21 DEF sum
<1> HIDE DEF R
<1> QED BY <1>1, <1>15, <1>17, <1>19, <1>20, <1>22

(* A finite point is doubled along its tangent, and infinity doubled is *)
(* infinity; the denominator is 0 only for a finite point with 2y = 0. *)
LEMMA DoublePointIs ==
  ASSUME curve \in Curves, NEW p \in Points
  PROVE  /\ DoublePoint(p) \in Points
         /\ p.inf = 1 => DoublePoint(p) = Infinity /\ ~DoublePanics(p)
         /\ p.inf = 0 => /\ DoublePoint(p)
                              = OnLine(Mod((3 * p.x * p.x + curve.a) * Recip(Mod(2 * p.y))), p, p)
                         /\ DoublePanics(p) <=> Mod(2 * p.y) = 0
<1> DEFINE denom == SelectOneOrNum(Mod(2 * p.y), p.inf)
           twice == OnLine(Mod((3 * p.x * p.x + curve.a) * Recip(denom)), p, p)
           R     == Point(SelectZeroOrNum(twice.x, p.inf), SelectZeroOrNum(twice.y, p.inf), p.inf)
<1>1. DoublePoint(p) = R /\ (DoublePanics(p) <=> denom = 0)  BY DEF DoublePoint, DoublePanics
<1>2. /\ p.x \in Field /\ p.y \in Field /\ p.inf \in {0, 1}  BY PointParts
<1>3. Mod(2 * p.y) \in Field
  <2>0. p.y \in Int  BY <1>2, FieldTyped
  <2>1. 2 * p.y \in Int  BY <2>0
  <2> QED BY <2>1, ModTyped
<1>4. denom = (IF p.inf = 1 THEN 1 ELSE Mod(2 * p.y))  BY <1>2, <1>3, Selections
<1>5. denom \in Field
  <2> HIDE DEF denom
  <2> QED BY <1>3, <1>4, FieldTyped
<1> HIDE DEF denom
<1>6. twice \in Points /\ twice.inf = 0  BY <1>5, TangentTyped, OnLineTyped
<1> HIDE DEF twice
<1>7. twice.x \in Field /\ twice.y \in Field /\ twice = Point(twice.x, twice.y, 0)
  BY <1>6, PointParts
<1>8. p.inf = 1 => R = Infinity  BY <1>7, Selections DEF Infinity
<1>9. p.inf = 0 => R = twice  BY <1>7, Selections
<1>10. Infinity \in Points  BY FieldTyped, PointTyped DEF Infinity
<1> HIDE DEF R
<1>11. R \in Points  BY <1>2, <1>6, <1>8, <1>9, <1>10
<1>12. p.inf = 0 => twice = OnLine(Mod((3 * p.x * p.x + curve.a) * Recip(Mod(2 * p.y))), p, p)
  BY <1>4 DEF twice
<1>13. p.inf = 1 => ~DoublePanics(p)  BY <1>1, <1>4
<1>14. p.inf = 0 => (DoublePanics(p) <=> Mod(2 * p.y) = 0)  BY <1>1, <1>4
<1> QED BY <1>1, <1>8, <1>9, <1>11, <1>12, <1>13, <1>14

(* The complete addition's three outcomes. *)
LEMMA AddPointsIs ==
  ASSUME curve \in Curves, NEW p \in Points, NEW q \in Points
  PROVE  /\ p.x # q.x => AddPoints(p, q) = AddInternal(p, q, 0)
         /\ p.x = q.x /\ p.y # q.y => AddPoints(p, q) = Infinity
         /\ p.x = q.x /\ p.y = q.y => AddPoints(p, q) = DoublePoint(p)
<1> DEFINE equalX == NumEquals(p.x, q.x)
           equalY == NumEquals(p.y, q.y)
           D == SelectPointOrInfinity(DoublePoint(p), equalY)
           I == AddInternal(p, q, equalX)
<1>1. AddPoints(p, q) = SelectPoint(D, I, equalX)  BY DEF AddPoints
<1>2. p.x \in Field /\ p.y \in Field /\ q.x \in Field /\ q.y \in Field  BY PointParts
<1>3. equalX = (IF p.x = q.x THEN 1 ELSE 0) /\ equalY = (IF p.y = q.y THEN 1 ELSE 0)
  BY <1>2, NumEqualsIs
<1> HIDE DEF equalX, equalY
<1>4. DoublePoint(p) \in Points  BY DoublePointIs
<1>5. D = IF p.y = q.y THEN DoublePoint(p) ELSE Infinity  BY <1>3, <1>4, PointSelections
<1>6. Infinity \in Points  BY FieldTyped, PointTyped DEF Infinity
<1> HIDE DEF D
<1>7. D \in Points  BY <1>4, <1>5, <1>6
<1>8. equalX \in {0, 1}  BY <1>3
<1>9. I \in Points  BY <1>8, AddInternalIs
<1>10. p.x # q.x => I = AddInternal(p, q, 0)  BY <1>3
<1> HIDE DEF I
<1>11. AddPoints(p, q) = IF p.x = q.x THEN D ELSE I  BY <1>1, <1>3, <1>7, <1>9, PointSelections
<1> QED BY <1>5, <1>10, <1>11

-----------------------------------------------------------------------------
(* The points of the curve. *)

(* Congruent numbers have congruent differences. *)
LEMMA CongSub ==
  ASSUME NEW x \in Int, NEW y \in Int, NEW v \in Int, NEW w \in Int, Cong(x, y), Cong(v, w)
  PROVE  Cong(x - v, y - w)
<1>1. PICK c \in Int : x = y + c * CurveP  BY DEF Cong
<1>2. PICK d \in Int : v = w + d * CurveP  BY DEF Cong
<1>3. x - v = (y - w) + (c - d) * CurveP /\ c - d \in Int
  BY <1>1, <1>2, FieldTyped
<1> QED BY <1>3 DEF Cong

(* A product is 0 only if a factor is. *)
LEMMA NoZeroDivisors ==
  ASSUME NEW x \in Int, NEW y \in Int, Cong(x * y, 0), ~Cong(x, 0)
  PROVE  Cong(y, 0)
<1> DEFINE m == Mod(x)
<1>1. m \in Field /\ m \in Int /\ Cong(m, x)  BY ModTyped
<1>2. m # 0
  <2>1. 0 \in Int  OBVIOUS
  <2>2. ASSUME m = 0 PROVE FALSE
    <3>1. Cong(0, x)  BY <1>1, <2>2
    <3> QED BY <2>1, <3>1, CongSym
  <2> QED BY <2>2
<1>3. PICK t \in Field : (m * t) % CurveP = 1  BY <1>1, <1>2, InverseExists
<1> HIDE DEF m
<1>4. t \in Int /\ m * t \in Int /\ 1 \in Field /\ 1 \in Int /\ 0 \in Int
  <2>1. t \in Int  BY FieldTyped
  <2> QED BY <1>1, <2>1, FieldTyped
<1>5. Cong(m * t, 1)
  <2>1. Mod(m * t) = 1 /\ Mod(1) = 1  BY <1>3, <1>4, Reduced DEF Mod
  <2> QED BY <1>4, <2>1, ModSame
<1>6. Cong(x * t, 1)
  <2>1. Cong(t, t)  BY <1>4, CongRefl
  <2>2. Cong(m * t, x * t)  BY <1>1, <1>4, <2>1, CongMul
  <2>3. x * t \in Int  BY <1>4
  <2>4. Cong(x * t, m * t)  BY <1>4, <2>2, <2>3, CongSym
  <2> QED BY <1>4, <1>5, <2>3, <2>4, CongTrans
<1>7. Cong((x * y) * t, 0)
  <2>1. Cong(t, t)  BY <1>4, CongRefl
  <2>2. x * y \in Int  OBVIOUS
  <2>3. Cong((x * y) * t, 0 * t)  BY <1>4, <2>1, <2>2, CongMul
  <2>4. 0 * t = 0  BY <1>4
  <2> QED BY <2>3, <2>4
<1>8. Cong((x * t) * y, 1 * y)
  <2>1. Cong(y, y)  BY CongRefl
  <2>2. x * t \in Int  BY <1>4
  <2> QED BY <1>4, <1>6, <2>1, <2>2, CongMul
<1>9. (x * y) * t = (x * t) * y /\ 1 * y = y /\ (x * t) * y \in Int  BY <1>4
<1>10. Cong(y, (x * t) * y)
  <2>1. Cong((x * t) * y, y)  BY <1>8, <1>9
  <2> QED BY <1>9, <2>1, CongSym
<1>11. Cong((x * t) * y, 0)  BY <1>7, <1>9
<1> QED BY <1>4, <1>9, <1>10, <1>11, CongTrans

(* The curve's cubic. *)
Cubic(x) == x * x * x + curve.a * x + curve.b

(* It is an integer. *)
LEMMA CubicTyped ==
  ASSUME curve \in Curves, NEW x \in Int
  PROVE  Cubic(x) \in Int
<1>1. curve.a \in Int /\ curve.b \in Int  BY CurveTyped
<1> QED BY <1>1 DEF Cubic

(* A finite point of the curve is a finite pair of coordinates that satisfy it. *)
LEMMA FiniteIs ==
  ASSUME curve \in Curves, NEW p
  PROVE  p \in Finite <=> p \in Points /\ p.inf = 0 /\ Mod(p.y * p.y) = Mod(Cubic(p.x))
<1> DEFINE On(q) == (q[2] * q[2]) % CurveP
                      = (q[1] * q[1] * q[1] + curve.a * q[1] + curve.b) % CurveP
<1>1. Finite = {Point(q[1], q[2], 0) : q \in {q \in Field \X Field : On(q)}}
  BY DEF Finite, FiniteOf
<1>2. \A q \in Field \X Field : On(q) <=> Mod(q[2] * q[2]) = Mod(Cubic(q[1]))
  BY DEF Mod, Cubic
<1> HIDE DEF On
<1>3. ASSUME p \in Finite
      PROVE  p \in Points /\ p.inf = 0 /\ Mod(p.y * p.y) = Mod(Cubic(p.x))
  <2>1. PICK q \in Field \X Field : On(q) /\ p = Point(q[1], q[2], 0)  BY <1>1, <1>3
  <2>2. q[1] \in Field /\ q[2] \in Field  OBVIOUS
  <2>3. p \in Points /\ p.x = q[1] /\ p.y = q[2] /\ p.inf = 0  BY <2>1, <2>2, PointTyped
  <2> QED BY <1>2, <2>1, <2>3
<1>4. ASSUME p \in Points, p.inf = 0, Mod(p.y * p.y) = Mod(Cubic(p.x))
      PROVE  p \in Finite
  <2>1. p.x \in Field /\ p.y \in Field /\ p = Point(p.x, p.y, 0)  BY <1>4, PointParts
  <2> DEFINE q == <<p.x, p.y>>
  <2>2. q \in Field \X Field /\ q[1] = p.x /\ q[2] = p.y  BY <2>1
  <2>3. On(q)  BY <1>2, <1>4, <2>2
  <2> QED BY <1>1, <2>1, <2>2, <2>3
<1> QED BY <1>3, <1>4

(* No finite point has y = 0, its tangent has a denominator, and it is not its *)
(* own opposite: the order of the curve is odd. *)
LEMMA NoOrderTwo ==
  ASSUME curve \in Curves, NEW p \in Finite
  PROVE  p.y # 0 /\ Mod(2 * p.y) # 0 /\ p # Opposite(p)
<1>1. p \in Points /\ p.inf = 0 /\ Mod(p.y * p.y) = Mod(Cubic(p.x))  BY FiniteIs
<1>2. p.x \in Field /\ p.y \in Field  BY <1>1, PointParts
<1>3. Mod(Cubic(p.x)) # 0
  <2>1. \A x \in Field : (x * x * x + curve.a * x + curve.b) % CurveP # 0
    BY CurveAssumption, Zenon
  <2> QED BY <1>2, <2>1 DEF Cubic, Mod
<1>4. p.y \in Int /\ 2 \in Int /\ 0 \in Int /\ 0 \in Field /\ -p.y \in Int /\ 2 * p.y \in Int
  <2>1. p.y \in Int  BY <1>2, FieldTyped
  <2> QED BY <2>1, FieldTyped
<1>5. Mod(0) = 0 /\ Mod(p.y) = p.y  BY <1>2, <1>4, Reduced
<1>6. p.y # 0
  <2>1. p.y = 0 => p.y * p.y = 0  BY <1>4
  <2> QED BY <1>1, <1>3, <1>5, <2>1
<1>7. ~Cong(2, 0)
  <2>1. CurveP > 3 /\ CurveP \in Int  BY PrimeField
  <2>2. 2 \in Field  BY <2>1 DEF Field
  <2>3. 2 # 0  OBVIOUS
  <2> QED BY <1>4, <2>2, <2>3, CongEqual
<1>8. ~Cong(p.y, 0)  BY <1>2, <1>4, <1>6, CongEqual
<1>9. ~Cong(2 * p.y, 0)  BY <1>4, <1>7, <1>8, NoZeroDivisors
<1>10. Mod(2 * p.y) # 0  BY <1>4, <1>5, <1>9, ModSame
<1>11. p # Opposite(p)
  <2>1. SUFFICES ASSUME p = Opposite(p) PROVE FALSE  OBVIOUS
  <2>2. Opposite(p).y = Mod(-p.y)  BY <1>1 DEF Opposite, Points
  <2>3. Mod(p.y) = Mod(-p.y)  BY <1>5, <2>1, <2>2
  <2>4. Cong(p.y, -p.y)  BY <1>4, <2>3, ModSame
  <2>5. Cong(p.y, p.y)  BY <1>4, CongRefl
  <2>6. Cong(p.y + p.y, -p.y + p.y)  BY <1>4, <2>4, <2>5, CongAdd
  <2>7. p.y + p.y = 2 * p.y /\ -p.y + p.y = 0  BY <1>4
  <2> QED BY <1>9, <2>6, <2>7
<1> QED BY <1>6, <1>10, <1>11

(* Two finite points with one x-coordinate are equal or opposite. *)
LEMMA SameX ==
  ASSUME curve \in Curves, NEW p \in Finite, NEW q \in Finite, p.x = q.x, p.y # q.y
  PROVE  q = Opposite(p)
<1>1. /\ p \in Points /\ p.inf = 0 /\ Mod(p.y * p.y) = Mod(Cubic(p.x))
      /\ q \in Points /\ q.inf = 0 /\ Mod(q.y * q.y) = Mod(Cubic(q.x))  BY FiniteIs
<1>2. p.y \in Field /\ q.y \in Field  BY <1>1, PointParts
<1>3. p.y \in Int /\ q.y \in Int  BY <1>2, FieldTyped
<1>4. /\ q.y * q.y \in Int /\ p.y * p.y \in Int /\ -p.y \in Int /\ q.y - p.y \in Int
      /\ q.y + p.y \in Int /\ 0 \in Int
  BY <1>3
<1>5. Cong(q.y * q.y, p.y * p.y)  BY <1>1, <1>4, ModSame
<1>6. Cong(q.y * q.y - p.y * p.y, p.y * p.y - p.y * p.y)
  <2>1. Cong(p.y * p.y, p.y * p.y)  BY <1>4, CongRefl
  <2> QED BY <1>4, <1>5, <2>1, CongSub
<1>7. q.y * q.y - p.y * p.y = (q.y - p.y) * (q.y + p.y) /\ p.y * p.y - p.y * p.y = 0
  BY <1>3
<1>8. Cong((q.y - p.y) * (q.y + p.y), 0)  BY <1>6, <1>7
<1>9. ~Cong(q.y - p.y, 0)
  <2>1. SUFFICES ASSUME Cong(q.y - p.y, 0) PROVE FALSE  OBVIOUS
  <2>2. Mod(q.y - p.y) = Mod(0)  BY <1>4, <2>1, SameMod
  <2>3. Mod(0) = 0  BY FieldTyped, Reduced
  <2>4. Mod(q.y - p.y) = 0 <=> q.y = p.y  BY <1>2, DifferenceZero
  <2> QED BY <2>2, <2>3, <2>4
<1>10. Cong(q.y + p.y, 0)  BY <1>4, <1>8, <1>9, NoZeroDivisors
<1>11. Cong((q.y + p.y) - p.y, 0 - p.y)
  <2>1. Cong(p.y, p.y)  BY <1>3, CongRefl
  <2> QED BY <1>3, <1>4, <1>10, <2>1, CongSub
<1>12. (q.y + p.y) - p.y = q.y /\ 0 - p.y = -p.y  BY <1>3
<1>13. Mod(q.y) = Mod(-p.y)
  <2>1. Cong(q.y, -p.y)  BY <1>11, <1>12
  <2> QED BY <1>3, <1>4, <2>1, SameMod
<1>14. q.y = Mod(-p.y)  BY <1>2, <1>13, Reduced
<1>15. p = Point(p.x, p.y, 0) /\ q = Point(q.x, q.y, 0)  BY <1>1, PointParts
<1>16. Opposite(p) = Point(p.x, Mod(-p.y), 0)  BY <1>15 DEF Opposite, Point
<1> QED BY <1>14, <1>15, <1>16

-----------------------------------------------------------------------------
(* Chords and tangents stay on the curve. *)

(* A slope is its numerator over its denominator. *)
LEMMA SlopeIs ==
  ASSUME NEW n \in Int, NEW d \in Int, Mod(d) # 0
  PROVE  /\ Mod(n * Recip(Mod(d))) \in Field
         /\ Cong(Mod(n * Recip(Mod(d))) * d, n)
<1> DEFINE m == Mod(d)
           r == Recip(m)
           s == Mod(n * r)
<1>1. m \in Field /\ m \in Int /\ Cong(m, d)  BY ModTyped
<1>2. r \in Field /\ Cong(m * r, 1)  BY <1>1, RecipIs
<1> HIDE DEF m, r
<1>3. r \in Int /\ n * r \in Int  BY <1>2, FieldTyped
<1>4. s \in Field /\ s \in Int /\ Cong(s, n * r)  BY <1>3, ModTyped
<1> HIDE DEF s
<1>5. Cong(d, m)  BY <1>1, CongSym
<1>6. Cong(s * d, (n * r) * m)  BY <1>1, <1>3, <1>4, <1>5, CongMul
<1>7. Cong(n, n)  BY CongRefl
<1>8. Cong(n * (m * r), n * 1)
  <2>1. m * r \in Int /\ 1 \in Int  BY <1>1, <1>3
  <2> QED BY <1>2, <1>7, <2>1, CongMul
<1>9. (n * r) * m = n * (m * r) /\ n * 1 = n  BY <1>1, <1>3
<1>10. Cong(s * d, n)
  <2>1. s * d \in Int /\ (n * r) * m \in Int  BY <1>1, <1>3, <1>4
  <2>2. Cong((n * r) * m, n)  BY <1>8, <1>9
  <2> QED BY <1>6, <2>1, <2>2, CongTrans
<1> QED BY <1>4, <1>10 DEF s, r, m

(* What is left of the curve's equation at the third point of a line. *)
LEMMA LineIdentity ==
  ASSUME NEW a \in Int, NEW b \in Int, NEW s \in Int, NEW x1 \in Int, NEW y1 \in Int,
         NEW x2 \in Int, NEW x3 \in Int
  PROVE  (s * (x1 - x3) - y1) * (s * (x1 - x3) - y1) - (x3 * x3 * x3 + a * x3 + b)
           = (y1 * y1 - (x1 * x1 * x1 + a * x1 + b))
             - (x3 - x1) * ((x2 * x2 + x1 * x2 + x1 * x1 + a) - s * (2 * y1 + s * (x2 - x1)))
             - (x3 - x1) * ((x3 - x2) * (x1 + x2 + x3 - s * s))
OBVIOUS

(* Where the line meets the curve twice already: at two points of the chord, or at *)
(* one of the tangent. *)
MeetsTwice(s, p, q) ==
  Cong((q.x * q.x + p.x * q.x + p.x * p.x + curve.a) - s * (2 * p.y + s * (q.x - p.x)), 0)

(* A line that meets the curve twice meets it a third time, where OnLine says. *)
LEMMA ThirdPoint ==
  ASSUME curve \in Curves, NEW p \in Finite, NEW q \in Points, NEW s \in Field,
         MeetsTwice(s, p, q)
  PROVE  OnLine(s, p, q) \in Finite
<1> DEFINE a  == curve.a
           b  == curve.b
           x1 == p.x
           y1 == p.y
           x2 == q.x
           t  == s * s - x1 - x2
           x3 == Mod(t)
           u  == s * (x1 - x3) - y1
           y3 == Mod(u)
           A  == (x2 * x2 + x1 * x2 + x1 * x1 + a) - s * (2 * y1 + s * (x2 - x1))
           C  == x1 + x2 + x3 - s * s
           e  == x3 - x1
           g  == y1 * y1 - Cubic(x1)
           h  == u * u - Cubic(x3)
<1>1. OnLine(s, p, q) = Point(x3, y3, 0)  BY DEF OnLine
<1>2. p \in Points /\ Mod(y1 * y1) = Mod(Cubic(x1))  BY FiniteIs
<1>3. x1 \in Int /\ y1 \in Int /\ x2 \in Int /\ s \in Int /\ a \in Int /\ b \in Int /\ 0 \in Int
  BY <1>2, PointParts, FieldTyped, CurveTyped
<1>4. Cong(A, 0)  BY DEF MeetsTwice
<1>5. Cubic(x1) = x1 * x1 * x1 + a * x1 + b /\ Cubic(x3) = x3 * x3 * x3 + a * x3 + b  BY DEF Cubic
<1> HIDE DEF a, b, x1, y1, x2
<1>6. t \in Int  BY <1>3
<1>7. x3 \in Field /\ x3 \in Int /\ Cong(x3, t)  BY <1>6, ModTyped
<1> HIDE DEF x3
<1>8. u \in Int  BY <1>3, <1>7
<1>9. y3 \in Field /\ y3 \in Int /\ Cong(y3, u)  BY <1>8, ModTyped
<1>10. Cubic(x1) \in Int /\ Cubic(x3) \in Int  BY <1>3, <1>7, CubicTyped
<1>11. h = g - e * A - e * ((x3 - x2) * C)  BY <1>3, <1>5, <1>7, LineIdentity
<1>12. Cong(C, 0)
  <2>1. x1 + x2 - s * s \in Int  BY <1>3
  <2>2. Cong(x1 + x2 - s * s, x1 + x2 - s * s)  BY <2>1, CongRefl
  <2> DEFINE k == x1 + x2 - s * s
  <2>3. Cong(x3 + k, t + k)  BY <1>6, <1>7, <2>1, <2>2, CongAdd
  <2>4. x3 + k = C /\ t + k = 0  BY <1>3, <1>7
  <2> HIDE DEF k, C, t
  <2> QED BY <2>3, <2>4
<1>13. Cong(g, 0)
  <2>1. y1 * y1 \in Int  BY <1>3
  <2>2. Cong(y1 * y1, Cubic(x1))  BY <1>2, <1>10, <2>1, ModSame
  <2>3. Cong(Cubic(x1), Cubic(x1))  BY <1>10, CongRefl
  <2>4. Cong(g, Cubic(x1) - Cubic(x1))  BY <1>10, <2>1, <2>2, <2>3, CongSub
  <2>5. Cubic(x1) - Cubic(x1) = 0  BY <1>10
  <2> QED BY <2>4, <2>5
<1>14. A \in Int /\ C \in Int /\ e \in Int /\ g \in Int /\ x3 - x2 \in Int  BY <1>3, <1>7, <1>10
<1> HIDE DEF A, C, e, g
<1>15. Cong(e * A, 0)
  <2>1. Cong(e, e)  BY <1>14, CongRefl
  <2>2. Cong(e * A, e * 0)  BY <1>3, <1>4, <1>14, <2>1, CongMul
  <2>3. e * 0 = 0  BY <1>14
  <2> QED BY <2>2, <2>3
<1>16. Cong(e * ((x3 - x2) * C), 0)
  <2> DEFINE d == x3 - x2
  <2>1. Cong(d, d) /\ Cong(e, e)  BY <1>14, CongRefl
  <2> HIDE DEF d
  <2>2. d \in Int  BY <1>14 DEF d
  <2>3. Cong(d * C, d * 0)  BY <1>3, <1>12, <1>14, <2>1, <2>2, CongMul
  <2>4. d * 0 = 0 /\ e * 0 = 0 /\ d * C \in Int  BY <1>14, <2>2
  <2>5. Cong(d * C, 0)  BY <2>3, <2>4
  <2>6. Cong(e * (d * C), e * 0)  BY <1>3, <1>14, <2>1, <2>4, <2>5, CongMul
  <2> QED BY <2>4, <2>6 DEF d
<1>17. Cong(h, 0)
  <2> DEFINE v == e * A
             w == e * ((x3 - x2) * C)
  <2>1. v \in Int /\ w \in Int /\ Cong(v, 0) /\ Cong(w, 0) /\ h = g - v - w
    BY <1>11, <1>14, <1>15, <1>16
  <2> HIDE DEF v, w, h
  <2>2. Cong(g - v, 0 - 0)  BY <1>3, <1>13, <1>14, <2>1, CongSub
  <2>3. 0 - 0 = 0 /\ g - v \in Int  BY <1>14, <2>1
  <2>4. Cong(g - v, 0)  BY <2>2, <2>3
  <2>5. Cong((g - v) - w, 0 - 0)  BY <1>3, <2>1, <2>3, <2>4, CongSub
  <2> QED BY <2>1, <2>3, <2>5
<1>18. Cong(u * u, Cubic(x3))
  <2> DEFINE c == Cubic(x3)
             v == u * u
  <2>1. v \in Int /\ c \in Int /\ h = v - c  BY <1>8, <1>10
  <2> HIDE DEF v, c, h
  <2>2. Cong(c, c)  BY <2>1, CongRefl
  <2>3. h \in Int  BY <2>1
  <2>4. Cong(h + c, 0 + c)  BY <1>3, <1>17, <2>1, <2>2, <2>3, CongAdd
  <2>5. h + c = v /\ 0 + c = c  BY <2>1
  <2> QED BY <2>4, <2>5 DEF v, c
<1>19. Mod(y3 * y3) = Mod(Cubic(x3))
  <2> HIDE DEF u, y3
  <2>1. Cong(y3 * y3, u * u)  BY <1>8, <1>9, CongMul
  <2>2. y3 * y3 \in Int /\ u * u \in Int  BY <1>8, <1>9
  <2>3. Cong(y3 * y3, Cubic(x3))  BY <1>10, <1>18, <2>1, <2>2, CongTrans
  <2> QED BY <1>10, <2>2, <2>3, SameMod
<1> HIDE DEF y3
<1>20. Point(x3, y3, 0) \in Points /\ Point(x3, y3, 0).x = x3 /\ Point(x3, y3, 0).y = y3
       /\ Point(x3, y3, 0).inf = 0
  BY <1>7, <1>9, PointTyped
<1> QED BY <1>1, <1>19, <1>20, FiniteIs

(* The chord of two points with different x meets the curve in both. *)
LEMMA ChordMeets ==
  ASSUME curve \in Curves, NEW p \in Finite, NEW q \in Finite, p.x # q.x
  PROVE  MeetsTwice(Mod((q.y - p.y) * Recip(Mod(q.x - p.x))), p, q)
<1> DEFINE a  == curve.a
           b  == curve.b
           x1 == p.x
           y1 == p.y
           x2 == q.x
           y2 == q.y
           d  == x2 - x1
           n  == y2 - y1
           s  == Mod(n * Recip(Mod(d)))
           A  == x2 * x2 + x1 * x2 + x1 * x1 + a
           B  == s * (2 * y1 + s * (x2 - x1))
           f1 == Cubic(x1)
           f2 == Cubic(x2)
<1>1. /\ p \in Points /\ Mod(y1 * y1) = Mod(f1)
      /\ q \in Points /\ Mod(y2 * y2) = Mod(f2)  BY FiniteIs
<1>2. x1 \in Field /\ x2 \in Field /\ x1 \in Int /\ y1 \in Int /\ x2 \in Int /\ y2 \in Int
      /\ a \in Int /\ b \in Int /\ 0 \in Int
  BY <1>1, PointParts, FieldTyped, CurveTyped
<1>3. Mod(d) # 0  BY <1>2, DifferenceZero
<1>4. f1 \in Int /\ f2 \in Int /\ f1 = x1 * x1 * x1 + a * x1 + b /\ f2 = x2 * x2 * x2 + a * x2 + b
  BY <1>2, CubicTyped DEF Cubic
<1>5. (MeetsTwice(s, p, q) <=> Cong(A - B, 0))  BY DEF MeetsTwice
<1> HIDE DEF a, b, x1, y1, x2, y2, f1, f2
<1>6. d \in Int /\ n \in Int /\ y1 * y1 \in Int /\ y2 * y2 \in Int  BY <1>2
<1>7. s \in Field /\ Cong(s * d, n)  BY <1>3, <1>6, SlopeIs
<1>8. s \in Int  BY <1>7, FieldTyped
<1> HIDE DEF s
<1>9. A \in Int /\ B \in Int /\ A - B \in Int  BY <1>2, <1>8
<1>10. d * (A - B) = (f2 - f1) - (s * d) * (2 * y1 + s * d)  BY <1>2, <1>4, <1>8
<1>11. Cong(f2 - f1, y2 * y2 - y1 * y1)
  <2>1. Cong(f2, y2 * y2) /\ Cong(f1, y1 * y1)  BY <1>1, <1>4, <1>6, ModSame
  <2> QED BY <1>4, <1>6, <2>1, CongSub
<1> DEFINE k == s * d
<1>12. k \in Int /\ Cong(k, n)  BY <1>6, <1>7, <1>8
<1>13. Cong(k * (2 * y1 + k), n * (2 * y1 + n))
  <2> HIDE DEF k, n
  <2>1. 2 * y1 \in Int  BY <1>2
  <2>2. Cong(2 * y1, 2 * y1)  BY <2>1, CongRefl
  <2>3. Cong(2 * y1 + k, 2 * y1 + n)  BY <1>6, <1>12, <2>1, <2>2, CongAdd
  <2>4. 2 * y1 + k \in Int /\ 2 * y1 + n \in Int  BY <1>6, <1>12, <2>1
  <2> QED BY <1>6, <1>12, <2>3, <2>4, CongMul
<1>14. n * (2 * y1 + n) = y2 * y2 - y1 * y1  BY <1>2
<1>15. Cong(d * (A - B), 0)
  <2> DEFINE v == k * (2 * y1 + k)
             w == y2 * y2 - y1 * y1
             f == f2 - f1
             l == d * (A - B)
  <2>1. v \in Int /\ w \in Int /\ f \in Int  BY <1>2, <1>4, <1>6, <1>12
  <2>2. Cong(v, w) /\ Cong(f, w)  BY <1>11, <1>13, <1>14
  <2>3. l = f - v  BY <1>10
  <2>4. w - w = 0  BY <2>1
  <2> HIDE DEF v, w, f, l
  <2>5. Cong(f - v, w - w)  BY <2>1, <2>2, CongSub
  <2> QED BY <2>3, <2>4, <2>5 DEF l
<1>16. ~Cong(d, 0)
  <2>1. Mod(0) = 0  BY FieldTyped, Reduced
  <2> HIDE DEF d
  <2> QED BY <1>2, <1>3, <1>6, <2>1, SameMod
<1>17. Cong(A - B, 0)
  <2> DEFINE m == A - B
  <2>1. m \in Int /\ Cong(d * m, 0)  BY <1>9, <1>15
  <2> HIDE DEF m, d
  <2>2. Cong(m, 0)  BY <1>6, <1>16, <2>1, NoZeroDivisors
  <2> QED BY <2>2 DEF m
<1> QED BY <1>5, <1>17 DEF s, x1, x2, y1, y2

(* The tangent at a point meets the curve in it twice. *)
LEMMA TangentMeets ==
  ASSUME curve \in Curves, NEW p \in Finite
  PROVE  MeetsTwice(Mod((3 * p.x * p.x + curve.a) * Recip(Mod(2 * p.y))), p, p)
<1> DEFINE a == curve.a
           x == p.x
           y == p.y
           d == 2 * y
           n == 3 * x * x + a
           s == Mod(n * Recip(Mod(d)))
           A == x * x + x * x + x * x + a
           B == s * (2 * y + s * (x - x))
<1>1. p \in Points /\ Mod(d) # 0  BY FiniteIs, NoOrderTwo
<1>2. x \in Int /\ y \in Int /\ a \in Int /\ 0 \in Int
  BY <1>1, PointParts, FieldTyped, CurveTyped
<1>3. (MeetsTwice(s, p, p) <=> Cong(A - B, 0))  BY DEF MeetsTwice
<1> HIDE DEF a, x, y
<1>4. d \in Int /\ n \in Int  BY <1>2
<1>5. s \in Field /\ Cong(s * d, n)  BY <1>1, <1>4, SlopeIs
<1>6. s \in Int  BY <1>5, FieldTyped
<1> HIDE DEF s
<1>7. A = n /\ B = s * d  BY <1>2, <1>6
<1> DEFINE k == s * d
<1>8. k \in Int /\ Cong(k, n) /\ A - B = n - k  BY <1>4, <1>5, <1>6, <1>7
<1> HIDE DEF k, n, A, B
<1>9. Cong(n, n)  BY <1>4, CongRefl
<1>10. Cong(n - k, n - n)  BY <1>4, <1>8, <1>9, CongSub
<1>11. n - n = 0  BY <1>4
<1>12. Cong(A - B, 0)  BY <1>8, <1>10, <1>11
<1> QED BY <1>3, <1>12 DEF s, n, x, y, a

-----------------------------------------------------------------------------
(* The complete addition, case by case. *)

(* Every point of the group is a pair of coordinates and a flag, and is allocated *)
(* as it is. *)
LEMMA Allocated ==
  ASSUME curve \in Curves, NEW p \in AllPoints
  PROVE  /\ p \in Points /\ AllocPoint(p) = p
         /\ p = Infinity \/ (p \in Finite /\ p.inf = 0)
         /\ p.inf = 1 <=> p = Infinity
<1>1. Infinity \in Points /\ Infinity.inf = 1 /\ AllocPoint(Infinity) = Infinity
  <2>1. Infinity \in Points /\ Infinity.inf = 1  BY FieldTyped, PointTyped DEF Infinity
  <2> QED BY <2>1 DEF AllocPoint, Infinity
<1>2. ASSUME p \in Finite PROVE p \in Points /\ p.inf = 0 /\ AllocPoint(p) = p
  <2>1. p \in Points /\ p.inf = 0  BY <1>2, FiniteIs
  <2>2. p = Point(p.x, p.y, 0)  BY <2>1, PointParts
  <2> QED BY <2>1, <2>2 DEF AllocPoint
<1>3. p \in Finite \/ p = Infinity  BY DEF AllPoints
<1> QED BY <1>1, <1>2, <1>3

(* The circuit's sum of two points of the group: never a panic, a point of the *)
(* group, and the group's sum but for the pair taken for opposites. *)
LEMMA AddsTheGroup ==
  ASSUME curve \in Curves, NEW p \in AllPoints, NEW q \in AllPoints
  PROVE  /\ ~DoublePanics(AllocPoint(p))
         /\ Meaning(AddPoints(AllocPoint(p), AllocPoint(q))) \in AllPoints
         /\ Meaning(AddPoints(AllocPoint(p), AllocPoint(q))) = ChordSum(p, q)
              <=> ~TakenForOpposites(p, q)
<1> DEFINE S == AddPoints(p, q)
           Right(r) == /\ Meaning(r) \in AllPoints
                       /\ (Meaning(r) = ChordSum(p, q) <=> ~TakenForOpposites(p, q))
<1>1. /\ p \in Points /\ AllocPoint(p) = p /\ (p = Infinity \/ (p \in Finite /\ p.inf = 0))
      /\ q \in Points /\ AllocPoint(q) = q /\ (q = Infinity \/ (q \in Finite /\ q.inf = 0))
  BY Allocated
<1>2. /\ Infinity.inf = 1 /\ Infinity.x = 0 /\ Infinity.y = 0 /\ Meaning(Infinity) = Infinity
  <2>1. Infinity.inf = 1 /\ Infinity.x = 0 /\ Infinity.y = 0  BY FieldTyped, PointTyped DEF Infinity
  <2> QED BY <2>1 DEF Meaning
<1>3. \A r \in Finite : Meaning(r) = r /\ r \in AllPoints /\ r.inf = 0 /\ r # Infinity
  <2> SUFFICES ASSUME NEW r \in Finite
               PROVE  Meaning(r) = r /\ r \in AllPoints /\ r.inf = 0 /\ r # Infinity
    OBVIOUS
  <2>1. r.inf = 0  BY FiniteIs
  <2> QED BY <1>2, <2>1 DEF Meaning, AllPoints
<1>4. Infinity \in AllPoints  BY DEF AllPoints
<1>5. ~DoublePanics(p)
  <2>1. CASE p = Infinity
    <3>1. p.inf = 1  BY <1>2, <2>1
    <3> QED BY <1>1, <3>1, DoublePointIs
  <2>2. CASE p \in Finite /\ p.inf = 0
    <3>1. Mod(2 * p.y) # 0  BY <2>2, NoOrderTwo
    <3> QED BY <1>1, <2>2, <3>1, DoublePointIs
  <2> QED BY <1>1, <2>1, <2>2
<1>6. CASE p = Infinity /\ q = Infinity
  <2>1. p.inf = 1 /\ q.inf = 1 /\ p.x = q.x /\ p.y = q.y  BY <1>2, <1>6
  <2>2. S = DoublePoint(p)  BY <1>1, <2>1, AddPointsIs
  <2>3. DoublePoint(p) = Infinity  BY <1>1, <2>1, DoublePointIs
  <2>4. ChordSum(p, q) = Infinity  BY <1>6, <2>1 DEF ChordSum
  <2>5. ~TakenForOpposites(p, q)  BY <2>1 DEF TakenForOpposites
  <2> QED BY <1>1, <1>2, <1>4, <1>5, <2>2, <2>3, <2>4, <2>5
<1>7. CASE p = Infinity /\ q \in Finite /\ q.inf = 0
  <2>1. p.inf = 1 /\ p.x = 0 /\ p.y = 0 /\ q # Infinity  BY <1>2, <1>3, <1>7
  <2>2. ChordSum(p, q) = q  BY <2>1 DEF ChordSum
  <2>3. TakenForOpposites(p, q) <=> q.x = 0  BY <1>7, <2>1 DEF TakenForOpposites
  <2>4. CASE q.x = 0
    <3>1. q.y # 0  BY <1>7, NoOrderTwo
    <3>2. S = Infinity  BY <1>1, <2>1, <2>4, <3>1, AddPointsIs
    <3>3. Right(S)  BY <1>2, <1>4, <2>1, <2>2, <2>3, <2>4, <3>2
    <3> QED BY <1>1, <1>5, <3>3
  <2>5. CASE q.x # 0
    <3>1. S = AddInternal(p, q, 0)  BY <1>1, <2>1, <2>5, AddPointsIs
    <3>2. AddInternal(p, q, 0) = q  BY <1>1, <2>1, AddInternalIs
    <3>3. Right(S)  BY <1>3, <1>7, <2>2, <2>3, <2>5, <3>1, <3>2
    <3> QED BY <1>1, <1>5, <3>3
  <2> QED BY <2>4, <2>5
<1>8. CASE p \in Finite /\ p.inf = 0 /\ q = Infinity
  <2>1. q.inf = 1 /\ q.x = 0 /\ q.y = 0 /\ p # Infinity  BY <1>2, <1>3, <1>8
  <2>2. ChordSum(p, q) = p  BY <1>8, <2>1 DEF ChordSum
  <2>3. TakenForOpposites(p, q) <=> p.x = 0  BY <1>8, <2>1 DEF TakenForOpposites
  <2>4. CASE p.x = 0
    <3>1. p.y # 0  BY <1>8, NoOrderTwo
    <3>2. S = Infinity  BY <1>1, <2>1, <2>4, <3>1, AddPointsIs
    <3>3. Right(S)  BY <1>2, <1>4, <2>1, <2>2, <2>3, <2>4, <3>2
    <3> QED BY <1>1, <1>5, <3>3
  <2>5. CASE p.x # 0
    <3>1. S = AddInternal(p, q, 0)  BY <1>1, <2>1, <2>5, AddPointsIs
    <3>2. AddInternal(p, q, 0) = p  BY <1>1, <1>8, <2>1, AddInternalIs
    <3>3. Right(S)  BY <1>3, <1>8, <2>2, <2>3, <2>5, <3>1, <3>2
    <3> QED BY <1>1, <1>5, <3>3
  <2> QED BY <2>4, <2>5
<1>9. CASE p \in Finite /\ p.inf = 0 /\ q \in Finite /\ q.inf = 0
  <2>1. ~TakenForOpposites(p, q)  BY <1>9 DEF TakenForOpposites
  <2>2. p = Point(p.x, p.y, 0) /\ q = Point(q.x, q.y, 0)  BY <1>1, <1>9, PointParts
  <2>3. Opposite(p) = Point(p.x, Mod(-p.y), 0)  BY <2>2 DEF Opposite, Point
  <2>4. Opposite(p).x = p.x  BY <2>3 DEF Point
  <2>5. CASE p.x # q.x
    <3> DEFINE s == Mod((q.y - p.y) * Recip(Mod(q.x - p.x)))
    <3>1. S = AddInternal(p, q, 0)  BY <1>1, <2>5, AddPointsIs
    <3>2. AddInternal(p, q, 0) = OnLine(s, p, q)  BY <1>1, <1>9, AddInternalIs
    <3>3. q # Opposite(p) /\ p # q  BY <2>4, <2>5
    <3>4. ChordSum(p, q) = OnLine(s, p, q)  BY <1>9, <3>3 DEF ChordSum
    <3>5. MeetsTwice(s, p, q)  BY <1>9, <2>5, ChordMeets
    <3>6. s \in Field
      <4>1. q.x \in Int /\ p.x \in Int  BY <1>1, PointParts, FieldTyped
      <4>2. q.x - p.x \in Int  BY <4>1
      <4>3. Mod(q.x - p.x) \in Field  BY <4>2, ModTyped
      <4> QED BY <1>1, <4>3, ChordTyped
    <3> HIDE DEF s
    <3>7. OnLine(s, p, q) \in Finite  BY <1>1, <1>9, <3>5, <3>6, ThirdPoint
    <3>8. Right(S)  BY <1>3, <2>1, <3>1, <3>2, <3>4, <3>7
    <3> QED BY <1>1, <1>5, <3>8
  <2>6. CASE p.x = q.x /\ p.y # q.y
    <3>1. S = Infinity  BY <1>1, <2>6, AddPointsIs
    <3>2. q = Opposite(p)  BY <1>9, <2>6, SameX
    <3>3. ChordSum(p, q) = Infinity  BY <1>9, <3>2 DEF ChordSum
    <3>4. Right(S)  BY <1>2, <1>4, <2>1, <3>1, <3>3
    <3> QED BY <1>1, <1>5, <3>4
  <2>7. CASE p.x = q.x /\ p.y = q.y
    <3> DEFINE s == Mod((3 * p.x * p.x + curve.a) * Recip(Mod(2 * p.y)))
    <3>1. p = q  BY <2>2, <2>7
    <3>2. S = DoublePoint(p)  BY <1>1, <2>7, AddPointsIs
    <3>3. DoublePoint(p) = OnLine(s, p, p)  BY <1>1, <1>9, DoublePointIs
    <3>4. q # Opposite(p)  BY <1>9, <3>1, NoOrderTwo
    <3>5. ChordSum(p, q) = OnLine(s, p, p)  BY <1>9, <3>1, <3>4 DEF ChordSum
    <3>6. MeetsTwice(s, p, p)  BY <1>9, TangentMeets
    <3>7. s \in Field
      <4>1. p.y \in Int  BY <1>1, PointParts, FieldTyped
      <4>2. 2 * p.y \in Int  BY <4>1
      <4>3. Mod(2 * p.y) \in Field  BY <4>2, ModTyped
      <4> QED BY <1>1, <4>3, TangentTyped
    <3> HIDE DEF s
    <3>8. OnLine(s, p, p) \in Finite  BY <1>1, <1>9, <3>6, <3>7, ThirdPoint
    <3>9. Right(S)  BY <1>3, <2>1, <3>2, <3>3, <3>5, <3>8
    <3> QED BY <1>1, <1>5, <3>9
  <2> QED BY <2>5, <2>6, <2>7
<1> QED BY <1>1, <1>6, <1>7, <1>8, <1>9

-----------------------------------------------------------------------------
(* The invariant of the circuit, and the theorem. *)

(* The circuit's record keeps its fields; a sum, once synthesised, is the one *)
(* of its two operands, and nothing has panicked before. *)
CircuitInv ==
  /\ curve \in Curves
  /\ {"stage", "base", "other", "fate", "acc"} \subseteq DOMAIN synth
  /\ synth.stage = "idle" => synth.fate = "ok"
  /\ synth.stage = "sum" =>
       /\ synth.base \in AllPoints /\ synth.other \in AllPoints
       /\ synth.fate = IF DoublePanics(AllocPoint(synth.base)) THEN "panic" ELSE "ok"
       /\ synth.acc = AddPoints(AllocPoint(synth.base), AllocPoint(synth.other))

(* The steps of a multiplication, and the circuits it ends in, leave the stage of *)
(* a sum and of the start behind. *)
LEMMA MultiplesAreNoSums ==
  ASSUME CircuitInv, MultipleStep
  PROVE  DOMAIN synth' = DOMAIN synth /\ ~(synth'.stage \in {"idle", "sum"})
<1>1. {"stage", "base", "other", "fate", "acc"} \subseteq DOMAIN synth  BY DEF CircuitInv
<1>2. ASSUME NEW p, NEW s, StartsMul(p, s)
      PROVE  DOMAIN synth' = DOMAIN synth /\ ~(synth'.stage \in {"idle", "sum"})
  BY <1>1, <1>2 DEF StartsMul
<1>3. CASE MulsIncomplete  BY <1>1, <1>3 DEF MulsIncomplete
<1>4. CASE RemovesSlack  BY <1>1, <1>4 DEF RemovesSlack
<1>5. CASE MulsComplete  BY <1>1, <1>5 DEF MulsComplete
<1>6. ASSUME NEW h, NEW R0, SynthesizesIssuance(h, R0)
      PROVE  DOMAIN synth' = DOMAIN synth /\ ~(synth'.stage \in {"idle", "sum"})
  BY <1>1, <1>6 DEF SynthesizesIssuance
<1>7. ASSUME NEW R, NEW B, NEW r, SynthesizesShow(R, B, r)
      PROVE  DOMAIN synth' = DOMAIN synth /\ ~(synth'.stage \in {"idle", "sum"})
  BY <1>1, <1>7 DEF SynthesizesShow
<1> QED BY <1>2, <1>3, <1>4, <1>5, <1>6, <1>7 DEF MultipleStep

(* The curve is all of the state that a doubling and a sum read: a step that   *)
(* keeps it keeps their values at the same two points. *)
LEMMA SumsOnlyNeedTheCurve ==
  ASSUME NEW p, NEW q, curve' = curve
  PROVE  /\ DoublePanics(AllocPoint(p))' = DoublePanics(AllocPoint(p))
         /\ AddPoints(AllocPoint(p), AllocPoint(q))' = AddPoints(AllocPoint(p), AllocPoint(q))
<1>1. DoublePanics(AllocPoint(p))' = DoublePanics(AllocPoint(p))  BY DEF DoublePanics
<1>2. DoublePoint(AllocPoint(p))' = DoublePoint(AllocPoint(p))  BY DEF DoublePoint
<1>3. \A e : AddInternal(AllocPoint(p), AllocPoint(q), e)' = AddInternal(AllocPoint(p), AllocPoint(q), e)
  BY DEF AddInternal
<1>4. AddPoints(AllocPoint(p), AllocPoint(q))' = AddPoints(AllocPoint(p), AllocPoint(q))
  BY <1>2, <1>3 DEF AddPoints
<1> QED BY <1>1, <1>4

(* Every step keeps the invariant: only the synthesis of a sum enters its stage. *)
LEMMA CircuitStep == CircuitInv /\ [CircuitsNext]_circuitsVars => CircuitInv'
<1> SUFFICES ASSUME CircuitInv, [CircuitsNext]_circuitsVars PROVE CircuitInv'
  OBVIOUS
<1>1. CASE EmulatedStep \/ MsmStep \/ SpongeStep \/ UNCHANGED circuitsVars
  <2>1. curve' = curve /\ synth' = synth
    BY <1>1 DEF EmulatedStep, MsmStep, SpongeStep, circuitsVars
  <2>2. AllPoints' = AllPoints  BY <2>1 DEF AllPoints, Finite
  <2>3. PICK p, q : p = synth.base /\ q = synth.other  OBVIOUS
  <2>4. /\ DoublePanics(AllocPoint(p))' = DoublePanics(AllocPoint(p))
        /\ AddPoints(AllocPoint(p), AllocPoint(q))' = AddPoints(AllocPoint(p), AllocPoint(q))
    BY <2>1, SumsOnlyNeedTheCurve
  <2> QED BY <2>1, <2>2, <2>3, <2>4 DEF CircuitInv
<1>2. CASE SumStep
  <2>1. PICK p \in AllPoints, q \in AllPoints : SynthesizesSum(p, q)  BY <1>2 DEF SumStep
  <2>2. curve' = curve /\ synth.stage = "idle"  BY <1>2 DEF SumStep
  <2>3. {"stage", "base", "other", "fate", "acc"} \subseteq DOMAIN synth  BY DEF CircuitInv
  <2>4. /\ DOMAIN synth' = DOMAIN synth
        /\ synth'.stage = "sum" /\ synth'.base = p /\ synth'.other = q
        /\ synth'.fate = IF DoublePanics(AllocPoint(p)) THEN "panic" ELSE "ok"
        /\ synth'.acc = AddPoints(AllocPoint(p), AllocPoint(q))
    BY <2>1, <2>3 DEF SynthesizesSum
  <2>5. AllPoints' = AllPoints  BY <2>2 DEF AllPoints, Finite
  <2>6. /\ DoublePanics(AllocPoint(p))' = DoublePanics(AllocPoint(p))
        /\ AddPoints(AllocPoint(p), AllocPoint(q))' = AddPoints(AllocPoint(p), AllocPoint(q))
    BY <2>2, SumsOnlyNeedTheCurve
  <2> QED BY <2>2, <2>3, <2>4, <2>5, <2>6 DEF CircuitInv
<1>3. CASE MultipleStep
  <2>1. curve' = curve  BY <1>3 DEF MultipleStep
  <2>2. DOMAIN synth' = DOMAIN synth /\ ~(synth'.stage \in {"idle", "sum"})
    BY <1>3, MultiplesAreNoSums
  <2> QED BY <2>1, <2>2 DEF CircuitInv
<1> QED BY <1>1, <1>2, <1>3 DEF CircuitsNext

(* It holds at the start. *)
LEMMA CircuitInit == CircuitsInit => CircuitInv
<1> SUFFICES ASSUME CircuitsInit PROVE CircuitInv  OBVIOUS
<1>1. curve \in Curves /\ SynthInit  BY DEF CircuitsInit
<1> QED BY <1>1 DEF SynthInit, CircuitInv

(* The circuit's addition, of any two points of any curve the assumption allows,  *)
(* equal, opposite and infinite ones included, never panics, stays on the curve,  *)
(* and is the group's sum exactly when infinity does not meet a finite point with *)
(* x = 0. *)
THEOREM CircuitsAddTheGroup == CircuitsSpec => []SumsFollowTheGroup
<1>1. CircuitInv => SumsFollowTheGroup
  <2> SUFFICES ASSUME CircuitInv, synth.stage = "sum"
               PROVE  /\ synth.fate = "ok"
                      /\ Meaning(synth.acc) \in AllPoints
                      /\ Meaning(synth.acc) = ChordSum(synth.base, synth.other)
                           <=> ~TakenForOpposites(synth.base, synth.other)
    BY DEF SumsFollowTheGroup
  <2>1. /\ curve \in Curves /\ synth.base \in AllPoints /\ synth.other \in AllPoints
        /\ synth.fate = IF DoublePanics(AllocPoint(synth.base)) THEN "panic" ELSE "ok"
        /\ synth.acc = AddPoints(AllocPoint(synth.base), AllocPoint(synth.other))
    BY DEF CircuitInv
  <2>2. /\ ~DoublePanics(AllocPoint(synth.base))
        /\ Meaning(synth.acc) \in AllPoints
        /\ Meaning(synth.acc) = ChordSum(synth.base, synth.other)
             <=> ~TakenForOpposites(synth.base, synth.other)
    BY <2>1, AddsTheGroup
  <2> QED BY <2>1, <2>2
<1>2. CircuitsSpec => []CircuitInv
  BY CircuitInit, CircuitStep, PTL DEF CircuitsSpec
<1> QED BY <1>1, <1>2, PTL
=============================================================================
