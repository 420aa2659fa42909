--------------------------- MODULE IPABaseProofs ---------------------------
(***************************************************************************)
(* What IPABase computes, for every order and length: sums over vectors    *)
(* defined by the library's folds, arithmetic modulo the group's order, its *)
(* inverses, and multi-scalar multiplication.                              *)
(*                                                                         *)
(* Induction is stated on sets: a set of numbers that has 0 and each       *)
(* successor of an element has them all.  The predicate to be proved is    *)
(* the set of the numbers it holds of.                                     *)
(***************************************************************************)
EXTENDS IPABase, FiniteSetTheorems, SequenceTheorems, WellFoundedInduction, TLAPS

----------------------------------------------------------------------------
(* Induction, and functions defined by recursion over subsets. *)

Less == {ss \in Nat \X Nat : ss[1] < ss[2]}

(* The order of the naturals is well founded.                              *)
LEMMA LessWellFounded == IsWellFoundedOn(Less, Nat)
BY NatLessThanWellFounded DEF OpToRel, Less

(* Induction over the natural numbers, on a set. *)
LEMMA SmallestOf ==
  ASSUME NEW T, T \subseteq Nat, T # {}
  PROVE  \E x \in T : \A y \in T : x <= y
<1>1. PICK x \in T : \A y \in T : ~ (<<y, x>> \in Less)
  BY LessWellFounded, WFMin
<1>2. ASSUME NEW y \in T PROVE x <= y
  <2>1. <<y, x>> \in Nat \X Nat /\ <<y, x>>[1] = y /\ <<y, x>>[2] = x  OBVIOUS
  <2>2. ~ (y < x)  BY <1>1, <2>1 DEF Less
  <2> QED BY <2>2
<1> QED BY <1>2

(* Induction, over the set of the numbers that have a property.            *)
LEMMA Induction ==
  ASSUME NEW T, 0 \in T, \A k \in Nat : k \in T => k + 1 \in T
  PROVE  \A k \in Nat : k \in T
<1> DEFINE Out == {k \in Nat : k \notin T}
<1>1. SUFFICES ASSUME Out # {} PROVE FALSE  OBVIOUS
<1>2. PICK x \in Out : \A y \in Out : x <= y
  <2> HIDE DEF Out
  <2>1. Out \subseteq Nat  BY DEF Out
  <2> QED BY <1>1, <2>1, SmallestOf
<1>3. x \in Nat /\ x # 0 /\ x \notin T  OBVIOUS
<1>4. x - 1 \in Nat /\ x - 1 \notin Out  BY <1>2, <1>3
<1> QED BY <1>3, <1>4

(* Sets of at most k elements. *)
SmallSubsets(S, k) == {s \in SUBSET S : Cardinality(s) <= k}

(* What is left of a finite set without one of its elements.               *)
LEMMA RemoveOne ==
  ASSUME NEW S, IsFiniteSet(S), NEW s \in SUBSET S, NEW x \in s
  PROVE  /\ IsFiniteSet(s) /\ Cardinality(s) \in Nat \ {0}
         /\ IsFiniteSet(s \ {x}) /\ Cardinality(s \ {x}) = Cardinality(s) - 1
         /\ s \ {x} \in SUBSET S
<1>1. IsFiniteSet(s)  BY FS_Subset
<1>2. Cardinality(s) \in Nat BY <1>1, FS_CardinalityType
<1>3. Cardinality(s) # 0 BY <1>1, FS_EmptySet
<1>4. IsFiniteSet(s \ {x}) /\ Cardinality(s \ {x}) = Cardinality(s) - 1
  BY <1>1, FS_RemoveElement
<1> QED BY <1>1, <1>2, <1>3, <1>4

(* it folds step over the subsets of S in T. *)
Folds(it, T, base, ch, step) ==
  \A s \in T : it[s] = IF s = {} THEN base ELSE step[<<ch[s], it[s \ {ch[s]}]>>]

(* A fold over a finite set, choosing an element at a time, is a function. *)
LEMMA FoldExists ==
  ASSUME NEW S, IsFiniteSet(S), NEW X, NEW base \in X, NEW step \in [S \X X -> X],
         NEW ch, \A s \in SUBSET S : s # {} => ch[s] \in s
  PROVE  \E it \in [SUBSET S -> X] : Folds(it, SUBSET S, base, ch, step)
<1> DEFINE D(k) == SmallSubsets(S, k)
           T == {k \in Nat : \E it \in [D(k) -> X] : Folds(it, D(k), base, ch, step)}
<1>1. 0 \in T
  <2> DEFINE it == [s \in D(0) |-> base]
  <2>1. ASSUME NEW s \in D(0) PROVE s = {}
    <3>1. IsFiniteSet(s) BY FS_Subset DEF SmallSubsets
    <3>2. Cardinality(s) = 0 BY <3>1, FS_CardinalityType DEF SmallSubsets
    <3> QED BY <3>1, <3>2, FS_EmptySet
  <2>2. it \in [D(0) -> X] /\ Folds(it, D(0), base, ch, step)
    <3> HIDE DEF D
    <3> QED BY <2>1 DEF Folds
  <2> HIDE DEF it, D
  <2> QED BY <2>2
<1>2. ASSUME NEW k \in Nat, k \in T PROVE k + 1 \in T
  <2>1. PICK it \in [D(k) -> X] : Folds(it, D(k), base, ch, step)
    BY <1>2
  <2>2. ASSUME NEW s \in D(k + 1), s # {}
        PROVE  ch[s] \in s /\ ch[s] \in S /\ s \ {ch[s]} \in D(k)
    <3>1. ch[s] \in s /\ s \in SUBSET S /\ Cardinality(s) <= k + 1 BY <2>2 DEF SmallSubsets
    <3>2. \A y \in s : /\ IsFiniteSet(s) /\ Cardinality(s) \in Nat \ {0}
                      /\ IsFiniteSet(s \ {y}) /\ Cardinality(s \ {y}) = Cardinality(s) - 1
                      /\ s \ {y} \in SUBSET S
      BY <3>1, RemoveOne
    <3>3. Cardinality(s) \in Nat /\ Cardinality(s \ {ch[s]}) = Cardinality(s) - 1
      BY <3>1, <3>2, Zenon
    <3>4. s \ {ch[s]} \in SUBSET S /\ Cardinality(s \ {ch[s]}) <= k
      BY <3>1, <3>3
    <3> QED BY <3>1, <3>4 DEF SmallSubsets
  <2> DEFINE nx == [s \in D(k + 1) |->
                      IF s \in D(k) THEN it[s] ELSE step[<<ch[s], it[s \ {ch[s]}]>>]]
  <2>3. {} \in D(k)
    BY FS_EmptySet DEF SmallSubsets
  <2>5. D(k) \subseteq D(k + 1)
    <3>1. ASSUME NEW s \in D(k) PROVE s \in D(k + 1)
      <4>1. IsFiniteSet(s) BY FS_Subset DEF SmallSubsets
      <4> QED BY <4>1, FS_CardinalityType DEF SmallSubsets
    <3> QED BY <3>1
  <2> HIDE DEF D
  <2>4. nx \in [D(k + 1) -> X]
    BY <2>2, <2>3
  <2>6. ASSUME NEW s \in D(k + 1)
        PROVE  nx[s] = IF s = {} THEN base ELSE step[<<ch[s], nx[s \ {ch[s]}]>>]
    <3>1. CASE s = {}
      BY <3>1, <2>1, <2>3 DEF Folds
    <3>2. CASE s # {}
      <4>1. s \ {ch[s]} \in D(k) BY <2>2, <3>2
      <4>2. nx[s \ {ch[s]}] = it[s \ {ch[s]}] BY <4>1, <2>5
      <4>3. s \in D(k) => it[s] = step[<<ch[s], it[s \ {ch[s]}]>>] BY <2>1, <3>2 DEF Folds
      <4> QED BY <3>2, <4>2, <4>3
    <3> QED BY <3>1, <3>2
  <2> HIDE DEF nx
  <2>7. Folds(nx, D(k + 1), base, ch, step)  BY <2>6 DEF Folds
  <2> QED BY <2>4, <2>7
<1> HIDE DEF T
<1>3. \A k \in Nat : k \in T BY <1>1, <1>2, Induction
<1>4. Cardinality(S) \in Nat BY FS_CardinalityType
<1>5. D(Cardinality(S)) = SUBSET S
  BY FS_Subset DEF SmallSubsets
<1> HIDE DEF D
<1>6. \E it \in [D(Cardinality(S)) -> X] : Folds(it, D(Cardinality(S)), base, ch, step)
  BY <1>3, <1>4 DEF T
<1> QED BY <1>5, <1>6

----------------------------------------------------------------------------
(* Sums over finite sets. *)

SumOver(f, S) == MapThenSumSet(LAMBDA x : f[x], S)

AnyOf(s) == CHOOSE x \in s : TRUE

Sums(it, f, S) ==
  it = [s \in SUBSET S |-> IF s = {} THEN 0 ELSE f[AnyOf(s)] + it[s \ {AnyOf(s)}]]

(* The running sums of integers over a finite set exist.                   *)
LEMMA SumExists ==
  ASSUME NEW S, IsFiniteSet(S), NEW f, \A x \in S : f[x] \in Int
  PROVE  \E it \in [SUBSET S -> Int] : Sums(it, f, S)
<1> DEFINE step == [p \in S \X Int |-> f[p[1]] + p[2]]
           ch == [s \in SUBSET S |-> AnyOf(s)]
<1>1. step \in [S \X Int -> Int]  OBVIOUS
<1>2. \A s \in SUBSET S : s # {} => ch[s] \in s  BY DEF AnyOf
<1>3. \A x \in S, v \in Int : step[<<x, v>>] = f[x] + v  OBVIOUS
<1>0. \A s \in SUBSET S : ch[s] = AnyOf(s) OBVIOUS
<1> HIDE DEF step, ch
<1>4. PICK it \in [SUBSET S -> Int] : Folds(it, SUBSET S, 0, ch, step)
  <2>1. 0 \in Int  OBVIOUS
  <2> QED BY <1>1, <1>2, <2>1, FoldExists
<1>5. ASSUME NEW s \in SUBSET S, s # {}
      PROVE  it[s] = f[AnyOf(s)] + it[s \ {AnyOf(s)}]
  <2>1. ch[s] \in S /\ ch[s] = AnyOf(s) BY <1>2, <1>0, <1>5
  <2>2. it[s \ {ch[s]}] \in Int  OBVIOUS
  <2>3. it[s] = step[<<ch[s], it[s \ {ch[s]}]>>]  BY <1>4, <1>5 DEF Folds
  <2> QED BY <1>3, <2>1, <2>2, <2>3
<1>6. it[{}] = 0  BY <1>4 DEF Folds
<1>7. it = [s \in SUBSET S |-> IF s = {} THEN 0 ELSE f[AnyOf(s)] + it[s \ {AnyOf(s)}]]
  BY <1>5, <1>6
<1> QED BY <1>7 DEF Sums

(* Running sums agree wherever both are defined.                           *)
LEMMA SumsUnique ==
  ASSUME NEW S, IsFiniteSet(S), NEW it, NEW jt, NEW f, NEW S1, NEW S2,
         Sums(it, f, S1), Sums(jt, f, S2), S \subseteq S1, S \subseteq S2
  PROVE  it[S] = jt[S]
<1> DEFINE T == {k \in Nat : \A s \in SUBSET S : Cardinality(s) = k => it[s] = jt[s]}
<1>1. 0 \in T
  <2>1. ASSUME NEW s \in SUBSET S, Cardinality(s) = 0 PROVE it[s] = jt[s]
    <3>1. s = {} BY <2>1, FS_EmptySet, FS_Subset
    <3> QED BY <3>1 DEF Sums
  <2> QED BY <2>1
<1>2. ASSUME NEW k \in Nat, k \in T PROVE k + 1 \in T
  <2>1. ASSUME NEW s \in SUBSET S, Cardinality(s) = k + 1 PROVE it[s] = jt[s]
    <3> DEFINE x == AnyOf(s)
    <3>1. s # {} BY <2>1, FS_EmptySet
    <3>2. x \in s BY <3>1 DEF AnyOf
    <3>3. Cardinality(s \ {x}) = Cardinality(s) - 1 /\ s \ {x} \in SUBSET S
      <4> HIDE DEF x
      <4>1. \A y \in s : /\ IsFiniteSet(s) /\ Cardinality(s) \in Nat \ {0}
                         /\ IsFiniteSet(s \ {y}) /\ Cardinality(s \ {y}) = Cardinality(s) - 1
                         /\ s \ {y} \in SUBSET S
        BY RemoveOne
      <4> QED BY <3>2, <4>1, Zenon
    <3>4. it[s \ {x}] = jt[s \ {x}] 
      <4>1. Cardinality(s \ {x}) = k BY <2>1, <3>3
      <4> QED BY <1>2, <3>3, <4>1
    <3>5. it[s] = f[x] + it[s \ {x}] /\ jt[s] = f[x] + jt[s \ {x}]
      BY <3>1 DEF Sums
    <3> QED BY <3>4, <3>5
  <2> QED BY <2>1
<1> HIDE DEF T
<1>3. \A k \in Nat : k \in T BY <1>1, <1>2, Induction
<1> QED BY <1>3, FS_CardinalityType DEF T

(* MapThenSumSet is the last of the running sums.                          *)
LEMMA SumsIsSum ==
  ASSUME NEW S, IsFiniteSet(S), NEW f, \A x \in S : f[x] \in Int
  PROVE  \E it \in [SUBSET S -> Int] : Sums(it, f, S) /\ it[S] = SumOver(f, S)
<1> DEFINE iter == CHOOSE it : Sums(it, f, S)
<1>1. PICK it \in [SUBSET S -> Int] : Sums(it, f, S)  BY SumExists
<1>2. Sums(iter, f, S) BY <1>1
<1>3. SumOver(f, S) = iter[S]
  BY DEF SumOver, MapThenSumSet, MapThenFoldSet, Sums, AnyOf
<1> HIDE DEF iter
<1>4. iter[S] = it[S] BY <1>1, <1>2, SumsUnique
<1> QED BY <1>1, <1>3, <1>4

(* The two facts that determine sums over finite sets. *)
LEMMA SumEmpty ==
  ASSUME NEW f
  PROVE  SumOver(f, {}) = 0
<1>1. IsFiniteSet({}) BY FS_EmptySet
<1>2. PICK it \in [SUBSET {} -> Int] : Sums(it, f, {}) /\ it[{}] = SumOver(f, {})
  BY <1>1, SumsIsSum
<1> QED BY <1>2 DEF Sums

(* A sum is the element it takes first plus the rest.                      *)
LEMMA SumChosen ==
  ASSUME NEW S, IsFiniteSet(S), NEW f, \A x \in S : f[x] \in Int, S # {}
  PROVE  /\ AnyOf(S) \in S 
         /\ SumOver(f, S) = f[AnyOf(S)] + SumOver(f, S \ {AnyOf(S)})
         /\ SumOver(f, S) \in Int
<1> DEFINE x == AnyOf(S)
<1>1. x \in S  BY DEF AnyOf
<1>2. IsFiniteSet(S \ {x}) BY FS_Subset
<1>3. PICK it \in [SUBSET S -> Int] : Sums(it, f, S) /\ it[S] = SumOver(f, S)
  BY SumsIsSum
<1>4. it[S] = f[x] + it[S \ {x}]  BY <1>3 DEF Sums
<1> HIDE DEF x
<1>5. PICK jt \in [SUBSET (S \ {x}) -> Int] : Sums(jt, f, S \ {x}) /\ jt[S \ {x}] = SumOver(f, S \ {x})
  BY <1>2, SumsIsSum
<1>6. it[S \ {x}] = jt[S \ {x}] BY <1>2, <1>3, <1>5, SumsUnique
<1> QED BY <1>1, <1>3, <1>4, <1>5, <1>6 DEF x

(* Adding an element adds its value. *)
LEMMA SumAdd ==
  ASSUME NEW S, IsFiniteSet(S), NEW f, NEW x, x \notin S, \A y \in S \cup {x} : f[y] \in Int
  PROVE  /\ SumOver(f, S) \in Int
         /\ SumOver(f, S \cup {x}) = SumOver(f, S) + f[x]
<1> DEFINE T == {k \in Nat : \A s : \A z : IsFiniteSet(s) /\ Cardinality(s) = k /\ z \notin s /\ (\A y \in s \cup {z} : f[y] \in Int) =>
                     SumOver(f, s) \in Int /\ SumOver(f, s \cup {z}) = SumOver(f, s) + f[z]}
<1>1. 0 \in T
  <2>1. ASSUME NEW s, NEW z, IsFiniteSet(s), Cardinality(s) = 0, z \notin s, \A y \in s \cup {z} : f[y] \in Int
        PROVE SumOver(f, s) \in Int /\ SumOver(f, s \cup {z}) = SumOver(f, s) + f[z]
    <3>1. s = {} BY <2>1, FS_EmptySet
    <3>2. IsFiniteSet({z}) /\ {z} # {} /\ \A y \in {z} : f[y] \in Int BY <2>1, FS_Singleton
    <3>3. AnyOf({z}) \in {z} /\ SumOver(f, {z}) = f[AnyOf({z})] + SumOver(f, {z} \ {AnyOf({z})})
      BY <3>2, SumChosen
    <3>4. AnyOf({z}) = z BY <3>3
    <3>5. {z} \ {z} = {} /\ s \cup {z} = {z} BY <3>1
    <3>6. SumOver(f, {z}) = f[z] + 0 BY <3>3, <3>4, <3>5, SumEmpty
    <3> QED BY <2>1, <3>1, <3>5, <3>6, SumEmpty
  <2> QED BY <2>1
<1>2. ASSUME NEW k \in Nat, k \in T PROVE k + 1 \in T
  <2>1. ASSUME NEW s, NEW z, IsFiniteSet(s), Cardinality(s) = k + 1, z \notin s, \A y \in s \cup {z} : f[y] \in Int
        PROVE SumOver(f, s) \in Int /\ SumOver(f, s \cup {z}) = SumOver(f, s) + f[z]
    <3> DEFINE u == s \cup {z}
               w == AnyOf(u)
    <3>1. IsFiniteSet(u) BY <2>1, FS_AddElement
    <3>2. s # {} BY <2>1, FS_EmptySet
    <3>3. w \in u /\ SumOver(f, u) = f[w] + SumOver(f, u \ {w})
      <4>1. u # {} /\ \A y \in u : f[y] \in Int BY <2>1
      <4> HIDE DEF u
      <4> QED BY <3>1, <4>1, SumChosen
    <3>4. SumOver(f, s) \in Int BY <2>1, <3>2, SumChosen
    <3> HIDE DEF w
    <3>5. CASE w = z
      <4>1. u \ {w} = s BY <2>1, <3>5
      <4>2. SumOver(f, u) = f[z] + SumOver(f, s)  BY <3>3, <3>5, <4>1, Zenon
      <4>3. f[z] \in Int  BY <2>1
      <4> HIDE DEF u
      <4>4. SumOver(f, u) = SumOver(f, s) + f[z]  BY <3>4, <4>2, <4>3
      <4> QED BY <3>4, <4>4, Zenon DEF u
    <3>6. CASE w # z
      <4>1. w \in s BY <3>3, <3>6
      <4> DEFINE r == s \ {w}
      <4>2. IsFiniteSet(r) /\ Cardinality(r) = k
        <5>1. IsFiniteSet(s \ {w}) /\ Cardinality(s \ {w}) = Cardinality(s) - 1
          BY <2>1, <4>1, FS_RemoveElement
        <5> QED BY <5>1, <2>1
      <4>3. u \ {w} = r \cup {z} /\ s = r \cup {w} /\ z \notin r /\ w \notin r
        BY <2>1, <3>6, <4>1
      <4>4. (\A y \in r \cup {z} : f[y] \in Int) /\ (\A y \in r \cup {w} : f[y] \in Int)
        BY <2>1, <4>1
      <4> HIDE DEF r
      <4>5. SumOver(f, r) \in Int /\ SumOver(f, r \cup {z}) = SumOver(f, r) + f[z]
        BY <1>2, <4>2, <4>3, <4>4
      <4>6. SumOver(f, r \cup {w}) = SumOver(f, r) + f[w]
        BY <1>2, <4>2, <4>3, <4>4
      <4>7. SumOver(f, u) = f[w] + (SumOver(f, r) + f[z])  BY <3>3, <4>3, <4>5, Zenon
      <4>8. SumOver(f, s) = SumOver(f, r) + f[w]  BY <4>3, <4>6, Zenon
      <4>9. f[z] \in Int /\ f[w] \in Int  BY <2>1, <4>1
      <4> HIDE DEF u
      <4>10. SumOver(f, u) = SumOver(f, s) + f[z]  BY <4>5, <4>7, <4>8, <4>9
      <4> QED BY <3>4, <4>10, Zenon DEF u
    <3> QED BY <3>5, <3>6
  <2> QED BY <2>1
<1> HIDE DEF T
<1>3. \A k \in Nat : k \in T BY <1>1, <1>2, Induction
<1>4. Cardinality(S) \in Nat BY FS_CardinalityType
<1> QED BY <1>3, <1>4 DEF T

(* A function defined as sums are is the sum. *)
LEMMA SumByRecursion ==
  ASSUME NEW S, IsFiniteSet(S), NEW f, \A x \in S : f[x] \in Int, NEW it, Sums(it, f, S)
  PROVE  it[S] = SumOver(f, S)
<1>1. PICK jt \in [SUBSET S -> Int] : Sums(jt, f, S) /\ jt[S] = SumOver(f, S)
  BY SumsIsSum
<1> QED BY <1>1, SumsUnique

----------------------------------------------------------------------------
(* Sums over 1 .. k. *)

SumTo(f, k) == SumOver(f, 1 .. k)

(* The indices of a vector are finitely many.                              *)
LEMMA IntervalFinite == \A k \in Nat : IsFiniteSet(1 .. k)
BY FS_Interval

(* No terms sum to zero.                                                   *)
LEMMA SumToZero == ASSUME NEW f PROVE SumTo(f, 0) = 0
<1>1. 1 .. 0 = {}  OBVIOUS
<1> QED BY <1>1, SumEmpty DEF SumTo

(* One more term adds itself.                                              *)
LEMMA SumToNext ==
  ASSUME NEW k \in Nat, NEW f, \A i \in 1 .. k + 1 : f[i] \in Int
  PROVE  /\ SumTo(f, k) \in Int
         /\ SumTo(f, k + 1) = SumTo(f, k) + f[k + 1]
<1> DEFINE S == 1 .. k
           x == k + 1
<1>1. 1 .. k + 1 = S \cup {x} /\ x \notin S  OBVIOUS
<1>2. IsFiniteSet(S)  BY IntervalFinite
<1>3. \A i \in S \cup {x} : f[i] \in Int  BY <1>1
<1> HIDE DEF S, x
<1>4. SumOver(f, S) \in Int /\ SumOver(f, S \cup {x}) = SumOver(f, S) + f[x]
  BY <1>1, <1>2, <1>3, SumAdd
<1> QED  BY <1>1, <1>4 DEF SumTo, S, x

(* Integers sum to an integer.                                             *)
LEMMA SumToInt ==
  ASSUME NEW k \in Nat, NEW f, \A i \in 1 .. k : f[i] \in Int
  PROVE  SumTo(f, k) \in Int
<1>1. CASE k = 0  BY <1>1, SumToZero
<1>2. CASE k # 0
  <2>1. k - 1 \in Nat /\ (k - 1) + 1 = k BY <1>2
  <2>2. /\ SumTo(f, k - 1) \in Int /\ SumTo(f, (k - 1) + 1) = SumTo(f, k - 1) + f[(k - 1) + 1]
    BY <2>1, SumToNext
  <2> QED BY <2>1, <2>2
<1> QED BY <1>1, <1>2

(* Equal terms have equal sums.                                            *)
LEMMA SumToSame ==
  ASSUME NEW k \in Nat, NEW f, NEW g, \A i \in 1 .. k : f[i] \in Int /\ f[i] = g[i]
  PROVE  SumTo(f, k) = SumTo(g, k)
<1> DEFINE T == {m \in Nat : m <= k => SumTo(f, m) = SumTo(g, m)}
<1>1. 0 \in T  BY SumToZero
<1>2. ASSUME NEW m \in Nat, m \in T PROVE m + 1 \in T
  <2>1. CASE m + 1 <= k
    <3>1. (\A i \in 1 .. m + 1 : f[i] \in Int) /\ (\A i \in 1 .. m + 1 : g[i] \in Int)
      BY <2>1
    <3>2. SumTo(f, m + 1) = SumTo(f, m) + f[m + 1] /\ SumTo(g, m + 1) = SumTo(g, m) + g[m + 1]
      BY <3>1, SumToNext
    <3>3. f[m + 1] = g[m + 1] /\ SumTo(f, m) = SumTo(g, m)  BY <1>2, <2>1
    <3> QED BY <3>2, <3>3
  <2> QED BY <2>1
<1> HIDE DEF T
<1>3. k \in T BY <1>1, <1>2, Induction
<1> QED BY <1>3 DEF T

(* A sum is that of its first terms plus that of the rest.                 *)
LEMMA SumToSplit ==
  ASSUME NEW k \in Nat, NEW l \in Nat, NEW f, \A i \in 1 .. k + l : f[i] \in Int
  PROVE  SumTo(f, k + l) = SumTo(f, k) + SumTo([i \in 1 .. l |-> f[k + i]], l)
<1> DEFINE g == [i \in 1 .. l |-> f[k + i]]
           T == {m \in Nat : m <= l => SumTo(f, k + m) = SumTo(f, k) + SumTo(g, m)}
<1>0. \A i \in 1 .. l : g[i] = f[k + i] /\ g[i] \in Int OBVIOUS
<1> HIDE DEF g
<1>a. SumTo(f, k) \in Int BY SumToInt
<1>1. 0 \in T  
  <2>1. SumTo(f, k + 0) = SumTo(f, k) OBVIOUS
  <2> QED BY <2>1, <1>a, SumToZero
<1>2. ASSUME NEW m \in Nat, m \in T PROVE m + 1 \in T
  <2>1. CASE m + 1 <= l
    <3>0. k + m \in Nat /\ (k + m) + 1 = k + (m + 1) OBVIOUS
    <3>1. (\A i \in 1 .. (k + m) + 1 : f[i] \in Int) /\ (\A i \in 1 .. m + 1 : g[i] \in Int)
      BY <1>0, <2>1
    <3>2. SumTo(f, (k + m) + 1) = SumTo(f, k + m) + f[(k + m) + 1]
      BY <3>0, <3>1, SumToNext
    <3>4. SumTo(g, m + 1) = SumTo(g, m) + g[m + 1] /\ SumTo(g, m) \in Int
      BY <3>1, SumToNext
    <3>3. f[k + (m + 1)] = g[m + 1] /\ g[m + 1] \in Int /\ SumTo(f, k + m) = SumTo(f, k) + SumTo(g, m)  BY <1>0, <1>2, <2>1
    <3> QED BY <1>a, <3>0, <3>2, <3>3, <3>4
  <2> QED BY <2>1
<1> HIDE DEF T
<1>3. l \in T BY <1>1, <1>2, Induction
<1> QED BY <1>3 DEF T, g

----------------------------------------------------------------------------
(* Arithmetic modulo q. *)

Cong(x, y) == \E c \in Int : x = y + c * q

(* Quotient and remainder.                                                 *)
LEMMA DivMod ==
  ASSUME NEW x \in Int, NEW m \in Nat \ {0}
  PROVE  /\ x \div m \in Int /\ x % m \in 0 .. m - 1
         /\ x = m * (x \div m) + (x % m)
OBVIOUS

(* Reduction by q leaves the class and ends in the field.                  *)
LEMMA ModCong ==
  ASSUME NEW x \in Int
  PROVE  x % q \in Fq /\ Cong(x % q, x)
<1>1. x \div q \in Int /\ x % q \in 0 .. q - 1 /\ x = q * (x \div q) + (x % q)
  BY PrimeAssumption, DivMod
<1> DEFINE c == x \div q
           r == x % q
<1> HIDE DEF c, r
<1>2. r = x + (-c) * q /\ -c \in Int
  <2>1. c \in Int /\ r \in Int /\ x = q * c + r /\ q \in Int BY <1>1, PrimeAssumption DEF c, r
  <2> QED BY <2>1
<1> QED BY <1>1, <1>2 DEF Cong, Fq, r

(* Congruence is reflexive.                                                *)
LEMMA CongRefl == ASSUME NEW x \in Int PROVE Cong(x, x)
<1>1. x = x + 0 * q  BY PrimeAssumption
<1> QED BY <1>1 DEF Cong

(* Congruence is symmetric.                                                *)
LEMMA CongSym == ASSUME NEW x \in Int, NEW y \in Int, Cong(x, y) PROVE Cong(y, x)
<1>1. PICK c \in Int : x = y + c * q  BY DEF Cong
<1>2. y = x + (-c) * q /\ -c \in Int BY <1>1, PrimeAssumption
<1> QED BY <1>2 DEF Cong

(* Congruence is transitive.                                               *)
LEMMA CongTrans ==
  ASSUME NEW x \in Int, NEW y \in Int, NEW z \in Int, Cong(x, y), Cong(y, z)
  PROVE  Cong(x, z)
<1>1. PICK c \in Int : x = y + c * q  BY DEF Cong
<1>2. PICK d \in Int : y = z + d * q  BY DEF Cong
<1>3. x = z + (c + d) * q /\ c + d \in Int BY <1>1, <1>2, PrimeAssumption
<1> QED BY <1>3 DEF Cong

(* Congruent terms have congruent sums.                                    *)
LEMMA CongAdd ==
  ASSUME NEW x \in Int, NEW y \in Int, NEW v \in Int, NEW w \in Int, Cong(x, y), Cong(v, w)
  PROVE  Cong(x + v, y + w)
<1>1. PICK c \in Int : x = y + c * q  BY DEF Cong
<1>2. PICK d \in Int : v = w + d * q  BY DEF Cong
<1>3. x + v = (y + w) + (c + d) * q /\ c + d \in Int BY <1>1, <1>2, PrimeAssumption
<1> QED BY <1>3 DEF Cong

(* Congruent factors have congruent products.                              *)
LEMMA CongMul ==
  ASSUME NEW x \in Int, NEW y \in Int, NEW v \in Int, NEW w \in Int, Cong(x, y), Cong(v, w)
  PROVE  Cong(x * v, y * w)
<1>1. PICK c \in Int : x = y + c * q  BY DEF Cong
<1>2. PICK d \in Int : v = w + d * q  BY DEF Cong
<1> DEFINE e == y * d + c * w + c * d * q
<1>3. x * v = y * w + e * q /\ e \in Int
  BY <1>1, <1>2, PrimeAssumption
<1> QED BY <1>3 DEF Cong

(* Congruent scalars are equal.                                            *)
LEMMA CongEqual ==
  ASSUME NEW x \in Fq, NEW y \in Fq, Cong(x, y)
  PROVE  x = y
<1>1. PICK c \in Int : x = y + c * q  BY DEF Cong
<1>2. x \in Int /\ y \in Int /\ 0 <= x /\ x < q /\ 0 <= y /\ y < q /\ q \in Int /\ q > 0
  BY PrimeAssumption DEF Fq
<1>3. CASE c >= 1
  <2>1. c * q >= q BY <1>2, <1>3
  <2> QED BY <1>1, <1>2, <2>1
<1>4. CASE c <= -1
  <2>1. c * q <= -q BY <1>2, <1>4
  <2> QED BY <1>1, <1>2, <2>1
<1>5. CASE c = 0  BY <1>1, <1>2, <1>5
<1> QED BY <1>3, <1>4, <1>5

(* Congruent integers reduce to one scalar.                                *)
LEMMA CongMod ==
  ASSUME NEW x \in Int, NEW y \in Int, Cong(x, y)
  PROVE  x % q = y % q
<1>1. x % q \in Fq /\ y % q \in Fq /\ Cong(x % q, x) /\ Cong(y % q, y)
  BY ModCong
<1>2. x % q \in Int /\ y % q \in Int BY <1>1 DEF Fq
<1>3. Cong(x % q, y) /\ Cong(y, y % q) BY <1>1, <1>2, CongTrans, CongSym
<1>4. Cong(x % q, y % q) BY <1>2, <1>3, CongTrans
<1> QED BY <1>1, <1>4, CongEqual

(* A scalar is reduced already.                                            *)
LEMMA ModOf ==
  ASSUME NEW x \in Fq
  PROVE  x % q = x
<1>1. x \in Int /\ q \in Int BY PrimeAssumption DEF Fq
<1>2. x % q \in Fq /\ Cong(x % q, x) BY <1>1, ModCong
<1> QED BY <1>2, CongEqual

(* A scalar that is not zero has an inverse, q being a prime: the least    *)
(* positive remainder of its multiples divides q.                          *)
LEMMA InverseExists ==
  ASSUME NEW x \in Fq, x # 0
  PROVE  \E y \in Fq : (x * y) % q = 1
<1> DEFINE T == {m \in 1 .. q - 1 : \E y \in Int : Cong(x * y, m)}
<1>0. q \in Nat /\ q > 1 /\ x \in Int /\ x \in 1 .. q - 1  BY PrimeAssumption DEF Fq
<1>1. x \in T
  <2>1. x * 1 = x  BY <1>0
  <2>2. Cong(x * 1, x)  BY <1>0, <2>1, CongRefl
  <2>3. \E y \in Int : Cong(x * y, x)  BY <2>2
  <2> QED BY <1>0, <2>3
<1>2. T \subseteq Nat  OBVIOUS
<1>3. PICK m \in T : \A k \in T : m <= k
  <2> HIDE DEF T
  <2> QED BY <1>1, <1>2, SmallestOf
<1>4. PICK y \in Int : Cong(x * y, m)  OBVIOUS
<1>5. m \in 1 .. q - 1 OBVIOUS
<1> DEFINE k == q \div m
           r == q % m
<1>6. k \in Int /\ r \in 0 .. m - 1 /\ q = m * k + r
  <2>1. q \in Int /\ m \in Nat \ {0}  BY <1>0, <1>5
  <2> QED BY <2>1, DivMod
<1> HIDE DEF k, r
<1>7. Cong(x * (y * (-k)), r)
  <2>1. -k \in Int /\ x * y \in Int /\ m \in Int /\ r \in Int BY <1>0, <1>5, <1>6
  <2>2. Cong(-k, -k)  BY <2>1, CongRefl
  <2>3. Cong((x * y) * (-k), m * (-k))  BY <1>4, <2>1, <2>2, CongMul
  <2>4. m * (-k) = r + (-1) * q /\ (-1) \in Int /\ m * (-k) \in Int BY <1>0, <1>5, <1>6
  <2>5. Cong(m * (-k), r)  BY <2>4 DEF Cong
  <2>6. (x * y) * (-k) \in Int BY <2>1
  <2>7. Cong((x * y) * (-k), r)  BY <2>1, <2>3, <2>4, <2>5, <2>6, CongTrans
  <2>8. (x * y) * (-k) = x * (y * (-k))  BY <1>0, <2>1
  <2> QED BY <2>7, <2>8
<1>8. r = 0
  <2>1. SUFFICES ASSUME r # 0 PROVE FALSE  OBVIOUS
  <2>2. r \in 1 .. q - 1 /\ r < m BY <1>5, <1>6, <2>1
  <2>3. y * (-k) \in Int BY <1>6
  <2>4. r \in T BY <1>7, <2>2, <2>3
  <2> QED BY <1>3, <1>5, <2>2, <2>4
<1>9. m = 1
  <2>1. SUFFICES ASSUME m # 1 PROVE FALSE OBVIOUS
  <2>2. m \in 2 .. q - 1 BY <1>5, <2>1
  <2> QED BY <1>8, <2>2, PrimeAssumption DEF r
<1> DEFINE z == y % q
<1>10. z \in Fq /\ Cong(z, y)  BY ModCong
<1> HIDE DEF z
<1>11. z \in Int /\ x * z \in Int /\ x * y \in Int BY <1>0, <1>10 DEF Fq
<1>12. Cong(x * z, 1)
  <2>1. Cong(x, x) BY <1>0, CongRefl
  <2>2. Cong(x * z, x * y) BY <1>0, <1>10, <1>11, <2>1, CongMul
  <2>3. Cong(x * y, 1) BY <1>4, <1>9
  <2> QED BY <1>11, <2>2, <2>3, CongTrans
<1>13. 1 \in Fq  BY <1>0 DEF Fq
<1>14. (x * z) % q = 1 % q  BY <1>11, <1>12, CongMod
<1>15. 1 % q = 1  BY <1>13, ModOf
<1> QED BY <1>10, <1>14, <1>15

(* Inv is that inverse.                                                    *)
LEMMA InvLaw ==
  ASSUME NEW x \in Fq, x # 0
  PROVE  /\ Inv(x) \in Fq /\ Inv(x) \in Int /\ x \in Int
         /\ Cong(x * Inv(x), 1)
<1>1. Inv(x) \in Fq /\ (x * Inv(x)) % q = 1  BY InverseExists DEF Inv
<1>2. x \in Int /\ Inv(x) \in Int  BY <1>1 DEF Fq
<1>3. x * Inv(x) \in Int  BY <1>2
<1>4. Cong((x * Inv(x)) % q, x * Inv(x)) BY <1>3, ModCong
<1> QED BY <1>1, <1>2, <1>3, <1>4, CongSym

----------------------------------------------------------------------------
(* Sums of products modulo q. *)

Ints(x, k) == \A i \in 1 .. k : x[i] \in Int

(* A sum of combinations is the combination of the sums.                   *)
LEMMA SumLinear ==
  ASSUME NEW k \in Nat, NEW h, NEW f, NEW g, Ints(h, k), Ints(f, k), Ints(g, k),
         NEW c \in Int, NEW d \in Int,
         \A i \in 1 .. k : Cong(h[i], c * f[i] + d * g[i])
  PROVE  /\ SumTo(h, k) \in Int /\ SumTo(f, k) \in Int /\ SumTo(g, k) \in Int
         /\ Cong(SumTo(h, k), c * SumTo(f, k) + d * SumTo(g, k))
<1> DEFINE T == {m \in Nat : m <= k => Cong(SumTo(h, m), c * SumTo(f, m) + d * SumTo(g, m))}
<1>1. 0 \in T
  <2>1. c * 0 + d * 0 = 0  OBVIOUS
  <2>2. Cong(0, c * 0 + d * 0)  BY <2>1, CongRefl
  <2> QED BY <2>2, SumToZero
<1>2. ASSUME NEW m \in Nat, m \in T PROVE m + 1 \in T
  <2>1. CASE m + 1 <= k
    <3> DEFINE H == SumTo(h, m)
               F == SumTo(f, m)
               E == SumTo(g, m)
               hi == h[m + 1]
               fi == f[m + 1]
               gi == g[m + 1]
    <3>1. /\ \A i \in 1 .. m + 1 : h[i] \in Int
          /\ \A i \in 1 .. m + 1 : f[i] \in Int
          /\ \A i \in 1 .. m + 1 : g[i] \in Int
      BY <2>1 DEF Ints
    <3>2. /\ H \in Int /\ SumTo(h, m + 1) = H + hi
          /\ F \in Int /\ SumTo(f, m + 1) = F + fi
          /\ E \in Int /\ SumTo(g, m + 1) = E + gi
      BY <3>1, SumToNext
    <3>3. /\ hi \in Int /\ fi \in Int /\ gi \in Int /\ Cong(hi, c * fi + d * gi)
          /\ Cong(H, c * F + d * E)
      BY <1>2, <2>1, <3>1
    <3> HIDE DEF H, F, E, hi, fi, gi
    <3>4. c * F + d * E \in Int /\ c * fi + d * gi \in Int  BY <3>2, <3>3
    <3>5. Cong(H + hi, (c * F + d * E) + (c * fi + d * gi))
      BY <3>2, <3>3, <3>4, CongAdd
    <3>6. (c * F + d * E) + (c * fi + d * gi) = c * (F + fi) + d * (E + gi)
      BY <3>2, <3>3
    <3>7. Cong(SumTo(h, m + 1), c * SumTo(f, m + 1) + d * SumTo(g, m + 1))
      BY <3>2, <3>5, <3>6
    <3> QED BY <3>7
  <2> QED BY <2>1
<1> HIDE DEF T
<1>3. k \in T BY <1>1, <1>2, Induction
<1>4. Cong(SumTo(h, k), c * SumTo(f, k) + d * SumTo(g, k))  BY <1>3 DEF T
<1> QED BY <1>4, SumToInt DEF Ints

Dot(x, y, k) == SumTo([i \in 1 .. k |-> x[i] * y[i]], k)

(* The product of integer vectors is an integer.                           *)
LEMMA DotInt ==
  ASSUME NEW k \in Nat, NEW x, NEW y, Ints(x, k), Ints(y, k)
  PROVE  Dot(x, y, k) \in Int
<1>1. \A i \in 1 .. k : [j \in 1 .. k |-> x[j] * y[j]][i] \in Int  BY DEF Ints
<1> QED BY <1>1, SumToInt DEF Dot

(* The product is that of the entries.                                     *)
LEMMA DotSame ==
  ASSUME NEW k \in Nat, NEW x, NEW y, NEW v, NEW w, Ints(x, k), Ints(y, k),
         \A i \in 1 .. k : x[i] = v[i] /\ y[i] = w[i]
  PROVE  Dot(x, y, k) = Dot(v, w, k)
<1>1. [i \in 1 .. k |-> x[i] * y[i]] = [i \in 1 .. k |-> v[i] * w[i]]  OBVIOUS
<1> QED BY <1>1 DEF Dot

(* Scaling either side scales the product. *)
LEMMA DotLinear ==
  ASSUME NEW k \in Nat, NEW x, NEW v, NEW w, NEW y, Ints(x, k), Ints(v, k), Ints(w, k), Ints(y, k),
         NEW c \in Int, NEW d \in Int,
         \A i \in 1 .. k : Cong(x[i], c * v[i] + d * w[i])
  PROVE  Cong(Dot(x, y, k), c * Dot(v, y, k) + d * Dot(w, y, k))
<1> DEFINE h == [i \in 1 .. k |-> x[i] * y[i]]
           f == [i \in 1 .. k |-> v[i] * y[i]]
           g == [i \in 1 .. k |-> w[i] * y[i]]
<1>1. Ints(h, k) /\ Ints(f, k) /\ Ints(g, k)  BY DEF Ints
<1>2. ASSUME NEW i \in 1 .. k PROVE Cong(h[i], c * f[i] + d * g[i])
  <2>1. x[i] \in Int /\ v[i] \in Int /\ w[i] \in Int /\ y[i] \in Int  BY DEF Ints
  <2>2. c * v[i] + d * w[i] \in Int BY <2>1
  <2>3. Cong(y[i], y[i]) BY <2>1, CongRefl
  <2>4. Cong(x[i] * y[i], (c * v[i] + d * w[i]) * y[i])  BY <2>1, <2>2, <2>3, CongMul
  <2>5. (c * v[i] + d * w[i]) * y[i] = c * (v[i] * y[i]) + d * (w[i] * y[i])  BY <2>1
  <2>6. h[i] = x[i] * y[i] /\ f[i] = v[i] * y[i] /\ g[i] = w[i] * y[i]  OBVIOUS
  <2> HIDE DEF h, f, g
  <2> QED BY <2>4, <2>5, <2>6
<1>3. Dot(x, y, k) = SumTo(h, k) /\ Dot(v, y, k) = SumTo(f, k) /\ Dot(w, y, k) = SumTo(g, k)
  BY DEF Dot
<1> HIDE DEF h, f, g
<1> QED BY <1>1, <1>2, <1>3, SumLinear

(* The product is symmetric.                                               *)
LEMMA DotSym ==
  ASSUME NEW k \in Nat, NEW x, NEW y, Ints(x, k), Ints(y, k)
  PROVE  Dot(x, y, k) = Dot(y, x, k)
<1>1. [i \in 1 .. k |-> x[i] * y[i]] = [i \in 1 .. k |-> y[i] * x[i]]  BY DEF Ints
<1> QED BY <1>1 DEF Dot

Drop(x, k, l) == [i \in 1 .. l |-> x[k + i]]

(* The product is that of the first entries plus that of the rest.         *)
LEMMA DotSplit ==
  ASSUME NEW k \in Nat, NEW l \in Nat, NEW x, NEW y, Ints(x, k + l), Ints(y, k + l)
  PROVE  Dot(x, y, k + l) = Dot(x, y, k) + Dot(Drop(x, k, l), Drop(y, k, l), l)
<1> DEFINE f == [i \in 1 .. k + l |-> x[i] * y[i]]
           g == [i \in 1 .. k |-> x[i] * y[i]]
           e == [i \in 1 .. l |-> Drop(x, k, l)[i] * Drop(y, k, l)[i]]
<1>1. \A i \in 1 .. k + l : f[i] \in Int  BY DEF Ints
<1>2. e = [i \in 1 .. l |-> f[k + i]]  
  <2>1. \A i \in 1 .. l : k + i \in 1 .. k + l OBVIOUS
  <2>2. \A i \in 1 .. l : e[i] = f[k + i] BY <2>1 DEF Drop
  <2> QED BY <2>2
<1>3. \A i \in 1 .. k : g[i] = f[i] /\ g[i] \in Int BY DEF Ints
<1>4. Dot(x, y, k + l) = SumTo(f, k + l) /\ Dot(x, y, k) = SumTo(g, k)
      /\ Dot(Drop(x, k, l), Drop(y, k, l), l) = SumTo(e, l) BY DEF Dot
<1> HIDE DEF f, g, e
<1>5. SumTo(f, k + l) = SumTo(f, k) + SumTo([i \in 1 .. l |-> f[k + i]], l)  BY SMTT(60), <1>1, SumToSplit
<1>6. SumTo(g, k) = SumTo(f, k) BY <1>3, SumToSame
<1> QED BY <1>2, <1>4, <1>5, <1>6

----------------------------------------------------------------------------
IsList(s, len) == s = [j \in 1 .. len |-> s[j]]

(* A list has the length it is indexed to. *)
LEMMA ListLength ==
  ASSUME NEW len \in Nat, NEW s, IsList(s, len)
  PROVE  Len(s) = len
BY DEF IsList

(* The list r is s, of k entries, with t, of l entries, after it. *)
Joins(r, s, k, t, l) ==
  /\ IsList(r, k + l)
  /\ \A i \in 1 .. k : r[i] = s[i]
  /\ \A i \in 1 .. l : r[k + i] = t[i]

(* The entries of a concatenation.                                         *)
LEMMA ListJoin ==
  ASSUME NEW k \in Nat, NEW l \in Nat, NEW s, NEW t, IsList(s, k), IsList(t, l)
  PROVE  Joins(s \o t, s, k, t, l)
<1> DEFINE S == {s[j] : j \in 1 .. k} \cup {t[j] : j \in 1 .. l}
<1>1. s \in Seq(S) /\ t \in Seq(S) /\ Len(s) = k /\ Len(t) = l
  BY SMTT(60), ListLength DEF IsList
<1> HIDE DEF S
<1>2. /\ s \o t \in Seq(S) /\ Len(s \o t) = k + l
      /\ \A i \in 1 .. k + l : (s \o t)[i] = IF i <= k THEN s[i] ELSE t[i - k]
  BY ZenonT(60), <1>1, ConcatProperties
<1>3. s \o t \in [1 .. k + l -> S]  BY <1>2, LenProperties
<1>4. IsList(s \o t, k + l)  BY <1>3 DEF IsList
<1>5. \A i \in 1 .. k : (s \o t)[i] = s[i]  BY <1>2
<1>6. \A i \in 1 .. l : (s \o t)[k + i] = t[i]
  <2>1. \A i \in 1 .. l : k + i \in 1 .. k + l /\ ~ (k + i <= k) /\ (k + i) - k = i  OBVIOUS
  <2> QED BY <1>2, <2>1
<1> QED BY <1>4, <1>5, <1>6 DEF Joins

At(bases, g, k) == [j \in 1 .. k |-> bases[j][g]]

(* A list of k scalars, and one of k points. *)
Scalars(s, k) == IsList(s, k) /\ Ints(s, k)
Points(bases, k) == IsList(bases, k) /\ \A j \in 1 .. k : bases[j] \in Point

(* The coefficients of a point are scalars.                                *)
LEMMA CoefficientInt ==
  ASSUME NEW X \in Point, NEW g \in Generators
  PROVE  X[g] \in Fq /\ X[g] \in Int
BY DEF Point, Fq

(* So are those of points over one base.                                   *)
LEMMA AtInts ==
  ASSUME NEW k \in Nat, NEW bases, Points(bases, k), NEW g \in Generators
  PROVE  Ints(At(bases, g, k), k)
BY CoefficientInt DEF Points, At, Ints

(* One coefficient of a multi-scalar multiplication is a sum of products. *)
LEMMA MsmAt ==
  ASSUME NEW k \in Nat, NEW s, NEW bases, Scalars(s, k), Points(bases, k), NEW g \in Generators
  PROVE  /\ Dot(s, At(bases, g, k), k) \in Int
         /\ Msm(s, bases)[g] = Dot(s, At(bases, g, k), k) % q
<1> DEFINE f == [i \in 1 .. k |-> s[i] * At(bases, g, k)[i]]
           iter == CHOOSE it : it = [S \in SUBSET DOMAIN s |->
                     IF S = {} THEN 0
                     ELSE s[AnyOf(S)] * bases[AnyOf(S)][g] + it[S \ {AnyOf(S)}]]
<1>0. Ints(At(bases, g, k), k)  BY AtInts
<1>1. \A i \in 1 .. k : f[i] \in Int  BY <1>0 DEF Scalars, Ints
<1>2. DOMAIN s = 1 .. k  BY DEF Scalars, IsList
<1>3. IsFiniteSet(1 .. k)  BY IntervalFinite
<1>4. \A i \in 1 .. k : f[i] = s[i] * bases[i][g]  BY DEF At
<1>5. Msm(s, bases)[g] = iter[DOMAIN s] % q
  BY DEF Msm, MapThenSumSet, MapThenFoldSet, AnyOf
<1> HIDE DEF f
<1>6. PICK it : Sums(it, f, 1 .. k)  BY <1>1, <1>3, SumExists
<1>7. \A S \in SUBSET (1 .. k) : S # {} => f[AnyOf(S)] = s[AnyOf(S)] * bases[AnyOf(S)][g]
  BY <1>4 DEF AnyOf
<1>8. \A jt : Sums(jt, f, 1 .. k) <=> jt = [S \in SUBSET DOMAIN s |->
                     IF S = {} THEN 0
                     ELSE s[AnyOf(S)] * bases[AnyOf(S)][g] + jt[S \ {AnyOf(S)}]]
  <2>1. ASSUME NEW jt
        PROVE  [S \in SUBSET (1 .. k) |-> IF S = {} THEN 0 ELSE f[AnyOf(S)] + jt[S \ {AnyOf(S)}]]
                 = [S \in SUBSET DOMAIN s |->
                     IF S = {} THEN 0
                     ELSE s[AnyOf(S)] * bases[AnyOf(S)][g] + jt[S \ {AnyOf(S)}]]
    BY <1>2, <1>7
  <2> QED BY <2>1 DEF Sums
<1>9. Sums(iter, f, 1 .. k)  BY <1>6, <1>8
<1> HIDE DEF iter
<1>10. iter[1 .. k] = SumOver(f, 1 .. k)  BY <1>1, <1>3, <1>9, SumByRecursion
<1>11. Dot(s, At(bases, g, k), k) = SumOver(f, 1 .. k)  BY DEF Dot, SumTo, f
<1>12. Dot(s, At(bases, g, k), k) \in Int  BY <1>0, DotInt DEF Scalars
<1> QED BY <1>2, <1>5, <1>10, <1>11, <1>12

(* InnerProduct reduces the product of the vectors.                        *)
LEMMA InnerProductIs ==
  ASSUME NEW k \in Nat, NEW x, NEW y, Scalars(x, k), Ints(y, k)
  PROVE  /\ Dot(x, y, k) \in Int /\ InnerProduct(x, y) = Dot(x, y, k) % q
<1> DEFINE f == [i \in 1 .. k |-> x[i] * y[i]]
           iter == CHOOSE it : it = [S \in SUBSET DOMAIN x |->
                     IF S = {} THEN 0
                     ELSE x[AnyOf(S)] * y[AnyOf(S)] + it[S \ {AnyOf(S)}]]
<1>1. \A i \in 1 .. k : f[i] \in Int  BY DEF Scalars, Ints
<1>2. DOMAIN x = 1 .. k  BY DEF Scalars, IsList
<1>3. IsFiniteSet(1 .. k)  BY IntervalFinite
<1>4. \A i \in 1 .. k : f[i] = x[i] * y[i]  OBVIOUS
<1>5. InnerProduct(x, y) = iter[DOMAIN x] % q
  BY DEF InnerProduct, MapThenSumSet, MapThenFoldSet, AnyOf
<1> HIDE DEF f
<1>6. PICK it : Sums(it, f, 1 .. k)  BY <1>1, <1>3, SumExists
<1>7. \A S \in SUBSET (1 .. k) : S # {} => f[AnyOf(S)] = x[AnyOf(S)] * y[AnyOf(S)]
  BY <1>4 DEF AnyOf
<1>8. \A jt : Sums(jt, f, 1 .. k) <=> jt = [S \in SUBSET DOMAIN x |->
                     IF S = {} THEN 0
                     ELSE x[AnyOf(S)] * y[AnyOf(S)] + jt[S \ {AnyOf(S)}]]
  <2>1. ASSUME NEW jt
        PROVE  [S \in SUBSET (1 .. k) |-> IF S = {} THEN 0 ELSE f[AnyOf(S)] + jt[S \ {AnyOf(S)}]]
                 = [S \in SUBSET DOMAIN x |->
                     IF S = {} THEN 0
                     ELSE x[AnyOf(S)] * y[AnyOf(S)] + jt[S \ {AnyOf(S)}]]
    BY <1>2, <1>7
  <2> QED BY <2>1 DEF Sums
<1>9. Sums(iter, f, 1 .. k)  BY <1>6, <1>8
<1> HIDE DEF iter
<1>10. iter[1 .. k] = SumOver(f, 1 .. k)  BY <1>1, <1>3, <1>9, SumByRecursion
<1>11. Dot(x, y, k) = SumOver(f, 1 .. k)  BY DEF Dot, SumTo, f
<1>12. Dot(x, y, k) \in Int  BY DotInt DEF Scalars
<1> QED BY <1>2, <1>5, <1>10, <1>11, <1>12

----------------------------------------------------------------------------
MDot(s, bases, g, k) == Dot(s, At(bases, g, k), k)

(* A coefficient of an MSM is the product of the scalars and coefficients. *)
LEMMA MDotInt ==
  ASSUME NEW k \in Nat, NEW s, NEW bases, Scalars(s, k), Points(bases, k), NEW g \in Generators
  PROVE  MDot(s, bases, g, k) \in Int /\ Cong(Msm(s, bases)[g], MDot(s, bases, g, k))
BY MsmAt, ModCong DEF MDot

(* An MSM is a point.                                                      *)
LEMMA MsmPoint ==
  ASSUME NEW k \in Nat, NEW s, NEW bases, Scalars(s, k), Points(bases, k)
  PROVE  Msm(s, bases) \in Point
<1>1. \A g \in Generators : Msm(s, bases)[g] \in Fq  BY MsmAt, ModCong
<1>2. Msm(s, bases) = [g \in Generators |-> Msm(s, bases)[g]]  BY DEF Msm
<1> HIDE DEF Msm
<1> QED BY <1>1, <1>2 DEF Point

(* The product of vectors of one entry.                                    *)
LEMMA DotOne ==
  ASSUME NEW x, NEW y, x[1] \in Int, y[1] \in Int
  PROVE  Dot(x, y, 1) = x[1] * y[1]
<1> DEFINE f == [i \in 1 .. 1 |-> x[i] * y[i]]
<1>1. f[1] = x[1] * y[1] /\ f[1] \in Int  OBVIOUS
<1>2. Dot(x, y, 1) = SumTo(f, 0 + 1)  BY DEF Dot
<1> HIDE DEF f
<1>3. \A i \in 1 .. 0 + 1 : f[i] \in Int  BY <1>1
<1>4. SumTo(f, 0 + 1) = SumTo(f, 0) + f[0 + 1]  BY <1>3, SumToNext
<1> QED BY <1>1, <1>2, <1>4, SumToZero

(* The product of vectors of two.                                          *)
LEMMA DotTwo ==
  ASSUME NEW x, NEW y, x[1] \in Int, y[1] \in Int, x[2] \in Int, y[2] \in Int
  PROVE  Dot(x, y, 2) = x[1] * y[1] + x[2] * y[2]
<1> DEFINE f == [i \in 1 .. 2 |-> x[i] * y[i]]
<1>1. f[1] = x[1] * y[1] /\ f[1] \in Int /\ f[2] = x[2] * y[2] /\ f[2] \in Int  OBVIOUS
<1>2. Dot(x, y, 2) = SumTo(f, 1 + 1)  BY DEF Dot
<1> HIDE DEF f
<1>3. (\A i \in 1 .. 0 + 1 : f[i] \in Int) /\ (\A i \in 1 .. 1 + 1 : f[i] \in Int)  BY <1>1
<1>4. SumTo(f, 0 + 1) = SumTo(f, 0) + f[0 + 1]  BY <1>3, SumToNext
<1>5. SumTo(f, 1 + 1) = SumTo(f, 1) + f[1 + 1]  BY <1>3, SumToNext
<1> QED BY <1>1, <1>2, <1>4, <1>5, SumToZero

(* Multiples of one point, and sums of the multiples of two. *)
LEMMA MsmOne ==
  ASSUME NEW x \in Int, NEW X \in Point
  PROVE  /\ Scalars(<<x>>, 1) /\ Points(<<X>>, 1)
         /\ Msm(<<x>>, <<X>>) \in Point
         /\ \A g \in Generators : /\ MDot(<<x>>, <<X>>, g, 1) = x * X[g]
                                  /\ Msm(<<x>>, <<X>>)[g] = (x * X[g]) % q
<1>1. Scalars(<<x>>, 1) /\ Points(<<X>>, 1)  BY DEF Scalars, Points, IsList, Ints
<1>2. ASSUME NEW g \in Generators
      PROVE  MDot(<<x>>, <<X>>, g, 1) = x * X[g]
  <2>1. At(<<X>>, g, 1)[1] = X[g] /\ X[g] \in Int  BY CoefficientInt DEF At
  <2>2. <<x>>[1] = x OBVIOUS
  <2> QED BY <2>1, <2>2, DotOne DEF MDot
<1>3. Msm(<<x>>, <<X>>) \in Point  BY <1>1, MsmPoint
<1>4. \A g \in Generators : Msm(<<x>>, <<X>>)[g] = MDot(<<x>>, <<X>>, g, 1) % q
  BY <1>1, MsmAt DEF MDot
<1> QED BY <1>1, <1>2, <1>3, <1>4

(* An MSM of two points.                                                   *)
LEMMA MsmTwo ==
  ASSUME NEW x \in Int, NEW y \in Int, NEW X \in Point, NEW Y \in Point
  PROVE  /\ Scalars(<<x, y>>, 2) /\ Points(<<X, Y>>, 2)
         /\ Msm(<<x, y>>, <<X, Y>>) \in Point
         /\ \A g \in Generators : /\ MDot(<<x, y>>, <<X, Y>>, g, 2) = x * X[g] + y * Y[g]
                                  /\ Msm(<<x, y>>, <<X, Y>>)[g] = (x * X[g] + y * Y[g]) % q
<1>1. Scalars(<<x, y>>, 2) /\ Points(<<X, Y>>, 2)  BY DEF Scalars, Points, IsList, Ints
<1>2. ASSUME NEW g \in Generators
      PROVE  MDot(<<x, y>>, <<X, Y>>, g, 2) = x * X[g] + y * Y[g]
  <2> DEFINE A == At(<<X, Y>>, g, 2)
  <2>1. A[1] = X[g] /\ X[g] \in Int /\ A[2] = Y[g] /\ Y[g] \in Int  BY CoefficientInt DEF At
  <2>2. <<x, y>>[1] = x /\ <<x, y>>[2] = y OBVIOUS
  <2> HIDE DEF A
  <2>3. Dot(<<x, y>>, A, 2) = x * X[g] + y * Y[g]  BY <2>1, <2>2, DotTwo
  <2> QED BY <2>3 DEF MDot, A
<1>3. Msm(<<x, y>>, <<X, Y>>) \in Point  BY <1>1, MsmPoint
<1>4. \A g \in Generators : Msm(<<x, y>>, <<X, Y>>)[g] = MDot(<<x, y>>, <<X, Y>>, g, 2) % q
  BY <1>1, MsmAt DEF MDot
<1> QED BY <1>1, <1>2, <1>3, <1>4

(* Lists of terms put one after the other add up. *)
TermsJoined(s, t, bs, bt, k, l) ==
  /\ k + l \in Nat /\ Scalars(s \o t, k + l) /\ Points(bs \o bt, k + l)
  /\ \A g \in Generators :
       MDot(s \o t, bs \o bt, g, k + l) = MDot(s, bs, g, k) + MDot(t, bt, g, l)

(* An MSM of concatenated terms is the sum of the two.                     *)
LEMMA MDotJoin ==
  ASSUME NEW k \in Nat, NEW l \in Nat, NEW s, NEW t, NEW bs, NEW bt,
         Scalars(s, k), Scalars(t, l), Points(bs, k), Points(bt, l)
  PROVE  TermsJoined(s, t, bs, bt, k, l)
<1>0. /\ IsList(s \o t, k + l) /\ IsList(bs \o bt, k + l)
      /\ \A i \in 1 .. k : (s \o t)[i] = s[i] /\ (bs \o bt)[i] = bs[i]
      /\ \A i \in 1 .. l : (s \o t)[k + i] = t[i] /\ (bs \o bt)[k + i] = bt[i]
  <2>1. IsList(s, k) /\ IsList(t, l) /\ IsList(bs, k) /\ IsList(bt, l)  BY DEF Scalars, Points
  <2>2. Joins(s \o t, s, k, t, l) /\ Joins(bs \o bt, bs, k, bt, l)
    BY <2>1, ListJoin
  <2> QED BY <2>2 DEF Joins
<1>1. \A i \in 1 .. k + l : i \in 1 .. k \/ (i - k \in 1 .. l /\ k + (i - k) = i)  OBVIOUS
<1>2. Scalars(s \o t, k + l)
  <2>1. \A i \in 1 .. k + l : (s \o t)[i] \in Int  BY <1>0, <1>1 DEF Scalars, Ints
  <2> QED BY <1>0, <2>1 DEF Scalars, Ints
<1>3. Points(bs \o bt, k + l)
  <2>1. \A i \in 1 .. k + l : (bs \o bt)[i] \in Point  BY <1>0, <1>1 DEF Points
  <2> QED BY <1>0, <2>1 DEF Points
<1>4. ASSUME NEW g \in Generators
      PROVE  MDot(s \o t, bs \o bt, g, k + l) = MDot(s, bs, g, k) + MDot(t, bt, g, l)
  <2> DEFINE A == At(bs \o bt, g, k + l)
             x == s \o t
  <2>1. Ints(A, k + l) /\ Ints(x, k + l)  BY <1>2, <1>3, AtInts DEF Scalars
  <2>3. (\A i \in 1 .. l : k + i \in 1 .. k + l) /\ (\A i \in 1 .. k : i \in 1 .. k + l)
    OBVIOUS
  <2>2. \A i \in 1 .. k : A[i] = At(bs, g, k)[i]  BY <1>0, <2>3 DEF At
  <2>4. \A i \in 1 .. l : Drop(A, k, l)[i] = At(bt, g, l)[i]  BY <1>0, <2>3 DEF At, Drop
  <2>5. (\A i \in 1 .. k : x[i] = s[i]) /\ (\A i \in 1 .. l : Drop(x, k, l)[i] = t[i])
    BY <1>0 DEF Drop
  <2> HIDE DEF A, x
  <2>6. Dot(x, A, k + l) = Dot(x, A, k) + Dot(Drop(x, k, l), Drop(A, k, l), l)
    BY <2>1, DotSplit
  <2>7. Ints(x, k) /\ Ints(A, k)  BY <2>1 DEF Ints
  <2>8. Dot(x, A, k) = Dot(s, At(bs, g, k), k)  BY <2>2, <2>5, <2>7, DotSame
  <2>9. Ints(Drop(x, k, l), l) /\ Ints(Drop(A, k, l), l)  BY <2>1, <2>3 DEF Ints, Drop
  <2>10. Dot(Drop(x, k, l), Drop(A, k, l), l) = Dot(t, At(bt, g, l), l)
    BY <2>4, <2>5, <2>9, DotSame
  <2> QED BY <2>6, <2>8, <2>10 DEF MDot, A, x
<1> QED BY <1>2, <1>3, <1>4 DEF TermsJoined

----------------------------------------------------------------------------
(* Halves of two vectors, each folded into one with u and w swapped.       *)
Folded(z, x, h, u, w) == \A i \in 1 .. h : Cong(z[i], u * x[i] + w * Drop(x, h, h)[i])

(* Folding with u and with its inverse w: of the four products of the      *)
(* halves, two come back as they were and two times squares.               *)
LEMMA FoldedTerms ==
  ASSUME NEW A \in Int, NEW B \in Int, NEW C \in Int, NEW D \in Int, NEW u \in Int, NEW w \in Int,
         Cong(u * w, 1)
  PROVE  Cong(u * (w * A + u * B) + w * (w * C + u * D), (A + D) + (u * u * B + w * w * C))
<1>1. PICK c \in Int : u * w = 1 + c * q  BY DEF Cong
<1>2. q \in Int  BY PrimeAssumption
<1> DEFINE S == A + D
           k == c * S
<1>3. u * (w * A + u * B) + w * (w * C + u * D) = (u * w) * S + (u * u * B + w * w * C)
  OBVIOUS
<1>4. (u * w) * S = S + k * q
  <2>1. S \in Int  OBVIOUS
  <2> HIDE DEF S
  <2> QED BY <1>1, <1>2, <2>1
<1>5. k \in Int /\ u * u * B + w * w * C \in Int /\ S \in Int  OBVIOUS
<1>6. (A + D) + (u * u * B + w * w * C) = S + (u * u * B + w * w * C)  OBVIOUS
<1> DEFINE Q == u * u * B + w * w * C
           lhs == u * (w * A + u * B) + w * (w * C + u * D)
<1>7. lhs = (u * w) * S + Q  BY <1>3
<1>8. Q \in Int  BY <1>5
<1> HIDE DEF k, S, Q, lhs
<1>9. lhs = (S + Q) + k * q  BY <1>2, <1>4, <1>5, <1>7, <1>8
<1>10. Cong(lhs, S + Q)  BY <1>5, <1>9 DEF Cong
<1> QED BY <1>10 DEF S, Q, lhs

(* The product of folded vectors, one with u and one with its inverse, is  *)
(* the product before plus what the cross products move it by.             *)
LEMMA FoldDot ==
  ASSUME NEW h \in Nat, NEW x, NEW y, NEW xf, NEW yf,
         Ints(x, h + h), Ints(y, h + h), Ints(xf, h), Ints(yf, h),
         NEW u \in Int, NEW w \in Int, Cong(u * w, 1),
         Folded(xf, x, h, u, w), Folded(yf, y, h, w, u)
  PROVE  /\ Dot(x, Drop(y, h, h), h) \in Int /\ Dot(Drop(x, h, h), y, h) \in Int
         /\ Dot(x, y, h + h) \in Int /\ Dot(xf, yf, h) \in Int
         /\ Cong(Dot(xf, yf, h),
                 Dot(x, y, h + h) + (u * u * Dot(x, Drop(y, h, h), h) + w * w * Dot(Drop(x, h, h), y, h)))
<1> DEFINE xr == Drop(x, h, h)
           yr == Drop(y, h, h)
<1>1. Ints(x, h) /\ Ints(y, h)  BY DEF Ints
<1>2. Ints(xr, h) /\ Ints(yr, h)
  <2>1. \A i \in 1 .. h : h + i \in 1 .. h + h  OBVIOUS
  <2> QED BY <2>1 DEF Ints, Drop
<1>3. Dot(x, y, h + h) = Dot(x, y, h) + Dot(xr, yr, h)  BY DotSplit
<1>4. /\ \A i \in 1 .. h : Cong(xf[i], u * x[i] + w * xr[i])
      /\ \A i \in 1 .. h : Cong(yf[i], w * y[i] + u * yr[i])
  BY DEF Folded
<1> HIDE DEF xr, yr
<1> DEFINE A == Dot(x, y, h)
           B == Dot(x, yr, h)
           C == Dot(xr, y, h)
           D == Dot(xr, yr, h)
           E == Dot(x, yf, h)
           F == Dot(xr, yf, h)
           Z == Dot(xf, yf, h)
<1>5. A \in Int /\ B \in Int /\ C \in Int /\ D \in Int /\ E \in Int /\ F \in Int /\ Z \in Int
  BY <1>1, <1>2, DotInt
<1>6. Cong(Z, u * E + w * F)  BY <1>1, <1>2, <1>4, DotLinear
<1>7. Cong(E, w * A + u * B)
  <2>1. Cong(Dot(yf, x, h), w * Dot(y, x, h) + u * Dot(yr, x, h))
    BY <1>1, <1>2, <1>4, DotLinear
  <2> QED BY <2>1, <1>1, <1>2, DotSym
<1>8. Cong(F, w * C + u * D)
  <2>1. Cong(Dot(yf, xr, h), w * Dot(y, xr, h) + u * Dot(yr, xr, h))
    BY <1>1, <1>2, <1>4, DotLinear
  <2> QED BY <2>1, <1>1, <1>2, DotSym
<1>9. Dot(x, y, h + h) = A + D  BY <1>3
<1> HIDE DEF A, B, C, D, E, F, Z
<1>10. Cong(u * E + w * F, u * (w * A + u * B) + w * (w * C + u * D))
  <2>1. w * A + u * B \in Int /\ w * C + u * D \in Int  BY <1>5
  <2>2. Cong(u, u) /\ Cong(w, w)  BY CongRefl
  <2>3. Cong(u * E, u * (w * A + u * B)) /\ Cong(w * F, w * (w * C + u * D))
    BY <1>5, <1>7, <1>8, <2>1, <2>2, CongMul
  <2>4. /\ u * E \in Int /\ w * F \in Int
        /\ u * (w * A + u * B) \in Int /\ w * (w * C + u * D) \in Int  BY <1>5, <2>1
  <2> QED BY <2>3, <2>4, CongAdd
<1>11. Cong(u * (w * A + u * B) + w * (w * C + u * D), (A + D) + (u * u * B + w * w * C))
  BY <1>5, FoldedTerms
<1>12. /\ u * E + w * F \in Int /\ u * (w * A + u * B) + w * (w * C + u * D) \in Int
       /\ (A + D) + (u * u * B + w * w * C) \in Int  BY <1>5
<1>13. Cong(Z, (A + D) + (u * u * B + w * w * C))
  <2>1. Cong(u * E + w * F, (A + D) + (u * u * B + w * w * C))
    BY <1>10, <1>11, <1>12, CongTrans
  <2> QED BY <1>5, <1>6, <1>12, <2>1, CongTrans
<1>14. A + D \in Int  BY <1>5
<1> QED BY <1>5, <1>9, <1>13, <1>14 DEF B, C, Z, xr, yr

(* Products that agree term by term modulo q. *)
LEMMA DotCong ==
  ASSUME NEW k \in Nat, NEW x, NEW y, NEW v, NEW w, Ints(x, k), Ints(y, k), Ints(v, k), Ints(w, k),
         \A i \in 1 .. k : Cong(x[i] * y[i], v[i] * w[i])
  PROVE  Cong(Dot(x, y, k), Dot(v, w, k))
<1> DEFINE f == [i \in 1 .. k |-> x[i] * y[i]]
           g == [i \in 1 .. k |-> v[i] * w[i]]
<1>1. Ints(f, k) /\ Ints(g, k)  BY DEF Ints
<1>2. ASSUME NEW i \in 1 .. k PROVE Cong(f[i], 1 * g[i] + 0 * g[i])
  <2>1. g[i] \in Int /\ f[i] = x[i] * y[i] /\ g[i] = v[i] * w[i]  BY <1>1 DEF Ints
  <2>2. Cong(f[i], g[i])  BY <2>1
  <2> HIDE DEF f, g
  <2>3. 1 * g[i] + 0 * g[i] = g[i]  BY <2>1
  <2> QED BY <2>2, <2>3
<1>3. Dot(x, y, k) = SumTo(f, k) /\ Dot(v, w, k) = SumTo(g, k)  BY DEF Dot
<1> HIDE DEF f, g
<1>4. SumTo(g, k) \in Int /\ Cong(SumTo(f, k), 1 * SumTo(g, k) + 0 * SumTo(g, k))
  <2>1. 1 \in Int /\ 0 \in Int  OBVIOUS
  <2> QED BY <1>1, <1>2, <2>1, SumLinear
<1>5. 1 * SumTo(g, k) + 0 * SumTo(g, k) = SumTo(g, k)  BY <1>4
<1> QED BY <1>3, <1>4, <1>5

(* One more term. *)
LEMMA DotNext ==
  ASSUME NEW k \in Nat, NEW x, NEW y, Ints(x, k + 1), Ints(y, k + 1)
  PROVE  /\ Dot(x, y, k) \in Int
         /\ Dot(x, y, k + 1) = Dot(x, y, k) + x[k + 1] * y[k + 1]
<1> DEFINE f == [i \in 1 .. k + 1 |-> x[i] * y[i]]
           g == [i \in 1 .. k |-> x[i] * y[i]]
<1>1. (\A i \in 1 .. k + 1 : f[i] \in Int) /\ f[k + 1] = x[k + 1] * y[k + 1]  BY DEF Ints
<1>2. \A i \in 1 .. k : f[i] = g[i] /\ f[i] \in Int  BY DEF Ints
<1>3. Dot(x, y, k) = SumTo(g, k) /\ Dot(x, y, k + 1) = SumTo(f, k + 1)  BY DEF Dot
<1> HIDE DEF f, g
<1>4. SumTo(f, k) = SumTo(g, k)  BY <1>2, SumToSame
<1> QED BY <1>1, <1>3, <1>4, SumToNext

(* The product of empty vectors.                                           *)
LEMMA DotZero == ASSUME NEW x, NEW y PROVE Dot(x, y, 0) = 0
BY SumToZero DEF Dot

----------------------------------------------------------------------------
(* The first k + 1 powers of two. *)
Doubles(g, k) == g = [e \in 0 .. k |-> IF e = 0 THEN 1 ELSE 2 * g[e - 1]]

(* Tables of powers of two agree.                                          *)
LEMMA DoublesAgree ==
  ASSUME NEW k \in Nat, NEW l \in Nat, NEW g, NEW f, Doubles(g, k), Doubles(f, l), k <= l
  PROVE  \A e \in 0 .. k : g[e] = f[e] /\ g[e] \in Nat \ {0}
<1> DEFINE T == {e \in Nat : e <= k => g[e] = f[e] /\ g[e] \in Nat \ {0}}
<1>1. \A e \in 0 .. k : /\ g[e] = IF e = 0 THEN 1 ELSE 2 * g[e - 1]
                        /\ f[e] = IF e = 0 THEN 1 ELSE 2 * f[e - 1]
  <2>1. \A e \in 0 .. k : e \in 0 .. l  OBVIOUS
  <2> QED BY <2>1 DEF Doubles
<1>2. 0 \in T
  <2>1. g[0] = 1 /\ f[0] = 1  BY <1>1
  <2> QED BY <2>1
<1>3. ASSUME NEW e \in Nat, e \in T PROVE e + 1 \in T
  <2>1. SUFFICES ASSUME e + 1 <= k PROVE g[e + 1] = f[e + 1] /\ g[e + 1] \in Nat \ {0}  OBVIOUS
  <2>2. g[e] = f[e] /\ g[e] \in Nat \ {0}  BY <1>3, <2>1
  <2>3. e + 1 \in 0 .. k /\ e + 1 # 0 /\ (e + 1) - 1 = e  BY <2>1
  <2>4. g[e + 1] = 2 * g[e] /\ f[e + 1] = 2 * f[e]  BY <1>1, <2>3
  <2> QED BY <2>2, <2>4
<1> HIDE DEF T
<1>4. \A e \in Nat : e \in T  BY <1>2, <1>3, Induction
<1> QED BY <1>4 DEF T

(* There is one of every length.                                           *)
LEMMA DoublesExist == \A k \in Nat : \E g : Doubles(g, k)
<1> DEFINE T == {k \in Nat : \E g : Doubles(g, k)}
<1>1. 0 \in T
  <2> DEFINE g == [e \in 0 .. 0 |-> 1]
  <2>1. g = [e \in 0 .. 0 |-> IF e = 0 THEN 1 ELSE 2 * g[e - 1]]
    <3>1. \A e \in 0 .. 0 : 1 = IF e = 0 THEN 1 ELSE 2 * g[e - 1]  OBVIOUS
    <3> QED BY <3>1
  <2>2. Doubles(g, 0)  BY <2>1 DEF Doubles
  <2> QED BY <2>2
<1>2. ASSUME NEW k \in Nat, k \in T PROVE k + 1 \in T
  <2>1. PICK g : Doubles(g, k)  BY <1>2
  <2> DEFINE f == [e \in 0 .. k + 1 |-> IF e = k + 1 THEN 2 * g[k] ELSE g[e]]
  <2>2. \A e \in 0 .. k : e \in 0 .. k + 1 /\ e # k + 1  OBVIOUS
  <2>3. \A e \in 0 .. k : f[e] = g[e]  BY <2>2
  <2>4. \A e \in 0 .. k : g[e] = IF e = 0 THEN 1 ELSE 2 * g[e - 1]  BY <2>1 DEF Doubles
  <2>5. \A e \in 0 .. k + 1 : f[e] = IF e = 0 THEN 1 ELSE 2 * f[e - 1]
    <3>1. ASSUME NEW e \in 0 .. k + 1 PROVE f[e] = IF e = 0 THEN 1 ELSE 2 * f[e - 1]
      <4>1. CASE e = k + 1
        <5>1. e # 0 /\ e - 1 = k /\ k \in 0 .. k  BY <4>1
        <5>2. f[e] = 2 * g[k]  BY <4>1
        <5>3. f[e - 1] = g[k]  BY <2>3, <5>1
        <5> HIDE DEF f
        <5> QED BY <5>1, <5>2, <5>3
      <4>2. CASE e # k + 1 /\ e # 0
        <5>1. e \in 0 .. k /\ e - 1 \in 0 .. k  BY <4>2
        <5>2. f[e] = g[e] /\ f[e - 1] = g[e - 1]  BY <2>3, <5>1
        <5> HIDE DEF f
        <5> QED BY <2>4, <4>2, <5>1, <5>2
      <4>3. CASE e = 0
        <5>1. 0 \in 0 .. k  OBVIOUS
        <5>2. f[0] = g[0]  BY <2>3, <5>1
        <5> HIDE DEF f
        <5> QED BY <2>4, <4>3, <5>1, <5>2
      <4> QED BY <4>1, <4>2, <4>3
    <3> QED BY <3>1
  <2>6. f = [e \in 0 .. k + 1 |-> f[e]]  OBVIOUS
  <2> HIDE DEF f
  <2>7. Doubles(f, k + 1)
    <3>1. [e \in 0 .. k + 1 |-> f[e]] = [e \in 0 .. k + 1 |-> IF e = 0 THEN 1 ELSE 2 * f[e - 1]]
      BY <2>5
    <3> QED BY <2>6, <3>1 DEF Doubles
  <2> QED BY <2>7
<1> HIDE DEF T
<1>3. \A k \in Nat : k \in T  BY <1>1, <1>2, Induction
<1> QED BY <1>3 DEF T

(* Pow2, given by recursion, exists. *)
LEMMA Pow2Exists == Pow2 = [e \in Nat |-> IF e = 0 THEN 1 ELSE 2 * Pow2[e - 1]]
<1> DEFINE D(k) == CHOOSE g : Doubles(g, k)
           P == [e \in Nat |-> D(e)[e]]
<1>1. \A k \in Nat : Doubles(D(k), k)  BY DoublesExist
<1>2. \A e \in Nat : P[e] = D(e)[e]  OBVIOUS
<1>3. ASSUME NEW e \in Nat PROVE P[e] = IF e = 0 THEN 1 ELSE 2 * P[e - 1]
  <2>1. D(e) = [i \in 0 .. e |-> IF i = 0 THEN 1 ELSE 2 * D(e)[i - 1]]  BY <1>1 DEF Doubles
  <2> DEFINE g == D(e)
  <2>2. g[e] = IF e = 0 THEN 1 ELSE 2 * g[e - 1]
    <3>1. e \in 0 .. e  OBVIOUS
    <3>2. g = [i \in 0 .. e |-> IF i = 0 THEN 1 ELSE 2 * g[i - 1]]  BY <2>1
    <3> HIDE DEF g
    <3> QED BY <3>1, <3>2
  <2>3. CASE e = 0
    <3> HIDE DEF g
    <3>1. g[e] = 1  BY <2>2, <2>3
    <3>2. P[e] = g[e]  BY <1>2 DEF g
    <3> HIDE DEF P
    <3> QED BY <2>3, <3>1, <3>2
  <2>4. CASE e # 0
    <3>1. e - 1 \in Nat /\ e - 1 <= e /\ e - 1 \in 0 .. e - 1  BY <2>4
    <3> DEFINE f == D(e - 1)
    <3>2. Doubles(f, e - 1) /\ Doubles(g, e)  BY <1>1, <3>1
    <3>3. P[e - 1] = f[e - 1] /\ P[e] = g[e]  BY <1>2, <3>1
    <3> HIDE DEF f, g, P, D
    <3>4. f[e - 1] = g[e - 1]  BY <3>1, <3>2, DoublesAgree
    <3> QED BY <2>2, <2>4, <3>3, <3>4
  <2> QED BY <2>3, <2>4
<1>4. P = [e \in Nat |-> P[e]]  OBVIOUS
<1> HIDE DEF P
<1>5. P = [e \in Nat |-> IF e = 0 THEN 1 ELSE 2 * P[e - 1]]  BY <1>3, <1>4
<1>6. \E f : f = [e \in Nat |-> IF e = 0 THEN 1 ELSE 2 * f[e - 1]]  BY <1>5
<1>7. Pow2 = CHOOSE f : f = [e \in Nat |-> IF e = 0 THEN 1 ELSE 2 * f[e - 1]]  BY DEF Pow2
<1> HIDE DEF Pow2
<1> QED BY <1>6, <1>7

(* Pow2 doubles.                                                           *)
LEMMA Pow2Law ==
  /\ Pow2[0] = 1
  /\ \A e \in Nat : Pow2[e] \in Nat \ {0} /\ Pow2[e + 1] = 2 * Pow2[e]
<1> HIDE DEF Pow2
<1>1. Pow2[0] = 1  BY Pow2Exists
<1>2. \A e \in Nat : Pow2[e + 1] = 2 * Pow2[e]
  <2>1. \A e \in Nat : e + 1 \in Nat /\ e + 1 # 0 /\ (e + 1) - 1 = e  OBVIOUS
  <2>2. \A e \in Nat : Pow2[e] = IF e = 0 THEN 1 ELSE 2 * Pow2[e - 1]  BY Pow2Exists
  <2> QED BY <2>1, <2>2
<1> DEFINE T == {e \in Nat : Pow2[e] \in Nat \ {0}}
<1>3. 0 \in T  BY <1>1
<1>4. \A e \in Nat : e \in T => e + 1 \in T  BY <1>2
<1> HIDE DEF T
<1>5. \A e \in Nat : e \in T  BY <1>3, <1>4, Induction
<1> QED BY <1>1, <1>2, <1>5 DEF T

----------------------------------------------------------------------------
(* What x and y open over coefficients A and B, c being that of the inner  *)
(* product's own base.                                                     *)
Opens(x, y, A, B, k, c) == Dot(x, A, k) + Dot(y, B, k) + Dot(x, y, k) * c

(* What integer vectors open is an integer.                                *)
LEMMA OpensInt ==
  ASSUME NEW k \in Nat, NEW x, NEW y, NEW A, NEW B, Ints(x, k), Ints(y, k), Ints(A, k), Ints(B, k),
         NEW c \in Int
  PROVE  Opens(x, y, A, B, k, c) \in Int
<1>1. Dot(x, A, k) \in Int /\ Dot(y, B, k) \in Int /\ Dot(x, y, k) \in Int  BY DotInt
<1> QED BY <1>1 DEF Opens

SameTo(x, y, k) == \A i \in 1 .. k : x[i] = y[i]

(* It is that of the entries.                                              *)
LEMMA OpensSame ==
  ASSUME NEW k \in Nat, NEW x, NEW y, NEW A, NEW B, Ints(x, k), Ints(y, k), Ints(A, k), Ints(B, k),
         NEW c \in Int, NEW xx, NEW yy, NEW AA, NEW BB,
         SameTo(x, xx, k), SameTo(y, yy, k), SameTo(A, AA, k), SameTo(B, BB, k)
  PROVE  Opens(x, y, A, B, k, c) = Opens(xx, yy, AA, BB, k, c)
<1>1. Dot(x, A, k) = Dot(xx, AA, k)  BY DotSame DEF SameTo
<1>2. Dot(y, B, k) = Dot(yy, BB, k)  BY DotSame DEF SameTo
<1>3. Dot(x, y, k) = Dot(xx, yy, k)  BY DotSame DEF SameTo
<1> QED BY <1>1, <1>2, <1>3 DEF Opens

(* What three sums that are congruent to others amount to. *)
LEMMA OpensTerms ==
  ASSUME NEW u \in Int, NEW w \in Int, NEW c \in Int,
         NEW P \in Int, NEW Q \in Int, NEW R \in Int,
         NEW p \in Int, NEW pl \in Int, NEW pr \in Int,
         NEW k \in Int, NEW kl \in Int, NEW kr \in Int,
         NEW r \in Int, NEW rl \in Int, NEW rr \in Int,
         Cong(P, p + (u * u * pl + w * w * pr)),
         Cong(Q, k + (w * w * kr + u * u * kl)),
         Cong(R, r + (u * u * rl + w * w * rr))
  PROVE  Cong(P + Q + R * c,
              (p + k + r * c) + (u * u * (pl + kl + rl * c) + w * w * (pr + kr + rr * c)))
<1> DEFINE uu == u * u
           ww == w * w
<1>1. uu \in Int /\ ww \in Int  OBVIOUS
<1>2. /\ Cong(P, p + (uu * pl + ww * pr))
      /\ Cong(Q, k + (ww * kr + uu * kl))
      /\ Cong(R, r + (uu * rl + ww * rr))  OBVIOUS
<1> HIDE DEF uu, ww
<1> DEFINE P1 == p + (uu * pl + ww * pr)
           Q1 == k + (ww * kr + uu * kl)
           R1 == r + (uu * rl + ww * rr)
<1>3. P1 \in Int /\ Q1 \in Int /\ R1 \in Int  BY <1>1
<1>4. R1 * c = r * c + (uu * (rl * c) + ww * (rr * c))  BY <1>1
<1>5. P1 + Q1 + R1 * c = (p + k + r * c) + (uu * (pl + kl + rl * c) + ww * (pr + kr + rr * c))
  BY <1>1
<1> HIDE DEF P1, Q1, R1
<1>6. Cong(P, P1) /\ Cong(Q, Q1) /\ Cong(R, R1)  BY <1>2 DEF P1, Q1, R1
<1>7. Cong(P + Q, P1 + Q1) /\ P + Q \in Int /\ P1 + Q1 \in Int  BY <1>3, <1>6, CongAdd
<1>8. Cong(c, c)  BY CongRefl
<1>9. Cong(R * c, R1 * c) /\ R * c \in Int /\ R1 * c \in Int  BY <1>3, <1>6, <1>8, CongMul
<1>10. Cong((P + Q) + R * c, (P1 + Q1) + R1 * c)  BY <1>7, <1>9, CongAdd
<1> QED BY <1>5, <1>10 DEF uu, ww

(* A round: vectors folded by u and w under coefficients folded by w and u *)
(* open what was opened, moved by the square of u times what the halves    *)
(* open crosswise and by that of w times the other way round.              *)
LEMMA OpensFold ==
  ASSUME NEW h \in Nat, NEW x, NEW y, NEW A, NEW B, NEW xf, NEW yf, NEW Af, NEW Bf,
         Ints(x, h + h), Ints(y, h + h), Ints(A, h + h), Ints(B, h + h),
         Ints(xf, h), Ints(yf, h), Ints(Af, h), Ints(Bf, h),
         NEW u \in Int, NEW w \in Int, Cong(u * w, 1), NEW c \in Int,
         Folded(xf, x, h, u, w), Folded(Af, A, h, w, u),
         Folded(yf, y, h, w, u), Folded(Bf, B, h, u, w)
  PROVE  Cong(Opens(xf, yf, Af, Bf, h, c),
              Opens(x, y, A, B, h + h, c)
                + (u * u * Opens(x, Drop(y, h, h), Drop(A, h, h), B, h, c)
                     + w * w * Opens(Drop(x, h, h), y, A, Drop(B, h, h), h, c)))
<1>0. Cong(w * u, 1)
  <2>1. w * u = u * w  OBVIOUS
  <2> QED BY <2>1
<1>1. /\ Dot(x, Drop(A, h, h), h) \in Int /\ Dot(Drop(x, h, h), A, h) \in Int
      /\ Dot(x, A, h + h) \in Int /\ Dot(xf, Af, h) \in Int
      /\ Cong(Dot(xf, Af, h),
              Dot(x, A, h + h) + (u * u * Dot(x, Drop(A, h, h), h) + w * w * Dot(Drop(x, h, h), A, h)))
  BY FoldDot
<1>2. /\ Dot(y, Drop(B, h, h), h) \in Int /\ Dot(Drop(y, h, h), B, h) \in Int
      /\ Dot(y, B, h + h) \in Int /\ Dot(yf, Bf, h) \in Int
      /\ Cong(Dot(yf, Bf, h),
              Dot(y, B, h + h) + (w * w * Dot(y, Drop(B, h, h), h) + u * u * Dot(Drop(y, h, h), B, h)))
  BY <1>0, FoldDot
<1>3. /\ Dot(x, Drop(y, h, h), h) \in Int /\ Dot(Drop(x, h, h), y, h) \in Int
      /\ Dot(x, y, h + h) \in Int /\ Dot(xf, yf, h) \in Int
      /\ Cong(Dot(xf, yf, h),
              Dot(x, y, h + h) + (u * u * Dot(x, Drop(y, h, h), h) + w * w * Dot(Drop(x, h, h), y, h)))
  BY FoldDot
<1> QED BY ZenonT(60), <1>1, <1>2, <1>3, OpensTerms DEF Opens

----------------------------------------------------------------------------
(* Lists of scalars and of points. *)

(* The list r is s, of k entries, with x after it. *)
Appends(r, s, x, k) ==
  /\ IsList(r, k + 1)
  /\ \A i \in 1 .. k : r[i] = s[i]
  /\ r[k + 1] = x

(* The entries of an appended list.                                        *)
LEMMA ListAppend ==
  ASSUME NEW k \in Nat, NEW s, IsList(s, k), NEW x
  PROVE  Appends(Append(s, x), s, x, k)
<1> DEFINE S == {s[j] : j \in 1 .. k} \cup {x}
           r == Append(s, x)
<1>1. s \in Seq(S) /\ Len(s) = k /\ x \in S  BY ListLength DEF IsList
<1> HIDE DEF S
<1>2. /\ r \in Seq(S) /\ Len(r) = k + 1
      /\ \A i \in 1 .. k : r[i] = s[i]
      /\ r[k + 1] = x
  BY <1>1, AppendProperties
<1> HIDE DEF r
<1>3. r \in [1 .. k + 1 -> S]  BY <1>2, LenProperties
<1>4. IsList(r, k + 1)  BY <1>3 DEF IsList
<1> QED BY <1>2, <1>4 DEF Appends, r

(* The first part of a list, and the rest of one, are lists. *)
LEMMA ListParts ==
  ASSUME NEW len \in Nat, NEW h \in 0 .. len, NEW s, IsList(s, len)
  PROVE  /\ IsList(Left(s, h), h)
         /\ \A i \in 1 .. h : Left(s, h)[i] = s[i]
         /\ IsList(Right(s, h), len - h)
         /\ \A i \in 1 .. len - h : Right(s, h)[i] = s[h + i]
<1> DEFINE S == {s[j] : j \in 1 .. len}
<1>1. s \in Seq(S) /\ Len(s) = len  BY ListLength DEF IsList
<1>2. ASSUME NEW lo \in Int, NEW hi \in Int, lo >= 1, hi <= len, lo <= hi + 1
      PROVE  /\ IsList(SubSeq(s, lo, hi), hi - lo + 1)
             /\ \A i \in 1 .. hi - lo + 1 : SubSeq(s, lo, hi)[i] = s[lo + i - 1]
  <2> DEFINE sub == SubSeq(s, lo, hi)
  <2>1. \A i \in lo .. hi : s[i] \in S  BY <1>2
  <2>2. /\ sub \in Seq(S) /\ Len(sub) = hi - lo + 1
        /\ \A i \in 1 .. hi - lo + 1 : sub[i] = s[lo + i - 1]
    BY <1>2, <2>1, SubSeqProperties
  <2> HIDE DEF sub, S
  <2>3. sub \in [1 .. hi - lo + 1 -> S]  BY <2>2, LenProperties
  <2>4. IsList(sub, hi - lo + 1)  BY <2>3 DEF IsList
  <2> QED  BY <2>2, <2>4 DEF sub
<1>3. /\ IsList(Left(s, h), h)
      /\ \A i \in 1 .. h : Left(s, h)[i] = s[i]
  BY <1>2 DEF Left
<1>4. /\ IsList(Right(s, h), len - h)
      /\ \A i \in 1 .. len - h : Right(s, h)[i] = s[h + i]
  BY <1>1, <1>2 DEF Right
<1> QED  BY <1>3, <1>4

(* The list s of 2h entries is l, then r. *)
Halves(s, l, r, h) ==
  /\ IsList(l, h) /\ IsList(r, h)
  /\ \A i \in 1 .. h : i \in 1 .. h + h /\ l[i] = s[i]
  /\ \A i \in 1 .. h : h + i \in 1 .. h + h /\ r[i] = s[h + i]

(* Left and Right are the halves.                                          *)
LEMMA ListHalves ==
  ASSUME NEW h \in Nat, NEW s, IsList(s, h + h)
  PROVE  Halves(s, Left(s, h), Right(s, h), h)
<1>1. h + h \in Nat /\ h \in 0 .. h + h /\ (h + h) - h = h  OBVIOUS
<1>2. /\ IsList(Left(s, h), h)
      /\ \A i \in 1 .. h : Left(s, h)[i] = s[i]
      /\ IsList(Right(s, h), (h + h) - h)
      /\ \A i \in 1 .. (h + h) - h : Right(s, h)[i] = s[h + i]
  BY <1>1, ListParts
<1>3. \A i \in 1 .. h : i \in 1 .. h + h /\ h + i \in 1 .. h + h  OBVIOUS
<1> HIDE DEF IsList
<1>4. IsList(Right(s, h), h) /\ \A i \in 1 .. h : Right(s, h)[i] = s[h + i]
  BY <1>1, <1>2
<1> QED BY <1>2, <1>3, <1>4 DEF Halves

(* The bases are points.                                                   *)
LEMMA GeneratorPoint ==
  /\ 0 \in Fq /\ 1 \in Fq
  /\ \A g \in Generators : Generator(g) \in Point
  /\ U \in Point /\ V \in Point
<1>1. 0 \in Fq /\ 1 \in Fq  BY PrimeAssumption DEF Fq
<1>2. \A g \in Generators : Generator(g) \in Point  BY <1>1 DEF Generator, Identity, Point
<1>3. <<"U", 0>> \in Generators /\ <<"V", 0>> \in Generators  BY DEF Generators
<1> QED BY <1>1, <1>2, <1>3 DEF U, V

(* A multi-scalar multiplication whose terms come in three lists. *)
LEMMA MsmThree ==
  ASSUME NEW k \in Nat, NEW l \in Nat, NEW m \in Nat,
         NEW s, NEW t, NEW r, NEW bs, NEW bt, NEW br,
         Scalars(s, k), Scalars(t, l), Scalars(r, m),
         Points(bs, k), Points(bt, l), Points(br, m)
  PROVE  LET X == Msm(s \o t \o r, bs \o bt \o br)
             at(g) == MDot(s, bs, g, k) + MDot(t, bt, g, l) + MDot(r, br, g, m)
         IN  /\ X \in Point
             /\ \A g \in Generators : at(g) \in Int /\ Cong(X[g], at(g))
<1> DEFINE X == Msm(s \o t \o r, bs \o bt \o br)
<1>1. TermsJoined(s, t, bs, bt, k, l)  BY MDotJoin
<1>2. TermsJoined(s \o t, r, bs \o bt, br, k + l, m)
  <2> DEFINE st == s \o t
             bb == bs \o bt
             kl == k + l
  <2>1. kl \in Nat /\ Scalars(st, kl) /\ Points(bb, kl)  BY <1>1 DEF TermsJoined
  <2> HIDE DEF st, bb, kl
  <2>2. TermsJoined(st, r, bb, br, kl, m)  BY <2>1, MDotJoin
  <2> QED BY <2>2 DEF st, bb, kl
<1>3. X \in Point  BY <1>2, MsmPoint DEF TermsJoined
<1>4. ASSUME NEW g \in Generators
      PROVE  /\ MDot(s, bs, g, k) + MDot(t, bt, g, l) + MDot(r, br, g, m) \in Int
             /\ Cong(X[g], MDot(s, bs, g, k) + MDot(t, bt, g, l) + MDot(r, br, g, m))
  <2>1. /\ MDot((s \o t) \o r, (bs \o bt) \o br, g, (k + l) + m) \in Int
        /\ Cong(X[g], MDot((s \o t) \o r, (bs \o bt) \o br, g, (k + l) + m))
    BY <1>2, MDotInt DEF TermsJoined
  <2> HIDE DEF X
  <2> QED BY <1>1, <1>2, <2>1 DEF TermsJoined
<1> HIDE DEF X
<1> QED BY <1>3, <1>4 DEF X

----------------------------------------------------------------------------
(* A list of k elements of the field. *)
FieldList(s, k) == IsList(s, k) /\ \A i \in 1 .. k : s[i] \in Fq

(* A list of scalars is one of integers.                                   *)
LEMMA FieldScalars ==
  ASSUME NEW k \in Nat, NEW s, FieldList(s, k)
  PROVE  Scalars(s, k)
BY DEF FieldList, Scalars, Ints, Fq

(* The claim is moved by one L for each square of a challenge and one R    *)
(* for each inverse square.                                                *)
Moved(C, us, L, R, k, g) ==
  C[g] + Dot(Squares(us), At(L, g, k), k) + Dot(Squares(BatchInvert(us)), At(R, g, k), k)

(* BatchInvert inverts each scalar that is not zero.                       *)
LEMMA BatchInvertList ==
  ASSUME NEW k \in Nat, NEW us, FieldList(us, k)
  PROVE  /\ FieldList(BatchInvert(us), k)
         /\ \A i \in 1 .. k : us[i] # 0 => BatchInvert(us)[i] = Inv(us[i])
<1>1. DOMAIN us = 1 .. k  BY DEF FieldList, IsList
<1>2. BatchInvert(us) = [i \in 1 .. k |-> IF us[i] = 0 THEN 0 ELSE Inv(us[i])]
  BY <1>1 DEF BatchInvert
<1>3. \A i \in 1 .. k : us[i] # 0 => Inv(us[i]) \in Fq  BY InvLaw DEF FieldList
<1>4. \A i \in 1 .. k : BatchInvert(us)[i] = IF us[i] = 0 THEN 0 ELSE Inv(us[i])  BY <1>2
<1>5. \A i \in 1 .. k : BatchInvert(us)[i] \in Fq  BY <1>3, <1>4, GeneratorPoint
<1>6. IsList(BatchInvert(us), k)  BY <1>2 DEF IsList
<1> QED BY <1>4, <1>5, <1>6 DEF FieldList

(* Squares squares each.                                                   *)
LEMMA SquaresList ==
  ASSUME NEW k \in Nat, NEW us, FieldList(us, k)
  PROVE  /\ FieldList(Squares(us), k)
         /\ \A i \in 1 .. k : /\ Squares(us)[i] = (us[i] * us[i]) % q
                              /\ Cong(Squares(us)[i], us[i] * us[i])
<1>1. DOMAIN us = 1 .. k  BY DEF FieldList, IsList
<1>2. Squares(us) = [i \in 1 .. k |-> (us[i] * us[i]) % q]
  BY <1>1 DEF Squares, ComponentWiseMul
<1>3. \A i \in 1 .. k : us[i] * us[i] \in Int  BY DEF FieldList, Fq
<1>4. \A i \in 1 .. k : (us[i] * us[i]) % q \in Fq /\ Cong((us[i] * us[i]) % q, us[i] * us[i])
  BY <1>3, ModCong
<1>5. \A i \in 1 .. k : Squares(us)[i] = (us[i] * us[i]) % q  BY <1>2
<1>6. IsList(Squares(us), k)  BY <1>2 DEF IsList
<1> QED BY <1>4, <1>5, <1>6 DEF FieldList

(* The coefficients of the MSM that moves a claim by L and R.              *)
LEMMA MovedAt ==
  ASSUME NEW k \in Nat, NEW us, FieldList(us, k), NEW L, NEW R, Points(L, k), Points(R, k),
         NEW C \in Point
  PROVE  LET X == Msm(<<1>> \o Squares(us) \o Squares(BatchInvert(us)), <<C>> \o L \o R)
         IN  /\ X \in Point
             /\ \A g \in Generators : /\ Moved(C, us, L, R, k, g) \in Int
                                      /\ Cong(X[g], Moved(C, us, L, R, k, g))
<1> DEFINE s == Squares(us)
           t == Squares(BatchInvert(us))
           X == Msm(<<1>> \o s \o t, <<C>> \o L \o R)
<1>1. Scalars(s, k) /\ Scalars(t, k)  BY BatchInvertList, SquaresList, FieldScalars
<1>2. 1 \in Int  OBVIOUS
<1>3. /\ Scalars(<<1>>, 1) /\ Points(<<C>>, 1)
      /\ \A g \in Generators : MDot(<<1>>, <<C>>, g, 1) = 1 * C[g]
  BY <1>2, MsmOne
<1>4. \A g \in Generators : 1 * C[g] = C[g]  BY CoefficientInt
<1>5. \A g \in Generators : Moved(C, us, L, R, k, g) =
                              MDot(<<1>>, <<C>>, g, 1) + MDot(s, L, g, k) + MDot(t, R, g, k)
  BY <1>3, <1>4 DEF Moved, MDot
<1>6. 1 \in Nat  OBVIOUS
<1> HIDE DEF s, t
<1>7. /\ X \in Point
      /\ \A g \in Generators :
           /\ MDot(<<1>>, <<C>>, g, 1) + MDot(s, L, g, k) + MDot(t, R, g, k) \in Int
           /\ Cong(X[g], MDot(<<1>>, <<C>>, g, 1) + MDot(s, L, g, k) + MDot(t, R, g, k))
  BY <1>1, <1>3, <1>6, MsmThree
<1> HIDE DEF X
<1> QED BY <1>5, <1>7 DEF X, s, t

(* Before the first round nothing has moved it. *)
LEMMA MovedNone ==
  ASSUME NEW us, NEW L, NEW R, NEW C \in Point, NEW g \in Generators
  PROVE  Moved(C, us, L, R, 0, g) = C[g]
BY DotZero, CoefficientInt DEF Moved

(* A round moves it by its own L and R. *)
LEMMA MovedNext ==
  ASSUME NEW k \in Nat, NEW us, FieldList(us, k), NEW L, NEW R, Points(L, k), Points(R, k),
         NEW C \in Point, NEW u \in Fq, u # 0, NEW X \in Point, NEW Y \in Point,
         NEW vs, NEW LX, NEW RY,
         Appends(vs, us, u, k), Appends(LX, L, X, k), Appends(RY, R, Y, k),
         NEW g \in Generators
  PROVE  /\ FieldList(vs, k + 1) /\ Points(LX, k + 1) /\ Points(RY, k + 1)
         /\ Moved(C, us, L, R, k, g) \in Int
         /\ Moved(C, vs, LX, RY, k + 1, g) \in Int
         /\ Cong(Moved(C, vs, LX, RY, k + 1, g),
                 Moved(C, us, L, R, k, g) + (u * u * X[g] + Inv(u) * Inv(u) * Y[g]))
<1> DEFINE s == Squares(us)
           t == Squares(BatchInvert(us))
           s1 == Squares(vs)
           t1 == Squares(BatchInvert(vs))
           i == Inv(u)
           Lg == At(L, g, k)
           Rg == At(R, g, k)
           L1 == At(LX, g, k + 1)
           R1 == At(RY, g, k + 1)
<1>1. \A j \in 1 .. k + 1 : j \in 1 .. k \/ j = k + 1  OBVIOUS
<1>2. FieldList(vs, k + 1)  BY <1>1 DEF FieldList, Appends
<1>3. Points(LX, k + 1) /\ Points(RY, k + 1)  BY <1>1 DEF Points, Appends
<1>4. i \in Fq /\ i \in Int /\ u \in Int  BY InvLaw
<1>5. k + 1 \in Nat  OBVIOUS
<1>6. \A j \in 1 .. k : vs[j] = us[j]  BY DEF Appends
<1>7. vs[k + 1] = u  BY DEF Appends
<1>8. /\ FieldList(s, k) /\ FieldList(t, k) /\ FieldList(BatchInvert(us), k)
      /\ \A j \in 1 .. k : s[j] = (us[j] * us[j]) % q
      /\ \A j \in 1 .. k : t[j] = (BatchInvert(us)[j] * BatchInvert(us)[j]) % q
  BY BatchInvertList, SquaresList
<1>9. /\ FieldList(s1, k + 1) /\ FieldList(t1, k + 1) /\ FieldList(BatchInvert(vs), k + 1)
      /\ \A j \in 1 .. k + 1 : s1[j] = (vs[j] * vs[j]) % q
      /\ \A j \in 1 .. k + 1 : t1[j] = (BatchInvert(vs)[j] * BatchInvert(vs)[j]) % q
      /\ Cong(s1[k + 1], vs[k + 1] * vs[k + 1])
      /\ Cong(t1[k + 1], BatchInvert(vs)[k + 1] * BatchInvert(vs)[k + 1])
  BY <1>2, <1>5, BatchInvertList, SquaresList
<1>10. \A j \in 1 .. k : BatchInvert(vs)[j] = BatchInvert(us)[j]
  <2>1. DOMAIN us = 1 .. k  BY DEF FieldList, IsList
  <2>2. DOMAIN vs = 1 .. k + 1  BY <1>2 DEF FieldList, IsList
  <2> QED BY <1>6, <2>1, <2>2 DEF BatchInvert
<1>11. BatchInvert(vs)[k + 1] = i  BY <1>2, <1>5, <1>7, BatchInvertList
<1>12. \A j \in 1 .. k : j \in 1 .. k + 1  OBVIOUS
<1>13. \A j \in 1 .. k : s1[j] = s[j] /\ t1[j] = t[j]
  BY <1>6, <1>8, <1>9, <1>10, <1>12
<1>14. \A j \in 1 .. k : L1[j] = Lg[j] /\ R1[j] = Rg[j]  BY <1>12 DEF At, Appends
<1>15. L1[k + 1] = X[g] /\ R1[k + 1] = Y[g]  BY DEF At, Appends
<1>16. Ints(L1, k + 1) /\ Ints(R1, k + 1) /\ Ints(Lg, k) /\ Ints(Rg, k)
  BY <1>3, <1>5, AtInts
<1>17. Ints(s, k) /\ Ints(t, k) /\ Ints(s1, k + 1) /\ Ints(t1, k + 1)
  BY <1>5, <1>8, <1>9, FieldScalars DEF Scalars
<1>18. X[g] \in Int /\ Y[g] \in Int /\ C[g] \in Int  BY CoefficientInt
<1>19. Moved(C, us, L, R, k, g) = C[g] + Dot(s, Lg, k) + Dot(t, Rg, k)  BY DEF Moved
<1>20. Moved(C, vs, LX, RY, k + 1, g) = C[g] + Dot(s1, L1, k + 1) + Dot(t1, R1, k + 1)
  BY DEF Moved
<1> HIDE DEF s, t, s1, t1, i, Lg, Rg, L1, R1
<1>21. Cong(s1[k + 1], u * u) /\ Cong(t1[k + 1], i * i)  BY <1>7, <1>9, <1>11
<1>22. s1[k + 1] \in Int /\ t1[k + 1] \in Int  BY <1>17 DEF Ints
<1>23. /\ Dot(s1, L1, k) = Dot(s, Lg, k) /\ Dot(s, Lg, k) \in Int
       /\ Dot(t1, R1, k) = Dot(t, Rg, k) /\ Dot(t, Rg, k) \in Int
  <2>1. Ints(s1, k) /\ Ints(t1, k) /\ Ints(L1, k) /\ Ints(R1, k)
    BY <1>12, <1>16, <1>17 DEF Ints
  <2> QED BY <1>13, <1>14, <1>16, <1>17, <2>1, DotSame, DotInt
<1>24. /\ Dot(s1, L1, k + 1) = Dot(s, Lg, k) + s1[k + 1] * X[g]
       /\ Dot(t1, R1, k + 1) = Dot(t, Rg, k) + t1[k + 1] * Y[g]
  BY <1>15, <1>16, <1>17, <1>23, DotNext
<1> DEFINE m == Moved(C, us, L, R, k, g)
           Sx == s1[k + 1] * X[g]
           Ty == t1[k + 1] * Y[g]
           Ux == (u * u) * X[g]
           Iy == (i * i) * Y[g]
<1>25. m \in Int /\ m = C[g] + Dot(s, Lg, k) + Dot(t, Rg, k)  BY <1>18, <1>19, <1>23
<1>26. Sx \in Int /\ Ty \in Int /\ Ux \in Int /\ Iy \in Int  BY <1>4, <1>18, <1>22
<1>27. Moved(C, vs, LX, RY, k + 1, g) = m + (Sx + Ty)
  BY <1>18, <1>20, <1>23, <1>24, <1>25, <1>26
<1>28. Cong(Sx, Ux) /\ Cong(Ty, Iy)
  <2>1. Cong(X[g], X[g]) /\ Cong(Y[g], Y[g])  BY <1>18, CongRefl
  <2>2. u * u \in Int /\ i * i \in Int  BY <1>4
  <2> QED BY <1>18, <1>21, <1>22, <2>1, <2>2, CongMul
<1> HIDE DEF m, Sx, Ty, Ux, Iy
<1>29. Cong(Sx + Ty, Ux + Iy) /\ Sx + Ty \in Int /\ Ux + Iy \in Int  BY <1>26, <1>28, CongAdd
<1>30. Cong(m, m)  BY <1>25, CongRefl
<1>31. Cong(m + (Sx + Ty), m + (Ux + Iy))  BY <1>25, <1>29, <1>30, CongAdd
<1>32. Cong(Moved(C, vs, LX, RY, k + 1, g), m + (Ux + Iy))  BY <1>27, <1>31
<1>33. Moved(C, vs, LX, RY, k + 1, g) \in Int  BY <1>25, <1>27, <1>29
<1> QED BY <1>2, <1>3, <1>25, <1>32, <1>33 DEF m, Ux, Iy, i

----------------------------------------------------------------------------
(* Points with congruent coefficients are the same. *)
LEMMA PointsEqual ==
  ASSUME NEW X \in Point, NEW Y \in Point, \A g \in Generators : Cong(X[g], Y[g])
  PROVE  X = Y
<1>1. \A g \in Generators : X[g] \in Fq /\ Y[g] \in Fq  BY DEF Point
<1>2. \A g \in Generators : X[g] = Y[g]  BY <1>1, CongEqual
<1> QED BY <1>2 DEF Point

(* Vectors folded by l and r. *)
LEMMA FoldedVector ==
  ASSUME NEW h \in Nat, NEW v, FieldList(v, h + h), NEW l \in Int, NEW r \in Int
  PROVE  LET z == [i \in 1 .. h |-> (l * v[i] + r * v[h + i]) % q]
         IN  FieldList(z, h) /\ Folded(z, v, h, l, r)
<1> DEFINE z == [i \in 1 .. h |-> (l * v[i] + r * v[h + i]) % q]
<1>1. ASSUME NEW i \in 1 .. h
      PROVE  z[i] \in Fq /\ Cong(z[i], l * v[i] + r * Drop(v, h, h)[i])
  <2>1. i \in 1 .. h + h /\ h + i \in 1 .. h + h  OBVIOUS
  <2>2. v[i] \in Int /\ v[h + i] \in Int  BY <2>1 DEF FieldList, Fq
  <2>3. l * v[i] + r * v[h + i] \in Int  BY <2>2
  <2>4. Drop(v, h, h)[i] = v[h + i]  BY DEF Drop
  <2>5. z[i] = (l * v[i] + r * v[h + i]) % q  OBVIOUS
  <2> HIDE DEF z
  <2> QED BY <2>3, <2>4, <2>5, ModCong
<1>2. IsList(z, h)  BY DEF IsList
<1> HIDE DEF z
<1>3. FieldList(z, h) /\ Folded(z, v, h, l, r)  BY <1>1, <1>2 DEF FieldList, Folded
<1> QED BY <1>3 DEF z

(* Bases folded by l and r: each new one is l of one and r of another. *)
LEMMA FoldedBases ==
  ASSUME NEW h \in Nat, NEW B, Points(B, h + h), NEW l \in Int, NEW r \in Int
  PROVE  LET Z == [i \in 1 .. h |-> Msm(<<l, r>>, <<B[i], B[h + i]>>)]
         IN  /\ Points(Z, h)
             /\ \A g \in Generators : Folded(At(Z, g, h), At(B, g, h + h), h, l, r)
<1> DEFINE Z == [i \in 1 .. h |-> Msm(<<l, r>>, <<B[i], B[h + i]>>)]
<1>1. \A i \in 1 .. h : i \in 1 .. h + h /\ h + i \in 1 .. h + h  OBVIOUS
<1>2. \A i \in 1 .. h : B[i] \in Point /\ B[h + i] \in Point  BY <1>1 DEF Points
<1>3. ASSUME NEW i \in 1 .. h
      PROVE  /\ Z[i] \in Point
             /\ \A g \in Generators : /\ B[i][g] \in Int /\ B[h + i][g] \in Int
                                      /\ Z[i][g] = (l * B[i][g] + r * B[h + i][g]) % q
  <2>1. Z[i] = Msm(<<l, r>>, <<B[i], B[h + i]>>)  OBVIOUS
  <2> HIDE DEF Z
  <2> QED BY <1>2, <2>1, MsmTwo, CoefficientInt
<1>4. IsList(Z, h)  BY DEF IsList
<1> HIDE DEF Z
<1>5. Points(Z, h)  BY <1>3, <1>4 DEF Points
<1>6. ASSUME NEW g \in Generators PROVE Folded(At(Z, g, h), At(B, g, h + h), h, l, r)
  <2>1. ASSUME NEW i \in 1 .. h
        PROVE  Cong(At(Z, g, h)[i], l * At(B, g, h + h)[i] + r * Drop(At(B, g, h + h), h, h)[i])
    <3>1. l * B[i][g] + r * B[h + i][g] \in Int  BY <1>3
    <3>2. Cong(Z[i][g], l * B[i][g] + r * B[h + i][g])  BY <1>3, <3>1, ModCong
    <3>3. /\ At(Z, g, h)[i] = Z[i][g] /\ At(B, g, h + h)[i] = B[i][g]
          /\ Drop(At(B, g, h + h), h, h)[i] = B[h + i][g]
      BY <1>1 DEF At, Drop
    <3> QED BY <3>2, <3>3
  <2> QED BY <2>1 DEF Folded
<1> QED BY <1>5, <1>6 DEF Z

(* A commitment to two vectors and their inner product. *)
LEMMA OpensAt ==
  ASSUME NEW k \in Nat, NEW x, NEW y, NEW A, NEW B,
         FieldList(x, k), FieldList(y, k), Points(A, k), Points(B, k)
  PROVE  LET X == Msm(x \o y \o <<InnerProduct(x, y)>>, A \o B \o <<U>>)
             at(g) == Opens(x, y, At(A, g, k), At(B, g, k), k, U[g])
         IN  X \in Point /\ \A g \in Generators : at(g) \in Int /\ Cong(X[g], at(g))
<1> DEFINE ip == InnerProduct(x, y)
           X == Msm(x \o y \o <<ip>>, A \o B \o <<U>>)
           at(g) == Opens(x, y, At(A, g, k), At(B, g, k), k, U[g])
<1>1. Scalars(x, k) /\ Scalars(y, k) /\ Ints(x, k) /\ Ints(y, k)
  BY FieldScalars DEF Scalars
<1>2. Dot(x, y, k) \in Int /\ ip = Dot(x, y, k) % q  BY <1>1, InnerProductIs
<1> HIDE DEF ip
<1>3. ip \in Int /\ Cong(ip, Dot(x, y, k))
  <2>1. ip \in Fq /\ Cong(ip, Dot(x, y, k))  BY <1>2, ModCong
  <2> QED BY <2>1 DEF Fq
<1>4. U \in Point  BY GeneratorPoint
<1>5. /\ Scalars(<<ip>>, 1) /\ Points(<<U>>, 1)
      /\ \A g \in Generators : MDot(<<ip>>, <<U>>, g, 1) = ip * U[g]
  BY <1>3, <1>4, MsmOne
<1>6. 1 \in Nat  OBVIOUS
<1>7. /\ X \in Point
      /\ \A g \in Generators :
           /\ MDot(x, A, g, k) + MDot(y, B, g, k) + MDot(<<ip>>, <<U>>, g, 1) \in Int
           /\ Cong(X[g], MDot(x, A, g, k) + MDot(y, B, g, k) + MDot(<<ip>>, <<U>>, g, 1))
  BY <1>1, <1>5, <1>6, MsmThree
<1>8. ASSUME NEW g \in Generators PROVE at(g) \in Int /\ Cong(X[g], at(g))
  <2> DEFINE p == MDot(x, A, g, k)
             r == MDot(y, B, g, k)
             d == Dot(x, y, k)
             c == U[g]
  <2>1. p \in Int /\ r \in Int /\ c \in Int /\ d \in Int
    BY <1>1, <1>2, <1>4, MDotInt, CoefficientInt
  <2>2. X[g] \in Int  BY <1>7, CoefficientInt
  <2>3. at(g) = p + r + d * c  BY DEF Opens, MDot
  <2>4. Cong(X[g], p + r + ip * c)  BY <1>5, <1>7
  <2> HIDE DEF p, r, d, c, at, X
  <2>5. Cong(ip * c, d * c)
    <3>1. Cong(c, c)  BY <2>1, CongRefl
    <3>2. Cong(ip, d)  BY <1>3 DEF d
    <3> QED BY <1>3, <2>1, <3>1, <3>2, CongMul
  <2>6. ip * c \in Int /\ d * c \in Int /\ p + r \in Int  BY <1>3, <2>1
  <2>7. Cong(p + r, p + r)  BY <2>6, CongRefl
  <2>8. Cong((p + r) + ip * c, (p + r) + d * c)  BY <2>5, <2>6, <2>7, CongAdd
  <2>9. (p + r) + ip * c \in Int /\ (p + r) + d * c \in Int  BY <2>6
  <2> QED BY <2>2, <2>3, <2>4, <2>8, <2>9, CongTrans
<1> HIDE DEF X, at
<1>9. X \in Point /\ \A g \in Generators : at(g) \in Int /\ Cong(X[g], at(g))
  BY <1>7, <1>8
<1> QED BY <1>9 DEF X, at, ip

(* The vectors and bases of a round, and those of the next. *)
RoundFolds(x, y, A, B, xf, yf, Af, Bf, h, u, w) ==
  /\ FieldList(x, h + h) /\ FieldList(y, h + h) /\ Points(A, h + h) /\ Points(B, h + h)
  /\ FieldList(xf, h) /\ FieldList(yf, h) /\ Points(Af, h) /\ Points(Bf, h)
  /\ Folded(xf, x, h, u, w) /\ Folded(yf, y, h, w, u)
  /\ \A g \in Generators : /\ Folded(At(Af, g, h), At(A, g, h + h), h, w, u)
                           /\ Folded(At(Bf, g, h), At(B, g, h + h), h, u, w)

(* A round moves what is opened by what its L and R open.                  *)
LEMMA OpensRound ==
  ASSUME NEW h \in Nat, NEW x, NEW y, NEW A, NEW B, NEW xf, NEW yf, NEW Af, NEW Bf,
         NEW u \in Fq, u # 0, RoundFolds(x, y, A, B, xf, yf, Af, Bf, h, u, Inv(u)),
         NEW xl, NEW xr, NEW yl, NEW yr, NEW Al, NEW Ar, NEW Bl, NEW Br,
         Halves(x, xl, xr, h), Halves(y, yl, yr, h), Halves(A, Al, Ar, h), Halves(B, Bl, Br, h),
         NEW g \in Generators
  PROVE  LET lo == Opens(xl, yr, At(Ar, g, h), At(Bl, g, h), h, U[g])
             ro == Opens(xr, yl, At(Al, g, h), At(Br, g, h), h, U[g])
         IN  /\ lo \in Int /\ ro \in Int
             /\ Cong(Opens(xf, yf, At(Af, g, h), At(Bf, g, h), h, U[g]),
                     Opens(x, y, At(A, g, h + h), At(B, g, h + h), h + h, U[g])
                       + (u * u * lo + Inv(u) * Inv(u) * ro))
<1> DEFINE w == Inv(u)
           c == U[g]
           Ag == At(A, g, h + h)
           Bg == At(B, g, h + h)
           Afg == At(Af, g, h)
           Bfg == At(Bf, g, h)
           lo == Opens(xl, yr, At(Ar, g, h), At(Bl, g, h), h, c)
           ro == Opens(xr, yl, At(Al, g, h), At(Br, g, h), h, c)
           lo1 == Opens(x, Drop(y, h, h), Drop(Ag, h, h), Bg, h, c)
           ro1 == Opens(Drop(x, h, h), y, Ag, Drop(Bg, h, h), h, c)
<1>1. w \in Int /\ u \in Int /\ Cong(u * w, 1)  BY InvLaw
<1>2. c \in Int  BY GeneratorPoint, CoefficientInt
<1>3. h + h \in Nat  OBVIOUS
<1>4. Ints(x, h + h) /\ Ints(y, h + h) /\ Ints(xf, h) /\ Ints(yf, h)
  BY <1>3, FieldScalars DEF RoundFolds, Scalars
<1>5. Ints(Ag, h + h) /\ Ints(Bg, h + h) /\ Ints(Afg, h) /\ Ints(Bfg, h)
  BY <1>3, AtInts DEF RoundFolds
<1>6. /\ Folded(xf, x, h, u, w) /\ Folded(yf, y, h, w, u)
      /\ Folded(Afg, Ag, h, w, u) /\ Folded(Bfg, Bg, h, u, w)
  BY DEF RoundFolds
<1>7. \A i \in 1 .. h : i \in 1 .. h + h /\ h + i \in 1 .. h + h  OBVIOUS
<1>8. lo1 = lo /\ lo1 \in Int
  <2>1. /\ SameTo(x, xl, h) /\ SameTo(Drop(y, h, h), yr, h)
        /\ SameTo(Drop(Ag, h, h), At(Ar, g, h), h) /\ SameTo(Bg, At(Bl, g, h), h)
    BY <1>7 DEF Halves, Drop, At, SameTo
  <2>2. Ints(x, h) /\ Ints(Bg, h)  BY <1>4, <1>5, <1>7 DEF Ints
  <2>3. Ints(Drop(y, h, h), h) /\ Ints(Drop(Ag, h, h), h)  BY <1>4, <1>5, <1>7 DEF Ints, Drop
  <2> HIDE DEF Ag, Bg, c
  <2>4. Opens(x, Drop(y, h, h), Drop(Ag, h, h), Bg, h, c) \in Int
    BY <1>2, <2>2, <2>3, OpensInt
  <2>5. Opens(x, Drop(y, h, h), Drop(Ag, h, h), Bg, h, c)
          = Opens(xl, yr, At(Ar, g, h), At(Bl, g, h), h, c)
    BY <1>2, <2>1, <2>2, <2>3, OpensSame
  <2> QED BY <2>4, <2>5
<1>9. ro1 = ro /\ ro1 \in Int
  <2>1. /\ SameTo(Drop(x, h, h), xr, h) /\ SameTo(y, yl, h)
        /\ SameTo(Ag, At(Al, g, h), h) /\ SameTo(Drop(Bg, h, h), At(Br, g, h), h)
    BY <1>7 DEF Halves, Drop, At, SameTo
  <2>2. Ints(y, h) /\ Ints(Ag, h)  BY <1>4, <1>5, <1>7 DEF Ints
  <2>3. Ints(Drop(x, h, h), h) /\ Ints(Drop(Bg, h, h), h)  BY <1>4, <1>5, <1>7 DEF Ints, Drop
  <2> HIDE DEF Ag, Bg, c
  <2>4. Opens(Drop(x, h, h), y, Ag, Drop(Bg, h, h), h, c) \in Int
    BY <1>2, <2>2, <2>3, OpensInt
  <2>5. Opens(Drop(x, h, h), y, Ag, Drop(Bg, h, h), h, c)
          = Opens(xr, yl, At(Al, g, h), At(Br, g, h), h, c)
    BY <1>2, <2>1, <2>2, <2>3, OpensSame
  <2> QED BY <2>4, <2>5
<1>10. Cong(Opens(xf, yf, Afg, Bfg, h, c), Opens(x, y, Ag, Bg, h + h, c) + (u * u * lo1 + w * w * ro1))
  <2> HIDE DEF Ag, Bg, Afg, Bfg, c, w
  <2> QED BY <1>1, <1>2, <1>4, <1>5, <1>6, OpensFold
<1> HIDE DEF lo1, ro1
<1>11. Cong(Opens(xf, yf, Afg, Bfg, h, c), Opens(x, y, Ag, Bg, h + h, c) + (u * u * lo + w * w * ro))
  BY <1>8, <1>9, <1>10
<1> QED BY <1>8, <1>9, <1>11

----------------------------------------------------------------------------
(* Each base times its factor. *)
LEMMA ScaledPoints ==
  ASSUME NEW k \in Nat, NEW B, Points(B, k), NEW f, FieldList(f, k)
  PROVE  LET Z == [i \in 1 .. k |-> Msm(<<f[i]>>, <<B[i]>>)]
         IN  /\ Points(Z, k)
             /\ \A i \in 1 .. k : \A g \in Generators : Z[i][g] = (f[i] * B[i][g]) % q
<1> DEFINE Z == [i \in 1 .. k |-> Msm(<<f[i]>>, <<B[i]>>)]
<1>1. ASSUME NEW i \in 1 .. k
      PROVE  Z[i] \in Point /\ \A g \in Generators : Z[i][g] = (f[i] * B[i][g]) % q
  <2>1. f[i] \in Int /\ B[i] \in Point  BY DEF FieldList, Points, Fq
  <2>2. Z[i] = Msm(<<f[i]>>, <<B[i]>>)  OBVIOUS
  <2> DEFINE x == f[i]
             X == B[i]
  <2>3. x \in Int /\ X \in Point  BY <2>1
  <2> HIDE DEF Z, x, X
  <2>4. /\ Msm(<<x>>, <<X>>) \in Point
        /\ \A g \in Generators : Msm(<<x>>, <<X>>)[g] = (x * X[g]) % q
    BY <2>3, MsmOne
  <2> QED BY <2>2, <2>4 DEF x, X
<1>2. IsList(Z, k)  BY DEF IsList
<1> HIDE DEF Z
<1>3. Points(Z, k)  BY <1>1, <1>2 DEF Points
<1> QED BY <1>1, <1>3 DEF Z

(* The bases of a length are points.                                       *)
LEMMA BasesPoints ==
  ASSUME NEW k \in Nat, k <= N
  PROVE  Points(BasesG(k), k) /\ Points(BasesH(k), k)
<1>1. \A i \in 1 .. k : i \in 1 .. N  BY BasesAssumption
<1>2. \A i \in 1 .. k : <<"G", i>> \in Generators /\ <<"H", i>> \in Generators
  BY <1>1 DEF Generators
<1>3. \A i \in 1 .. k : Generator(<<"G", i>>) \in Point /\ Generator(<<"H", i>>) \in Point
  BY <1>2, GeneratorPoint
<1> QED BY <1>3 DEF BasesG, BasesH, Points, IsList

(* Scalars times factors over the bases, and scalars over the bases times  *)
(* factors.                                                                *)
LEMMA ScaledDot ==
  ASSUME NEW k \in Nat, NEW x, FieldList(x, k), NEW f, FieldList(f, k), NEW B, Points(B, k)
  PROVE  LET Z == [i \in 1 .. k |-> Msm(<<f[i]>>, <<B[i]>>)]
         IN  /\ FieldList(ComponentWiseMul(x, f), k)
             /\ \A g \in Generators : /\ Dot(x, At(Z, g, k), k) \in Int
                                      /\ Cong(MDot(ComponentWiseMul(x, f), B, g, k),
                                              Dot(x, At(Z, g, k), k))
<1> DEFINE Z == [i \in 1 .. k |-> Msm(<<f[i]>>, <<B[i]>>)]
           xf == ComponentWiseMul(x, f)
<1>1. /\ Points(Z, k)
      /\ \A i \in 1 .. k : \A g \in Generators : Z[i][g] = (f[i] * B[i][g]) % q
  BY SMTT(60), ScaledPoints
<1> HIDE DEF Z
<1>2. \A i \in 1 .. k : x[i] \in Int /\ f[i] \in Int /\ x[i] * f[i] \in Int
  BY DEF FieldList, Fq
<1>3. xf = [i \in 1 .. k |-> (x[i] * f[i]) % q]
  BY DEF ComponentWiseMul, FieldList, IsList
<1>4. \A i \in 1 .. k : /\ xf[i] = (x[i] * f[i]) % q
                        /\ xf[i] \in Fq /\ Cong(xf[i], x[i] * f[i])
  BY <1>2, <1>3, ModCong
<1>5. FieldList(xf, k)  BY <1>3, <1>4 DEF FieldList, IsList
<1>6. Ints(x, k) /\ Ints(xf, k)  BY <1>5, FieldScalars DEF Scalars
<1> HIDE DEF xf
<1>7. ASSUME NEW g \in Generators
      PROVE  /\ Dot(x, At(Z, g, k), k) \in Int
             /\ Cong(Dot(xf, At(B, g, k), k), Dot(x, At(Z, g, k), k))
  <2>1. Ints(At(Z, g, k), k) /\ Ints(At(B, g, k), k)  BY <1>1, AtInts
  <2>2. ASSUME NEW i \in 1 .. k
        PROVE  Cong(xf[i] * At(B, g, k)[i], x[i] * At(Z, g, k)[i])
    <3> DEFINE xi == x[i]
               fi == f[i]
               Bi == B[i][g]
               yi == xf[i]
               zi == Z[i][g]
    <3>1. xi \in Int /\ fi \in Int /\ yi \in Int /\ Cong(yi, xi * fi)
      BY <1>2, <1>4, <1>6 DEF Ints
    <3>2. Bi \in Int /\ zi = (fi * Bi) % q
      BY <1>1, CoefficientInt DEF Points
    <3> HIDE DEF xi, fi, Bi, yi, zi
    <3>3. fi * Bi \in Int /\ xi * fi \in Int  BY <3>1, <3>2
    <3>4. zi \in Fq /\ Cong(zi, fi * Bi)  BY <3>2, <3>3, ModCong
    <3>5. zi \in Int  BY <3>4 DEF Fq
    <3>6. Cong(Bi, Bi) /\ Cong(xi, xi)  BY <3>1, <3>2, CongRefl
    <3>7. Cong(yi * Bi, (xi * fi) * Bi)  BY <3>1, <3>2, <3>3, <3>6, CongMul
    <3>8. Cong(xi * zi, xi * (fi * Bi))  BY <3>1, <3>3, <3>4, <3>5, <3>6, CongMul
    <3>9. (xi * fi) * Bi = xi * (fi * Bi)  BY <3>1, <3>2
    <3>10. yi * Bi \in Int /\ xi * zi \in Int /\ xi * (fi * Bi) \in Int
      BY <3>1, <3>2, <3>3, <3>5
    <3>11. Cong(xi * (fi * Bi), xi * zi)  BY <3>8, <3>10, CongSym
    <3>12. Cong(yi * Bi, xi * (fi * Bi))  BY <3>7, <3>9
    <3>13. Cong(yi * Bi, xi * zi)  BY <3>10, <3>11, <3>12, CongTrans
    <3>14. At(B, g, k)[i] = B[i][g] /\ At(Z, g, k)[i] = Z[i][g]  BY DEF At
    <3> QED BY <3>13, <3>14 DEF xi, yi, Bi, zi
  <2>3. Cong(Dot(xf, At(B, g, k), k), Dot(x, At(Z, g, k), k))
    BY <1>6, <2>1, <2>2, DotCong
  <2>4. Dot(x, At(Z, g, k), k) \in Int  BY <1>6, <2>1, DotInt
  <2> QED BY <2>3, <2>4
<1> QED BY <1>5, <1>7 DEF MDot, Z, xf

(* The claim a call makes, over bases A and B with factors f and h, is     *)
(* what the vectors open over the bases times the factors.                 *)
LEMMA ClaimOpens ==
  ASSUME NEW k \in Nat, NEW x, NEW y, NEW f, NEW h, NEW A, NEW B,
         FieldList(x, k), FieldList(y, k), FieldList(f, k), FieldList(h, k),
         Points(A, k), Points(B, k),
         NEW m \in Nat, NEW r, NEW br, Scalars(r, m), Points(br, m)
  PROVE  LET fA == [i \in 1 .. k |-> Msm(<<f[i]>>, <<A[i]>>)]
             hB == [i \in 1 .. k |-> Msm(<<h[i]>>, <<B[i]>>)]
             X == Msm(ComponentWiseMul(x, f) \o ComponentWiseMul(y, h) \o r, A \o B \o br)
             at(g) == Dot(x, At(fA, g, k), k) + Dot(y, At(hB, g, k), k) + MDot(r, br, g, m)
         IN  X \in Point /\ \A g \in Generators : at(g) \in Int /\ Cong(X[g], at(g))
<1> DEFINE fA == [i \in 1 .. k |-> Msm(<<f[i]>>, <<A[i]>>)]
           hB == [i \in 1 .. k |-> Msm(<<h[i]>>, <<B[i]>>)]
           xf == ComponentWiseMul(x, f)
           yh == ComponentWiseMul(y, h)
           X == Msm(xf \o yh \o r, A \o B \o br)
           at(g) == Dot(x, At(fA, g, k), k) + Dot(y, At(hB, g, k), k) + MDot(r, br, g, m)
<1>1. /\ FieldList(xf, k)
      /\ \A g \in Generators : /\ Dot(x, At(fA, g, k), k) \in Int
                               /\ Cong(MDot(xf, A, g, k), Dot(x, At(fA, g, k), k))
  BY ScaledDot
<1>2. /\ FieldList(yh, k)
      /\ \A g \in Generators : /\ Dot(y, At(hB, g, k), k) \in Int
                               /\ Cong(MDot(yh, B, g, k), Dot(y, At(hB, g, k), k))
  BY ScaledDot
<1> HIDE DEF fA, hB, xf, yh
<1>3. Scalars(xf, k) /\ Scalars(yh, k)  BY <1>1, <1>2, FieldScalars
<1>4. /\ X \in Point
      /\ \A g \in Generators :
           /\ MDot(xf, A, g, k) + MDot(yh, B, g, k) + MDot(r, br, g, m) \in Int
           /\ Cong(X[g], MDot(xf, A, g, k) + MDot(yh, B, g, k) + MDot(r, br, g, m))
  BY <1>3, MsmThree
<1>5. ASSUME NEW g \in Generators PROVE at(g) \in Int /\ Cong(X[g], at(g))
  <2> DEFINE p == MDot(xf, A, g, k)
             s == MDot(yh, B, g, k)
             t == MDot(r, br, g, m)
             p1 == Dot(x, At(fA, g, k), k)
             s1 == Dot(y, At(hB, g, k), k)
  <2>1. /\ p \in Int /\ s \in Int /\ t \in Int
    BY <1>3, MDotInt
  <2>2. p1 \in Int /\ s1 \in Int /\ Cong(p, p1) /\ Cong(s, s1)  BY <1>1, <1>2
  <2>3. X[g] \in Int /\ Cong(X[g], p + s + t)  BY <1>4, CoefficientInt
  <2>4. at(g) = p1 + s1 + t  OBVIOUS
  <2> HIDE DEF p, s, t, p1, s1, X, at
  <2>5. Cong(t, t)  BY <2>1, CongRefl
  <2>6. Cong(p + s, p1 + s1) /\ p + s \in Int /\ p1 + s1 \in Int  BY <2>1, <2>2, CongAdd
  <2>7. Cong((p + s) + t, (p1 + s1) + t)  BY <2>1, <2>5, <2>6, CongAdd
  <2>8. (p + s) + t \in Int /\ (p1 + s1) + t \in Int  BY <2>1, <2>6
  <2> QED BY <2>3, <2>4, <2>7, <2>8, CongTrans
<1> HIDE DEF X, at
<1>6. X \in Point /\ \A g \in Generators : at(g) \in Int /\ Cong(X[g], at(g))
  BY <1>4, <1>5
<1> QED BY <1>6 DEF X, at, xf, yh, fA, hB

(* What is opened keeps up with what the claim is moved to.                *)
LEMMA KeepsUp ==
  ASSUME NEW u \in Int, NEW w \in Int, NEW O \in Int, NEW O1 \in Int, NEW M \in Int, NEW M1 \in Int,
         NEW lo \in Int, NEW ro \in Int, NEW X \in Int, NEW Y \in Int,
         Cong(O, M), Cong(X, lo), Cong(Y, ro),
         Cong(O1, O + (u * u * lo + w * w * ro)), Cong(M1, M + (u * u * X + w * w * Y))
  PROVE  Cong(O1, M1)
<1> DEFINE uu == u * u
           ww == w * w
<1>1. uu \in Int /\ ww \in Int  OBVIOUS
<1>2. Cong(O1, O + (uu * lo + ww * ro)) /\ Cong(M1, M + (uu * X + ww * Y))  OBVIOUS
<1> HIDE DEF uu, ww
<1>3. Cong(uu, uu) /\ Cong(ww, ww)  BY <1>1, CongRefl
<1> DEFINE a1 == uu * lo
           a2 == ww * ro
           b1 == uu * X
           b2 == ww * Y
<1>4. a1 \in Int /\ a2 \in Int /\ b1 \in Int /\ b2 \in Int  BY <1>1
<1>5. Cong(lo, X) /\ Cong(ro, Y)  BY CongSym
<1>6. Cong(a1, b1) /\ Cong(a2, b2)  BY <1>1, <1>3, <1>5, CongMul
<1>7. Cong(O1, O + (a1 + a2)) /\ Cong(M1, M + (b1 + b2))  BY <1>2
<1> HIDE DEF a1, a2, b1, b2
<1>8. Cong(a1 + a2, b1 + b2) /\ a1 + a2 \in Int /\ b1 + b2 \in Int  BY <1>4, <1>6, CongAdd
<1>9. Cong(O + (a1 + a2), M + (b1 + b2))  BY <1>8, CongAdd
<1>10. O + (a1 + a2) \in Int /\ M + (b1 + b2) \in Int  BY <1>8
<1>11. Cong(M + (b1 + b2), M1)  BY <1>7, <1>10, CongSym
<1>12. Cong(O1, M + (b1 + b2))  BY <1>7, <1>9, <1>10, CongTrans
<1> QED BY <1>10, <1>11, <1>12, CongTrans

(* The inner product's own term. *)
LEMMA InnerTerm ==
  ASSUME NEW k \in Nat, NEW x, NEW y, FieldList(x, k), FieldList(y, k)
  PROVE  LET r == <<InnerProduct(x, y)>>
         IN  /\ InnerProduct(x, y) \in Int /\ Dot(x, y, k) \in Int
             /\ Scalars(r, 1) /\ Points(<<U>>, 1)
             /\ \A g \in Generators :
                  /\ MDot(r, <<U>>, g, 1) \in Int /\ Dot(x, y, k) * U[g] \in Int
                  /\ Cong(MDot(r, <<U>>, g, 1), Dot(x, y, k) * U[g])
<1> DEFINE ip == InnerProduct(x, y)
           d == Dot(x, y, k)
<1>1. Scalars(x, k) /\ Ints(y, k)  BY FieldScalars DEF Scalars
<1>2. d \in Int /\ ip = d % q  BY <1>1, InnerProductIs
<1> HIDE DEF ip, d
<1>3. ip \in Fq /\ Cong(ip, d)  BY <1>2, ModCong
<1>4. ip \in Int  BY <1>3 DEF Fq
<1>5. U \in Point  BY GeneratorPoint
<1>6. /\ Scalars(<<ip>>, 1) /\ Points(<<U>>, 1)
      /\ \A g \in Generators : MDot(<<ip>>, <<U>>, g, 1) = ip * U[g]
  BY <1>4, <1>5, MsmOne
<1>7. ASSUME NEW g \in Generators
      PROVE  /\ MDot(<<ip>>, <<U>>, g, 1) \in Int /\ d * U[g] \in Int
             /\ Cong(MDot(<<ip>>, <<U>>, g, 1), d * U[g])
  <2>1. U[g] \in Int  BY <1>5, CoefficientInt
  <2>2. Cong(U[g], U[g])  BY <2>1, CongRefl
  <2>3. Cong(ip * U[g], d * U[g])  BY <1>2, <1>3, <1>4, <2>1, <2>2, CongMul
  <2> QED BY <1>2, <1>4, <1>6, <2>1, <2>3
<1> QED BY <1>2, <1>4, <1>6, <1>7 DEF ip, d

(* A term of a sum replaced by a congruent one.                            *)
LEMMA SumSwap ==
  ASSUME NEW X \in Int, NEW p \in Int, NEW t \in Int, NEW z \in Int, Cong(X, p + t), Cong(t, z)
  PROVE  Cong(X, p + z) /\ Cong(p + z, X)
<1>1. Cong(p, p)  BY CongRefl
<1>2. Cong(p + t, p + z)  BY <1>1, CongAdd
<1>3. p + t \in Int /\ p + z \in Int  OBVIOUS
<1>4. Cong(X, p + z)  BY <1>2, <1>3, CongTrans
<1> QED BY <1>3, <1>4, CongSym

(* The claim of a call without blinding. *)
LEMMA PlainClaimOpens ==
  ASSUME NEW k \in Nat, NEW x, NEW y, NEW f, NEW h, NEW A, NEW B,
         FieldList(x, k), FieldList(y, k), FieldList(f, k), FieldList(h, k),
         Points(A, k), Points(B, k)
  PROVE  LET fA == [i \in 1 .. k |-> Msm(<<f[i]>>, <<A[i]>>)]
             hB == [i \in 1 .. k |-> Msm(<<h[i]>>, <<B[i]>>)]
             X == Msm(ComponentWiseMul(x, f) \o ComponentWiseMul(y, h) \o <<InnerProduct(x, y)>>,
                      A \o B \o <<U>>)
         IN  /\ X \in Point
             /\ \A g \in Generators :
                  Cong(Opens(x, y, At(fA, g, k), At(hB, g, k), k, U[g]), X[g])
<1> DEFINE fA == [i \in 1 .. k |-> Msm(<<f[i]>>, <<A[i]>>)]
           hB == [i \in 1 .. k |-> Msm(<<h[i]>>, <<B[i]>>)]
           r == <<InnerProduct(x, y)>>
           X == Msm(ComponentWiseMul(x, f) \o ComponentWiseMul(y, h) \o r, A \o B \o <<U>>)
           at(g) == Dot(x, At(fA, g, k), k) + Dot(y, At(hB, g, k), k) + MDot(r, <<U>>, g, 1)
<1>1. /\ Scalars(r, 1) /\ Points(<<U>>, 1) /\ Dot(x, y, k) \in Int
      /\ \A g \in Generators :
           /\ MDot(r, <<U>>, g, 1) \in Int /\ Dot(x, y, k) * U[g] \in Int
           /\ Cong(MDot(r, <<U>>, g, 1), Dot(x, y, k) * U[g])
  BY InnerTerm
<1> HIDE DEF r
<1>2. 1 \in Nat  OBVIOUS
<1>3. X \in Point /\ \A g \in Generators : at(g) \in Int /\ Cong(X[g], at(g))
  BY <1>1, <1>2, ClaimOpens
<1>4. Points(fA, k) /\ Points(hB, k)  BY ScaledPoints
<1>5. Ints(x, k) /\ Ints(y, k)  BY FieldScalars DEF Scalars
<1> HIDE DEF fA, hB
<1>6. ASSUME NEW g \in Generators
      PROVE  Cong(Opens(x, y, At(fA, g, k), At(hB, g, k), k, U[g]), X[g])
  <2> DEFINE p == Dot(x, At(fA, g, k), k)
             s == Dot(y, At(hB, g, k), k)
             t == MDot(r, <<U>>, g, 1)
             z == Dot(x, y, k) * U[g]
  <2>1. p \in Int /\ s \in Int  BY <1>4, <1>5, AtInts, DotInt
  <2>2. t \in Int /\ z \in Int /\ Cong(t, z)  BY <1>1
  <2>3. X[g] \in Int /\ Cong(X[g], (p + s) + t)  BY <1>3, CoefficientInt
  <2>4. Opens(x, y, At(fA, g, k), At(hB, g, k), k, U[g]) = (p + s) + z  BY DEF Opens
  <2> HIDE DEF p, s, t, z, X
  <2>5. p + s \in Int  BY <2>1
  <2>6. Cong((p + s) + z, X[g])  BY <2>2, <2>3, <2>5, SumSwap
  <2> QED BY <2>4, <2>6
<1> HIDE DEF X
<1> QED BY <1>3, <1>6 DEF X, r, fA, hB

----------------------------------------------------------------------------
(* The lists of ss, joined up to each. *)
Flattens(f, ss, k) == f = [i \in 1 .. k |-> IF i = 1 THEN ss[i] ELSE f[i - 1] \o ss[i]]

(* Lists are concatenated one after the other.                             *)
LEMMA FlattenExists ==
  ASSUME NEW ss, NEW k \in Nat
  PROVE  \E f : Flattens(f, ss, k)
<1> DEFINE T == {m \in Nat : \E f : Flattens(f, ss, m)}
<1>1. 0 \in T
  <2> DEFINE f == [i \in 1 .. 0 |-> {}]
  <2>1. f = [i \in 1 .. 0 |-> IF i = 1 THEN ss[i] ELSE f[i - 1] \o ss[i]]  OBVIOUS
  <2>2. Flattens(f, ss, 0)  BY <2>1 DEF Flattens
  <2> QED BY <2>2
<1>2. ASSUME NEW m \in Nat, m \in T PROVE m + 1 \in T
  <2>1. PICK g : Flattens(g, ss, m)  BY <1>2
  <2> DEFINE last == IF m = 0 THEN ss[1] ELSE g[m] \o ss[m + 1]
             f == [i \in 1 .. m + 1 |-> IF i = m + 1 THEN last ELSE g[i]]
  <2>2. \A i \in 1 .. m : f[i] = g[i]  OBVIOUS
  <2>3. f[m + 1] = last  OBVIOUS
  <2>4. f = [i \in 1 .. m + 1 |-> f[i]]  OBVIOUS
  <2>5. \A i \in 1 .. m : g[i] = IF i = 1 THEN ss[i] ELSE g[i - 1] \o ss[i]
    BY <2>1 DEF Flattens
  <2> HIDE DEF f
  <2>6. ASSUME NEW i \in 1 .. m + 1 PROVE f[i] = IF i = 1 THEN ss[i] ELSE f[i - 1] \o ss[i]
    <3>1. CASE i = m + 1
      <4>1. CASE m = 0  BY <2>3, <3>1, <4>1
      <4>2. CASE m # 0
        <5>1. i # 1 /\ i - 1 = m /\ m \in 1 .. m  BY <3>1, <4>2
        <5>2. f[m] = g[m]  BY <2>2, <5>1
        <5> QED BY <2>3, <3>1, <4>2, <5>1, <5>2
      <4> QED BY <4>1, <4>2
    <3>2. CASE i # m + 1 /\ i = 1  BY <2>2, <2>5, <3>2
    <3>3. CASE i # m + 1 /\ i # 1
      <4>1. i \in 1 .. m /\ i - 1 \in 1 .. m  BY <3>3
      <4>2. f[i] = g[i] /\ f[i - 1] = g[i - 1]  BY <2>2, <4>1
      <4> QED BY <2>5, <3>3, <4>1, <4>2
    <3> QED BY <3>1, <3>2, <3>3
  <2>7. [i \in 1 .. m + 1 |-> f[i]]
          = [i \in 1 .. m + 1 |-> IF i = 1 THEN ss[i] ELSE f[i - 1] \o ss[i]]
    BY <2>6
  <2>8. Flattens(f, ss, m + 1)  BY <2>4, <2>7 DEF Flattens
  <2> QED BY <2>8
<1> HIDE DEF T
<1>3. k \in T  BY <1>1, <1>2, Induction
<1> QED BY <1>3 DEF T

(* FlattenSeq is the last of those concatenations.                         *)
LEMMA FlattenIs ==
  ASSUME NEW k \in Nat \ {0}, NEW ss, IsList(ss, k)
  PROVE  \E f : Flattens(f, ss, k) /\ FlattenSeq(ss) = f[k]
<1>1. Len(ss) = k  BY ListLength
<1> DEFINE f == CHOOSE f : f = [i \in 1 .. Len(ss) |-> IF i = 1 THEN ss[i] ELSE f[i - 1] \o ss[i]]
<1>2. FlattenSeq(ss) = f[Len(ss)]  BY <1>1 DEF FlattenSeq
<1>3. \E e : e = [i \in 1 .. Len(ss) |-> IF i = 1 THEN ss[i] ELSE e[i - 1] \o ss[i]]
  BY <1>1, FlattenExists DEF Flattens
<1>4. f = [i \in 1 .. Len(ss) |-> IF i = 1 THEN ss[i] ELSE f[i - 1] \o ss[i]]  BY <1>3
<1> HIDE DEF f
<1>5. Flattens(f, ss, k)  BY <1>1, <1>4 DEF Flattens
<1> QED BY <1>1, <1>2, <1>5

(* Lists of k lists, each of t scalars or of t points. *)
TermLists(ss, bb, k, t) ==
  /\ IsList(ss, k) /\ IsList(bb, k)
  /\ \A i \in 1 .. k : Scalars(ss[i], t) /\ Points(bb[i], t)

(* The terms of all of them, joined, sum up those of each. *)
LEMMA FlattenDot ==
  ASSUME NEW k \in Nat \ {0}, NEW t \in Nat, NEW ss, NEW bb, TermLists(ss, bb, k, t)
  PROVE  /\ k * t \in Nat
         /\ Scalars(FlattenSeq(ss), k * t) /\ Points(FlattenSeq(bb), k * t)
         /\ \A g \in Generators :
              MDot(FlattenSeq(ss), FlattenSeq(bb), g, k * t)
                = SumTo([i \in 1 .. k |-> MDot(ss[i], bb[i], g, t)], k)
<1>1. PICK f : Flattens(f, ss, k) /\ FlattenSeq(ss) = f[k]  BY FlattenIs DEF TermLists
<1>2. PICK e : Flattens(e, bb, k) /\ FlattenSeq(bb) = e[k]  BY FlattenIs DEF TermLists
<1> DEFINE terms(g) == [i \in 1 .. k |-> MDot(ss[i], bb[i], g, t)]
           Good(m) == /\ m * t \in Nat
                      /\ Scalars(f[m], m * t) /\ Points(e[m], m * t)
                      /\ \A g \in Generators : MDot(f[m], e[m], g, m * t) = SumTo(terms(g), m)
           T == {m \in Nat : m + 1 <= k => Good(m + 1)}
<1>3. ASSUME NEW g \in Generators PROVE \A i \in 1 .. k : terms(g)[i] \in Int
  BY MDotInt DEF TermLists
<1>4. \A i \in 1 .. k : Scalars(ss[i], t) /\ Points(bb[i], t)  BY DEF TermLists
<1>5. \A i \in 1 .. k : /\ f[i] = IF i = 1 THEN ss[i] ELSE f[i - 1] \o ss[i]
                        /\ e[i] = IF i = 1 THEN bb[i] ELSE e[i - 1] \o bb[i]
  BY <1>1, <1>2 DEF Flattens
<1>6. \A g \in Generators : \A i \in 1 .. k : terms(g)[i] = MDot(ss[i], bb[i], g, t)  OBVIOUS
<1> HIDE DEF terms
<1>7. 0 \in T
  <2>1. 1 \in 1 .. k  OBVIOUS
  <2>2. f[1] = ss[1] /\ e[1] = bb[1] /\ Scalars(ss[1], t) /\ Points(bb[1], t)
    BY <1>4, <1>5, <2>1
  <2>3. 1 * t = t  OBVIOUS
  <2>4. ASSUME NEW g \in Generators PROVE MDot(f[1], e[1], g, t) = SumTo(terms(g), 1)
    <3>1. terms(g)[1] = MDot(ss[1], bb[1], g, t) /\ terms(g)[1] \in Int
      BY <1>3, <1>6, <2>1
    <3>2. \A i \in 1 .. 0 + 1 : terms(g)[i] \in Int  BY <3>1
    <3>3. SumTo(terms(g), 0 + 1) = SumTo(terms(g), 0) + terms(g)[0 + 1]  BY <3>2, SumToNext
    <3>4. SumTo(terms(g), 1) = terms(g)[1]  BY <3>1, <3>3, SumToZero
    <3> QED BY <2>2, <3>1, <3>4
  <2>5. Good(1)  BY <2>2, <2>3, <2>4
  <2> HIDE DEF Good
  <2>6. 0 + 1 = 1  OBVIOUS
  <2> QED BY <2>5, <2>6
<1>8. ASSUME NEW m \in Nat, m \in T PROVE m + 1 \in T
  <2>1. SUFFICES ASSUME (m + 1) + 1 <= k PROVE Good((m + 1) + 1)  OBVIOUS
  <2> DEFINE l == m + 1
             j == l + 1
             lt == l * t
  <2>2. l \in 1 .. k /\ j \in 1 .. k /\ j # 1 /\ j - 1 = l /\ l \in Nat  BY <2>1
  <2>3. Good(l)  BY <1>8, <2>1
  <2>4. lt \in Nat /\ Scalars(f[l], lt) /\ Points(e[l], lt)
        /\ \A g \in Generators : MDot(f[l], e[l], g, lt) = SumTo(terms(g), l)
    BY <2>3
  <2>5. j * t = lt + t  BY <2>2
  <2>6. f[j] = f[l] \o ss[j] /\ e[j] = e[l] \o bb[j]
    <3> HIDE DEF j, l
    <3> QED BY <1>5, <2>2
  <2>7. Scalars(ss[j], t) /\ Points(bb[j], t)
    <3> HIDE DEF j, l
    <3> QED BY <1>4, <2>2
  <2>8. \A g \in Generators : SumTo(terms(g), j) = SumTo(terms(g), l) + MDot(ss[j], bb[j], g, t)
    <3>1. ASSUME NEW g \in Generators
          PROVE  SumTo(terms(g), j) = SumTo(terms(g), l) + MDot(ss[j], bb[j], g, t)
      <4>1. terms(g)[j] = MDot(ss[j], bb[j], g, t)  BY <1>6, <2>2
      <4>2. \A i \in 1 .. l + 1 : terms(g)[i] \in Int  BY <1>3, <2>2
      <4> HIDE DEF l
      <4>3. SumTo(terms(g), l + 1) = SumTo(terms(g), l) + terms(g)[l + 1]
        BY <2>2, <4>2, SumToNext
      <4> QED BY <4>1, <4>3
    <3> QED BY <3>1
  <2> HIDE DEF l, lt, Good
  <2>9. TermsJoined(f[l], ss[j], e[l], bb[j], lt, t)
    <3> DEFINE fl == f[l]
               sj == ss[j]
               el == e[l]
               bj == bb[j]
    <3>1. Scalars(fl, lt) /\ Scalars(sj, t) /\ Points(el, lt) /\ Points(bj, t) /\ lt \in Nat
      BY <2>4, <2>7
    <3> HIDE DEF fl, sj, el, bj
    <3>2. TermsJoined(fl, sj, el, bj, lt, t)  BY <3>1, MDotJoin
    <3> QED BY <3>2 DEF fl, sj, el, bj
  <2> HIDE DEF j
  <2>10. Good(j)  BY <2>4, <2>5, <2>6, <2>8, <2>9 DEF Good, TermsJoined
  <2> QED BY <2>10 DEF j, l
<1> HIDE DEF T, Good
<1>9. k - 1 \in Nat /\ (k - 1) + 1 = k  OBVIOUS
<1>10. k - 1 \in T  BY <1>7, <1>8, <1>9, Induction
<1>11. Good(k)  BY <1>9, <1>10 DEF T
<1> QED BY <1>1, <1>2, <1>11 DEF Good, terms

----------------------------------------------------------------------------
(* Scaling a list of scalars scales what it sums to. *)
LEMMA ScaledList ==
  ASSUME NEW t \in Nat, NEW s, FieldList(s, t), NEW bs, Points(bs, t), NEW c \in Int
  PROVE  /\ FieldList(ScalarMul(s, c), t)
         /\ \A g \in Generators : Cong(MDot(ScalarMul(s, c), bs, g, t), c * Msm(s, bs)[g])
<1> DEFINE r == ScalarMul(s, c)
<1>1. r = [i \in 1 .. t |-> (s[i] * c) % q]  BY DEF ScalarMul, FieldList, IsList
<1>2. \A i \in 1 .. t : s[i] \in Int /\ s[i] * c \in Int  BY DEF FieldList, Fq
<1>3. \A i \in 1 .. t : r[i] \in Fq /\ Cong(r[i], s[i] * c)  BY <1>1, <1>2, ModCong
<1>4. FieldList(r, t)  BY <1>1, <1>3 DEF FieldList, IsList
<1>5. Ints(r, t) /\ Ints(s, t) /\ Scalars(s, t)  BY <1>4, FieldScalars DEF Scalars
<1> HIDE DEF r
<1>6. ASSUME NEW g \in Generators PROVE Cong(MDot(r, bs, g, t), c * Msm(s, bs)[g])
  <2> DEFINE A == At(bs, g, t)
             d == Dot(s, A, t)
  <2>1. Ints(A, t)  BY AtInts
  <2>2. \A i \in 1 .. t : Cong(r[i], c * s[i] + 0 * s[i])
    <3>1. \A i \in 1 .. t : s[i] * c = c * s[i] + 0 * s[i]  BY <1>2
    <3> QED BY <1>3, <3>1
  <2>3. 0 \in Int  OBVIOUS
  <2> HIDE DEF A
  <2>4. Cong(Dot(r, A, t), c * Dot(s, A, t) + 0 * Dot(s, A, t))
    BY <1>5, <2>1, <2>2, <2>3, DotLinear
  <2>5. d \in Int /\ Dot(r, A, t) \in Int  BY <1>5, <2>1, DotInt
  <2>6. Cong(Dot(r, A, t), c * d + 0 * d)  BY <2>4
  <2>7. Msm(s, bs)[g] = d % q  BY <1>5, MsmAt DEF A
  <2> HIDE DEF d
  <2>8. c * d + 0 * d = c * d  BY <2>5
  <2>9. d % q \in Fq /\ Cong(d % q, d)  BY <2>5, ModCong
  <2>10. d % q \in Int  BY <2>9 DEF Fq
  <2> DEFINE m == d % q
  <2> HIDE DEF m
  <2>11. m \in Int /\ Cong(d, m)  BY <2>5, <2>9, <2>10, CongSym DEF m
  <2>12. Cong(c, c)  BY CongRefl
  <2>13. Cong(c * d, c * m)  BY <2>5, <2>11, <2>12, CongMul
  <2>14. c * d \in Int /\ c * m \in Int  BY <2>5, <2>11
  <2>15. Cong(Dot(r, A, t), c * m)  BY <2>5, <2>6, <2>8, <2>13, <2>14, CongTrans
  <2> QED BY <2>7, <2>15 DEF MDot, A, m
<1> QED BY <1>4, <1>6 DEF r

(* A point that is the sum of two lists of scaled terms. *)
LEMMA JoinedValue ==
  ASSUME NEW t \in Nat, NEW s, NEW r, FieldList(s, t), FieldList(r, t),
         NEW bs, NEW br, Points(bs, t), Points(br, t), NEW c \in Int, NEW d \in Int
  PROVE  /\ FieldList(ScalarMul(s, c) \o ScalarMul(r, d), t + t)
         /\ Points(bs \o br, t + t)
         /\ Msm(ScalarMul(s, c) \o ScalarMul(r, d), bs \o br)
              = Msm(<<c, d>>, <<Msm(s, bs), Msm(r, br)>>)
<1> DEFINE sc == ScalarMul(s, c)
           rd == ScalarMul(r, d)
           X == Msm(s, bs)
           Y == Msm(r, br)
           Z == Msm(sc \o rd, bs \o br)
           W == Msm(<<c, d>>, <<X, Y>>)
<1>1. FieldList(sc, t) /\ \A g \in Generators : Cong(MDot(sc, bs, g, t), c * X[g])
  BY ScaledList
<1>2. FieldList(rd, t) /\ \A g \in Generators : Cong(MDot(rd, br, g, t), d * Y[g])
  BY ScaledList
<1>3. X \in Point /\ Y \in Point  BY FieldScalars, MsmPoint
<1> HIDE DEF sc, rd, X, Y
<1>4. Scalars(sc, t) /\ Scalars(rd, t)  BY <1>1, <1>2, FieldScalars
<1>5. TermsJoined(sc, rd, bs, br, t, t)  BY <1>4, MDotJoin
<1>6. t + t \in Nat /\ Scalars(sc \o rd, t + t) /\ Points(bs \o br, t + t)
  BY <1>5 DEF TermsJoined
<1>7. FieldList(sc \o rd, t + t)
  <2>1. Joins(sc \o rd, sc, t, rd, t)  BY <1>1, <1>2, ListJoin DEF FieldList
  <2>2. \A i \in 1 .. t + t : i \in 1 .. t \/ (i - t \in 1 .. t /\ t + (i - t) = i)  OBVIOUS
  <2>3. \A i \in 1 .. t + t : (sc \o rd)[i] \in Fq
    <3>1. ASSUME NEW i \in 1 .. t + t PROVE (sc \o rd)[i] \in Fq
      <4>1. CASE i \in 1 .. t  BY <1>1, <2>1, <4>1 DEF Joins, FieldList
      <4>2. CASE i - t \in 1 .. t /\ t + (i - t) = i
        <5>1. (sc \o rd)[t + (i - t)] = rd[i - t]  BY <2>1, <4>2 DEF Joins
        <5> QED BY <1>2, <4>2, <5>1 DEF FieldList
      <4> QED BY <2>2, <4>1, <4>2
    <3> QED BY <3>1
  <2> QED BY <2>1, <2>3 DEF Joins, FieldList
<1>8. Z \in Point  BY <1>6, MsmPoint
<1>9. W \in Point /\ \A g \in Generators : W[g] = (c * X[g] + d * Y[g]) % q
  BY <1>3, MsmTwo
<1>10. ASSUME NEW g \in Generators PROVE Cong(Z[g], W[g])
  <2> DEFINE m == MDot(sc \o rd, bs \o br, g, t + t)
             p == MDot(sc, bs, g, t)
             k == MDot(rd, br, g, t)
             x == c * X[g]
             y == d * Y[g]
  <2>1. X[g] \in Int /\ Y[g] \in Int /\ Z[g] \in Int /\ W[g] \in Int
    BY <1>3, <1>8, <1>9, CoefficientInt
  <2>2. m \in Int /\ Cong(Z[g], m)  BY <1>6, MDotInt
  <2>3. p \in Int /\ k \in Int  BY <1>4, MDotInt
  <2>4. m = p + k  BY <1>5 DEF TermsJoined
  <2>5. Cong(p, x) /\ Cong(k, y)  BY <1>1, <1>2
  <2>6. x \in Int /\ y \in Int  BY <2>1
  <2>7. W[g] = (x + y) % q  BY <1>9
  <2> HIDE DEF m, p, k, x, y, Z, W
  <2>8. Cong(p + k, x + y)  BY <2>3, <2>5, <2>6, CongAdd
  <2>9. x + y \in Int  BY <2>6
  <2>10. Cong(W[g], x + y)  BY <2>7, <2>9, ModCong
  <2>11. Cong(Z[g], x + y)  BY <2>1, <2>2, <2>4, <2>8, <2>9, CongTrans
  <2>12. Cong(x + y, W[g])  BY <2>1, <2>9, <2>10, CongSym
  <2> QED BY <2>1, <2>9, <2>11, <2>12, CongTrans
<1> HIDE DEF Z, W
<1>11. Z = W  BY <1>8, <1>9, <1>10, PointsEqual
<1> QED BY <1>6, <1>7, <1>11 DEF Z, W, sc, rd, X, Y

(* A point times one. *)
LEMMA OnePoint ==
  ASSUME NEW X \in Point
  PROVE  FieldList(<<1>>, 1) /\ Points(<<X>>, 1) /\ Msm(<<1>>, <<X>>) = X
<1>1. 1 \in Int  OBVIOUS
<1>2. /\ Points(<<X>>, 1) /\ Msm(<<1>>, <<X>>) \in Point
      /\ \A g \in Generators : Msm(<<1>>, <<X>>)[g] = (1 * X[g]) % q
  BY <1>1, MsmOne
<1>3. \A g \in Generators : Msm(<<1>>, <<X>>)[g] = X[g]
  <2>1. ASSUME NEW g \in Generators PROVE Msm(<<1>>, <<X>>)[g] = X[g]
    <3>1. X[g] \in Fq /\ X[g] \in Int  BY CoefficientInt
    <3>2. 1 * X[g] = X[g]  BY <3>1
    <3>3. X[g] % q = X[g]  BY <3>1, ModOf
    <3> QED BY <1>2, <3>2, <3>3
  <2> QED BY <2>1
<1>4. Msm(<<1>>, <<X>>) = X
  <2> DEFINE Z == Msm(<<1>>, <<X>>)
  <2>1. Z \in [Generators -> Fq] /\ X \in [Generators -> Fq] /\ \A g \in Generators : Z[g] = X[g]
    BY <1>2, <1>3 DEF Point
  <2> HIDE DEF Z
  <2>2. Z = X  BY <2>1
  <2> QED BY <2>2 DEF Z
<1>5. FieldList(<<1>>, 1)  BY GeneratorPoint DEF FieldList, IsList
<1> QED BY <1>2, <1>4, <1>5

(* k symbolic bases, of t terms each. *)
Symbolic(ss, bb, k, t) ==
  /\ IsList(ss, k) /\ IsList(bb, k)
  /\ \A i \in 1 .. k : FieldList(ss[i], t) /\ Points(bb[i], t)

(* The points they stand for. *)
Stand(ss, bb, k) == [i \in 1 .. k |-> Msm(ss[i], bb[i])]

(* Symbolic bases stand for points.                                        *)
LEMMA StandPoints ==
  ASSUME NEW k \in Nat, NEW t \in Nat, NEW ss, NEW bb, Symbolic(ss, bb, k, t)
  PROVE  Points(Stand(ss, bb, k), k)
<1>1. \A i \in 1 .. k : Msm(ss[i], bb[i]) \in Point  BY FieldScalars, MsmPoint DEF Symbolic
<1> HIDE DEF Msm
<1> QED BY <1>1 DEF Stand, Points, IsList

(* All their terms, scaled by x, sum to what x sums the points to. *)
LEMMA SymbolicDot ==
  ASSUME NEW k \in Nat \ {0}, NEW t \in Nat, NEW ss, NEW bb, Symbolic(ss, bb, k, t),
         NEW x, FieldList(x, k)
  PROVE  LET xs == FlattenSeq([i \in 1 .. k |-> ScalarMul(ss[i], x[i])])
             bs == FlattenSeq(bb)
         IN  /\ k * t \in Nat /\ Scalars(xs, k * t) /\ Points(bs, k * t)
             /\ \A g \in Generators :
                  Cong(MDot(xs, bs, g, k * t), Dot(x, At(Stand(ss, bb, k), g, k), k))
<1> DEFINE sx == [i \in 1 .. k |-> ScalarMul(ss[i], x[i])]
           xs == FlattenSeq(sx)
           bs == FlattenSeq(bb)
           S == Stand(ss, bb, k)
<1>1. \A i \in 1 .. k : /\ FieldList(ss[i], t) /\ Points(bb[i], t) /\ x[i] \in Int
  BY DEF Symbolic, FieldList, Fq
<1>2. ASSUME NEW i \in 1 .. k
      PROVE  /\ Scalars(sx[i], t) /\ Points(bb[i], t)
             /\ \A g \in Generators : /\ MDot(sx[i], bb[i], g, t) \in Int
                                      /\ Cong(MDot(sx[i], bb[i], g, t), x[i] * S[i][g])
  <2> DEFINE si == ss[i]
             bi == bb[i]
             xi == x[i]
             mi == ScalarMul(si, xi)
             Z == Msm(si, bi)
  <2>1. FieldList(si, t) /\ Points(bi, t) /\ xi \in Int  BY <1>1
  <2>2. sx[i] = mi /\ S[i] = Z  BY DEF Stand
  <2> HIDE DEF si, bi, xi, sx, S
  <2>3. FieldList(mi, t) /\ \A g \in Generators : Cong(MDot(mi, bi, g, t), xi * Z[g])
    BY <2>1, ScaledList
  <2> HIDE DEF mi, Z
  <2>4. Scalars(mi, t)  BY <2>3, FieldScalars
  <2>5. \A g \in Generators : MDot(mi, bi, g, t) \in Int  BY <2>1, <2>4, MDotInt
  <2> QED BY <2>1, <2>2, <2>3, <2>4, <2>5 DEF bi, xi
<1>3. TermLists(sx, bb, k, t)
  <2>1. IsList(sx, k)  BY DEF IsList
  <2> HIDE DEF sx
  <2> QED BY <1>2, <2>1 DEF TermLists, Symbolic
<1>4. Points(S, k)  BY StandPoints
<1>5. Ints(x, k)  BY FieldScalars DEF Scalars
<1> HIDE DEF sx, S
<1>6. /\ k * t \in Nat /\ Scalars(xs, k * t) /\ Points(bs, k * t)
      /\ \A g \in Generators :
           MDot(xs, bs, g, k * t) = SumTo([i \in 1 .. k |-> MDot(sx[i], bb[i], g, t)], k)
  BY <1>3, FlattenDot
<1>7. ASSUME NEW g \in Generators
      PROVE  Cong(MDot(xs, bs, g, k * t), Dot(x, At(S, g, k), k))
  <2> DEFINE f == [i \in 1 .. k |-> MDot(sx[i], bb[i], g, t)]
             e == [i \in 1 .. k |-> x[i] * At(S, g, k)[i]]
  <2>1. Ints(At(S, g, k), k)  BY <1>4, AtInts
  <2>2. \A i \in 1 .. k : At(S, g, k)[i] = S[i][g]  BY DEF At
  <2>3. Ints(f, k)  BY <1>2 DEF Ints
  <2>4. Ints(e, k)  BY <1>5, <2>1 DEF Ints
  <2>5. ASSUME NEW i \in 1 .. k PROVE Cong(f[i], 1 * e[i] + 0 * e[i])
    <3>1. f[i] = MDot(sx[i], bb[i], g, t) /\ e[i] = x[i] * S[i][g]  BY <2>2
    <3>2. e[i] \in Int  BY <2>4 DEF Ints
    <3> HIDE DEF f, e
    <3>3. Cong(f[i], e[i])  BY <1>2, <3>1
    <3>4. 1 * e[i] + 0 * e[i] = e[i]  BY <3>2
    <3> QED BY <3>3, <3>4
  <2>6. Dot(x, At(S, g, k), k) = SumTo(e, k)  BY DEF Dot
  <2>7. MDot(xs, bs, g, k * t) = SumTo(f, k)  BY <1>6
  <2> HIDE DEF f, e
  <2>8. 0 \in Int /\ 1 \in Int /\ k \in Nat  OBVIOUS
  <2>9. SumTo(e, k) \in Int /\ Cong(SumTo(f, k), 1 * SumTo(e, k) + 0 * SumTo(e, k))
    BY <2>3, <2>4, <2>5, <2>8, SumLinear
  <2>10. 1 * SumTo(e, k) + 0 * SumTo(e, k) = SumTo(e, k)  BY <2>9
  <2> QED BY <2>6, <2>7, <2>9, <2>10
<1> HIDE DEF xs, bs
<1> QED BY <1>6, <1>7 DEF xs, bs, sx, S

----------------------------------------------------------------------------
(* The inner product's own term, and the blinding's. *)
LEMMA BlindedTerm ==
  ASSUME NEW k \in Nat, NEW x, NEW y, FieldList(x, k), FieldList(y, k), NEW d \in Int
  PROVE  LET r == <<InnerProduct(x, y), d>>
             br == <<U, V>>
         IN  /\ Dot(x, y, k) \in Int
             /\ Scalars(r, 2) /\ Points(br, 2)
             /\ \A g \in Generators :
                  /\ U[g] \in Int /\ V[g] \in Int
                  /\ MDot(r, br, g, 2) \in Int
                  /\ Cong(MDot(r, br, g, 2), Dot(x, y, k) * U[g] + d * V[g])
<1> DEFINE ip == InnerProduct(x, y)
           p == Dot(x, y, k)
<1>1. Scalars(x, k) /\ Ints(y, k)  BY FieldScalars DEF Scalars
<1>2. p \in Int /\ ip = p % q  BY <1>1, InnerProductIs
<1> HIDE DEF ip, p
<1>3. ip \in Fq /\ Cong(ip, p)  BY <1>2, ModCong
<1>4. ip \in Int  BY <1>3 DEF Fq
<1>5. U \in Point /\ V \in Point  BY GeneratorPoint
<1>6. /\ Scalars(<<ip, d>>, 2) /\ Points(<<U, V>>, 2)
      /\ \A g \in Generators : MDot(<<ip, d>>, <<U, V>>, g, 2) = ip * U[g] + d * V[g]
  BY <1>4, <1>5, MsmTwo
<1>7. ASSUME NEW g \in Generators
      PROVE  /\ U[g] \in Int /\ V[g] \in Int
             /\ MDot(<<ip, d>>, <<U, V>>, g, 2) \in Int
             /\ Cong(MDot(<<ip, d>>, <<U, V>>, g, 2), p * U[g] + d * V[g])
  <2> DEFINE c == U[g]
             v == d * V[g]
  <2>1. U[g] \in Int /\ V[g] \in Int /\ c \in Int /\ v \in Int  BY <1>5, CoefficientInt
  <2>2. Cong(c, c) /\ Cong(v, v)  BY <2>1, CongRefl
  <2>3. MDot(<<ip, d>>, <<U, V>>, g, 2) = ip * c + v  BY <1>6
  <2> HIDE DEF c, v
  <2>4. Cong(ip * c, p * c) /\ ip * c \in Int /\ p * c \in Int
    <3>1. c \in Int /\ p \in Int /\ ip \in Int /\ Cong(c, c) /\ Cong(ip, p)
      BY <1>2, <1>3, <1>4, <2>1, <2>2
    <3>2. Cong(ip * c, p * c)  BY <3>1, CongMul
    <3> QED BY <3>1, <3>2
  <2>5. Cong(ip * c + v, p * c + v)  BY <2>1, <2>2, <2>4, CongAdd
  <2>6. ip * c + v \in Int  BY <2>1, <2>4
  <2> QED BY <2>1, <2>3, <2>5, <2>6 DEF c, v
<1> QED BY <1>2, <1>6, <1>7 DEF ip, p

(* The terms of a blinded sum replaced by congruent ones.                  *)
LEMMA BlindedSum ==
  ASSUME NEW X \in Int, NEW p \in Int, NEW s \in Int, NEW t \in Int, NEW pp \in Int, NEW ss \in Int,
         NEW z \in Int, NEW v \in Int,
         Cong(X, p + s + t), Cong(p, pp), Cong(s, ss), Cong(t, z + v)
  PROVE  (pp + ss + z) + v \in Int /\ Cong(X, (pp + ss + z) + v)
<1>1. Cong(p + s, pp + ss) /\ p + s \in Int /\ pp + ss \in Int /\ z + v \in Int  BY CongAdd
<1>2. Cong((p + s) + t, (pp + ss) + (z + v))  BY <1>1, CongAdd
<1>3. (p + s) + t \in Int /\ (pp + ss) + (z + v) \in Int  BY <1>1
<1>4. Cong(X, (pp + ss) + (z + v))  BY <1>2, <1>3, CongTrans
<1>5. (pp + ss) + (z + v) = (pp + ss + z) + v  OBVIOUS
<1> QED BY <1>3, <1>4, <1>5

(* Three lists of terms that sum to what x and y open, and the blinding,   *)
(* open both.                                                              *)
LEMMA BlindedOpens ==
  ASSUME NEW k \in Nat, NEW x, NEW y, FieldList(x, k), FieldList(y, k), NEW d \in Int,
         NEW A, NEW B, Points(A, k), Points(B, k),
         NEW l \in Nat, NEW m \in Nat, NEW s, NEW t, NEW bs, NEW bt,
         Scalars(s, l), Scalars(t, m), Points(bs, l), Points(bt, m),
         \A g \in Generators : Cong(MDot(s, bs, g, l), Dot(x, At(A, g, k), k)),
         \A g \in Generators : Cong(MDot(t, bt, g, m), Dot(y, At(B, g, k), k))
  PROVE  LET X == Msm(s \o t \o <<InnerProduct(x, y), d>>, bs \o bt \o <<U, V>>)
             at(g) == Opens(x, y, At(A, g, k), At(B, g, k), k, U[g]) + d * V[g]
         IN  X \in Point /\ \A g \in Generators : at(g) \in Int /\ Cong(X[g], at(g))
<1> DEFINE r == <<InnerProduct(x, y), d>>
           br == <<U, V>>
           X == Msm(s \o t \o r, bs \o bt \o br)
           at(g) == Opens(x, y, At(A, g, k), At(B, g, k), k, U[g]) + d * V[g]
<1>1. /\ Dot(x, y, k) \in Int
      /\ Scalars(r, 2) /\ Points(br, 2)
      /\ \A g \in Generators :
           /\ U[g] \in Int /\ V[g] \in Int
           /\ MDot(r, br, g, 2) \in Int
           /\ Cong(MDot(r, br, g, 2), Dot(x, y, k) * U[g] + d * V[g])
  BY BlindedTerm
<1> HIDE DEF r, br
<1>2. 2 \in Nat  OBVIOUS
<1>3. /\ X \in Point
      /\ \A g \in Generators :
           /\ MDot(s, bs, g, l) + MDot(t, bt, g, m) + MDot(r, br, g, 2) \in Int
           /\ Cong(X[g], MDot(s, bs, g, l) + MDot(t, bt, g, m) + MDot(r, br, g, 2))
  BY <1>1, <1>2, MsmThree
<1>4. Ints(x, k) /\ Ints(y, k)  BY FieldScalars DEF Scalars
<1>5. ASSUME NEW g \in Generators PROVE at(g) \in Int /\ Cong(X[g], at(g))
  <2> DEFINE p == MDot(s, bs, g, l)
             e == MDot(t, bt, g, m)
             f == MDot(r, br, g, 2)
             pp == Dot(x, At(A, g, k), k)
             ee == Dot(y, At(B, g, k), k)
             z == Dot(x, y, k) * U[g]
             v == d * V[g]
  <2>1. p \in Int /\ e \in Int /\ f \in Int  BY <1>1, MDotInt
  <2>2. pp \in Int /\ ee \in Int  BY <1>4, AtInts, DotInt
  <2>3. z \in Int /\ v \in Int /\ Cong(f, z + v)  BY <1>1
  <2>4. Cong(p, pp) /\ Cong(e, ee)  OBVIOUS
  <2>5. X[g] \in Int /\ Cong(X[g], p + e + f)  BY <1>3, CoefficientInt
  <2>6. at(g) = (pp + ee + z) + v  BY DEF Opens
  <2> HIDE DEF p, e, f, pp, ee, z, v, X, at
  <2>7. (pp + ee + z) + v \in Int /\ Cong(X[g], (pp + ee + z) + v)
    BY <2>1, <2>2, <2>3, <2>4, <2>5, BlindedSum
  <2> QED BY <2>6, <2>7
<1> HIDE DEF X, at
<1>6. X \in Point /\ \A g \in Generators : at(g) \in Int /\ Cong(X[g], at(g))
  BY <1>3, <1>5
<1> QED BY <1>6 DEF X, at, r, br

(* The coefficients of the MSM that opens vectors with a blinding.         *)
LEMMA BlindedAt ==
  ASSUME NEW k \in Nat, NEW x, NEW y, FieldList(x, k), FieldList(y, k), NEW d \in Int,
         NEW A, NEW B, Points(A, k), Points(B, k)
  PROVE  LET X == Msm(x \o y \o <<InnerProduct(x, y), d>>, A \o B \o <<U, V>>)
             at(g) == Opens(x, y, At(A, g, k), At(B, g, k), k, U[g]) + d * V[g]
         IN  X \in Point /\ \A g \in Generators : at(g) \in Int /\ Cong(X[g], at(g))
<1>1. Scalars(x, k) /\ Scalars(y, k)  BY FieldScalars
<1>2. \A g \in Generators : /\ Cong(MDot(x, A, g, k), Dot(x, At(A, g, k), k))
                            /\ Cong(MDot(y, B, g, k), Dot(y, At(B, g, k), k))
  BY <1>1, MDotInt, CongRefl DEF MDot
<1> QED BY <1>1, <1>2, BlindedOpens

(* A round's L or R, over symbolic bases. *)
LEMMA BlindedCross ==
  ASSUME NEW k \in Nat \ {0}, NEW t \in Nat, NEW x, NEW y, FieldList(x, k), FieldList(y, k),
         NEW d \in Int, NEW sa, NEW ba, NEW sb, NEW bb,
         Symbolic(sa, ba, k, t), Symbolic(sb, bb, k, t)
  PROVE  LET xs == FlattenSeq([i \in 1 .. k |-> ScalarMul(sa[i], x[i])])
             ys == FlattenSeq([i \in 1 .. k |-> ScalarMul(sb[i], y[i])])
             X == Msm(xs \o ys \o <<InnerProduct(x, y), d>>,
                      FlattenSeq(ba) \o FlattenSeq(bb) \o <<U, V>>)
             A == Stand(sa, ba, k)
             B == Stand(sb, bb, k)
             at(g) == Opens(x, y, At(A, g, k), At(B, g, k), k, U[g]) + d * V[g]
         IN  X \in Point /\ \A g \in Generators : at(g) \in Int /\ Cong(X[g], at(g))
<1> DEFINE xs == FlattenSeq([i \in 1 .. k |-> ScalarMul(sa[i], x[i])])
           ys == FlattenSeq([i \in 1 .. k |-> ScalarMul(sb[i], y[i])])
           fa == FlattenSeq(ba)
           fb == FlattenSeq(bb)
           A == Stand(sa, ba, k)
           B == Stand(sb, bb, k)
           m == k * t
<1>1. /\ m \in Nat /\ Scalars(xs, m) /\ Points(fa, m)
      /\ \A g \in Generators : Cong(MDot(xs, fa, g, m), Dot(x, At(A, g, k), k))
  BY SymbolicDot
<1>2. /\ Scalars(ys, m) /\ Points(fb, m)
      /\ \A g \in Generators : Cong(MDot(ys, fb, g, m), Dot(y, At(B, g, k), k))
  BY SymbolicDot
<1>3. Points(A, k) /\ Points(B, k) /\ k \in Nat  BY StandPoints
<1> HIDE DEF xs, ys, fa, fb, A, B, m
<1>4. LET X == Msm(xs \o ys \o <<InnerProduct(x, y), d>>, fa \o fb \o <<U, V>>)
          at(g) == Opens(x, y, At(A, g, k), At(B, g, k), k, U[g]) + d * V[g]
      IN  X \in Point /\ \A g \in Generators : at(g) \in Int /\ Cong(X[g], at(g))
  BY <1>1, <1>2, <1>3, BlindedOpens
<1> QED BY <1>4 DEF xs, ys, fa, fb, A, B

(* The claim of a call, with its blinding. *)
LEMMA BlindedClaimOpens ==
  ASSUME NEW k \in Nat, NEW x, NEW y, NEW f, NEW h, NEW A, NEW B,
         FieldList(x, k), FieldList(y, k), FieldList(f, k), FieldList(h, k),
         Points(A, k), Points(B, k), NEW d \in Int
  PROVE  LET fA == [i \in 1 .. k |-> Msm(<<f[i]>>, <<A[i]>>)]
             hB == [i \in 1 .. k |-> Msm(<<h[i]>>, <<B[i]>>)]
             X == Msm(ComponentWiseMul(x, f) \o ComponentWiseMul(y, h) \o <<InnerProduct(x, y), d>>,
                      A \o B \o <<U, V>>)
             at(g) == Opens(x, y, At(fA, g, k), At(hB, g, k), k, U[g]) + d * V[g]
         IN  X \in Point /\ \A g \in Generators : at(g) \in Int /\ Cong(X[g], at(g))
<1> DEFINE fA == [i \in 1 .. k |-> Msm(<<f[i]>>, <<A[i]>>)]
           hB == [i \in 1 .. k |-> Msm(<<h[i]>>, <<B[i]>>)]
           xf == ComponentWiseMul(x, f)
           yh == ComponentWiseMul(y, h)
<1>1. /\ FieldList(xf, k)
      /\ \A g \in Generators : Cong(MDot(xf, A, g, k), Dot(x, At(fA, g, k), k))
  BY ScaledDot
<1>2. /\ FieldList(yh, k)
      /\ \A g \in Generators : Cong(MDot(yh, B, g, k), Dot(y, At(hB, g, k), k))
  BY ScaledDot
<1>3. Points(fA, k) /\ Points(hB, k)  BY ScaledPoints
<1> HIDE DEF fA, hB, xf, yh
<1>4. Scalars(xf, k) /\ Scalars(yh, k)  BY <1>1, <1>2, FieldScalars
<1>5. LET X == Msm(xf \o yh \o <<InnerProduct(x, y), d>>, A \o B \o <<U, V>>)
          at(g) == Opens(x, y, At(fA, g, k), At(hB, g, k), k, U[g]) + d * V[g]
      IN  X \in Point /\ \A g \in Generators : at(g) \in Int /\ Cong(X[g], at(g))
  BY <1>1, <1>2, <1>3, <1>4, BlindedOpens
<1> QED BY <1>5 DEF fA, hB, xf, yh

(* The blinding of the claim keeps up with that of the L's and R's. *)
LEMMA BlindingTerms ==
  ASSUME NEW u \in Int, NEW w \in Int, NEW O \in Int, NEW O1 \in Int, NEW lo \in Int, NEW ro \in Int,
         NEW al \in Int, NEW al1 \in Int, NEW dl \in Int, NEW dr \in Int, NEW v \in Int,
         Cong(O1, O + (u * u * lo + w * w * ro)),
         Cong(al1, al + u * u * dl + w * w * dr)
  PROVE  Cong(O1 + al1 * v,
              (O + al * v) + (u * u * (lo + dl * v) + w * w * (ro + dr * v)))
<1> DEFINE uu == u * u
           ww == w * w
<1>1. uu \in Int /\ ww \in Int  OBVIOUS
<1>2. Cong(O1, O + (uu * lo + ww * ro)) /\ Cong(al1, al + uu * dl + ww * dr)  OBVIOUS
<1> HIDE DEF uu, ww
<1> DEFINE P == O + (uu * lo + ww * ro)
           Q == al + uu * dl + ww * dr
<1>3. P \in Int /\ Q \in Int  BY <1>1
<1>4. P + Q * v = (O + al * v) + (uu * (lo + dl * v) + ww * (ro + dr * v))
  <2> DEFINE a1 == uu * dl
             a2 == ww * dr
  <2>1. a1 \in Int /\ a2 \in Int  BY <1>1
  <2>2. (al + a1 + a2) * v = al * v + (a1 * v + a2 * v)
    <3> HIDE DEF a1, a2
    <3> QED BY <2>1
  <2>3. a1 * v = uu * (dl * v) /\ a2 * v = ww * (dr * v)  BY <1>1
  <2>4. uu * (lo + dl * v) = uu * lo + uu * (dl * v) /\ ww * (ro + dr * v) = ww * ro + ww * (dr * v)
    BY <1>1
  <2>5. Q * v = al * v + (uu * (dl * v) + ww * (dr * v))  BY <2>2, <2>3
  <2> DEFINE b1 == uu * lo
             b2 == ww * ro
             c1 == uu * (dl * v)
             c2 == ww * (dr * v)
             e == al * v
             f == Q * v
  <2>6. b1 \in Int /\ b2 \in Int /\ c1 \in Int /\ c2 \in Int /\ e \in Int  BY <1>1
  <2>7. f = e + (c1 + c2)  BY <2>5
  <2>8. P = O + (b1 + b2)  OBVIOUS
  <2>9. (O + al * v) + (uu * (lo + dl * v) + ww * (ro + dr * v)) = (O + e) + ((b1 + c1) + (b2 + c2))
    BY <2>4
  <2> HIDE DEF b1, b2, c1, c2, e, f, P
  <2>10. P + f = (O + e) + ((b1 + c1) + (b2 + c2))  BY <2>6, <2>7, <2>8
  <2> QED BY <2>9, <2>10 DEF f
<1> HIDE DEF P, Q
<1>5. Cong(O1, P) /\ Cong(al1, Q)  BY <1>2 DEF P, Q
<1>6. Cong(v, v)  BY CongRefl
<1>7. Cong(al1 * v, Q * v) /\ al1 * v \in Int /\ Q * v \in Int  BY <1>3, <1>5, <1>6, CongMul
<1>8. Cong(O1 + al1 * v, P + Q * v)  BY <1>3, <1>5, <1>7, CongAdd
<1> QED BY <1>4, <1>8 DEF uu, ww

(* A list of scalars is a function into the scalar field.                  *)
LEMMA FieldListType ==
  ASSUME NEW k \in Nat, NEW s
  PROVE  FieldList(s, k) <=> s \in [1 .. k -> Fq]
BY DEF FieldList, IsList

(* A list of points is a function into the points.                         *)
LEMMA PointsType ==
  ASSUME NEW k \in Nat, NEW s
  PROVE  Points(s, k) <=> s \in [1 .. k -> Point]
BY DEF Points, IsList

(* A list of at least one entry is not the empty one.                      *)
LEMMA NotEmpty ==
  ASSUME NEW k \in Nat, NEW s, IsList(s, k + 1)
  PROVE  s # <<>> /\ Len(s) = k + 1
<1>1. Len(s) = k + 1  BY ListLength
<1> QED BY <1>1

(* A length above one that is a power of two is twice another.             *)
LEMMA HalfPower ==
  ASSUME NEW e \in 0 .. N, Pow2[e] # 1
  PROVE  LET h == Pow2[e] \div 2
         IN  h \in Nat /\ Pow2[e] = h + h /\ \E d \in 0 .. N : h = Pow2[d]
<1>1. e # 0  BY Pow2Law
<1>2. e - 1 \in Nat /\ e - 1 \in 0 .. N /\ (e - 1) + 1 = e  BY <1>1, BasesAssumption
<1> DEFINE p == Pow2[e - 1]
<1>3. Pow2[e] = 2 * p /\ p \in Nat  BY <1>2, Pow2Law
<1>4. \E d \in 0 .. N : p = Pow2[d]  BY <1>2
<1> HIDE DEF p
<1>5. Pow2[e] \div 2 = p  BY <1>3
<1> QED BY <1>3, <1>4, <1>5

(* The halves of a vector and of its bases are a vector and bases.         *)
LEMMA HalfLists ==
  ASSUME NEW h \in Nat, NEW x, NEW A, FieldList(x, h + h), Points(A, h + h)
  PROVE  /\ Halves(x, Left(x, h), Right(x, h), h) /\ Halves(A, Left(A, h), Right(A, h), h)
         /\ FieldList(Left(x, h), h) /\ FieldList(Right(x, h), h)
         /\ Points(Left(A, h), h) /\ Points(Right(A, h), h)
<1>1. Halves(x, Left(x, h), Right(x, h), h) /\ Halves(A, Left(A, h), Right(A, h), h)
  BY ListHalves DEF FieldList, Points
<1>2. FieldList(Left(x, h), h) /\ FieldList(Right(x, h), h)
  BY <1>1 DEF Halves, FieldList
<1>3. Points(Left(A, h), h) /\ Points(Right(A, h), h)
  BY <1>1 DEF Halves, Points
<1> QED BY <1>1, <1>2, <1>3

----------------------------------------------------------------------------
(* The scalars the verifier derives from the challenges.                   *)

(* Powers of two grow with their exponent.                                 *)
LEMMA Pow2Grows ==
  ASSUME NEW e \in Nat, NEW f \in Nat, e <= f
  PROVE  Pow2[e] <= Pow2[f]
<1> DEFINE T == {d \in Nat : Pow2[e] <= Pow2[e + d]}
<1>1. 0 \in T
  <2>1. e + 0 = e  OBVIOUS
  <2>2. Pow2[e] \in Nat  BY Pow2Law
  <2> HIDE DEF Pow2
  <2> QED BY <2>1, <2>2
<1>2. ASSUME NEW d \in Nat, d \in T PROVE d + 1 \in T
  <2> DEFINE x == Pow2[e]
             y == Pow2[e + d]
  <2>1. x <= y /\ x \in Nat /\ y \in Nat /\ e + d \in Nat  BY <1>2, Pow2Law
  <2>2. Pow2[(e + d) + 1] = 2 * y  BY <2>1, Pow2Law
  <2>3. (e + d) + 1 = e + (d + 1)  OBVIOUS
  <2> HIDE DEF y, x
  <2>4. x <= 2 * y  BY <2>1
  <2> QED BY <2>2, <2>3, <2>4 DEF x
<1> HIDE DEF T
<1>3. \A d \in Nat : d \in T  BY <1>1, <1>2, Induction
<1>4. f - e \in T /\ e + (f - e) = f  BY <1>3
<1> QED BY <1>4 DEF T

(* A number's exponent is that of the power of two at or below it.         *)
Brackets(i, e) == Pow2[e] <= i /\ i < Pow2[e + 1]

(* There is one such exponent.                                             *)
LEMMA BracketUnique ==
  ASSUME NEW i \in Nat, NEW e \in Nat, NEW f \in Nat, Brackets(i, e), Brackets(i, f)
  PROVE  e = f
<1>1. ASSUME NEW x \in Nat, NEW y \in Nat, x < y, Brackets(i, x), Brackets(i, y) PROVE FALSE
  <2>1. x + 1 \in Nat /\ x + 1 <= y  BY <1>1
  <2>2. Pow2[x + 1] <= Pow2[y] /\ Pow2[x + 1] \in Nat /\ Pow2[y] \in Nat
    BY <2>1, Pow2Grows, Pow2Law
  <2> DEFINE p == Pow2[x + 1]
             r == Pow2[y]
  <2>3. i < p /\ r <= i  BY <1>1 DEF Brackets
  <2>4. p <= r /\ p \in Nat /\ r \in Nat  BY <2>2
  <2> HIDE DEF p, r
  <2> QED BY <2>3, <2>4
<1>2. ~(e < f) /\ ~(f < e)  BY <1>1
<1> QED BY <1>2

(* FloorLog2 is that exponent.                                             *)
LEMMA FloorLog2Law ==
  ASSUME NEW i \in Nat \ {0}
  PROVE  FloorLog2(i) \in Nat /\ Brackets(i, FloorLog2(i))
<1> DEFINE T == {m \in Nat : \E e \in 0 .. m + 1 : Brackets(m + 1, e)}
<1>1. 0 \in T
  <2>1. Pow2[0] = 1 /\ Pow2[0 + 1] = 2 * Pow2[0]  BY Pow2Law
  <2>2. Brackets(0 + 1, 0)  BY <2>1 DEF Brackets
  <2>3. 0 \in 0 .. 0 + 1  OBVIOUS
  <2> QED BY <2>2, <2>3
<1>2. ASSUME NEW m \in Nat, m \in T PROVE m + 1 \in T
  <2>1. PICK e \in 0 .. m + 1 : Brackets(m + 1, e)  BY <1>2
  <2> DEFINE p == Pow2[e]
  <2>2. e \in Nat /\ e + 1 \in Nat  OBVIOUS
  <2>3. p \in Nat \ {0} /\ Pow2[e + 1] = 2 * p /\ Pow2[(e + 1) + 1] = 2 * (2 * p)
    BY <2>2, Pow2Law
  <2>4. p <= m + 1 /\ m + 1 < 2 * p  BY <2>1, <2>3 DEF Brackets
  <2>5. CASE (m + 1) + 1 < 2 * p
    <3>1. p <= (m + 1) + 1  BY <2>3, <2>4
    <3>2. Brackets((m + 1) + 1, e)  BY <2>3, <2>5, <3>1 DEF Brackets
    <3>3. e \in 0 .. (m + 1) + 1  OBVIOUS
    <3> QED BY <3>2, <3>3
  <2>6. CASE ~((m + 1) + 1 < 2 * p)
    <3> HIDE DEF p
    <3>1. 2 * p <= (m + 1) + 1 /\ (m + 1) + 1 < 2 * (2 * p)  BY <2>3, <2>4, <2>6
    <3>2. Brackets((m + 1) + 1, e + 1)  BY <2>3, <3>1 DEF Brackets, p
    <3>3. e + 1 \in 0 .. (m + 1) + 1  OBVIOUS
    <3> QED BY <3>2, <3>3
  <2> QED BY <2>5, <2>6
<1> HIDE DEF T
<1>3. i - 1 \in T /\ (i - 1) + 1 = i  BY <1>1, <1>2, Induction
<1>4. \E e \in 0 .. i : Brackets(i, e)
  <2>1. \E e \in 0 .. (i - 1) + 1 : Brackets((i - 1) + 1, e)  BY <1>3 DEF T
  <2> QED BY <1>3, <2>1
<1>5. FloorLog2(i) = CHOOSE e \in 0 .. i : Brackets(i, e)  BY DEF FloorLog2, Brackets
<1>6. FloorLog2(i) \in 0 .. i /\ Brackets(i, FloorLog2(i))  BY <1>4, <1>5
<1> QED BY <1>6

(* One bit more below.                                                     *)
LEMMA FloorLog2Next ==
  ASSUME NEW i \in Nat \ {0}, NEW r \in {0, 1}
  PROVE  FloorLog2(2 * i + r) = FloorLog2(i) + 1
<1> DEFINE e == FloorLog2(i)
           p == Pow2[e]
<1>1. e \in Nat /\ Brackets(i, e)  BY FloorLog2Law
<1> HIDE DEF e
<1>2. e + 1 \in Nat /\ (e + 1) + 1 \in Nat  BY <1>1
<1>3. p \in Nat /\ Pow2[e + 1] = 2 * p /\ Pow2[(e + 1) + 1] = 2 * (2 * p)  BY <1>1, <1>2, Pow2Law
<1>4. p <= i /\ i < 2 * p  BY <1>1, <1>3 DEF Brackets
<1>5. 2 * p <= 2 * i + r /\ 2 * i + r < 2 * (2 * p)
  <2> HIDE DEF p
  <2>1. i + 1 <= 2 * p  BY <1>3, <1>4
  <2>2. r \in Int /\ 0 <= r /\ r <= 1  OBVIOUS
  <2> QED BY <1>3, <1>4, <2>1, <2>2
<1>6. Brackets(2 * i + r, e + 1)  BY <1>3, <1>5 DEF Brackets
<1>7. 2 * i + r \in Nat \ {0}  OBVIOUS
<1>8. FloorLog2(2 * i + r) \in Nat /\ Brackets(2 * i + r, FloorLog2(2 * i + r))
  BY <1>7, FloorLog2Law
<1>9. 2 * i + r \in Nat  BY <1>7
<1> QED BY <1>2, <1>6, <1>8, <1>9, BracketUnique DEF e

(* That of 1.                                                              *)
LEMMA FloorLog2One == FloorLog2(1) = 0
<1>1. Pow2[0] = 1 /\ Pow2[0 + 1] = 2 * Pow2[0]  BY Pow2Law
<1>2. Brackets(1, 0)  BY <1>1 DEF Brackets
<1>3. FloorLog2(1) \in Nat /\ Brackets(1, FloorLog2(1))  BY FloorLog2Law
<1> QED BY <1>2, <1>3, BracketUnique

(* An index below 2^k has less than k as its exponent.                     *)
LEMMA FloorLog2Below ==
  ASSUME NEW k \in Nat, NEW i \in Nat \ {0}, i < Pow2[k]
  PROVE  FloorLog2(i) \in 0 .. k - 1
<1> DEFINE e == FloorLog2(i)
<1>1. e \in Nat /\ Brackets(i, e)  BY FloorLog2Law
<1> HIDE DEF e
<1>2. ASSUME k <= e PROVE FALSE
  <2>1. Pow2[k] <= Pow2[e] /\ Pow2[k] \in Nat /\ Pow2[e] \in Nat  BY <1>1, <1>2, Pow2Grows, Pow2Law
  <2>2. Pow2[e] <= i  BY <1>1 DEF Brackets
  <2> DEFINE p == Pow2[k]
             r == Pow2[e]
  <2>3. p <= r /\ r <= i /\ i < p /\ p \in Nat /\ r \in Nat  BY <2>1, <2>2
  <2> HIDE DEF p, r
  <2> QED BY <2>3
<1>3. e < k  BY <1>1, <1>2
<1> QED BY <1>1, <1>3 DEF e

(* Numbers added up in pairs.                                              *)
Pairs(f, k) == [i \in 1 .. k |-> f[2 * i - 1] + f[2 * i]]

(* Pairing changes no sum.                                                 *)
LEMMA SumPairs ==
  ASSUME NEW k \in Nat, NEW f, \A i \in 1 .. 2 * k : f[i] \in Int
  PROVE  SumTo(f, 2 * k) = SumTo(Pairs(f, k), k)
<1> DEFINE T == {m \in Nat : m <= k => SumTo(f, 2 * m) = SumTo(Pairs(f, k), m)}
           P == Pairs(f, k)
<1>1. \A i \in 1 .. k : P[i] = f[2 * i - 1] + f[2 * i] /\ P[i] \in Int
  <2>1. ASSUME NEW i \in 1 .. k PROVE P[i] = f[2 * i - 1] + f[2 * i] /\ P[i] \in Int
    <3>1. 2 * i - 1 \in 1 .. 2 * k /\ 2 * i \in 1 .. 2 * k  OBVIOUS
    <3>2. P[i] = f[2 * i - 1] + f[2 * i]  BY DEF Pairs
    <3> HIDE DEF P
    <3> QED BY <3>1, <3>2
  <2> QED BY <2>1
<1> HIDE DEF P
<1>2. 0 \in T
  <2>1. 2 * 0 = 0  OBVIOUS
  <2> QED BY <2>1, SumToZero
<1>3. ASSUME NEW m \in Nat, m \in T PROVE m + 1 \in T
  <2>1. SUFFICES ASSUME m + 1 <= k PROVE SumTo(f, 2 * (m + 1)) = SumTo(P, m + 1)
    BY DEF P
  <2>2. SumTo(f, 2 * m) = SumTo(P, m)  BY <1>3, <2>1 DEF P
  <2> DEFINE l == 2 * m
  <2>3. l \in Nat /\ l + 1 \in Nat /\ (l + 1) + 1 = 2 * (m + 1) /\ l + 1 = 2 * (m + 1) - 1
    OBVIOUS
  <2>4. /\ \A i \in 1 .. l + 1 : i \in 1 .. 2 * k
        /\ \A i \in 1 .. (l + 1) + 1 : i \in 1 .. 2 * k
        /\ \A i \in 1 .. m + 1 : i \in 1 .. k
        /\ l + 1 \in 1 .. 2 * k /\ (l + 1) + 1 \in 1 .. 2 * k /\ m + 1 \in 1 .. k
    BY <2>1
  <2> HIDE DEF l
  <2>5. /\ \A i \in 1 .. l + 1 : f[i] \in Int
        /\ \A i \in 1 .. (l + 1) + 1 : f[i] \in Int
        /\ \A i \in 1 .. m + 1 : P[i] \in Int
    BY <1>1, <2>4
  <2>6. SumTo(f, l + 1) = SumTo(f, l) + f[l + 1] /\ SumTo(f, l) \in Int
    BY <2>3, <2>5, SumToNext
  <2>7. SumTo(f, (l + 1) + 1) = SumTo(f, l + 1) + f[(l + 1) + 1]
    BY <2>3, <2>5, SumToNext
  <2>8. SumTo(P, m + 1) = SumTo(P, m) + P[m + 1]  BY <2>5, SumToNext
  <2>9. P[m + 1] = f[l + 1] + f[(l + 1) + 1]  BY <1>1, <2>3, <2>4
  <2>10. f[l + 1] \in Int /\ f[(l + 1) + 1] \in Int  BY <2>4
  <2>11. SumTo(f, l) = SumTo(P, m)  BY <2>2 DEF l
  <2>12. SumTo(f, (l + 1) + 1) = SumTo(P, m + 1)
    BY <2>6, <2>7, <2>8, <2>9, <2>10, <2>11
  <2> QED BY <2>3, <2>12
<1> HIDE DEF T
<1>4. k \in T  BY <1>2, <1>3, Induction
<1> QED BY <1>4 DEF T, P

(* What AllInv does with the i-th challenge.                               *)
TimesInv(us, i, p) == IF us[i] = 0 THEN p ELSE (p * Inv(us[i])) % q

InvTimes(it, us, k) ==
  it = [s \in SUBSET (1 .. k) |-> IF s = {} THEN 1 ELSE TimesInv(us, Max(s), it[s \ {Max(s)}])]

(* The greatest of some indices.                                           *)
LEMMA MaxIn ==
  ASSUME NEW k \in Nat, NEW s \in SUBSET (1 .. k), s # {}
  PROVE  Max(s) \in s
<1> DEFINE T == {k + 1 - x : x \in s}
<1>1. T \subseteq Nat /\ T # {}
  <2>1. \A x \in s : k + 1 - x \in Nat
    <3>1. \A x \in 1 .. k : k + 1 - x \in Nat  OBVIOUS
    <3> QED BY <3>1
  <2>2. PICK x \in s : TRUE  OBVIOUS
  <2>3. k + 1 - x \in T  BY <2>2
  <2> QED BY <2>1, <2>3
<1>2. PICK y \in T : \A z \in T : y <= z  BY <1>1, SmallestOf
<1>3. PICK x \in s : y = k + 1 - x  BY <1>2
<1>4. \A z \in s : x >= z
  <2>1. ASSUME NEW z \in s PROVE x >= z
    <3>1. k + 1 - z \in T  OBVIOUS
    <3>2. k + 1 - x <= k + 1 - z  BY <1>2, <1>3, <3>1
    <3>3. x \in Int /\ z \in Int  OBVIOUS
    <3> QED BY <3>2, <3>3
  <2> QED BY <2>1
<1> QED BY <1>4 DEF Max

(* The greatest of the first k is the k-th.                                *)
LEMMA MaxTo ==
  ASSUME NEW k \in Nat \ {0}
  PROVE  Max(1 .. k) = k
<1>1. k \in 1 .. k /\ \A y \in 1 .. k : k >= y  OBVIOUS
<1>2. \A x \in 1 .. k : (\A y \in 1 .. k : x >= y) => x = k  BY <1>1
<1> QED BY <1>1, <1>2 DEF Max

(* The running products exist and stay in the field.                       *)
LEMMA InvTimesExists ==
  ASSUME NEW k \in Nat, NEW us, FieldList(us, k)
  PROVE  \E it \in [SUBSET (1 .. k) -> Fq] : InvTimes(it, us, k)
<1> DEFINE S == 1 .. k
           step == [p \in S \X Fq |-> TimesInv(us, p[1], p[2])]
           ch == [s \in SUBSET S |-> Max(s)]
<1>1. ASSUME NEW i \in S, NEW p \in Fq PROVE TimesInv(us, i, p) \in Fq
  <2>1. us[i] \in Fq  BY DEF FieldList
  <2>2. CASE us[i] = 0  BY <2>2 DEF TimesInv
  <2>3. CASE us[i] # 0
    <3>1. Inv(us[i]) \in Int /\ p \in Int  BY <2>1, <2>3, InvLaw DEF Fq
    <3>2. p * Inv(us[i]) \in Int  BY <3>1
    <3> QED BY <2>3, <3>2, ModCong DEF TimesInv
  <2> QED BY <2>2, <2>3
<1>2. step \in [S \X Fq -> Fq]
  <2>1. \A p \in S \X Fq : TimesInv(us, p[1], p[2]) \in Fq  BY <1>1
  <2> QED BY <2>1
<1>3. \A s \in SUBSET S : s # {} => ch[s] \in s  BY MaxIn
<1>4. \A i \in S, v \in Fq : step[<<i, v>>] = TimesInv(us, i, v)  OBVIOUS
<1>5. \A s \in SUBSET S : ch[s] = Max(s)  OBVIOUS
<1>6. IsFiniteSet(S)  BY IntervalFinite
<1> HIDE DEF step, ch, S
<1>7. PICK it \in [SUBSET S -> Fq] : Folds(it, SUBSET S, 1, ch, step)
  <2>1. 1 \in Fq  BY GeneratorPoint
  <2> QED BY <1>2, <1>3, <1>6, <2>1, FoldExists
<1>8. ASSUME NEW s \in SUBSET S, s # {}
      PROVE  it[s] = TimesInv(us, Max(s), it[s \ {Max(s)}])
  <2>1. ch[s] \in S /\ ch[s] = Max(s)  BY <1>3, <1>5, <1>8
  <2>2. it[s \ {ch[s]}] \in Fq  BY <1>7
  <2>3. it[s] = step[<<ch[s], it[s \ {ch[s]}]>>]  BY <1>7, <1>8 DEF Folds
  <2> QED BY <1>4, <2>1, <2>2, <2>3
<1>9. it[{}] = 1  BY <1>7 DEF Folds
<1>10. it = [s \in SUBSET S |-> IF s = {} THEN 1 ELSE TimesInv(us, Max(s), it[s \ {Max(s)}])]
  BY <1>7, <1>8, <1>9
<1>11. InvTimes(it, us, k)  BY <1>10 DEF InvTimes, S
<1> QED BY <1>7, <1>11 DEF S

(* The product of a prefix.                                                *)
LEMMA InvTimesTo ==
  ASSUME NEW k \in Nat, NEW us, NEW it, InvTimes(it, us, k), NEW j \in Nat, j + 1 <= k
  PROVE  it[1 .. j + 1] = TimesInv(us, j + 1, it[1 .. j])
<1>1. 1 .. j + 1 \in SUBSET (1 .. k) /\ 1 .. j + 1 # {}  OBVIOUS
<1>2. Max(1 .. j + 1) = j + 1  BY MaxTo
<1>3. (1 .. j + 1) \ {j + 1} = 1 .. j  OBVIOUS
<1> QED BY <1>1, <1>2, <1>3 DEF InvTimes

(* Products agree on a common prefix of the challenges.                    *)
LEMMA InvTimesAgree ==
  ASSUME NEW k \in Nat, NEW l \in Nat, NEW us, NEW vs, NEW it, NEW jt,
         InvTimes(it, us, k), InvTimes(jt, vs, l),
         NEW m \in Nat, m <= k, m <= l, \A i \in 1 .. m : us[i] = vs[i]
  PROVE  it[1 .. m] = jt[1 .. m]
<1> DEFINE T == {j \in Nat : j <= m => it[1 .. j] = jt[1 .. j]}
<1>1. 0 \in T
  <2>1. 1 .. 0 = {}  OBVIOUS
  <2>2. it[{}] = 1 /\ jt[{}] = 1  BY DEF InvTimes
  <2> QED BY <2>1, <2>2
<1>2. ASSUME NEW j \in Nat, j \in T PROVE j + 1 \in T
  <2>1. SUFFICES ASSUME j + 1 <= m PROVE it[1 .. j + 1] = jt[1 .. j + 1]  OBVIOUS
  <2>2. it[1 .. j] = jt[1 .. j]  BY <1>2, <2>1
  <2>3. j + 1 <= k /\ j + 1 <= l /\ j + 1 \in 1 .. m  BY <2>1
  <2>4. /\ it[1 .. j + 1] = TimesInv(us, j + 1, it[1 .. j])
        /\ jt[1 .. j + 1] = TimesInv(vs, j + 1, jt[1 .. j])
    BY <2>3, InvTimesTo
  <2>5. us[j + 1] = vs[j + 1]  BY <2>3
  <2> QED BY <2>2, <2>4, <2>5 DEF TimesInv
<1> HIDE DEF T
<1>3. m \in T  BY <1>1, <1>2, Induction
<1> QED BY <1>3 DEF T

(* AllInv is the last of the running products.                             *)
LEMMA AllInvIs ==
  ASSUME NEW k \in Nat, NEW us, FieldList(us, k)
  PROVE  \E it \in [SUBSET (1 .. k) -> Fq] : InvTimes(it, us, k) /\ AllInv(us) = it[1 .. k]
<1> DEFINE iter == CHOOSE it : InvTimes(it, us, k)
<1>1. PICK it \in [SUBSET (1 .. k) -> Fq] : InvTimes(it, us, k)  BY InvTimesExists
<1>2. InvTimes(iter, us, k)  BY <1>1
<1>3. DOMAIN us = 1 .. k  BY DEF FieldList, IsList
<1>4. AllInv(us) = iter[1 .. k]
  BY <1>3 DEF AllInv, FoldLeft, MapThenFoldSet, InvTimes, TimesInv
<1> HIDE DEF iter
<1>5. \A i \in 1 .. k : us[i] = us[i]  OBVIOUS
<1>6. k <= k  OBVIOUS
<1>7. iter[1 .. k] = it[1 .. k]  BY <1>1, <1>2, <1>5, <1>6, InvTimesAgree
<1> QED BY <1>1, <1>4, <1>7

(* A challenge that is not zero multiplies AllInv by its inverse.          *)
LEMMA AllInvNext ==
  ASSUME NEW k \in Nat, NEW us, FieldList(us, k), NEW u \in Fq, u # 0,
         NEW vs, FieldList(vs, k + 1), Appends(vs, us, u, k)
  PROVE  /\ AllInv(us) \in Fq /\ AllInv(vs) \in Fq
         /\ AllInv(vs) = (AllInv(us) * Inv(u)) % q
<1>1. PICK it \in [SUBSET (1 .. k) -> Fq] : InvTimes(it, us, k) /\ AllInv(us) = it[1 .. k]
  BY AllInvIs
<1>2. k + 1 \in Nat  OBVIOUS
<1>3. PICK jt \in [SUBSET (1 .. k + 1) -> Fq] :
        InvTimes(jt, vs, k + 1) /\ AllInv(vs) = jt[1 .. k + 1]
  BY <1>2, AllInvIs
<1>4. \A i \in 1 .. k : us[i] = vs[i]  BY DEF Appends
<1>5. k <= k /\ k <= k + 1 /\ k + 1 <= k + 1  OBVIOUS
<1>6. it[1 .. k] = jt[1 .. k]  BY <1>1, <1>2, <1>3, <1>4, <1>5, InvTimesAgree
<1>7. jt[1 .. k + 1] = TimesInv(vs, k + 1, jt[1 .. k])  BY <1>2, <1>3, <1>5, InvTimesTo
<1>8. vs[k + 1] = u  BY DEF Appends
<1>9. TimesInv(vs, k + 1, jt[1 .. k]) = (jt[1 .. k] * Inv(u)) % q  BY <1>8 DEF TimesInv
<1>10. 1 .. k \in SUBSET (1 .. k) /\ 1 .. k + 1 \in SUBSET (1 .. k + 1)  OBVIOUS
<1> QED BY <1>1, <1>3, <1>6, <1>7, <1>9, <1>10

(* Without challenges the product is 1.                                    *)
LEMMA AllInvNone == ASSUME NEW us, FieldList(us, 0) PROVE AllInv(us) = 1
<1>1. PICK it \in [SUBSET (1 .. 0) -> Fq] : InvTimes(it, us, 0) /\ AllInv(us) = it[1 .. 0]
  BY AllInvIs
<1>2. 1 .. 0 = {}  OBVIOUS
<1> QED BY <1>1, <1>2 DEF InvTimes

(* The coefficient with which the base at i enters the last one, from the  *)
(* coefficient at i without its highest bit.                               *)
Coefficient(f, us, i) ==
  IF i = 0 THEN AllInv(us)
  ELSE (f[i - Pow2[FloorLog2(i)]] * Squares(us)[Len(us) - FloorLog2(i)]) % q

Coefficients(f, us, m) == f = [i \in 0 .. m - 1 |-> Coefficient(f, us, i)]

(* Without its highest bit a number is smaller.                            *)
LEMMA WithoutHighest ==
  ASSUME NEW i \in Nat \ {0}
  PROVE  /\ FloorLog2(i) \in Nat /\ Pow2[FloorLog2(i)] \in Nat \ {0}
         /\ i - Pow2[FloorLog2(i)] \in 0 .. i - 1
<1> DEFINE e == FloorLog2(i)
           p == Pow2[e]
<1>1. e \in Nat /\ Brackets(i, e)  BY FloorLog2Law
<1>2. p \in Nat \ {0}  BY <1>1, Pow2Law
<1>3. p <= i  BY <1>1 DEF Brackets
<1> HIDE DEF e, p
<1> SUFFICES e \in Nat /\ p \in Nat \ {0} /\ i - p \in 0 .. i - 1  BY DEF e, p
<1> QED BY <1>1, <1>2, <1>3

(* The coefficients exist.                                                 *)
LEMMA CoefficientsExist ==
  ASSUME NEW us, NEW m \in Nat
  PROVE  \E f : Coefficients(f, us, m)
<1> DEFINE T == {k \in Nat : \E f : Coefficients(f, us, k)}
<1>1. 0 \in T
  <2> DEFINE f == [i \in 0 .. 0 - 1 |-> {}]
  <2>1. f = [i \in 0 .. 0 - 1 |-> Coefficient(f, us, i)]  OBVIOUS
  <2>2. Coefficients(f, us, 0)  BY <2>1 DEF Coefficients
  <2> QED BY <2>2
<1>2. ASSUME NEW k \in Nat, k \in T PROVE k + 1 \in T
  <2>1. PICK g : Coefficients(g, us, k)  BY <1>2
  <2> DEFINE f == [i \in 0 .. (k + 1) - 1 |-> IF i = k THEN Coefficient(g, us, k) ELSE g[i]]
  <2>2. \A i \in 0 .. k - 1 : i \in 0 .. (k + 1) - 1 /\ i # k  OBVIOUS
  <2>3. \A i \in 0 .. k - 1 : f[i] = g[i]  BY <2>2
  <2>4. \A i \in 0 .. k - 1 : g[i] = Coefficient(g, us, i)  BY <2>1 DEF Coefficients
  <2>5. k \in 0 .. (k + 1) - 1 /\ f[k] = Coefficient(g, us, k)  OBVIOUS
  <2>6. f = [i \in 0 .. (k + 1) - 1 |-> f[i]]  OBVIOUS
  <2> HIDE DEF f
  <2>7. ASSUME NEW i \in 0 .. k PROVE Coefficient(f, us, i) = Coefficient(g, us, i)
    <3>1. CASE i = 0  BY <3>1 DEF Coefficient
    <3>2. CASE i # 0
      <4>1. i \in Nat \ {0}  BY <3>2
      <4>2. i - Pow2[FloorLog2(i)] \in 0 .. i - 1  BY <4>1, WithoutHighest
      <4>3. i - Pow2[FloorLog2(i)] \in 0 .. k - 1  BY <4>2
      <4>4. f[i - Pow2[FloorLog2(i)]] = g[i - Pow2[FloorLog2(i)]]  BY <2>3, <4>3
      <4> QED BY <3>2, <4>4 DEF Coefficient
    <3> QED BY <3>1, <3>2
  <2>8. ASSUME NEW i \in 0 .. (k + 1) - 1 PROVE f[i] = Coefficient(f, us, i)
    <3>1. i \in 0 .. k  OBVIOUS
    <3>2. CASE i = k  BY <2>5, <2>7, <3>1, <3>2
    <3>3. CASE i # k
      <4>1. i \in 0 .. k - 1  BY <3>3
      <4> QED BY <2>3, <2>4, <2>7, <3>1, <4>1
    <3> QED BY <3>2, <3>3
  <2>9. [i \in 0 .. (k + 1) - 1 |-> f[i]] = [i \in 0 .. (k + 1) - 1 |-> Coefficient(f, us, i)]
    BY <2>8
  <2>10. Coefficients(f, us, k + 1)  BY <2>6, <2>9 DEF Coefficients
  <2> QED BY <2>10
<1> HIDE DEF T
<1>3. m \in T  BY <1>1, <1>2, Induction
<1> QED BY <1>3 DEF T

(* VerificationScalars lists them.                                         *)
LEMMA ScalarsAreCoefficients ==
  ASSUME NEW us, NEW k \in Nat, Len(us) = k
  PROVE  \E f : /\ Coefficients(f, us, Pow2[k])
                /\ VerificationScalars(us) = [i \in 1 .. Pow2[k] |-> f[i - 1]]
<1> DEFINE m == Pow2[k]
           f == CHOOSE f : Coefficients(f, us, m)
<1>1. m \in Nat  BY Pow2Law
<1>2. VerificationScalars(us) = [i \in 1 .. m |-> f[i - 1]]
  BY DEF VerificationScalars, Coefficients, Coefficient
<1>3. Coefficients(f, us, m)
  <2> HIDE DEF m
  <2>1. \E g : Coefficients(g, us, m)  BY <1>1, CoefficientsExist
  <2> QED BY <2>1
<1> QED BY <1>2, <1>3

(* The coefficients are scalars.                                           *)
LEMMA CoefficientField ==
  ASSUME NEW us, NEW k \in Nat, FieldList(us, k), NEW f, Coefficients(f, us, Pow2[k]),
         AllInv(us) \in Fq
  PROVE  \A i \in 0 .. Pow2[k] - 1 : f[i] \in Fq
<1> DEFINE m == Pow2[k]
           T == {j \in Nat : \A i \in 0 .. m - 1 : i < j => f[i] \in Fq}
<1>0. Len(us) = k  BY ListLength DEF FieldList
<1>1. m \in Nat  BY Pow2Law
<1>2. \A i \in 0 .. m - 1 : f[i] = Coefficient(f, us, i)  BY DEF Coefficients
<1>3. 0 \in T  BY <1>1
<1>4. ASSUME NEW j \in Nat, j \in T PROVE j + 1 \in T
  <2>1. SUFFICES ASSUME NEW i \in 0 .. m - 1, i < j + 1 PROVE f[i] \in Fq  OBVIOUS
  <2>2. CASE i = 0  BY <1>2, <2>2 DEF Coefficient
  <2>3. CASE i # 0
    <3> DEFINE e == FloorLog2(i)
               l == i - Pow2[e]
    <3> HIDE DEF m
    <3>1. i \in Nat \ {0} /\ i < m  BY <1>1, <2>3
    <3>2. e \in 0 .. k - 1  BY <3>1, FloorLog2Below DEF m
    <3>3. l \in 0 .. i - 1  BY <3>1, WithoutHighest
    <3>4. l \in 0 .. m - 1 /\ l < j  BY <1>1, <2>1, <3>1, <3>3
    <3>5. f[l] \in Fq  BY <1>4, <3>4
    <3>6. f[i] = (f[l] * Squares(us)[k - e]) % q  BY <1>0, <1>2, <2>3 DEF Coefficient
    <3> HIDE DEF l, e
    <3>7. k - e \in 1 .. k  BY <3>2
    <3>8. Squares(us)[k - e] \in Fq
      <4>1. FieldList(Squares(us), k)  BY SquaresList
      <4> QED BY <3>7, <4>1 DEF FieldList
    <3>9. f[l] * Squares(us)[k - e] \in Int  BY <3>5, <3>8 DEF Fq
    <3> QED BY <3>6, <3>9, ModCong
  <2> QED BY <2>2, <2>3
<1> HIDE DEF T
<1>5. m \in T  BY <1>1, <1>3, <1>4, Induction
<1> QED BY <1>5 DEF T

(* Twice a number, without its highest bit.                                *)
LEMMA HighestOfDouble ==
  ASSUME NEW i \in Nat \ {0}, NEW r \in {0, 1}
  PROVE  LET e == FloorLog2(i)
             j == i - Pow2[e]
         IN  /\ FloorLog2(2 * i + r) = e + 1 /\ e \in Nat
             /\ j \in 0 .. i - 1
             /\ (2 * i + r) - Pow2[e + 1] = 2 * j + r
<1> DEFINE e == FloorLog2(i)
           p == Pow2[e]
           j == i - p
<1>1. e \in Nat /\ p \in Nat \ {0} /\ j \in 0 .. i - 1  BY WithoutHighest
<1>2. FloorLog2(2 * i + r) = e + 1  BY FloorLog2Next
<1> HIDE DEF e
<1>3. Pow2[e + 1] = 2 * p  BY <1>1, Pow2Law
<1>4. (2 * i + r) - 2 * p = 2 * j + r
  <2> HIDE DEF p
  <2> QED BY <1>1 DEF j
<1> HIDE DEF p, j
<1> QED BY <1>1, <1>2, <1>3, <1>4 DEF e, p, j

(* What a further challenge makes of each coefficient.                     *)
Splits(f, ff, l, r, m) ==
  \A i \in 0 .. m - 1 : Cong(ff[2 * i], l * f[i]) /\ Cong(ff[2 * i + 1], r * f[i])

(* A congruence up to a factor survives a common multiple.                 *)
LEMMA CongTimes ==
  ASSUME NEW x \in Int, NEW y \in Int, NEW z \in Int, NEW c \in Int, NEW s \in Int,
         Cong(x, c * y), Cong(z, y * s), NEW v \in Int, Cong(v, x * s)
  PROVE  Cong(v, c * z)
<1>1. x * s \in Int /\ c * y \in Int /\ (c * y) * s \in Int /\ y * s \in Int
      /\ c * (y * s) \in Int /\ c * z \in Int  OBVIOUS
<1>2. Cong(x * s, (c * y) * s)  BY <1>1, CongMul, CongRefl
<1>3. Cong(v, (c * y) * s)  BY <1>1, <1>2, CongTrans
<1>4. (c * y) * s = c * (y * s)  OBVIOUS
<1>5. Cong(c * (y * s), c * z)  BY <1>1, CongMul, CongRefl, CongSym
<1> QED BY <1>1, <1>3, <1>4, <1>5, CongTrans

(* Each coefficient becomes two: one times the inverse, one times the      *)
(* challenge.                                                              *)
LEMMA CoefficientsSplit ==
  ASSUME NEW k \in Nat, NEW us, FieldList(us, k), NEW u \in Fq, u # 0,
         NEW vs, FieldList(vs, k + 1), Appends(vs, us, u, k),
         NEW f, Coefficients(f, us, Pow2[k]), NEW ff, Coefficients(ff, vs, Pow2[k + 1])
  PROVE  Splits(f, ff, Inv(u), u, Pow2[k])
<1> DEFINE m == Pow2[k]
           w == Inv(u)
           Good(i) == Cong(ff[2 * i], w * f[i]) /\ Cong(ff[2 * i + 1], u * f[i])
           T == {j \in Nat : \A i \in 0 .. m - 1 : i < j => Good(i)}
<1>1. AllInv(us) \in Fq /\ AllInv(vs) \in Fq /\ AllInv(vs) = (AllInv(us) * w) % q
  BY AllInvNext
<1>2. Len(us) = k /\ Len(vs) = k + 1 /\ k + 1 \in Nat  BY ListLength DEF FieldList
<1>3. w \in Int /\ u \in Int /\ Cong(u * w, 1)  BY InvLaw
<1>4. m \in Nat \ {0} /\ Pow2[k + 1] = 2 * m  BY Pow2Law
<1>5. \A i \in 0 .. m - 1 : f[i] \in Fq  BY <1>1, CoefficientField
<1>6. \A i \in 0 .. 2 * m - 1 : ff[i] \in Fq  BY <1>1, <1>2, <1>4, CoefficientField
<1>7. \A i \in 0 .. m - 1 : f[i] = Coefficient(f, us, i)  BY DEF Coefficients
<1>8. \A i \in 0 .. 2 * m - 1 : ff[i] = Coefficient(ff, vs, i)  BY <1>4 DEF Coefficients
<1>9. /\ \A i \in 1 .. k : Squares(us)[i] \in Fq /\ Cong(Squares(us)[i], us[i] * us[i])
      /\ \A i \in 1 .. k + 1 : Squares(vs)[i] \in Fq /\ Cong(Squares(vs)[i], vs[i] * vs[i])
                                 /\ Squares(vs)[i] = (vs[i] * vs[i]) % q
      /\ \A i \in 1 .. k : Squares(us)[i] = (us[i] * us[i]) % q
  BY <1>2, SquaresList DEF FieldList
<1>10. \A i \in 1 .. k : Squares(vs)[i] = Squares(us)[i]
  <2>1. \A i \in 1 .. k : vs[i] = us[i] /\ i \in 1 .. k + 1  BY DEF Appends
  <2> QED BY <1>9, <2>1
<1> HIDE DEF w, m
<1>11. 0 \in T  BY <1>4
<1>12. Good(0)
  <2>1. 0 \in 0 .. m - 1 /\ 0 \in 0 .. 2 * m - 1 /\ 1 \in 0 .. 2 * m - 1  BY <1>4
  <2>2. f[0] = AllInv(us) /\ ff[0] = AllInv(vs)  BY <1>7, <1>8, <2>1 DEF Coefficient
  <2>3. ff[1] = (ff[0] * Squares(vs)[k + 1]) % q
    <3>1. FloorLog2(1) = 0 /\ Pow2[0] = 1  BY FloorLog2One, Pow2Law
    <3>2. 1 - 1 = 0 /\ (k + 1) - 0 = k + 1 /\ 1 # 0  OBVIOUS
    <3>3. Coefficient(ff, vs, 1) = (ff[1 - Pow2[FloorLog2(1)]] * Squares(vs)[Len(vs) - FloorLog2(1)]) % q
      BY <3>2 DEF Coefficient
    <3> QED BY <1>2, <1>8, <2>1, <3>1, <3>2, <3>3
  <2> DEFINE x == f[0]
             y == ff[0]
             z == ff[1]
             s == Squares(vs)[k + 1]
  <2>4. k + 1 \in 1 .. k + 1 /\ vs[k + 1] = u  BY DEF Appends
  <2>5. s \in Fq /\ Cong(s, u * u)  BY <1>9, <2>4
  <2>6. y = (x * w) % q /\ z = (y * s) % q  BY <1>1, <2>2, <2>3
  <2>7. x \in Fq /\ y \in Fq /\ z \in Fq  BY <1>5, <1>6, <2>1
  <2> HIDE DEF x, y, z, s
  <2>8. x \in Int /\ y \in Int /\ z \in Int /\ s \in Int  BY <2>5, <2>7 DEF Fq
  <2>9. x * w \in Int /\ y * s \in Int /\ w * x \in Int /\ u * u \in Int
        /\ (x * w) * (u * u) \in Int /\ u * x \in Int
        /\ x * w = w * x /\ (x * w) * (u * u) = (u * w) * (u * x) /\ u * w \in Int /\ (u * w) * (u * x) \in Int
    BY <1>3, <2>8
  <2>10. Cong(y, w * x)  BY <2>6, <2>9, ModCong
  <2>11. Cong(y * s, (x * w) * (u * u))
    <3>1. Cong(y, x * w)  BY <2>9, <2>10
    <3> QED BY <2>5, <2>8, <2>9, <3>1, CongMul
  <2>12. Cong((u * w) * (u * x), 1 * (u * x))
    <3>1. 1 \in Int  OBVIOUS
    <3> QED BY <1>3, <2>9, <3>1, CongMul, CongRefl
  <2>13. 1 * (u * x) = u * x  BY <2>9
  <2>14. Cong(z, y * s)  BY <2>6, <2>9, ModCong
  <2>15. Cong(z, (u * w) * (u * x))  BY <2>8, <2>9, <2>11, <2>14, CongTrans
  <2>16. Cong(z, u * x)  BY <2>8, <2>9, <2>12, <2>13, <2>15, CongTrans
  <2>17. 2 * 0 = 0 /\ 2 * 0 + 1 = 1  OBVIOUS
  <2> QED BY <2>10, <2>16, <2>17 DEF x, y, z
<1>13. ASSUME NEW i \in 1 .. m - 1, NEW r \in {0, 1}, NEW c \in Int,
              \A j \in 0 .. i - 1 : Cong(ff[2 * j + r], c * f[j])
       PROVE  Cong(ff[2 * i + r], c * f[i])
  <2> DEFINE e == FloorLog2(i)
             j == i - Pow2[e]
             s == Squares(us)[k - e]
  <2>1. i \in Nat \ {0} /\ i < Pow2[k] /\ i \in 0 .. m - 1 /\ 2 * i + r # 0  BY <1>4 DEF m
  <2>2. /\ FloorLog2(2 * i + r) = e + 1 /\ e \in Nat
        /\ j \in 0 .. i - 1
        /\ (2 * i + r) - Pow2[e + 1] = 2 * j + r
    BY <2>1, HighestOfDouble
  <2>3. e \in 0 .. k - 1  BY <2>1, FloorLog2Below
  <2>4. f[i] = (f[j] * s) % q  BY <1>2, <1>7, <2>1 DEF Coefficient
  <2> HIDE DEF e, j
  <2>5. 2 * i + r \in 0 .. 2 * m - 1 /\ 2 * j + r \in 0 .. 2 * m - 1 /\ j \in 0 .. m - 1
    <3>1. r \in Int /\ 0 <= r /\ r <= 1 OBVIOUS
    <3>2. j \in Int /\ 0 <= j /\ j <= i - 1 /\ i \in Int /\ 1 <= i /\ i <= m - 1  BY <2>2
    <3>3. m \in Int  BY <1>4
    <3> QED BY <3>1, <3>2, <3>3
  <2>6. ff[2 * i + r] = (ff[2 * j + r] * Squares(vs)[(k + 1) - (e + 1)]) % q
    <3>1. ff[2 * i + r] = Coefficient(ff, vs, 2 * i + r)  BY <1>8, <2>5
    <3> QED BY <1>2, <2>1, <2>2, <3>1 DEF Coefficient
  <2>7. (k + 1) - (e + 1) = k - e /\ k - e \in 1 .. k  BY <2>3
  <2>8. ff[2 * i + r] = (ff[2 * j + r] * s) % q  BY <1>10, <2>6, <2>7
  <2>9. s \in Int  BY <1>9, <2>7 DEF Fq
  <2> HIDE DEF s
  <2>10. f[j] \in Int /\ f[i] \in Int /\ ff[2 * j + r] \in Int /\ ff[2 * i + r] \in Int
    BY <1>5, <1>6, <2>1, <2>5 DEF Fq
  <2>11. Cong(ff[2 * j + r], c * f[j])  BY <1>13, <2>2
  <2>12. Cong(f[i], f[j] * s)
    <3>1. f[j] * s \in Int  BY <2>9, <2>10
    <3> QED BY <2>4, <3>1, ModCong
  <2>13. Cong(ff[2 * i + r], ff[2 * j + r] * s)
    <3>1. ff[2 * j + r] * s \in Int  BY <2>9, <2>10
    <3> QED BY <2>8, <3>1, ModCong
  <2> DEFINE X == ff[2 * j + r]
             Y == f[j]
             Z == f[i]
             VV == ff[2 * i + r]
  <2>14. Cong(X, c * Y) /\ Cong(Z, Y * s) /\ Cong(VV, X * s)
         /\ X \in Int /\ Y \in Int /\ Z \in Int /\ VV \in Int
    BY <2>10, <2>11, <2>12, <2>13
  <2> HIDE DEF X, Y, Z, VV
  <2>15. Cong(VV, c * Z)  BY <2>9, <2>14, CongTimes
  <2> QED BY <2>15 DEF VV, Z
<1>14. ASSUME NEW j \in Nat, j \in T PROVE j + 1 \in T
  <2>1. SUFFICES ASSUME NEW i \in 0 .. m - 1, i < j + 1 PROVE Good(i)  OBVIOUS
  <2>2. CASE i = 0  BY <1>12, <2>2
  <2>3. CASE i # 0
    <3>1. i \in 1 .. m - 1  BY <2>3
    <3>2. \A l \in 0 .. i - 1 : Good(l)
      <4>1. \A l \in 0 .. i - 1 : l \in 0 .. m - 1 /\ l < j  BY <2>1, <3>1, <1>4
      <4> HIDE DEF Good
      <4> QED BY <1>14, <4>1
    <3>3. \A l \in 0 .. i - 1 : Cong(ff[2 * l + 0], w * f[l]) /\ Cong(ff[2 * l + 1], u * f[l])
      <4>1. \A l \in 0 .. i - 1 : 2 * l + 0 = 2 * l  OBVIOUS
      <4> QED BY <3>2, <4>1
    <3>4. Cong(ff[2 * i + 0], w * f[i])  BY <1>3, <1>13, <3>1, <3>3
    <3>5. Cong(ff[2 * i + 1], u * f[i])  BY <1>3, <1>13, <3>1, <3>3
    <3>6. 2 * i + 0 = 2 * i  BY <3>1
    <3> QED BY <3>4, <3>5, <3>6
  <2> QED BY <2>2, <2>3
<1> HIDE DEF T
<1>15. m \in T  BY <1>4, <1>11, <1>14, Induction
<1>16. \A i \in 0 .. m - 1 : Good(i)
  <2>1. \A i \in 0 .. m - 1 : i < m  BY <1>4
  <2> HIDE DEF Good
  <2> QED BY <1>15, <2>1 DEF T
<1> QED BY <1>16 DEF Splits, m, w

(* A list twice as long whose entries are, in pairs, multiples of those of *)
(* another.                                                                *)
Doubled(c, cc, l, r, m) ==
  \A t \in 1 .. m : Cong(cc[2 * t - 1], l * c[t]) /\ Cong(cc[2 * t], r * c[t])

(* The verifier's scalars of one challenge more.                           *)
LEMMA ScalarsDouble ==
  ASSUME NEW k \in Nat, NEW us, FieldList(us, k), NEW u \in Fq, u # 0,
         NEW vs, FieldList(vs, k + 1), Appends(vs, us, u, k)
  PROVE  /\ FieldList(VerificationScalars(us), Pow2[k])
         /\ FieldList(VerificationScalars(vs), 2 * Pow2[k])
         /\ Doubled(VerificationScalars(us), VerificationScalars(vs), Inv(u), u, Pow2[k])
<1> DEFINE m == Pow2[k]
           c == VerificationScalars(us)
           cc == VerificationScalars(vs)
<1>1. Len(us) = k /\ Len(vs) = k + 1 /\ k + 1 \in Nat  BY ListLength DEF FieldList
<1>2. PICK f : Coefficients(f, us, m) /\ c = [i \in 1 .. m |-> f[i - 1]]
  BY <1>1, ScalarsAreCoefficients
<1>3. PICK ff : /\ Coefficients(ff, vs, Pow2[k + 1])
                /\ cc = [i \in 1 .. Pow2[k + 1] |-> ff[i - 1]]
  BY <1>1, ScalarsAreCoefficients
<1>4. AllInv(us) \in Fq /\ AllInv(vs) \in Fq  BY AllInvNext
<1>5. m \in Nat /\ Pow2[k + 1] = 2 * m  BY Pow2Law
<1>6. \A i \in 0 .. m - 1 : f[i] \in Fq  BY <1>2, <1>4, CoefficientField
<1>7. \A i \in 0 .. 2 * m - 1 : ff[i] \in Fq  BY <1>1, <1>3, <1>4, <1>5, CoefficientField
<1>8. Splits(f, ff, Inv(u), u, m)  BY <1>2, <1>3, CoefficientsSplit
<1> HIDE DEF m, c, cc
<1>9. FieldList(c, m)
  <2>1. \A i \in 1 .. m : i - 1 \in 0 .. m - 1  BY <1>5
  <2> QED BY <1>2, <1>6, <2>1 DEF FieldList, IsList
<1>10. FieldList(cc, 2 * m)
  <2>1. \A i \in 1 .. 2 * m : i - 1 \in 0 .. 2 * m - 1  BY <1>5
  <2> QED BY <1>3, <1>5, <1>7, <2>1 DEF FieldList, IsList
<1>11. ASSUME NEW t \in 1 .. m
       PROVE  Cong(cc[2 * t - 1], Inv(u) * c[t]) /\ Cong(cc[2 * t], u * c[t])
  <2>1. /\ t - 1 \in 0 .. m - 1 /\ 2 * t - 1 \in 1 .. 2 * m /\ 2 * t \in 1 .. 2 * m
        /\ (2 * t - 1) - 1 = 2 * (t - 1) /\ 2 * t - 1 = 2 * (t - 1) + 1
    BY <1>5
  <2>2. c[t] = f[t - 1] /\ cc[2 * t - 1] = ff[2 * (t - 1)] /\ cc[2 * t] = ff[2 * (t - 1) + 1]
    BY <1>2, <1>3, <1>5, <2>1
  <2> QED BY <1>8, <2>1, <2>2 DEF Splits
<1>12. Doubled(c, cc, Inv(u), u, m)  BY <1>11 DEF Doubled
<1> QED BY <1>9, <1>10, <1>12 DEF m, c, cc

(* Read backwards the multiples change places.                             *)
LEMMA ReverseDouble ==
  ASSUME NEW m \in Nat, NEW c, NEW cc, FieldList(c, m), FieldList(cc, 2 * m),
         NEW l, NEW r, Doubled(c, cc, l, r, m)
  PROVE  /\ FieldList(Reverse(c), m) /\ FieldList(Reverse(cc), 2 * m)
         /\ Doubled(Reverse(c), Reverse(cc), r, l, m)
<1>1. Len(c) = m /\ Len(cc) = 2 * m
  <2>1. 2 * m \in Nat  OBVIOUS
  <2> QED BY <2>1, ListLength DEF FieldList
<1>2. Reverse(c) = [i \in 1 .. m |-> c[(m - i) + 1]]  BY <1>1 DEF Reverse
<1>3. Reverse(cc) = [i \in 1 .. 2 * m |-> cc[(2 * m - i) + 1]]  BY <1>1 DEF Reverse
<1>4. FieldList(Reverse(c), m)
  <2>1. \A i \in 1 .. m : (m - i) + 1 \in 1 .. m  OBVIOUS
  <2> QED BY <1>2, <2>1 DEF FieldList, IsList
<1>5. FieldList(Reverse(cc), 2 * m)
  <2>1. \A i \in 1 .. 2 * m : (2 * m - i) + 1 \in 1 .. 2 * m  OBVIOUS
  <2> QED BY <1>3, <2>1 DEF FieldList, IsList
<1>6. ASSUME NEW t \in 1 .. m
      PROVE  /\ Cong(Reverse(cc)[2 * t - 1], r * Reverse(c)[t])
             /\ Cong(Reverse(cc)[2 * t], l * Reverse(c)[t])
  <2> DEFINE j == (m - t) + 1
  <2>1. /\ j \in 1 .. m
        /\ 2 * t - 1 \in 1 .. 2 * m /\ 2 * t \in 1 .. 2 * m
        /\ (2 * m - (2 * t - 1)) + 1 = 2 * j
        /\ (2 * m - 2 * t) + 1 = 2 * j - 1
    OBVIOUS
  <2>2. Reverse(c)[t] = c[j]  BY <1>2
  <2> HIDE DEF j
  <2>3. Reverse(cc)[2 * t - 1] = cc[2 * j] /\ Reverse(cc)[2 * t] = cc[2 * j - 1]
    BY <1>3, <2>1
  <2> QED BY <2>1, <2>2, <2>3 DEF Doubled
<1> QED BY <1>4, <1>5, <1>6 DEF Doubled

(* With no challenge there is one scalar, 1.                               *)
LEMMA ScalarsNone ==
  ASSUME NEW us, FieldList(us, 0)
  PROVE  VerificationScalars(us) = <<1>> /\ Reverse(<<1>>) = <<1>>
<1>1. Len(us) = 0  BY ListLength DEF FieldList
<1>2. PICK f : /\ Coefficients(f, us, Pow2[0])
               /\ VerificationScalars(us) = [i \in 1 .. Pow2[0] |-> f[i - 1]]
  BY <1>1, ScalarsAreCoefficients
<1>3. Pow2[0] = 1  BY Pow2Law
<1>4. f[0] = AllInv(us)  BY <1>2, <1>3 DEF Coefficients, Coefficient
<1>5. AllInv(us) = 1  BY AllInvNone
<1>6. VerificationScalars(us) = [i \in 1 .. 1 |-> 1]
  <2>1. \A i \in 1 .. 1 : i - 1 = 0  OBVIOUS
  <2>2. [i \in 1 .. 1 |-> f[i - 1]] = [i \in 1 .. 1 |-> 1]  BY <1>4, <1>5, <2>1
  <2> QED BY <1>2, <1>3, <2>2
<1>7. [i \in 1 .. 1 |-> 1] = <<1>>  OBVIOUS
<1>8. Reverse(<<1>>) = [i \in 1 .. 1 |-> <<1>>[(1 - i) + 1]]  BY DEF Reverse
<1>9. \A i \in 1 .. 1 : <<1>>[(1 - i) + 1] = 1  OBVIOUS
<1>10. Reverse(<<1>>) = [i \in 1 .. 1 |-> 1]  BY <1>8, <1>9
<1> QED BY <1>6, <1>7, <1>10

----------------------------------------------------------------------------
(* The bases of a call, times their factors.                               *)
FactoredBases(bases, factors, k) == [i \in 1 .. k |-> Msm(<<factors[i]>>, <<bases[i]>>)]

(* Each base of X is the combination with coefficients c of every n-th     *)
(* base of F.                                                              *)
Spreads(X, F, c, m, n) ==
  \A j \in 1 .. n, g \in Generators :
    Cong(X[j][g], Dot(c, [t \in 1 .. m |-> F[(t - 1) * n + j][g]], m))

(* Indices below m * n.                                                    *)
LEMMA NthIndex ==
  ASSUME NEW m \in Nat, NEW n \in Nat, NEW t \in 1 .. m, NEW j \in 1 .. n
  PROVE  (t - 1) * n + j \in 1 .. m * n
<1>1. t - 1 \in Nat /\ m - t \in Nat  OBVIOUS
<1>2. (t - 1) * n \in Nat /\ (m - t) * n \in Nat  BY <1>1
<1>3. m * n = (t - 1) * n + n + (m - t) * n  OBVIOUS
<1> DEFINE x == (t - 1) * n
           y == (m - t) * n
           z == m * n
<1> HIDE DEF x, y, z
<1>4. x \in Nat /\ y \in Nat /\ z = x + n + y  BY <1>2, <1>3 DEF x, y, z
<1>5. x + j \in 1 .. z  BY <1>4
<1> QED BY <1>5 DEF x, z

(* A round keeps them so.                                                  *)
LEMMA SpreadsFold ==
  ASSUME NEW m \in Nat, NEW h \in Nat, NEW F, Points(F, m * (h + h)),
         NEW X, NEW XX, Points(X, h + h), Points(XX, h),
         NEW c, NEW cc, FieldList(c, m), FieldList(cc, 2 * m),
         NEW l \in Int, NEW r \in Int, Doubled(c, cc, l, r, m),
         \A g \in Generators : Folded(At(XX, g, h), At(X, g, h + h), h, l, r),
         Spreads(X, F, c, m, h + h)
  PROVE  Spreads(XX, F, cc, 2 * m, h)
<1> SUFFICES ASSUME NEW j \in 1 .. h, NEW g \in Generators
             PROVE  Cong(XX[j][g], Dot(cc, [t \in 1 .. 2 * m |-> F[(t - 1) * h + j][g]], 2 * m))
  BY DEF Spreads
<1> DEFINE n == h + h
           A == [t \in 1 .. m |-> F[(t - 1) * n + j][g]]
           B == [t \in 1 .. m |-> F[(t - 1) * n + (h + j)][g]]
           C == [t \in 1 .. 2 * m |-> F[(t - 1) * h + j][g]]
           D == [t \in 1 .. 2 * m |-> cc[t] * C[t]]
           P == Pairs(D, m)
<1>1. n \in Nat /\ 2 * m \in Nat /\ j \in 1 .. n /\ h + j \in 1 .. n  OBVIOUS
<1>2. \A t \in 1 .. m : /\ (t - 1) * n + j \in 1 .. m * n
                        /\ (t - 1) * n + (h + j) \in 1 .. m * n
  <2> HIDE DEF n
  <2> QED BY <1>1, NthIndex
<1>3. \A t \in 1 .. m : A[t] \in Int /\ B[t] \in Int
  <2>1. \A i \in 1 .. m * n : F[i][g] \in Int  BY CoefficientInt DEF Points
  <2> HIDE DEF n
  <2> QED BY <1>2, <2>1
<1>4. ASSUME NEW t \in 1 .. m
      PROVE  /\ C[2 * t - 1] = A[t] /\ C[2 * t] = B[t]
             /\ 2 * t - 1 \in 1 .. 2 * m /\ 2 * t \in 1 .. 2 * m
  <2>1. 2 * t - 1 \in 1 .. 2 * m /\ 2 * t \in 1 .. 2 * m  OBVIOUS
  <2>2. ((2 * t - 1) - 1) * h + j = (t - 1) * n + j  OBVIOUS
  <2>3. (2 * t - 1) * h + j = (t - 1) * n + (h + j)  OBVIOUS
  <2> HIDE DEF n
  <2> QED BY <2>1, <2>2, <2>3
<1>5. \A t \in 1 .. 2 * m : C[t] \in Int
  <2>1. ASSUME NEW t \in 1 .. 2 * m PROVE C[t] \in Int
    <3>1. \E i \in 1 .. m : t = 2 * i - 1 \/ t = 2 * i
      <4>1. CASE t % 2 = 0
        <5>1. t = 2 * (t \div 2) /\ t \div 2 \in 1 .. m  BY <4>1
        <5> QED BY <5>1
      <4>2. CASE t % 2 # 0
        <5>1. t = 2 * ((t + 1) \div 2) - 1 /\ (t + 1) \div 2 \in 1 .. m  BY <4>2
        <5> QED BY <5>1
      <4> QED BY <4>1, <4>2
    <3> HIDE DEF A, B, C
    <3> QED BY <1>3, <1>4, <3>1
  <2> QED BY <2>1
<1>6. \A t \in 1 .. 2 * m : cc[t] \in Int  BY DEF FieldList, Fq
<1>7. \A t \in 1 .. m : c[t] \in Int  BY DEF FieldList, Fq
<1>8. \A t \in 1 .. 2 * m : D[t] = cc[t] * C[t] /\ D[t] \in Int
  <2>1. \A t \in 1 .. 2 * m : D[t] = cc[t] * C[t]  OBVIOUS
  <2> HIDE DEF D, C
  <2> QED BY <1>5, <1>6, <2>1
<1>9. Dot(cc, C, 2 * m) = SumTo(P, m)
  <2>1. Dot(cc, C, 2 * m) = SumTo(D, 2 * m)  BY DEF Dot
  <2> HIDE DEF D
  <2> QED BY <1>8, <2>1, SumPairs
<1>10. \A t \in 1 .. m : P[t] = D[2 * t - 1] + D[2 * t]  BY DEF Pairs
<1> DEFINE ca == [t \in 1 .. m |-> c[t] * A[t]]
           cb == [t \in 1 .. m |-> c[t] * B[t]]
<1>11. Dot(c, A, m) = SumTo(ca, m) /\ Dot(c, B, m) = SumTo(cb, m)  BY DEF Dot
<1>12. \A t \in 1 .. m : ca[t] = c[t] * A[t] /\ cb[t] = c[t] * B[t]  OBVIOUS
<1>13. Cong(X[j][g], Dot(c, A, m)) /\ Cong(X[h + j][g], Dot(c, B, m))
  BY <1>1 DEF Spreads
<1>14. Cong(XX[j][g], l * X[j][g] + r * X[h + j][g])
  <2>1. Folded(At(XX, g, h), At(X, g, h + h), h, l, r)  OBVIOUS
  <2>2. At(XX, g, h)[j] = XX[j][g]  BY DEF At
  <2>3. At(X, g, h + h)[j] = X[j][g]  BY <1>1 DEF At
  <2>4. Drop(At(X, g, h + h), h, h)[j] = X[h + j][g]  BY <1>1 DEF At, Drop
  <2> QED BY <2>1, <2>2, <2>3, <2>4 DEF Folded
<1> HIDE DEF A, B, C, D, P, ca, cb, n
<1>15. ASSUME NEW t \in 1 .. m
       PROVE  P[t] \in Int /\ ca[t] \in Int /\ cb[t] \in Int /\ Cong(P[t], l * ca[t] + r * cb[t])
  <2> DEFINE x == cc[2 * t - 1]
             y == cc[2 * t]
             z == c[t]
             av == A[t]
             bv == B[t]
  <2>1. x \in Int /\ y \in Int /\ z \in Int /\ av \in Int /\ bv \in Int
    BY <1>3, <1>4, <1>6, <1>7
  <2>2. P[t] = x * av + y * bv  BY <1>4, <1>8, <1>10
  <2>3. Cong(x, l * z) /\ Cong(y, r * z)  BY DEF Doubled
  <2>4. ca[t] = z * av /\ cb[t] = z * bv  BY <1>12
  <2> HIDE DEF x, y, z, av, bv
  <2>5. x * av \in Int /\ y * bv \in Int /\ l * z \in Int /\ r * z \in Int
        /\ (l * z) * av \in Int /\ (r * z) * bv \in Int /\ z * av \in Int /\ z * bv \in Int
    BY <2>1
  <2>6. Cong(x * av, (l * z) * av) /\ Cong(y * bv, (r * z) * bv)
    BY <2>1, <2>3, <2>5, CongMul, CongRefl
  <2>7. Cong(x * av + y * bv, (l * z) * av + (r * z) * bv)  BY <2>5, <2>6, CongAdd
  <2>8. (l * z) * av = l * (z * av) /\ (r * z) * bv = r * (z * bv)  BY <2>1
  <2> QED BY <2>2, <2>4, <2>5, <2>7, <2>8
<1>16. /\ SumTo(P, m) \in Int /\ SumTo(ca, m) \in Int /\ SumTo(cb, m) \in Int
       /\ Cong(SumTo(P, m), l * SumTo(ca, m) + r * SumTo(cb, m))
  BY <1>15, SumLinear DEF Ints
<1> DEFINE S == SumTo(P, m)
           Sa == SumTo(ca, m)
           Sb == SumTo(cb, m)
           x == X[j][g]
           y == X[h + j][g]
           z == XX[j][g]
<1>17. x \in Int /\ y \in Int /\ z \in Int
  <2>1. X[j] \in Point /\ X[h + j] \in Point /\ XX[j] \in Point
    BY <1>1 DEF Points, n
  <2> QED BY <2>1, CoefficientInt
<1>18. /\ S \in Int /\ Sa \in Int /\ Sb \in Int /\ Cong(S, l * Sa + r * Sb)
       /\ Cong(x, Sa) /\ Cong(y, Sb) /\ Cong(z, l * x + r * y)
  BY <1>11, <1>13, <1>14, <1>16
<1> HIDE DEF S, Sa, Sb, x, y, z
<1>19. Cong(z, S)
  <2>1. l * x \in Int /\ r * y \in Int /\ l * Sa \in Int /\ r * Sb \in Int
        /\ l * x + r * y \in Int /\ l * Sa + r * Sb \in Int
    BY <1>17, <1>18
  <2>2. Cong(l * x, l * Sa) /\ Cong(r * y, r * Sb)
    BY <1>17, <1>18, CongMul, CongRefl
  <2>3. Cong(l * x + r * y, l * Sa + r * Sb)  BY <2>1, <2>2, CongAdd
  <2>4. Cong(l * Sa + r * Sb, S)  BY <1>18, <2>1, CongSym
  <2>5. Cong(z, l * Sa + r * Sb)  BY <1>17, <1>18, <2>1, <2>3, CongTrans
  <2> QED BY <1>17, <1>18, <2>1, <2>4, <2>5, CongTrans
<1> QED BY <1>9, <1>19 DEF z, S, C

(* Before the first round each base is its own combination.                *)
LEMMA SpreadsStart ==
  ASSUME NEW n \in Nat, NEW F, Points(F, n)
  PROVE  Spreads(F, F, <<1>>, 1, n)
<1> SUFFICES ASSUME NEW j \in 1 .. n, NEW g \in Generators
             PROVE  Cong(F[j][g], Dot(<<1>>, [t \in 1 .. 1 |-> F[(t - 1) * n + j][g]], 1))
  BY DEF Spreads
<1> DEFINE C == [t \in 1 .. 1 |-> F[(t - 1) * n + j][g]]
<1>1. F[j][g] \in Int  BY CoefficientInt DEF Points
<1>2. C[1] = F[j][g]
  <2>1. 1 \in 1 .. 1 /\ (1 - 1) * n + j = j  OBVIOUS
  <2>2. C[1] = F[(1 - 1) * n + j][g]  OBVIOUS
  <2> HIDE DEF C
  <2> QED BY <2>1, <2>2
<1> HIDE DEF C
<1>3. <<1>>[1] = 1 /\ 1 \in Int  OBVIOUS
<1>4. Dot(<<1>>, C, 1) = 1 * C[1]  BY <1>1, <1>2, <1>3, DotOne
<1>5. Dot(<<1>>, C, 1) = F[j][g]  BY <1>1, <1>2, <1>4
<1> QED BY <1>1, <1>5, CongRefl DEF C

(* When one base is left it is the combination of all.                     *)
LEMMA SpreadsEnd ==
  ASSUME NEW m \in Nat, NEW F, Points(F, m), NEW X, NEW c, FieldList(c, m),
         Spreads(X, F, c, m, 1), NEW g \in Generators
  PROVE  Cong(X[1][g], Dot(c, At(F, g, m), m))
<1> DEFINE C == [t \in 1 .. m |-> F[(t - 1) * 1 + 1][g]]
<1>1. Cong(X[1][g], Dot(c, C, m))  BY DEF Spreads
<1>2. \A t \in 1 .. m : C[t] = At(F, g, m)[t]
  <2>1. \A t \in 1 .. m : (t - 1) * 1 + 1 = t  OBVIOUS
  <2> QED BY <2>1 DEF At
<1>3. \A t \in 1 .. m : C[t] \in Int
  <2>1. Ints(At(F, g, m), m)  BY AtInts
  <2> HIDE DEF C
  <2> QED BY <1>2, <2>1 DEF Ints
<1> HIDE DEF C
<1>4. Ints(c, m) /\ Ints(C, m)  BY <1>3 DEF FieldList, Fq, Ints
<1>5. Dot(c, C, m) = Dot(c, At(F, g, m), m)
  BY <1>2, <1>4, DotSame
<1> QED BY <1>1, <1>5

(* The verifier's terms over the original bases are those over the last    *)
(* base.                                                                   *)
LEMMA LastBaseTerms ==
  ASSUME NEW m \in Nat, NEW c, FieldList(c, m), NEW f, FieldList(f, m), NEW B, Points(B, m),
         NEW F, F = [i \in 1 .. m |-> Msm(<<f[i]>>, <<B[i]>>)],
         NEW X, Points(X, 1), Spreads(X, F, c, m, 1), NEW x \in Int
  PROVE  /\ FieldList(ScalarMul(ComponentWiseMul(c, f), x), m)
         /\ \A g \in Generators :
              Cong(MDot(ScalarMul(ComponentWiseMul(c, f), x), B, g, m), x * X[1][g])
<1> DEFINE cf == ComponentWiseMul(c, f)
<1>1. /\ FieldList(cf, m)
      /\ \A g \in Generators : /\ Dot(c, At(F, g, m), m) \in Int
                               /\ Cong(MDot(cf, B, g, m), Dot(c, At(F, g, m), m))
  BY ScaledDot
<1>2. Points(F, m)  BY ScaledPoints
<1> HIDE DEF cf
<1>3. /\ FieldList(ScalarMul(cf, x), m)
      /\ \A g \in Generators : Cong(MDot(ScalarMul(cf, x), B, g, m), x * Msm(cf, B)[g])
  BY <1>1, ScaledList
<1>4. ASSUME NEW g \in Generators
      PROVE  Cong(MDot(ScalarMul(cf, x), B, g, m), x * X[1][g])
  <2> DEFINE p == MDot(ScalarMul(cf, x), B, g, m)
             v == Msm(cf, B)[g]
             d == MDot(cf, B, g, m)
             s == Dot(c, At(F, g, m), m)
             z == X[1][g]
  <2>1. p \in Int  BY <1>3, FieldScalars, MDotInt
  <2>2. d \in Int /\ Cong(v, d)  BY <1>1, FieldScalars, MDotInt
  <2>3. v \in Int  BY <1>1, FieldScalars, MsmPoint, CoefficientInt
  <2>4. s \in Int /\ Cong(d, s)  BY <1>1
  <2>5. Cong(z, s)  BY <1>2, SpreadsEnd
  <2>6. z \in Int  BY CoefficientInt DEF Points
  <2>7. Cong(p, x * v)  BY <1>3
  <2> HIDE DEF p, v, d, s, z
  <2>8. Cong(v, z)
    <3>1. Cong(v, s)  BY <2>2, <2>3, <2>4, CongTrans
    <3>2. Cong(s, z)  BY <2>4, <2>5, <2>6, CongSym
    <3> QED BY <2>3, <2>4, <2>6, <3>1, <3>2, CongTrans
  <2>9. x * v \in Int /\ x * z \in Int  BY <2>3, <2>6
  <2>10. Cong(x * v, x * z)  BY <2>3, <2>6, <2>8, CongMul, CongRefl
  <2>11. Cong(p, x * z)  BY <2>1, <2>7, <2>9, <2>10, CongTrans
  <2> QED BY <2>11 DEF p, z
<1> QED BY <1>3, <1>4 DEF cf

(* A multiple of some terms, term by term.                                 *)
LEMMA ScaledTerms ==
  ASSUME NEW k \in Nat, NEW s, FieldList(s, k), NEW L, Points(L, k), NEW z \in Int
  PROVE  /\ FieldList(ScalarMul(s, z), k)
         /\ \A g \in Generators : /\ MDot(s, L, g, k) \in Int
                                  /\ Cong(MDot(ScalarMul(s, z), L, g, k), z * MDot(s, L, g, k))
<1>1. /\ FieldList(ScalarMul(s, z), k)
      /\ \A g \in Generators : Cong(MDot(ScalarMul(s, z), L, g, k), z * Msm(s, L)[g])
  BY ScaledList
<1>2. ASSUME NEW g \in Generators
      PROVE  /\ MDot(s, L, g, k) \in Int
             /\ Cong(MDot(ScalarMul(s, z), L, g, k), z * MDot(s, L, g, k))
  <2> DEFINE p == MDot(ScalarMul(s, z), L, g, k)
             v == Msm(s, L)[g]
             d == MDot(s, L, g, k)
  <2>1. p \in Int  BY <1>1, FieldScalars, MDotInt
  <2>2. d \in Int /\ Cong(v, d)  BY FieldScalars, MDotInt
  <2>3. v \in Int  BY FieldScalars, MsmPoint, CoefficientInt
  <2>4. Cong(p, z * v)  BY <1>1
  <2> HIDE DEF p, v, d
  <2>5. z * v \in Int /\ z * d \in Int  BY <2>2, <2>3
  <2>6. Cong(z * v, z * d)  BY <2>2, <2>3, CongMul, CongRefl
  <2>7. Cong(p, z * d)  BY <2>1, <2>4, <2>5, <2>6, CongTrans
  <2> QED BY <2>2, <2>7 DEF p, d
<1> QED BY <1>1, <1>2

(* An MSM of five lists.                                                   *)
LEMMA MsmFive ==
  ASSUME NEW k \in Nat, NEW l \in Nat, NEW m \in Nat,
         NEW r, NEW s, NEW t, NEW v, NEW w, NEW br, NEW bs, NEW bt, NEW bv, NEW bw,
         Scalars(r, k), Scalars(s, m), Scalars(t, m), Scalars(v, l), Scalars(w, l),
         Points(br, k), Points(bs, m), Points(bt, m), Points(bv, l), Points(bw, l)
  PROVE  LET X == Msm(r \o s \o t \o v \o w, br \o bs \o bt \o bv \o bw)
             at(g) == MDot(r, br, g, k) + MDot(s, bs, g, m) + MDot(t, bt, g, m)
                        + MDot(v, bv, g, l) + MDot(w, bw, g, l)
         IN  X \in Point /\ \A g \in Generators : at(g) \in Int /\ Cong(X[g], at(g))
<1> DEFINE r1 == r \o s
           b1 == br \o bs
           k1 == k + m
           r2 == r1 \o t
           b2 == b1 \o bt
           k2 == k1 + m
           r3 == r2 \o v
           b3 == b2 \o bv
           k3 == k2 + l
           r4 == r3 \o w
           b4 == b3 \o bw
           k4 == k3 + l
           X == Msm(r4, b4)
<1>1. TermsJoined(r, s, br, bs, k, m)  BY MDotJoin
<1>2. k1 \in Nat /\ Scalars(r1, k1) /\ Points(b1, k1)  BY <1>1 DEF TermsJoined
<1>3. \A g \in Generators : MDot(r1, b1, g, k1) = MDot(r, br, g, k) + MDot(s, bs, g, m)
  BY <1>1 DEF TermsJoined
<1> HIDE DEF r1, b1, k1
<1>4. TermsJoined(r1, t, b1, bt, k1, m)  BY <1>2, MDotJoin
<1>5. k2 \in Nat /\ Scalars(r2, k2) /\ Points(b2, k2)  BY <1>4 DEF TermsJoined
<1>6. \A g \in Generators : MDot(r2, b2, g, k2) = MDot(r1, b1, g, k1) + MDot(t, bt, g, m)
  BY <1>4 DEF TermsJoined
<1> HIDE DEF r2, b2, k2
<1>7. TermsJoined(r2, v, b2, bv, k2, l)  BY <1>5, MDotJoin
<1>8. k3 \in Nat /\ Scalars(r3, k3) /\ Points(b3, k3)  BY <1>7 DEF TermsJoined
<1>9. \A g \in Generators : MDot(r3, b3, g, k3) = MDot(r2, b2, g, k2) + MDot(v, bv, g, l)
  BY <1>7 DEF TermsJoined
<1> HIDE DEF r3, b3, k3
<1>10. TermsJoined(r3, w, b3, bw, k3, l)  BY <1>8, MDotJoin
<1>11. k4 \in Nat /\ Scalars(r4, k4) /\ Points(b4, k4)  BY <1>10 DEF TermsJoined
<1>12. \A g \in Generators : MDot(r4, b4, g, k4) = MDot(r3, b3, g, k3) + MDot(w, bw, g, l)
  BY <1>10 DEF TermsJoined
<1> HIDE DEF r4, b4, k4
<1>13. X \in Point  BY <1>11, MsmPoint
<1>14. ASSUME NEW g \in Generators
       PROVE  LET at == MDot(r, br, g, k) + MDot(s, bs, g, m) + MDot(t, bt, g, m)
                          + MDot(v, bv, g, l) + MDot(w, bw, g, l)
              IN  at \in Int /\ Cong(X[g], at)
  <2>1. MDot(r4, b4, g, k4) \in Int /\ Cong(X[g], MDot(r4, b4, g, k4))
    BY <1>11, MDotInt
  <2>2. MDot(r4, b4, g, k4) = MDot(r, br, g, k) + MDot(s, bs, g, m) + MDot(t, bt, g, m)
                                + MDot(v, bv, g, l) + MDot(w, bw, g, l)
    BY <1>3, <1>6, <1>9, <1>12
  <2> HIDE DEF X
  <2> QED BY <2>1, <2>2
<1> HIDE DEF X
<1>15. X = Msm(r \o s \o t \o v \o w, br \o bs \o bt \o bv \o bw)
  BY DEF X, r4, b4, r3, b3, r2, b2, r1, b1
<1> QED BY <1>13, <1>14, <1>15

(* The sum of the verifier's terms.                                        *)
LEMMA VerifierSum ==
  ASSUME NEW p \in Int, NEW s1 \in Int, NEW s2 \in Int, NEW s3 \in Int, NEW s4 \in Int,
         NEW t1 \in Int, NEW t2 \in Int, NEW d3 \in Int, NEW d4 \in Int, NEW z \in Int, NEW X \in Int,
         Cong(X, p + s1 + s2 + s3 + s4),
         Cong(s1, t1), Cong(s2, t2), Cong(s3, z * d3), Cong(s4, z * d4), NEW C \in Int
  PROVE  Cong(X, p + t1 + t2 + z * ((C + d3 + d4) - C))
<1>1. z * d3 \in Int /\ z * d4 \in Int /\ p + s1 \in Int /\ p + t1 \in Int
  OBVIOUS
<1>2. Cong(p + s1, p + t1)  BY CongAdd, CongRefl
<1>3. Cong((p + s1) + s2, (p + t1) + t2)  BY <1>1, <1>2, CongAdd
<1>4. (p + s1) + s2 \in Int /\ (p + t1) + t2 \in Int  OBVIOUS
<1>5. Cong(((p + s1) + s2) + s3, ((p + t1) + t2) + z * d3)  BY <1>1, <1>3, <1>4, CongAdd
<1>6. ((p + s1) + s2) + s3 \in Int /\ ((p + t1) + t2) + z * d3 \in Int  BY <1>1
<1>7. Cong((((p + s1) + s2) + s3) + s4, (((p + t1) + t2) + z * d3) + z * d4)
  BY <1>1, <1>5, <1>6, CongAdd
<1>8. (((p + s1) + s2) + s3) + s4 \in Int /\ (((p + t1) + t2) + z * d3) + z * d4 \in Int
  BY <1>1, <1>6
<1>9. Cong(X, (((p + t1) + t2) + z * d3) + z * d4)  BY <1>7, <1>8, CongTrans
<1>10. (((p + t1) + t2) + z * d3) + z * d4 = p + t1 + t2 + z * ((C + d3 + d4) - C)
  <2>1. (C + d3 + d4) - C = d3 + d4  OBVIOUS
  <2>2. z * (d3 + d4) = z * d3 + z * d4  OBVIOUS
  <2> QED BY <1>1, <2>1, <2>2
<1> QED BY <1>9, <1>10

(* What the verifier's MSM opens: its own terms, the last bases and what    *)
(* the rounds moved.                                                       *)
VerifierOpens(c, d, f, h, A, B, G1, H1, k, us, L, R, l, r, br, x, y, z, C) ==
  LET X == Msm(r \o ScalarMul(ComponentWiseMul(c, f), x)
                 \o ScalarMul(ComponentWiseMul(d, h), y)
                 \o ScalarMul(Squares(us), z) \o ScalarMul(Squares(BatchInvert(us)), z),
               br \o A \o B \o L \o R)
  IN  /\ X \in Point
      /\ \A g \in Generators :
           Cong(X[g], MDot(r, br, g, l) + x * G1[1][g] + y * H1[1][g]
                        + z * (Moved(C, us, L, R, k, g) - C[g]))

(* It is so whenever the last bases are combinations of the original ones  *)
(* with coefficients c and d.                                              *)
LEMMA VerifierMsm ==
  ASSUME NEW m \in Nat, NEW c, NEW d, FieldList(c, m), FieldList(d, m),
         NEW f, NEW h, FieldList(f, m), FieldList(h, m),
         NEW A, NEW B, Points(A, m), Points(B, m),
         NEW F, NEW E, F = [i \in 1 .. m |-> Msm(<<f[i]>>, <<A[i]>>)],
         E = [i \in 1 .. m |-> Msm(<<h[i]>>, <<B[i]>>)],
         NEW G1, NEW H1, Points(G1, 1), Points(H1, 1),
         Spreads(G1, F, c, m, 1), Spreads(H1, E, d, m, 1),
         NEW k \in Nat, NEW us, FieldList(us, k), NEW L, NEW R, Points(L, k), Points(R, k),
         NEW l \in Nat, NEW r, NEW br, Scalars(r, l), Points(br, l),
         NEW x \in Int, NEW y \in Int, NEW z \in Int, NEW C \in Point
  PROVE  VerifierOpens(c, d, f, h, A, B, G1, H1, k, us, L, R, l, r, br, x, y, z, C)
<1> DEFINE s == ScalarMul(ComponentWiseMul(c, f), x)
           t == ScalarMul(ComponentWiseMul(d, h), y)
           sq == Squares(us)
           iq == Squares(BatchInvert(us))
           v == ScalarMul(sq, z)
           w == ScalarMul(iq, z)
           X == Msm(r \o s \o t \o v \o w, br \o A \o B \o L \o R)
<1>1. FieldList(s, m) /\ \A g \in Generators : Cong(MDot(s, A, g, m), x * G1[1][g])
  BY LastBaseTerms
<1>2. FieldList(t, m) /\ \A g \in Generators : Cong(MDot(t, B, g, m), y * H1[1][g])
  BY LastBaseTerms
<1>3. FieldList(sq, k) /\ FieldList(iq, k)  BY BatchInvertList, SquaresList
<1>4. \A g \in Generators : Moved(C, us, L, R, k, g) = C[g] + MDot(sq, L, g, k) + MDot(iq, R, g, k)
  BY DEF Moved, MDot
<1> HIDE DEF sq, iq
<1>5. /\ FieldList(v, k)
      /\ \A g \in Generators : MDot(sq, L, g, k) \in Int /\ Cong(MDot(v, L, g, k), z * MDot(sq, L, g, k))
  BY <1>3, ScaledTerms
<1>6. /\ FieldList(w, k)
      /\ \A g \in Generators : MDot(iq, R, g, k) \in Int /\ Cong(MDot(w, R, g, k), z * MDot(iq, R, g, k))
  BY <1>3, ScaledTerms
<1> HIDE DEF s, t, v, w
<1>7. Scalars(s, m) /\ Scalars(t, m) /\ Scalars(v, k) /\ Scalars(w, k)
  BY <1>1, <1>2, <1>5, <1>6, FieldScalars
<1>8. /\ X \in Point
      /\ \A g \in Generators :
           Cong(X[g], MDot(r, br, g, l) + MDot(s, A, g, m) + MDot(t, B, g, m)
                        + MDot(v, L, g, k) + MDot(w, R, g, k))
  BY <1>7, MsmFive
<1> HIDE DEF X
<1>9. ASSUME NEW g \in Generators
      PROVE  Cong(X[g], MDot(r, br, g, l) + x * G1[1][g] + y * H1[1][g]
                          + z * (Moved(C, us, L, R, k, g) - C[g]))
  <2> DEFINE p == MDot(r, br, g, l)
             s1 == MDot(s, A, g, m)
             s2 == MDot(t, B, g, m)
             s3 == MDot(v, L, g, k)
             s4 == MDot(w, R, g, k)
             d3 == MDot(sq, L, g, k)
             d4 == MDot(iq, R, g, k)
             g1 == G1[1][g]
             h1 == H1[1][g]
             Cg == C[g]
             Xg == X[g]
  <2>1. p \in Int /\ s1 \in Int /\ s2 \in Int /\ s3 \in Int /\ s4 \in Int
    BY <1>7, MDotInt
  <2>2. d3 \in Int /\ d4 \in Int  BY <1>5, <1>6
  <2>3. g1 \in Int /\ h1 \in Int
    <3>1. G1[1] \in Point /\ H1[1] \in Point  BY DEF Points
    <3> QED BY <3>1, CoefficientInt
  <2>4. Cg \in Int /\ Xg \in Int  BY <1>8, CoefficientInt
  <2>5. Cong(Xg, p + s1 + s2 + s3 + s4)  BY <1>8
  <2>6. Cong(s1, x * g1) /\ Cong(s2, y * h1) /\ Cong(s3, z * d3) /\ Cong(s4, z * d4)
    BY <1>1, <1>2, <1>5, <1>6
  <2>7. Moved(C, us, L, R, k, g) = Cg + d3 + d4  BY <1>4
  <2> HIDE DEF p, s1, s2, s3, s4, d3, d4, g1, h1, Cg, Xg
  <2>8. x * g1 \in Int /\ y * h1 \in Int  BY <2>3
  <2>9. Cong(Xg, p + x * g1 + y * h1 + z * ((Cg + d3 + d4) - Cg))
    BY ZenonT(60), <2>1, <2>2, <2>4, <2>5, <2>6, <2>8, VerifierSum
  <2> QED BY <2>7, <2>9 DEF p, g1, h1, Cg, Xg
<1> QED BY <1>8, <1>9 DEF VerifierOpens, X, s, t, v, w, sq, iq

(* The verifier's scalars are scalars, forwards and backwards.             *)
LEMMA ScalarsField ==
  ASSUME NEW k \in Nat, NEW us, FieldList(us, k)
  PROVE  /\ FieldList(VerificationScalars(us), Pow2[k])
         /\ FieldList(Reverse(VerificationScalars(us)), Pow2[k])
<1> DEFINE m == Pow2[k]
           c == VerificationScalars(us)
<1>1. m \in Nat  BY Pow2Law
<1>2. Len(us) = k  BY ListLength DEF FieldList
<1>3. PICK f : Coefficients(f, us, m) /\ c = [i \in 1 .. m |-> f[i - 1]]
  BY <1>2, ScalarsAreCoefficients
<1>4. PICK it \in [SUBSET (1 .. k) -> Fq] : InvTimes(it, us, k) /\ AllInv(us) = it[1 .. k]
  BY AllInvIs
<1>5. AllInv(us) \in Fq
  <2>1. 1 .. k \in SUBSET (1 .. k)  OBVIOUS
  <2> QED BY <1>4, <2>1
<1>6. \A i \in 0 .. m - 1 : f[i] \in Fq  BY <1>3, <1>5, CoefficientField
<1> HIDE DEF m, c
<1>7. FieldList(c, m)
  <2>1. \A i \in 1 .. m : i - 1 \in 0 .. m - 1  BY <1>1
  <2> QED BY <1>3, <1>6, <2>1 DEF FieldList, IsList
<1>8. Len(c) = m  BY <1>1, <1>7, ListLength DEF FieldList
<1>9. FieldList(Reverse(c), m)
  <2>1. Reverse(c) = [i \in 1 .. m |-> c[(m - i) + 1]]  BY <1>8 DEF Reverse
  <2>2. \A i \in 1 .. m : (m - i) + 1 \in 1 .. m  BY <1>1
  <2> QED BY <1>7, <2>1, <2>2 DEF FieldList, IsList
<1> QED BY <1>7, <1>9 DEF m, c

(* What the vectors of one entry open.                                     *)
LEMMA OpensOne ==
  ASSUME NEW x, NEW y, FieldList(x, 1), FieldList(y, 1),
         NEW A, NEW B, Points(A, 1), Points(B, 1), NEW g \in Generators
  PROVE  /\ x[1] \in Fq /\ y[1] \in Fq /\ A[1][g] \in Int /\ B[1][g] \in Int /\ U[g] \in Int
         /\ Opens(x, y, At(A, g, 1), At(B, g, 1), 1, U[g])
              = x[1] * A[1][g] + y[1] * B[1][g] + (x[1] * y[1]) * U[g]
<1>1. x[1] \in Fq /\ y[1] \in Fq  BY DEF FieldList
<1>2. A[1][g] \in Int /\ B[1][g] \in Int /\ U[g] \in Int
  BY CoefficientInt, GeneratorPoint DEF Points
<1>3. At(A, g, 1)[1] = A[1][g] /\ At(B, g, 1)[1] = B[1][g]  BY DEF At
<1>4. x[1] \in Int /\ y[1] \in Int  BY <1>1 DEF Fq
<1>5. /\ Dot(x, At(A, g, 1), 1) = x[1] * A[1][g]
      /\ Dot(y, At(B, g, 1), 1) = y[1] * B[1][g]
      /\ Dot(x, y, 1) = x[1] * y[1]
  BY <1>2, <1>3, <1>4, DotOne
<1> QED BY <1>1, <1>2, <1>5 DEF Opens

----------------------------------------------------------------------------
(* The last step of the blinded argument.                                   *)

(* Four terms, and what they sum to. *)
FourTerms(x, y, z, w, X, Y, Z, W) ==
  /\ Scalars(<<x, y, z, w>>, 4) /\ Points(<<X, Y, Z, W>>, 4)
  /\ \A g \in Generators : MDot(<<x, y, z, w>>, <<X, Y, Z, W>>, g, 4)
                             = x * X[g] + y * Y[g] + z * Z[g] + w * W[g]

(* An MSM of four points.                                                  *)
LEMMA MsmFour ==
  ASSUME NEW x \in Int, NEW y \in Int, NEW z \in Int, NEW w \in Int,
         NEW X \in Point, NEW Y \in Point, NEW Z \in Point, NEW W \in Point
  PROVE  FourTerms(x, y, z, w, X, Y, Z, W)
<1> DEFINE s == <<x, y, z, w>>
           bs == <<X, Y, Z, W>>
<1>1. Scalars(s, 4) /\ Points(bs, 4)  BY DEF Scalars, Points, IsList, Ints
<1>2. s[1] = x /\ s[2] = y /\ s[3] = z /\ s[4] = w  OBVIOUS
<1>3. ASSUME NEW g \in Generators
      PROVE  MDot(s, bs, g, 4) = x * X[g] + y * Y[g] + z * Z[g] + w * W[g]
  <2> DEFINE A == At(bs, g, 4)
  <2>1. /\ A[1] = X[g] /\ X[g] \in Int /\ A[2] = Y[g] /\ Y[g] \in Int
        /\ A[3] = Z[g] /\ Z[g] \in Int /\ A[4] = W[g] /\ W[g] \in Int
    BY CoefficientInt DEF At
  <2> HIDE DEF A, s
  <2>2. Dot(s, A, 2) = x * X[g] + y * Y[g]  BY <1>2, <2>1, DotTwo
  <2>3. Ints(s, 2 + 1) /\ Ints(A, 2 + 1) /\ Ints(s, 3 + 1) /\ Ints(A, 3 + 1)
    <3>1. \A i \in 1 .. 4 : i = 1 \/ i = 2 \/ i = 3 \/ i = 4  OBVIOUS
    <3>2. \A i \in 1 .. 4 : s[i] \in Int /\ A[i] \in Int  BY <1>2, <2>1, <3>1
    <3> QED BY <3>2 DEF Ints
  <2>4. Dot(s, A, 2 + 1) = Dot(s, A, 2) + s[2 + 1] * A[2 + 1]  BY <2>3, DotNext
  <2>5. Dot(s, A, 3 + 1) = Dot(s, A, 3) + s[3 + 1] * A[3 + 1]  BY <2>3, DotNext
  <2>6. 2 + 1 = 3 /\ 3 + 1 = 4  OBVIOUS
  <2>7. Dot(s, A, 4) = x * X[g] + y * Y[g] + z * Z[g] + w * W[g]
    BY <1>2, <2>1, <2>2, <2>4, <2>5, <2>6
  <2> QED BY <2>7 DEF MDot, A
<1> QED BY <1>1, <1>3 DEF FourTerms

(* What each unknown of the verifier's sum is multiplied by.               *)
LEMMA LastProducts ==
  ASSUME NEW r \in Int, NEW s \in Int, NEW x \in Int, NEW y \in Int, NEW e \in Int,
         NEW delta \in Int, NEW eta \in Int, NEW alpha \in Int
  PROVE  LET c == r * y + s * x
             ee == e * e
         IN  /\ (r + x * e) * (s + y * e) = r * s + e * c + ee * (x * y)
             /\ (r + x * e) * e = e * r + ee * x
             /\ (s + y * e) * e = e * s + ee * y
             /\ alpha * e * e = ee * alpha
<1>1. (r + x * e) * e = e * r + (e * e) * x
  <2>1. (x * e) * e = (e * e) * x  OBVIOUS
  <2> QED BY <2>1
<1>2. (s + y * e) * e = e * s + (e * e) * y
  <2>1. (y * e) * e = (e * e) * y  OBVIOUS
  <2> QED BY <2>1
<1>3. alpha * e * e = (e * e) * alpha  OBVIOUS
<1>4. (r + x * e) * (s + y * e) = r * s + e * (r * y + s * x) + (e * e) * (x * y)
  <2>1. (r + x * e) * (s + y * e) = r * s + r * (y * e) + (x * e) * s + (x * e) * (y * e)
    <3> DEFINE p == x * e
               t == y * e
    <3>1. p \in Int /\ t \in Int  OBVIOUS
    <3> HIDE DEF p, t
    <3>2. (r + p) * (s + t) = r * s + r * t + p * s + p * t  BY <3>1
    <3> QED BY <3>2 DEF p, t
  <2>2. r * (y * e) + (x * e) * s = e * (r * y + s * x)
    <3>1. r * (y * e) = e * (r * y) /\ (x * e) * s = e * (s * x)  OBVIOUS
    <3> DEFINE p == r * y
               t == s * x
    <3>2. p \in Int /\ t \in Int  OBVIOUS
    <3> HIDE DEF p, t
    <3>3. e * p + e * t = e * (p + t)  BY <3>2
    <3> QED BY <3>1, <3>3 DEF p, t
  <2>3. (x * e) * (y * e) = (e * e) * (x * y)  OBVIOUS
  <2> DEFINE p1 == r * s
             p2 == r * (y * e)
             p3 == (x * e) * s
             p4 == (x * e) * (y * e)
             p5 == e * (r * y + s * x)
             p6 == (e * e) * (x * y)
             p7 == (r + x * e) * (s + y * e)
  <2>4. p1 \in Int /\ p2 \in Int /\ p3 \in Int /\ p4 \in Int /\ p5 \in Int /\ p6 \in Int /\ p7 \in Int
    <3>1. r * y + s * x \in Int /\ e * e \in Int /\ x * y \in Int /\ r + x * e \in Int /\ s + y * e \in Int
      OBVIOUS
    <3> QED BY <3>1
  <2>5. p7 = p1 + p2 + p3 + p4 /\ p2 + p3 = p5 /\ p4 = p6  BY <2>1, <2>2, <2>3
  <2> HIDE DEF p1, p2, p3, p4, p5, p6, p7
  <2>6. p7 = p1 + p5 + p6  BY <2>4, <2>5
  <2> QED BY <2>6 DEF p1, p5, p6, p7
<1> QED BY <1>1, <1>2, <1>3, <1>4

(* The cancellation in the verifier's last sum: A's terms are in the       *)
(* products, what opens the moved claim is in what moved it.               *)
LEMMA LastSum ==
  ASSUME NEW r \in Int, NEW s \in Int, NEW x \in Int, NEW y \in Int, NEW e \in Int,
         NEW delta \in Int, NEW eta \in Int, NEW alpha \in Int,
         NEW F \in Int, NEW H \in Int, NEW u \in Int, NEW v \in Int,
         NEW M \in Int, NEW C \in Int, NEW P \in Int,
         x * F + y * H + (x * y) * u + alpha * v = M
  PROVE  LET c == r * y + s * x
             A == r * F + s * H + c * u + delta * v
         IN  ((r + x * e) * (s + y * e)) * u - e * A + (eta + delta * e + alpha * e * e) * v
               - (e * e) * P + ((r + x * e) * e) * F + ((s + y * e) * e) * H - (e * e) * (M - C)
             = (r * s) * u + eta * v + (e * e) * (C - P)
<1> DEFINE c == r * y + s * x
           ee == e * e
           xy == x * y
           rs == r * s
           A == r * F + s * H + c * u + delta * v
<1>1. /\ (r + x * e) * (s + y * e) = rs + e * c + ee * xy
      /\ (r + x * e) * e = e * r + ee * x
      /\ (s + y * e) * e = e * s + ee * y
      /\ alpha * e * e = ee * alpha
  BY LastProducts
<1>2. c \in Int /\ ee \in Int /\ xy \in Int /\ rs \in Int  OBVIOUS
<1>3. x * F + y * H + xy * u + alpha * v = M  OBVIOUS
<1> HIDE DEF c, ee, xy, rs
<1> DEFINE m1 == x * F
           m2 == y * H
           m3 == xy * u
           m4 == alpha * v
           a1 == r * F
           a2 == s * H
           a3 == c * u
           a4 == delta * v
<1>4. /\ m1 \in Int /\ m2 \in Int /\ m3 \in Int /\ m4 \in Int
      /\ a1 \in Int /\ a2 \in Int /\ a3 \in Int /\ a4 \in Int
  BY <1>2
<1>5. (rs + e * c + ee * xy) * u = rs * u + e * a3 + ee * m3
  <2>1. (e * c) * u = e * a3 /\ (ee * xy) * u = ee * m3  BY <1>2
  <2> DEFINE p == e * c
             t == ee * xy
  <2>2. p \in Int /\ t \in Int  BY <1>2
  <2> HIDE DEF p, t
  <2>3. (rs + p + t) * u = rs * u + p * u + t * u  BY <1>2, <2>2
  <2> QED BY <2>1, <2>3 DEF p, t
<1>6. (eta + delta * e + ee * alpha) * v = eta * v + e * a4 + ee * m4
  <2>1. (delta * e) * v = e * a4 /\ (ee * alpha) * v = ee * m4  BY <1>2
  <2> DEFINE p == delta * e
             t == ee * alpha
  <2>2. p \in Int /\ t \in Int  BY <1>2
  <2> HIDE DEF p, t
  <2>3. (eta + p + t) * v = eta * v + p * v + t * v  BY <2>2
  <2> QED BY <2>1, <2>3 DEF p, t
<1>7. (e * r + ee * x) * F = e * a1 + ee * m1
  <2>1. (e * r) * F = e * a1 /\ (ee * x) * F = ee * m1  BY <1>2
  <2> DEFINE p == e * r
             t == ee * x
  <2>2. p \in Int /\ t \in Int  BY <1>2
  <2> HIDE DEF p, t
  <2>3. (p + t) * F = p * F + t * F  BY <2>2
  <2> QED BY <2>1, <2>3 DEF p, t
<1>8. (e * s + ee * y) * H = e * a2 + ee * m2
  <2>1. (e * s) * H = e * a2 /\ (ee * y) * H = ee * m2  BY <1>2
  <2> DEFINE p == e * s
             t == ee * y
  <2>2. p \in Int /\ t \in Int  BY <1>2
  <2> HIDE DEF p, t
  <2>3. (p + t) * H = p * H + t * H  BY <2>2
  <2> QED BY <2>1, <2>3 DEF p, t
<1>9. m1 + m2 + m3 + m4 = M  BY <1>3
<1>10. A = a1 + a2 + a3 + a4  OBVIOUS
<1> HIDE DEF m1, m2, m3, m4, a1, a2, a3, a4, A
<1>11. e * A = e * a1 + e * a2 + e * a3 + e * a4  BY <1>4, <1>10
<1>12. ee * (M - C) = ee * m1 + ee * m2 + ee * m3 + ee * m4 - ee * C  BY <1>2, <1>4, <1>9
<1>13. ee * (C - P) = ee * C - ee * P  BY <1>2
<1> DEFINE l1 == rs * u
           l2 == eta * v
           eA == e * A
           eM == ee * (M - C)
           eD == ee * (C - P)
           eC == ee * C
           eP == ee * P
           e1 == e * a1
           e2 == e * a2
           e3 == e * a3
           e4 == e * a4
           n1 == ee * m1
           n2 == ee * m2
           n3 == ee * m3
           n4 == ee * m4
<1>14. /\ l1 \in Int /\ l2 \in Int /\ eC \in Int /\ eP \in Int
       /\ e1 \in Int /\ e2 \in Int /\ e3 \in Int /\ e4 \in Int
       /\ n1 \in Int /\ n2 \in Int /\ n3 \in Int /\ n4 \in Int
  BY <1>2, <1>4
<1>15. /\ eA = e1 + e2 + e3 + e4 /\ eM = n1 + n2 + n3 + n4 - eC /\ eD = eC - eP
  BY <1>11, <1>12, <1>13
<1> DEFINE X == (l1 + e3 + n3) - eA + (l2 + e4 + n4) - eP + (e1 + n1) + (e2 + n2) - eM
<1>16. X = l1 + l2 + eD
  <2> HIDE DEF l1, l2, eA, eM, eD, eC, eP, e1, e2, e3, e4, n1, n2, n3, n4
  <2> QED BY <1>14, <1>15
<1>17. ((r + x * e) * (s + y * e)) * u - e * A + (eta + delta * e + alpha * e * e) * v
         - (e * e) * P + ((r + x * e) * e) * F + ((s + y * e) * e) * H - (e * e) * (M - C)
       = X
  <2>1. ((r + x * e) * (s + y * e)) * u = l1 + e3 + n3  BY <1>1, <1>5
  <2>2. (eta + delta * e + alpha * e * e) * v = l2 + e4 + n4  BY <1>1, <1>6
  <2>3. ((r + x * e) * e) * F = e1 + n1 /\ ((s + y * e) * e) * H = e2 + n2  BY <1>1, <1>7, <1>8
  <2>4. (e * e) * P = eP /\ (e * e) * (M - C) = eM  BY DEF ee
  <2> HIDE DEF l1, l2, eA, eM, eD, eC, eP, e1, e2, e3, e4, n1, n2, n3, n4
  <2> QED BY <2>1, <2>2, <2>3, <2>4 DEF eA
<1> QED BY <1>16, <1>17 DEF A, c, rs, l1, l2, eD, ee

Both(x, y) == x \in Int /\ y \in Int /\ Cong(x, y)

(* Congruent terms may be added to congruent sums.                         *)
LEMMA BothAdd ==
  ASSUME NEW x, NEW y, NEW v, NEW w, Both(x, y), Both(v, w)
  PROVE  Both(x + v, y + w)
<1>1. Cong(x + v, y + w)  BY CongAdd DEF Both
<1> QED BY <1>1 DEF Both

(* A product of congruent factors with a third.                            *)
LEMMA CongScaled ==
  ASSUME NEW x \in Int, NEW y \in Int, NEW z \in Int, Cong(x, y)
  PROVE  x * z \in Int /\ y * z \in Int /\ Cong(x * z, y * z)
<1>1. Cong(z, z)  BY CongRefl
<1> QED BY <1>1, CongMul

(* q - 1 acts as -1.                                                       *)
LEMMA CongMinus ==
  ASSUME NEW x \in Int
  PROVE  /\ (q - 1) * x \in Int /\ ((q - 1) * x) % q \in Int
         /\ Cong(((q - 1) * x) % q, -x)
<1>1. q \in Int  BY PrimeAssumption
<1>2. (q - 1) * x \in Int  BY <1>1
<1>3. (q - 1) * x = -x + x * q  BY <1>1
<1>4. Cong((q - 1) * x, -x)  BY <1>3 DEF Cong
<1>5. -x \in Int  OBVIOUS
<1>6. ((q - 1) * x) % q \in Int /\ Cong(((q - 1) * x) % q, (q - 1) * x)
  BY <1>2, ModCong DEF Fq
<1> HIDE DEF Cong
<1> QED BY <1>2, <1>4, <1>5, <1>6, CongTrans

(* The scalars of an honest proof, all up to multiples of q: those of the  *)
(* last step, its A and B over one base, what is folded opening M, and the *)
(* verifier's sum X for the point P.                                       *)
HonestTerms(r, s, x, y, e, delta, eta, alpha, F, H, u, v, M, C, P, A, B,
            pr, ps, pd, prs, me, xe, ye, z, X) ==
  /\ r \in Int /\ s \in Int /\ x \in Int /\ y \in Int /\ e \in Int
  /\ delta \in Int /\ eta \in Int /\ alpha \in Int
  /\ F \in Int /\ H \in Int /\ u \in Int /\ v \in Int
  /\ M \in Int /\ C \in Int /\ P \in Int /\ A \in Int /\ B \in Int
  /\ pr \in Int /\ ps \in Int /\ pd \in Int /\ prs \in Int /\ me \in Int
  /\ xe \in Int /\ ye \in Int /\ z \in Int /\ X \in Int
  /\ Cong(x * F + y * H + (x * y) * u + alpha * v, M)
  /\ Cong(A, r * F + s * H + (r * y + s * x) * u + delta * v)
  /\ Cong(B, (r * s) * u + eta * v)
  /\ Cong(pr, r + x * e) /\ Cong(ps, s + y * e) /\ Cong(pd, eta + delta * e + alpha * e * e)
  /\ Cong(prs, pr * ps) /\ Cong(me, -e) /\ Cong(xe, pr * e) /\ Cong(ye, ps * e)
  /\ Cong(z, -(e * e))
  /\ Cong(X, (prs * u + me * A + pd * v + z * P) + xe * F + ye * H + z * (M - C))

(* The verifier's sum of an honest proof is B, moved by what the point it  *)
(* is given differs from the claim.                                        *)
LEMMA LastVerifierSum ==
  ASSUME NEW r, NEW s, NEW x, NEW y, NEW e, NEW delta, NEW eta, NEW alpha,
         NEW F, NEW H, NEW u, NEW v, NEW M, NEW C, NEW P, NEW A, NEW B,
         NEW pr, NEW ps, NEW pd, NEW prs, NEW me, NEW xe, NEW ye, NEW z, NEW X,
         HonestTerms(r, s, x, y, e, delta, eta, alpha, F, H, u, v, M, C, P, A, B,
                     pr, ps, pd, prs, me, xe, ye, z, X)
  PROVE  Cong(X, B + (e * e) * (C - P))
<1> USE DEF HonestTerms
<1> DEFINE S == x * F + y * H + (x * y) * u + alpha * v
           AA == r * F + s * H + (r * y + s * x) * u + delta * v
           BB == (r * s) * u + eta * v
           ee == e * e
           pp == r + x * e
           ss == s + y * e
           dd == eta + delta * e + alpha * e * e
<1>1. S \in Int /\ AA \in Int /\ BB \in Int /\ ee \in Int /\ pp \in Int /\ ss \in Int /\ dd \in Int
  <2>1. /\ x * F \in Int /\ y * H \in Int /\ (x * y) * u \in Int /\ alpha * v \in Int
        /\ r * F \in Int /\ s * H \in Int /\ (r * y + s * x) * u \in Int /\ delta * v \in Int
        /\ (r * s) * u \in Int /\ eta * v \in Int /\ e * e \in Int /\ x * e \in Int
        /\ y * e \in Int /\ delta * e \in Int /\ alpha * e * e \in Int
    OBVIOUS
  <2> QED BY <2>1
<1>2. ((pp * ss) * u) - e * AA + dd * v - ee * P + (pp * e) * F + (ss * e) * H - ee * (S - C)
        = BB + ee * (C - P)
  BY LastSum
<1>3. Cong(S, M) /\ Cong(A, AA) /\ Cong(B, BB) /\ Cong(pr, pp) /\ Cong(ps, ss) /\ Cong(pd, dd)
      /\ Cong(z, -ee)
  OBVIOUS
<1> HIDE DEF S, AA, BB, ee, pp, ss, dd
<1>4. Cong(prs * u, (pp * ss) * u) /\ prs * u \in Int /\ (pp * ss) * u \in Int
  <2>1. Cong(pr * ps, pp * ss)  BY <1>1, <1>3, CongMul
  <2>2. pr * ps \in Int /\ pp * ss \in Int  BY <1>1
  <2>3. Cong(prs, pp * ss)  BY <2>1, <2>2, CongTrans
  <2> QED BY <2>2, <2>3, CongScaled
<1>5. Cong(me * A, (-e) * AA) /\ me * A \in Int /\ (-e) * AA \in Int
  <2>1. -e \in Int  OBVIOUS
  <2> QED BY <1>1, <1>3, <2>1, CongMul
<1>6. Cong(pd * v, dd * v) /\ pd * v \in Int /\ dd * v \in Int  BY <1>1, <1>3, CongScaled
<1>7. Cong(z * P, (-ee) * P) /\ z * P \in Int /\ (-ee) * P \in Int
  <2>1. -ee \in Int  BY <1>1
  <2> QED BY <1>3, <2>1, CongScaled
<1>8. Cong(xe * F, (pp * e) * F) /\ xe * F \in Int /\ (pp * e) * F \in Int
  <2>1. Cong(pr * e, pp * e) /\ pr * e \in Int /\ pp * e \in Int  BY <1>1, <1>3, CongScaled
  <2>2. Cong(xe, pp * e)  BY <2>1, CongTrans
  <2> QED BY <2>1, <2>2, CongScaled
<1>9. Cong(ye * H, (ss * e) * H) /\ ye * H \in Int /\ (ss * e) * H \in Int
  <2>1. Cong(ps * e, ss * e) /\ ps * e \in Int /\ ss * e \in Int  BY <1>1, <1>3, CongScaled
  <2>2. Cong(ye, ss * e)  BY <2>1, CongTrans
  <2> QED BY <2>1, <2>2, CongScaled
<1>10. Cong(z * (M - C), (-ee) * (S - C)) /\ z * (M - C) \in Int /\ (-ee) * (S - C) \in Int
  <2>1. -ee \in Int /\ M - C \in Int /\ S - C \in Int /\ -C \in Int  BY <1>1
  <2>2. Cong(M, S)  BY <1>1, <1>3, CongSym
  <2>3. Cong(M + (-C), S + (-C))  BY <1>1, <2>1, <2>2, CongAdd, CongRefl
  <2>4. M + (-C) = M - C /\ S + (-C) = S - C  BY <1>1
  <2>5. Cong(M - C, S - C)  BY <2>3, <2>4
  <2> DEFINE mc == M - C
             sc == S - C
             ne == -ee
  <2>6. Cong(mc, sc) /\ Cong(z, ne) /\ mc \in Int /\ sc \in Int /\ ne \in Int
    BY <1>3, <2>1, <2>5
  <2> HIDE DEF mc, sc, ne
  <2>7. z * mc \in Int /\ ne * sc \in Int /\ Cong(z * mc, ne * sc)  BY <2>6, CongMul
  <2> QED BY <2>7 DEF mc, sc, ne
<1> DEFINE t1 == prs * u
           t2 == me * A
           t3 == pd * v
           t4 == z * P
           t5 == xe * F
           t6 == ye * H
           t7 == z * (M - C)
           w1 == (pp * ss) * u
           w2 == (-e) * AA
           w3 == dd * v
           w4 == (-ee) * P
           w5 == (pp * e) * F
           w6 == (ss * e) * H
           w7 == (-ee) * (S - C)
<1>11. Both(t1 + t2 + t3 + t4 + t5 + t6 + t7, w1 + w2 + w3 + w4 + w5 + w6 + w7)
  <2>1. /\ Both(t1, w1) /\ Both(t2, w2) /\ Both(t3, w3) /\ Both(t4, w4)
        /\ Both(t5, w5) /\ Both(t6, w6) /\ Both(t7, w7)
    BY <1>4, <1>5, <1>6, <1>7, <1>8, <1>9, <1>10 DEF Both
  <2> HIDE DEF t1, t2, t3, t4, t5, t6, t7, w1, w2, w3, w4, w5, w6, w7
  <2>2. Both(t1 + t2, w1 + w2)  BY <2>1, BothAdd
  <2>3. Both(t1 + t2 + t3, w1 + w2 + w3)  BY <2>1, <2>2, BothAdd
  <2>4. Both(t1 + t2 + t3 + t4, w1 + w2 + w3 + w4)  BY <2>1, <2>3, BothAdd
  <2>5. Both(t1 + t2 + t3 + t4 + t5, w1 + w2 + w3 + w4 + w5)  BY <2>1, <2>4, BothAdd
  <2>6. Both(t1 + t2 + t3 + t4 + t5 + t6, w1 + w2 + w3 + w4 + w5 + w6)
    BY <2>1, <2>5, BothAdd
  <2> QED BY <2>1, <2>6, BothAdd
<1> DEFINE T == t1 + t2 + t3 + t4 + t5 + t6 + t7
           W == w1 + w2 + w3 + w4 + w5 + w6 + w7
<1>12. T \in Int /\ W \in Int /\ Cong(T, W)  BY <1>11 DEF Both
<1>13. Cong(X, T)
  <2>1. (t1 + t2 + t3 + t4) + t5 + t6 + t7 = T  OBVIOUS
  <2>2. Cong(X, (t1 + t2 + t3 + t4) + t5 + t6 + t7)  OBVIOUS
  <2> HIDE DEF T
  <2> QED BY <2>1, <2>2
<1>14. W = BB + ee * (C - P)
  <2> DEFINE f1 == e * AA
             f2 == ee * P
             f3 == ee * (S - C)
             R == BB + ee * (C - P)
  <2>1. w2 = -f1 /\ w4 = -f2 /\ w7 = -f3  BY <1>1
  <2>2. w1 - f1 + w3 - f2 + w5 + w6 - f3 = R  BY <1>2
  <2>3. f1 \in Int /\ f2 \in Int /\ f3 \in Int /\ w1 \in Int /\ w3 \in Int /\ w5 \in Int /\ w6 \in Int
    <3>1. S - C \in Int  BY <1>1
    <3> QED BY <1>1, <1>4, <1>6, <1>8, <1>9, <3>1
  <2> HIDE DEF w1, w2, w3, w4, w5, w6, w7, f1, f2, f3, R
  <2>4. W = R  BY <2>1, <2>2, <2>3
  <2> QED BY <2>4 DEF R
<1>15. Cong(BB + ee * (C - P), B + ee * (C - P))
  <2>1. ee * (C - P) \in Int  BY <1>1
  <2>2. Cong(BB, B)  BY <1>1, <1>3, CongSym
  <2> QED BY <1>1, <2>1, <2>2, CongAdd, CongRefl
<1>16. BB + ee * (C - P) \in Int /\ B + ee * (C - P) \in Int
  <2>1. ee * (C - P) \in Int  BY <1>1
  <2> QED BY <1>1, <2>1
<1> HIDE DEF T, W
<1>17. Cong(X, W)  BY <1>12, <1>13, CongTrans
<1>18. Cong(X, B + ee * (C - P))  BY <1>12, <1>14, <1>15, <1>16, <1>17, CongTrans
<1> QED BY <1>18 DEF ee

----------------------------------------------------------------------------
(* Rounding up to powers of two. *)

IsPower(p) == \E e \in Nat : p = Pow2[e]

(* Powers of two outgrow their exponents.                                  *)
LEMMA PowerAbove == \A n \in Nat : n < Pow2[n]
<1> DEFINE T == {n \in Nat : n < Pow2[n]}
<1>1. 0 \in T  BY Pow2Law
<1>2. ASSUME NEW n \in Nat, n \in T PROVE n + 1 \in T
  <2> DEFINE p == Pow2[n]
  <2>1. n < p /\ p \in Nat /\ Pow2[n + 1] = 2 * p  BY <1>2, Pow2Law
  <2> HIDE DEF p
  <2>2. n + 1 < 2 * p  BY <2>1
  <2> QED BY <2>1, <2>2
<1> HIDE DEF T
<1>3. \A n \in Nat : n \in T  BY <1>1, <1>2, Induction
<1> QED BY <1>3 DEF T

(* p is the power of two n is rounded up to. *)
RoundsUp(n, p) == n <= p /\ (p = 1 \/ p \div 2 < n)

(* Half of a power of two above one is a power of two.                     *)
LEMMA HalfOfPower ==
  ASSUME NEW e \in Nat, e # 0
  PROVE  e - 1 \in Nat /\ Pow2[e] \div 2 = Pow2[e - 1]
<1>1. e - 1 \in Nat /\ (e - 1) + 1 = e  OBVIOUS
<1> DEFINE p == Pow2[e - 1]
<1>2. p \in Nat /\ Pow2[e] = 2 * p  BY <1>1, Pow2Law
<1> HIDE DEF p
<1>3. (2 * p) \div 2 = p  BY <1>2
<1> QED BY <1>1, <1>2, <1>3 DEF p

(* Every number is rounded up to a power of two.                           *)
LEMMA NextPower ==
  ASSUME NEW n \in Nat
  PROVE  /\ IsPower(NextPowerOfTwo(n)) /\ NextPowerOfTwo(n) \in Nat \ {0}
         /\ RoundsUp(n, NextPowerOfTwo(n))
<1> DEFINE T == {e \in Nat : n <= Pow2[e]}
<1>1. n \in T
  <2>1. n < Pow2[n] /\ Pow2[n] \in Nat  BY PowerAbove, Pow2Law
  <2> QED BY <2>1
<1>2. PICK e \in T : \A y \in T : e <= y
  <2>1. T \subseteq Nat /\ T # {}  BY <1>1
  <2> HIDE DEF T
  <2> QED BY <2>1, SmallestOf
<1>3. e \in Nat /\ e \in 0 .. n /\ n <= Pow2[e]  BY <1>1, <1>2
<1>4. e = 0 \/ Pow2[e] \div 2 < n
  <2> SUFFICES ASSUME e # 0 PROVE Pow2[e] \div 2 < n  OBVIOUS
  <2>1. e - 1 \in Nat /\ Pow2[e] \div 2 = Pow2[e - 1]  BY <1>3, HalfOfPower
  <2>2. ~(e <= e - 1)  BY <1>3
  <2>3. ~(n <= Pow2[e - 1])  BY <1>2, <2>1, <2>2
  <2>4. Pow2[e - 1] \in Nat  BY <2>1, Pow2Law
  <2> QED BY <2>1, <2>3, <2>4
<1> HIDE DEF T
<1>5. Pow2[e] \in {Pow2[f] : f \in 0 .. n} /\ RoundsUp(n, Pow2[e])
  BY <1>3, <1>4, Pow2Law DEF RoundsUp
<1>6. NextPowerOfTwo(n) \in {Pow2[f] : f \in 0 .. n} /\ RoundsUp(n, NextPowerOfTwo(n))
  BY <1>5 DEF NextPowerOfTwo, RoundsUp
<1>7. PICK f \in 0 .. n : NextPowerOfTwo(n) = Pow2[f]  BY <1>6
<1>8. f \in Nat /\ Pow2[f] \in Nat \ {0}  BY Pow2Law
<1> QED BY <1>6, <1>7, <1>8 DEF IsPower

(* A power of two is rounded up to itself.                                 *)
LEMMA PowerStays ==
  ASSUME NEW p, IsPower(p)
  PROVE  p \in Nat \ {0} /\ NextPowerOfTwo(p) = p
<1>1. PICK e \in Nat : p = Pow2[e]  BY DEF IsPower
<1>2. p \in Nat \ {0}  BY <1>1, Pow2Law
<1> DEFINE r == NextPowerOfTwo(p)
<1>3. IsPower(r) /\ r \in Nat \ {0} /\ RoundsUp(p, r)  BY <1>2, NextPower
<1> HIDE DEF r
<1>4. PICK f \in Nat : r = Pow2[f]  BY <1>3 DEF IsPower
<1>5. CASE r = 1  BY <1>2, <1>3, <1>5 DEF RoundsUp, r
<1>6. CASE r # 1
  <2>1. f # 0  BY <1>4, <1>6, Pow2Law
  <2>2. f - 1 \in Nat /\ r \div 2 = Pow2[f - 1]  BY <1>4, <2>1, HalfOfPower
  <2>3. Pow2[f - 1] < p  BY <1>3, <1>6, <2>2 DEF RoundsUp
  <2>4. ~(e <= f - 1)
    <3>1. e <= f - 1 => p <= Pow2[f - 1]  BY <1>1, <2>2, Pow2Grows
    <3>2. Pow2[f - 1] \in Nat  BY <2>2, Pow2Law
    <3> QED BY <1>2, <2>3, <3>1, <3>2
  <2>5. f <= e  BY <2>2, <2>4
  <2>6. r <= p  BY <1>1, <1>4, <2>5, Pow2Grows
  <2> QED BY <1>2, <1>3, <2>6 DEF RoundsUp, r
<1> QED BY <1>2, <1>5, <1>6

(* One and two are powers of two.                                          *)
LEMMA SmallPowers == IsPower(1) /\ IsPower(2) /\ NextPowerOfTwo(0) = 1
<1>1. Pow2[0] = 1 /\ Pow2[0 + 1] = 2 * Pow2[0]  BY Pow2Law
<1>2. Pow2[0] = 1 /\ Pow2[1] = 2  BY <1>1
<1>3. IsPower(1) /\ IsPower(2)  BY <1>2 DEF IsPower
<1>4. NextPowerOfTwo(0) \in Nat \ {0} /\ RoundsUp(0, NextPowerOfTwo(0))  BY NextPower
<1> DEFINE r == NextPowerOfTwo(0)
<1>5. r \in Nat \ {0} /\ (r = 1 \/ r \div 2 < 0)  BY <1>4 DEF RoundsUp
<1> HIDE DEF r
<1>6. r = 1  BY <1>5
<1> QED BY <1>3, <1>6 DEF r

----------------------------------------------------------------------------
(* Sums over some of the indices, and terms gathered row by row. *)

(* The terms of f at the indices in S, zero elsewhere. *)
Selected(f, S, k) == [t \in 1 .. k |-> IF t \in S THEN f[t] ELSE 0]

(* A sum over some of the indices is the sum of the selected terms.        *)
LEMMA SumOfSome ==
  ASSUME NEW k \in Nat, NEW f, Ints(f, k), NEW S, S \subseteq 1 .. k
  PROVE  SumOver(f, S) = SumTo(Selected(f, S, k), k)
<1> DEFINE g == Selected(f, S, k)
           part(m) == SumOver(f, S \cap (1 .. m))
           J == {m \in Nat : m <= k => part(m) = SumTo(g, m)}
<1>1. \A t \in 1 .. k : g[t] = IF t \in S THEN f[t] ELSE 0  BY DEF Selected
<1>2. \A t \in 1 .. k : g[t] \in Int /\ f[t] \in Int  BY <1>1 DEF Ints
<1> HIDE DEF g
<1>3. 0 \in J
  <2>1. S \cap (1 .. 0) = {}  OBVIOUS
  <2>2. SumOver(f, {}) = 0  BY SumEmpty
  <2>3. SumTo(g, 0) = 0  BY SumToZero
  <2> QED BY <2>1, <2>2, <2>3
<1>4. ASSUME NEW m \in Nat, m \in J PROVE m + 1 \in J
  <2>1. SUFFICES ASSUME m + 1 <= k PROVE part(m + 1) = SumTo(g, m + 1)
    <3> HIDE DEF part
    <3> QED OBVIOUS
  <2> DEFINE s == S \cap (1 .. m)
             s1 == S \cap (1 .. m + 1)
  <2>2. SumOver(f, s) = SumTo(g, m)  BY <1>4, <2>1
  <2>3. m + 1 \in 1 .. k /\ \A i \in 1 .. m + 1 : i \in 1 .. k  BY <2>1
  <2>4. SumTo(g, m) \in Int /\ SumTo(g, m + 1) = SumTo(g, m) + g[m + 1]
    <3>1. \A i \in 1 .. m + 1 : g[i] \in Int  BY <1>2, <2>3
    <3> QED BY <3>1, SumToNext
  <2>5. CASE m + 1 \in S
    <3>1. s1 = s \cup {m + 1} /\ m + 1 \notin s  BY <2>5
    <3>2. IsFiniteSet(s)
      <4>1. IsFiniteSet(1 .. m)  BY IntervalFinite
      <4>2. s \subseteq 1 .. m  OBVIOUS
      <4> QED BY <4>1, <4>2, FS_Subset
    <3>3. \A y \in s \cup {m + 1} : f[y] \in Int  BY <1>2, <2>3
    <3> HIDE DEF s, s1
    <3>4. SumOver(f, s \cup {m + 1}) = SumOver(f, s) + f[m + 1]
      <4> DEFINE y == m + 1
      <4>1. y \notin s /\ \A i \in s \cup {y} : f[i] \in Int  BY <3>1, <3>3
      <4> HIDE DEF y
      <4>2. SumOver(f, s \cup {y}) = SumOver(f, s) + f[y]  BY <3>2, <4>1, SumAdd
      <4> QED BY <4>2 DEF y
    <3>5. g[m + 1] = f[m + 1]  BY <1>1, <2>3, <2>5
    <3>6. SumOver(f, s1) = SumTo(g, m) + g[m + 1]  BY <2>2, <3>1, <3>4, <3>5
    <3> QED BY <2>4, <3>6 DEF s1
  <2>6. CASE m + 1 \notin S
    <3>1. s1 = s  BY <2>6
    <3>2. g[m + 1] = 0  BY <1>1, <2>3, <2>6
    <3> HIDE DEF s, s1
    <3>3. SumOver(f, s1) = SumTo(g, m)  BY <2>2, <3>1
    <3> QED BY <2>4, <3>2, <3>3 DEF s1
  <2> QED BY <2>5, <2>6
<1> HIDE DEF J
<1>5. k \in J  BY <1>3, <1>4, Induction
<1>6. S \cap (1 .. k) = S  OBVIOUS
<1>7. SumOver(f, S \cap (1 .. k)) = SumTo(g, k)  BY <1>5 DEF J
<1> QED BY <1>6, <1>7 DEF g

(* The vector with x at index i and zeros elsewhere. *)
Unit(x, i, r) == [j \in 1 .. r |-> IF i = j THEN x ELSE 0]

(* Its product with v is what v has there.                                 *)
LEMMA DotUnit ==
  ASSUME NEW r \in Nat, NEW i \in 1 .. r, NEW x \in Int, NEW v, Ints(v, r)
  PROVE  Ints(Unit(x, i, r), r) /\ Dot(Unit(x, i, r), v, r) = x * v[i]
<1> DEFINE y == Unit(x, i, r)
           J == {m \in Nat : m <= r => Dot(y, v, m) = IF i <= m THEN x * v[i] ELSE 0}
<1>1. \A j \in 1 .. r : y[j] = IF i = j THEN x ELSE 0  BY DEF Unit
<1>2. Ints(y, r)  BY <1>1 DEF Ints
<1> HIDE DEF y
<1>3. 0 \in J
  <2>1. Dot(y, v, 0) = 0  BY DotZero
  <2>2. ~(i <= 0)  OBVIOUS
  <2> QED BY <2>1, <2>2
<1>4. ASSUME NEW m \in Nat, m \in J PROVE m + 1 \in J
  <2>1. SUFFICES ASSUME m + 1 <= r
                 PROVE Dot(y, v, m + 1) = IF i <= m + 1 THEN x * v[i] ELSE 0
    OBVIOUS
  <2>2. Dot(y, v, m) = IF i <= m THEN x * v[i] ELSE 0  BY <1>4, <2>1
  <2>3. \A j \in 1 .. m + 1 : j \in 1 .. r  BY <2>1
  <2>4. Ints(y, m + 1) /\ Ints(v, m + 1)  BY <1>2, <2>3 DEF Ints
  <2>5. Dot(y, v, m + 1) = Dot(y, v, m) + y[m + 1] * v[m + 1]  BY <2>4, DotNext
  <2>6. m + 1 \in 1 .. r  BY <2>3
  <2>7. v[m + 1] \in Int /\ v[i] \in Int  BY <2>6 DEF Ints
  <2>8. CASE i = m + 1
    <3>1. y[m + 1] = x /\ ~(i <= m) /\ i <= m + 1  BY <1>1, <2>6, <2>8
    <3>2. Dot(y, v, m + 1) = 0 + x * v[i]  BY <2>2, <2>5, <2>8, <3>1
    <3>3. x * v[i] \in Int  BY <2>7
    <3> QED BY <3>1, <3>2, <3>3
  <2>9. CASE i # m + 1
    <3>1. y[m + 1] = 0 /\ (i <= m <=> i <= m + 1)  BY <1>1, <2>6, <2>9
    <3>2. 0 * v[m + 1] = 0  BY <2>7
    <3>3. x * v[i] \in Int  BY <2>7
    <3> DEFINE p == x * v[i]
    <3> HIDE DEF p
    <3>4. (IF i <= m THEN p ELSE 0) + 0 = IF i <= m + 1 THEN p ELSE 0  BY <3>1, <3>3 DEF p
    <3> QED BY <2>2, <2>5, <3>1, <3>2, <3>4 DEF p
  <2> QED BY <2>8, <2>9
<1> HIDE DEF J
<1>5. r \in J  BY <1>3, <1>4, Induction
<1> QED BY <1>2, <1>5 DEF J, y

(* What the terms x, each at the row K names, add up to in every row. *)
Gathered(x, K, k, r) ==
  [row \in 1 .. r |-> SumTo([t \in 1 .. k |-> IF K[t] = row THEN x[t] ELSE 0], k)]

(* The product of gathered terms with v takes each term once.              *)
LEMMA DotGathered ==
  ASSUME NEW r \in Nat, NEW v, Ints(v, r), NEW k \in Nat, NEW x, Ints(x, k),
         NEW K, \A t \in 1 .. k : K[t] \in 1 .. r
  PROVE  /\ Ints(Gathered(x, K, k, r), r)
         /\ Ints([t \in 1 .. k |-> x[t] * v[K[t]]], k)
         /\ Cong(Dot(Gathered(x, K, k, r), v, r), SumTo([t \in 1 .. k |-> x[t] * v[K[t]]], k))
<1> DEFINE g == [t \in 1 .. k |-> x[t] * v[K[t]]]
           sel(row) == [t \in 1 .. k |-> IF K[t] = row THEN x[t] ELSE 0]
           G(m) == [row \in 1 .. r |-> SumTo(sel(row), m)]
           J == {m \in Nat : m <= k => Cong(Dot(G(m), v, r), SumTo(g, m))}
<1>1. \A row : \A t \in 1 .. k : sel(row)[t] \in Int  BY DEF Ints
<1>2. \A t \in 1 .. k : g[t] \in Int  BY DEF Ints
<1>3. ASSUME NEW m \in Nat, m <= k
      PROVE  Ints(G(m), r) /\ \A row \in 1 .. r : G(m)[row] = SumTo(sel(row), m)
  <2>1. ASSUME NEW row \in 1 .. r PROVE SumTo(sel(row), m) \in Int
    <3>1. \A t \in 1 .. m : sel(row)[t] \in Int  BY <1>1, <1>3
    <3> HIDE DEF sel
    <3> QED BY <3>1, SumToInt
  <2> HIDE DEF sel
  <2> QED BY <2>1 DEF Ints
<1>4. 0 \in J
  <2>1. 0 \in Nat /\ 0 <= k  OBVIOUS
  <2>2. Ints(G(0), r) /\ \A row \in 1 .. r : G(0)[row] = SumTo(sel(row), 0)  BY <1>3, <2>1
  <2>3. \A row : SumTo(sel(row), 0) = 0
    <3> HIDE DEF sel
    <3> QED BY SumToZero
  <2> DEFINE G0 == G(0)
  <2>4. Ints(G0, r) /\ \A row \in 1 .. r : G0[row] = 0  BY <2>2, <2>3
  <2> HIDE DEF G0
  <2>5. \A row \in 1 .. r : Cong(G0[row], 0 * G0[row] + 0 * G0[row])
    <3>1. Cong(0, 0)  BY CongRefl
    <3>2. 0 * 0 + 0 * 0 = 0  OBVIOUS
    <3> QED BY <2>4, <3>1, <3>2
  <2>6. Cong(Dot(G0, v, r), 0 * Dot(G0, v, r) + 0 * Dot(G0, v, r))
    <3>1. 0 \in Int  OBVIOUS
    <3> QED BY <2>4, <2>5, <3>1, DotLinear
  <2>7. Dot(G0, v, r) \in Int  BY <2>4, DotInt
  <2>8. 0 * Dot(G0, v, r) + 0 * Dot(G0, v, r) = 0  BY <2>7
  <2>9. SumTo(g, 0) = 0
    <3> HIDE DEF g
    <3> QED BY SumToZero
  <2> QED BY <2>6, <2>8, <2>9 DEF G0
<1>5. ASSUME NEW m \in Nat, m \in J PROVE m + 1 \in J
  <2>1. SUFFICES ASSUME m + 1 <= k PROVE Cong(Dot(G(m + 1), v, r), SumTo(g, m + 1))
    OBVIOUS
  <2> DEFINE y == Unit(x[m + 1], K[m + 1], r)
             G0 == G(m)
             G1 == G(m + 1)
             xm == x[m + 1]
             i == K[m + 1]
  <2>2. m <= k /\ m + 1 \in Nat /\ m + 1 \in 1 .. k  BY <2>1
  <2>3. xm \in Int /\ i \in 1 .. r  BY <2>2 DEF Ints
  <2>4. Ints(y, r) /\ Dot(y, v, r) = xm * v[i]
    <3> HIDE DEF xm, i
    <3> QED BY <2>3, DotUnit DEF xm, i
  <2>5. /\ Ints(G0, r) /\ \A row \in 1 .. r : G0[row] = SumTo(sel(row), m)
        /\ Ints(G1, r) /\ \A row \in 1 .. r : G1[row] = SumTo(sel(row), m + 1)
    <3> HIDE DEF G
    <3> QED BY <1>3, <2>1, <2>2
  <2>6. \A row \in 1 .. r : y[row] = sel(row)[m + 1]
    BY <2>2 DEF Unit
  <2>7. \A row \in 1 .. r : SumTo(sel(row), m + 1) = SumTo(sel(row), m) + sel(row)[m + 1]
    <3>1. \A row : \A t \in 1 .. m + 1 : sel(row)[t] \in Int
      <4>1. \A t \in 1 .. m + 1 : t \in 1 .. k  BY <2>1
      <4> HIDE DEF sel
      <4> QED BY <1>1, <4>1
    <3> HIDE DEF sel
    <3> QED BY <3>1, SumToNext
  <2>8. SumTo(g, m + 1) = SumTo(g, m) + g[m + 1] /\ SumTo(g, m) \in Int
    <3>1. \A t \in 1 .. m + 1 : g[t] \in Int
      <4>1. \A t \in 1 .. m + 1 : t \in 1 .. k  BY <2>1
      <4> HIDE DEF g
      <4> QED BY <1>2, <4>1
    <3> HIDE DEF g
    <3> QED BY <3>1, SumToNext
  <2>9. g[m + 1] = xm * v[i] /\ g[m + 1] \in Int  BY <1>2, <2>2
  <2>10. Cong(Dot(G0, v, r), SumTo(g, m))  BY <1>5, <2>1
  <2> HIDE DEF g, G, y, xm, i, J
  <2>11. \A row \in 1 .. r : Cong(G1[row], 1 * G0[row] + 1 * y[row])
    <3>1. ASSUME NEW row \in 1 .. r PROVE Cong(G1[row], 1 * G0[row] + 1 * y[row])
      <4>1. G1[row] = G0[row] + y[row]  BY ZenonT(60), <2>5, <2>6, <2>7
      <4>2. G1[row] \in Int /\ G0[row] \in Int /\ y[row] \in Int  BY <2>4, <2>5 DEF Ints
      <4> HIDE DEF G0, G1, sel
      <4>3. 1 * G0[row] + 1 * y[row] = G1[row]  BY <4>1, <4>2
      <4> QED BY <4>2, <4>3, CongRefl
    <3> QED BY <3>1
  <2> HIDE DEF G0, G1, sel
  <2>12. Cong(Dot(G1, v, r), 1 * Dot(G0, v, r) + 1 * Dot(y, v, r))
    <3>1. 1 \in Int  OBVIOUS
    <3> QED BY <2>4, <2>5, <2>11, <3>1, DotLinear
  <2> DEFINE d1 == Dot(G1, v, r)
             d0 == Dot(G0, v, r)
             dy == Dot(y, v, r)
             s == SumTo(g, m)
  <2>13. d1 \in Int /\ d0 \in Int /\ dy \in Int /\ s \in Int  BY <2>4, <2>5, <2>8, DotInt
  <2>14. Cong(d1, 1 * d0 + 1 * dy) /\ Cong(d0, s)  BY <2>10, <2>12
  <2>15. SumTo(g, m + 1) = s + dy  BY <2>4, <2>8, <2>9
  <2> HIDE DEF d1, d0, dy, s
  <2>16. 1 * d0 + 1 * dy = d0 + dy /\ d0 + dy \in Int /\ s + dy \in Int  BY <2>13
  <2>17. Cong(dy, dy)  BY <2>13, CongRefl
  <2>18. Cong(d0 + dy, s + dy)  BY <2>13, <2>14, <2>17, CongAdd
  <2>19. Cong(d1, s + dy)  BY <2>13, <2>14, <2>16, <2>18, CongTrans
  <2> QED BY <2>15, <2>19 DEF d1, G1
<1>6. k \in J
  <2> HIDE DEF J
  <2> QED BY <1>4, <1>5, Induction
<1>7. G(k) = Gathered(x, K, k, r)  BY DEF Gathered
<1>8. k <= k  OBVIOUS
<1>9. Ints(G(k), r)  BY <1>3, <1>8
<1>10. Ints(g, k)  BY <1>2 DEF Ints
<1> HIDE DEF g, G
<1> QED BY <1>6, <1>7, <1>8, <1>9, <1>10 DEF g

----------------------------------------------------------------------------
(* Powers. *)

(* Exp's running products over sets of exponents. *)
Powers(it, x, k) ==
  it = [s \in SUBSET (1 .. k) |-> IF s = {} THEN 1 ELSE (it[s \ {Max(s)}] * x) % q]

(* They exist.                                                             *)
LEMMA PowersExist ==
  ASSUME NEW k \in Nat, NEW x \in Int
  PROVE  \E it \in [SUBSET (1 .. k) -> Fq] : Powers(it, x, k)
<1> DEFINE S == 1 .. k
           step == [p \in S \X Fq |-> (p[2] * x) % q]
           ch == [s \in SUBSET S |-> Max(s)]
<1>1. ASSUME NEW p \in Fq PROVE (p * x) % q \in Fq
  <2>1. p * x \in Int  BY DEF Fq
  <2> QED BY <2>1, ModCong
<1>2. step \in [S \X Fq -> Fq]  BY <1>1
<1>3. \A s \in SUBSET S : s # {} => ch[s] \in s  BY MaxIn
<1>4. \A i \in S, v \in Fq : step[<<i, v>>] = (v * x) % q  OBVIOUS
<1>5. \A s \in SUBSET S : ch[s] = Max(s)  OBVIOUS
<1>6. IsFiniteSet(S)  BY IntervalFinite
<1> HIDE DEF step, ch, S
<1>7. PICK it \in [SUBSET S -> Fq] : Folds(it, SUBSET S, 1, ch, step)
  <2>1. 1 \in Fq  BY GeneratorPoint
  <2> QED BY <1>2, <1>3, <1>6, <2>1, FoldExists
<1>8. ASSUME NEW s \in SUBSET S, s # {}
      PROVE  it[s] = (it[s \ {Max(s)}] * x) % q
  <2>1. ch[s] \in S /\ ch[s] = Max(s)  BY <1>3, <1>5, <1>8
  <2>2. it[s \ {ch[s]}] \in Fq  BY <1>7
  <2>3. it[s] = step[<<ch[s], it[s \ {ch[s]}]>>]  BY <1>7, <1>8 DEF Folds
  <2> QED BY <1>4, <2>1, <2>2, <2>3
<1>9. it[{}] = 1  BY <1>7 DEF Folds
<1>10. it = [s \in SUBSET S |-> IF s = {} THEN 1 ELSE (it[s \ {Max(s)}] * x) % q]
  BY <1>7, <1>8, <1>9
<1>11. Powers(it, x, k)  BY <1>10 DEF Powers, S
<1> QED BY <1>7, <1>11 DEF S

(* The product of a prefix.                                                *)
LEMMA PowersTo ==
  ASSUME NEW k \in Nat, NEW x, NEW it, Powers(it, x, k), NEW j \in Nat, j + 1 <= k
  PROVE  it[1 .. j + 1] = (it[1 .. j] * x) % q
<1>1. 1 .. j + 1 \in SUBSET (1 .. k) /\ 1 .. j + 1 # {}  OBVIOUS
<1>2. Max(1 .. j + 1) = j + 1  BY MaxTo
<1>3. (1 .. j + 1) \ {j + 1} = 1 .. j  OBVIOUS
<1> QED BY <1>1, <1>2, <1>3 DEF Powers

(* Two products of one prefix agree.                                       *)
LEMMA PowersAgree ==
  ASSUME NEW k \in Nat, NEW l \in Nat, NEW x, NEW it, NEW jt, Powers(it, x, k), Powers(jt, x, l),
         NEW m \in Nat, m <= k, m <= l
  PROVE  it[1 .. m] = jt[1 .. m]
<1> DEFINE J == {j \in Nat : j <= m => it[1 .. j] = jt[1 .. j]}
<1>1. 0 \in J
  <2>1. 1 .. 0 = {}  OBVIOUS
  <2>2. it[{}] = 1 /\ jt[{}] = 1  BY DEF Powers
  <2> QED BY <2>1, <2>2
<1>2. ASSUME NEW j \in Nat, j \in J PROVE j + 1 \in J
  <2>1. SUFFICES ASSUME j + 1 <= m PROVE it[1 .. j + 1] = jt[1 .. j + 1]  OBVIOUS
  <2>2. it[1 .. j] = jt[1 .. j]  BY <1>2, <2>1
  <2>3. j + 1 <= k /\ j + 1 <= l  BY <2>1
  <2>4. /\ it[1 .. j + 1] = (it[1 .. j] * x) % q
        /\ jt[1 .. j + 1] = (jt[1 .. j] * x) % q
    BY <2>3, PowersTo
  <2> QED BY <2>2, <2>4
<1> HIDE DEF J
<1>3. m \in J  BY <1>1, <1>2, Induction
<1> QED BY <1>3 DEF J

(* Exp is the last of them.                                                *)
LEMMA ExpIs ==
  ASSUME NEW k \in Nat, NEW x \in Int
  PROVE  \E it \in [SUBSET (1 .. k) -> Fq] : Powers(it, x, k) /\ Exp(x, k) = it[1 .. k]
<1> DEFINE iter == CHOOSE it : Powers(it, x, k)
           idx == [i \in 1 .. k |-> i]
<1>1. PICK it \in [SUBSET (1 .. k) -> Fq] : Powers(it, x, k)  BY PowersExist
<1>2. Powers(iter, x, k)  BY <1>1
<1>3. DOMAIN idx = 1 .. k  OBVIOUS
<1>4. Exp(x, k) = FoldLeft(LAMBDA p, i : (p * x) % q, 1, idx)  BY DEF Exp
<1> HIDE DEF idx
<1>5. FoldLeft(LAMBDA p, i : (p * x) % q, 1, idx) = iter[1 .. k]
  BY <1>3 DEF FoldLeft, MapThenFoldSet, Powers
<1> HIDE DEF iter
<1>6. k <= k  OBVIOUS
<1>7. iter[1 .. k] = it[1 .. k]  BY <1>1, <1>2, <1>6, PowersAgree
<1> QED BY <1>1, <1>4, <1>5, <1>7

(* The recursion by which the code's exp_iter computes powers.             *)
LEMMA ExpLaw ==
  ASSUME NEW x \in Int
  PROVE  /\ Exp(x, 0) = 1
         /\ \A k \in Nat : /\ Exp(x, k) \in Fq /\ Exp(x, k) \in Int
                           /\ Exp(x, k + 1) = (Exp(x, k) * x) % q
<1>1. Exp(x, 0) = 1
  <2>1. 0 \in Nat  OBVIOUS
  <2>2. PICK it \in [SUBSET (1 .. 0) -> Fq] : Powers(it, x, 0) /\ Exp(x, 0) = it[1 .. 0]
    BY <2>1, ExpIs
  <2>3. 1 .. 0 = {}  OBVIOUS
  <2> QED BY <2>2, <2>3 DEF Powers
<1>2. ASSUME NEW k \in Nat
      PROVE  /\ Exp(x, k) \in Fq /\ Exp(x, k) \in Int
             /\ Exp(x, k + 1) = (Exp(x, k) * x) % q
  <2>1. PICK it \in [SUBSET (1 .. k) -> Fq] : Powers(it, x, k) /\ Exp(x, k) = it[1 .. k]
    BY ExpIs
  <2>2. k + 1 \in Nat  OBVIOUS
  <2>3. PICK jt \in [SUBSET (1 .. k + 1) -> Fq] :
          Powers(jt, x, k + 1) /\ Exp(x, k + 1) = jt[1 .. k + 1]
    BY <2>2, ExpIs
  <2>4. k <= k /\ k <= k + 1 /\ k + 1 <= k + 1  OBVIOUS
  <2>5. it[1 .. k] = jt[1 .. k]  BY <2>1, <2>2, <2>3, <2>4, PowersAgree
  <2>6. jt[1 .. k + 1] = (jt[1 .. k] * x) % q  BY <2>2, <2>3, <2>4, PowersTo
  <2>7. Exp(x, k) \in Fq
    <3>1. 1 .. k \in SUBSET (1 .. k)  OBVIOUS
    <3> QED BY <2>1, <3>1
  <2>8. Exp(x, k) \in Int  BY <2>7 DEF Fq
  <2> QED BY <2>1, <2>3, <2>5, <2>6, <2>7, <2>8
<1> QED BY <1>1, <1>2

(* A step of the product of two powers.                                    *)
LEMMA ProductStep ==
  ASSUME NEW X \in Int, NEW Y \in Int, NEW Z \in Int, NEW x \in Int, NEW y \in Int, NEW z \in Int,
         Cong(Z, X * Y), Cong(z, x * y)
  PROVE  Cong((Z * z) % q, ((X * x) % q) * ((Y * y) % q))
<1>1. X * x \in Int /\ Y * y \in Int /\ Z * z \in Int /\ X * Y \in Int /\ x * y \in Int
  OBVIOUS
<1>2. Cong((X * x) % q, X * x) /\ Cong((Y * y) % q, Y * y) /\ Cong((Z * z) % q, Z * z)
  BY <1>1, ModCong
<1>3. (X * x) % q \in Int /\ (Y * y) % q \in Int /\ (Z * z) % q \in Int
  BY <1>1, ModCong DEF Fq
<1>4. Cong(Z * z, (X * Y) * (x * y))  BY <1>1, CongMul
<1>5. (X * Y) * (x * y) = (X * x) * (Y * y)  OBVIOUS
<1> DEFINE r1 == (X * x) % q
           r2 == (Y * y) % q
           p1 == X * x
           p2 == Y * y
           zz == Z * z
           r == zz % q
<1>6. Cong(r, zz) /\ Cong(zz, p1 * p2) /\ Cong(r1, p1) /\ Cong(r2, p2)
  BY <1>2, <1>4, <1>5
<1>7. r \in Int /\ zz \in Int /\ p1 \in Int /\ p2 \in Int /\ r1 \in Int /\ r2 \in Int
  BY <1>1, <1>3
<1> HIDE DEF r1, r2, p1, p2, zz, r
<1>8. p1 * p2 \in Int /\ r1 * r2 \in Int  BY <1>7
<1>9. Cong(r1 * r2, p1 * p2)  BY <1>6, <1>7, CongMul
<1>10. Cong(p1 * p2, r1 * r2)  BY <1>8, <1>9, CongSym
<1>11. Cong(r, p1 * p2)  BY <1>6, <1>7, <1>8, CongTrans
<1>12. Cong(r, r1 * r2)  BY <1>7, <1>8, <1>10, <1>11, CongTrans
<1> QED BY <1>12 DEF r, r1, r2, zz

(* Powers of a product are products of powers.                             *)
LEMMA ExpProduct ==
  ASSUME NEW x \in Int, NEW y \in Int, NEW z \in Int, Cong(z, x * y)
  PROVE  \A k \in Nat : Cong(Exp(z, k), Exp(x, k) * Exp(y, k))
<1> DEFINE J == {k \in Nat : Cong(Exp(z, k), Exp(x, k) * Exp(y, k))}
<1>1. 0 \in J
  <2>1. Exp(x, 0) = 1 /\ Exp(y, 0) = 1 /\ Exp(z, 0) = 1  BY ExpLaw
  <2>2. Cong(1, 1) /\ 1 * 1 = 1  BY CongRefl
  <2> QED BY <2>1, <2>2
<1>2. ASSUME NEW k \in Nat, k \in J PROVE k + 1 \in J
  <2> DEFINE X == Exp(x, k)
             Y == Exp(y, k)
             Z == Exp(z, k)
  <2>1. X \in Int /\ Y \in Int /\ Z \in Int  BY ExpLaw
  <2>2. /\ Exp(x, k + 1) = (X * x) % q /\ Exp(y, k + 1) = (Y * y) % q
        /\ Exp(z, k + 1) = (Z * z) % q
    BY ExpLaw
  <2>3. Cong(Z, X * Y)  BY <1>2
  <2> HIDE DEF X, Y, Z
  <2>4. Cong((Z * z) % q, ((X * x) % q) * ((Y * y) % q))  BY <2>1, <2>3, ProductStep
  <2> QED BY <2>2, <2>4
<1> HIDE DEF J
<1>3. \A k \in Nat : k \in J  BY <1>1, <1>2, Induction
<1> QED BY <1>3 DEF J

(* Powers of one are one.                                                  *)
LEMMA ExpOne == \A k \in Nat : Exp(1, k) = 1
<1> DEFINE J == {k \in Nat : Exp(1, k) = 1}
<1>1. 0 \in J  BY ExpLaw
<1>2. ASSUME NEW k \in Nat, k \in J PROVE k + 1 \in J
  <2>1. Exp(1, k + 1) = (Exp(1, k) * 1) % q  BY ExpLaw
  <2>2. Exp(1, k) * 1 = 1  BY <1>2
  <2>3. 1 % q = 1  BY ModOf, GeneratorPoint
  <2> QED BY <2>1, <2>2, <2>3
<1> HIDE DEF J
<1>3. \A k \in Nat : k \in J  BY <1>1, <1>2, Induction
<1> QED BY <1>3 DEF J

(* Powers of an inverse undo powers.                                       *)
LEMMA ExpInverse ==
  ASSUME NEW x \in Fq, x # 0
  PROVE  /\ Inv(x) \in Fq /\ Inv(x) \in Int /\ x \in Int
         /\ \A k \in Nat : Cong(Exp(x, k) * Exp(Inv(x), k), 1)
<1> DEFINE y == Inv(x)
<1>1. y \in Fq /\ y \in Int /\ x \in Int /\ Cong(x * y, 1)  BY InvLaw
<1> HIDE DEF y
<1>2. x * y \in Int  BY <1>1
<1>3. Cong(1, x * y)  BY <1>1, <1>2, CongSym
<1>4. ASSUME NEW k \in Nat PROVE Cong(Exp(x, k) * Exp(y, k), 1)
  <2>1. Cong(Exp(1, k), Exp(x, k) * Exp(y, k))
    <3>1. 1 \in Int  OBVIOUS
    <3> QED BY <1>1, <1>3, <3>1, ExpProduct
  <2>2. Exp(1, k) = 1  BY ExpOne
  <2>3. Exp(x, k) \in Int /\ Exp(y, k) \in Int  BY <1>1, ExpLaw
  <2>4. Exp(x, k) * Exp(y, k) \in Int  BY <2>3
  <2> QED BY <2>1, <2>2, <2>4, CongSym
<1> QED BY <1>1, <1>4 DEF y

(* exp_iter(x).take(k).                                                    *)
LEMMA ExpIterIs ==
  ASSUME NEW k \in Nat, NEW x \in Int
  PROVE  /\ FieldList(ExpIter(x, k), k)
         /\ \A i \in 1 .. k : ExpIter(x, k)[i] = Exp(x, i - 1)
<1>1. \A i \in 1 .. k : i - 1 \in Nat  OBVIOUS
<1>2. \A i \in 1 .. k : Exp(x, i - 1) \in Fq  BY <1>1, ExpLaw
<1>3. \A i \in 1 .. k : ExpIter(x, k)[i] = Exp(x, i - 1)  BY DEF ExpIter
<1>4. IsList(ExpIter(x, k), k)  BY DEF ExpIter, IsList
<1> QED BY <1>2, <1>3, <1>4 DEF FieldList

----------------------------------------------------------------------------
(* Vectors over the field: what their operations compute, by element. *)
Elementwise(x, y, c, k) ==
  /\ FieldList(AddVec(x, y), k) /\ FieldList(SubVec(x, y), k)
  /\ FieldList(ScalarMul(x, c), k) /\ FieldList(ComponentWiseMul(x, y), k)
  /\ \A i \in 1 .. k : /\ x[i] \in Int /\ y[i] \in Int
                       /\ Cong(AddVec(x, y)[i], x[i] + y[i])
                       /\ Cong(SubVec(x, y)[i], x[i] - y[i])
                       /\ Cong(ScalarMul(x, c)[i], x[i] * c)
                       /\ Cong(ComponentWiseMul(x, y)[i], x[i] * y[i])

(* All of them stay in the field.                                          *)
LEMMA VectorOps ==
  ASSUME NEW k \in Nat, NEW x, NEW y, FieldList(x, k), FieldList(y, k), NEW c \in Int
  PROVE  Elementwise(x, y, c, k)
<1>1. DOMAIN x = 1 .. k  BY DEF FieldList, IsList
<1>2. \A i \in 1 .. k : x[i] \in Int /\ y[i] \in Int  BY DEF FieldList, Fq
<1>3. ASSUME NEW i \in 1 .. k
      PROVE  /\ AddVec(x, y)[i] = (x[i] + y[i]) % q /\ SubVec(x, y)[i] = (x[i] - y[i]) % q
             /\ ScalarMul(x, c)[i] = (x[i] * c) % q
             /\ ComponentWiseMul(x, y)[i] = (x[i] * y[i]) % q
  BY <1>1 DEF AddVec, SubVec, ScalarMul, ComponentWiseMul
<1>4. ASSUME NEW i \in 1 .. k
      PROVE  /\ AddVec(x, y)[i] \in Fq /\ SubVec(x, y)[i] \in Fq
             /\ ScalarMul(x, c)[i] \in Fq /\ ComponentWiseMul(x, y)[i] \in Fq
             /\ Cong(AddVec(x, y)[i], x[i] + y[i])
             /\ Cong(SubVec(x, y)[i], x[i] - y[i])
             /\ Cong(ScalarMul(x, c)[i], x[i] * c)
             /\ Cong(ComponentWiseMul(x, y)[i], x[i] * y[i])
  <2> DEFINE xi == x[i]
             yi == y[i]
  <2>1. xi \in Int /\ yi \in Int  BY <1>2
  <2> HIDE DEF xi, yi
  <2>2. xi + yi \in Int /\ xi - yi \in Int /\ xi * c \in Int /\ xi * yi \in Int  BY <2>1
  <2>3. /\ (xi + yi) % q \in Fq /\ Cong((xi + yi) % q, xi + yi)
        /\ (xi - yi) % q \in Fq /\ Cong((xi - yi) % q, xi - yi)
        /\ (xi * c) % q \in Fq /\ Cong((xi * c) % q, xi * c)
        /\ (xi * yi) % q \in Fq /\ Cong((xi * yi) % q, xi * yi)
    BY <2>2, ModCong
  <2> QED BY <1>3, <2>3 DEF xi, yi
<1>5. /\ IsList(AddVec(x, y), k) /\ IsList(SubVec(x, y), k)
      /\ IsList(ScalarMul(x, c), k) /\ IsList(ComponentWiseMul(x, y), k)
  BY <1>1 DEF AddVec, SubVec, ScalarMul, ComponentWiseMul, IsList
<1> QED BY <1>2, <1>4, <1>5 DEF Elementwise, FieldList

JoinsAt(s, t, k, l) ==
  /\ k + l \in Nat /\ FieldList(s \o t, k + l)
  /\ \A i \in 1 .. k : (s \o t)[i] = s[i]
  /\ \A i \in 1 .. l : k + i \in 1 .. k + l /\ (s \o t)[k + i] = t[i]
  /\ \A i \in 1 .. k + l : i \in 1 .. k \/ (i - k \in 1 .. l /\ (s \o t)[i] = t[i - k])

(* Lists over the field joined.                                            *)
LEMMA FieldJoin ==
  ASSUME NEW k \in Nat, NEW l \in Nat, NEW s, NEW t, FieldList(s, k), FieldList(t, l)
  PROVE  JoinsAt(s, t, k, l)
<1> DEFINE r == s \o t
<1>1. Joins(r, s, k, t, l)  BY ListJoin DEF FieldList
<1> HIDE DEF r
<1>2. \A i \in 1 .. k + l : i \in 1 .. k \/ (i - k \in 1 .. l /\ i = k + (i - k))  OBVIOUS
<1>3. \A i \in 1 .. k + l : i \in 1 .. k \/ (i - k \in 1 .. l /\ r[i] = t[i - k])
  BY <1>1, <1>2 DEF Joins
<1>4. \A i \in 1 .. k + l : r[i] \in Fq
  BY <1>1, <1>3 DEF Joins, FieldList
<1>5. \A i \in 1 .. l : k + i \in 1 .. k + l  OBVIOUS
<1>6. k + l \in Nat  OBVIOUS
<1> QED BY <1>1, <1>3, <1>4, <1>5, <1>6 DEF Joins, JoinsAt, FieldList, r

(* Joining is associative.                                                 *)
LEMMA JoinAssoc ==
  ASSUME NEW k \in Nat, NEW l \in Nat, NEW m \in Nat, NEW r, NEW s, NEW t,
         FieldList(r, k), FieldList(s, l), FieldList(t, m)
  PROVE  (r \o s) \o t = r \o (s \o t)
<1> DEFINE rs == r \o s
           st == s \o t
<1>1. Joins(rs, r, k, s, l) /\ Joins(st, s, l, t, m)  BY ListJoin DEF FieldList
<1>2. k + l \in Nat /\ l + m \in Nat  OBVIOUS
<1>3. IsList(rs, k + l) /\ IsList(st, l + m) /\ IsList(r, k) /\ IsList(t, m)
  BY <1>1 DEF Joins, FieldList
<1> HIDE DEF rs, st
<1> DEFINE x == rs \o t
           y == r \o st
<1>4. Joins(x, rs, k + l, t, m) /\ Joins(y, r, k, st, l + m)  BY <1>2, <1>3, ListJoin
<1> HIDE DEF x, y
<1>5. IsList(x, (k + l) + m) /\ IsList(y, k + (l + m))  BY <1>4 DEF Joins
<1>6. (k + l) + m = k + (l + m)  OBVIOUS
<1>7. ASSUME NEW i \in 1 .. k + (l + m) PROVE x[i] = y[i]
  <2>1. CASE i \in 1 .. k
    <3>1. i \in 1 .. k + l  BY <2>1
    <3> QED BY <1>1, <1>4, <2>1, <3>1 DEF Joins
  <2>2. CASE i - k \in 1 .. l
    <3>1. i - k \in 1 .. l + m /\ i \in 1 .. k + l /\ i = k + (i - k)  BY <2>2
    <3>2. y[i] = st[i - k] /\ x[i] = rs[i]  BY <1>4, <3>1 DEF Joins
    <3>3. st[i - k] = s[i - k] /\ rs[i] = s[i - k]  BY <1>1, <2>2, <3>1 DEF Joins
    <3> QED BY <3>2, <3>3
  <2>3. CASE i - (k + l) \in 1 .. m
    <3> DEFINE j == i - (k + l)
    <3>1. j \in 1 .. m /\ i = (k + l) + j /\ i = k + (l + j) /\ l + j \in 1 .. l + m
      BY <2>3
    <3> HIDE DEF j
    <3>2. x[(k + l) + j] = t[j] /\ y[k + (l + j)] = st[l + j] /\ st[l + j] = t[j]
      BY <1>1, <1>4, <3>1 DEF Joins
    <3> QED BY <3>1, <3>2
  <2>4. i \in 1 .. k \/ i - k \in 1 .. l \/ i - (k + l) \in 1 .. m  OBVIOUS
  <2> QED BY <2>1, <2>2, <2>3, <2>4
<1>8. x = y  BY <1>5, <1>6, <1>7 DEF IsList
<1> QED BY <1>8 DEF x, y, rs, st

(* A vector that is a sum of four, the last scaled, has the sum of their   *)
(* products.                                                               *)
LEMMA DotOfFour ==
  ASSUME NEW k \in Nat, NEW x, NEW x1, NEW x2, NEW x3, NEW x4, NEW y,
         Ints(x, k), Ints(x1, k), Ints(x2, k), Ints(x3, k), Ints(x4, k), Ints(y, k),
         NEW d \in Int,
         \A i \in 1 .. k : Cong(x[i], x1[i] + x2[i] + x3[i] + d * x4[i])
  PROVE  Cong(Dot(x, y, k), Dot(x1, y, k) + Dot(x2, y, k) + Dot(x3, y, k) + d * Dot(x4, y, k))
<1> DEFINE s == [i \in 1 .. k |-> x1[i] + x2[i]]
           t == [i \in 1 .. k |-> x3[i] + d * x4[i]]
<1>1. \A i \in 1 .. k : /\ x1[i] \in Int /\ x2[i] \in Int /\ x3[i] \in Int /\ x4[i] \in Int
                        /\ d * x4[i] \in Int
  BY DEF Ints
<1>2. Ints(s, k) /\ Ints(t, k)  BY <1>1 DEF Ints
<1>3. \A i \in 1 .. k : s[i] = x1[i] + x2[i] /\ t[i] = x3[i] + d * x4[i]  OBVIOUS
<1> HIDE DEF s, t
<1>4. ASSUME NEW i \in 1 .. k
      PROVE  /\ Cong(s[i], 1 * x1[i] + 1 * x2[i]) /\ Cong(t[i], 1 * x3[i] + d * x4[i])
             /\ Cong(x[i], 1 * s[i] + 1 * t[i])
  <2> DEFINE z1 == x1[i]
             z2 == x2[i]
             z3 == x3[i]
             z4 == d * x4[i]
             si == s[i]
             ti == t[i]
  <2>1. z1 \in Int /\ z2 \in Int /\ z3 \in Int /\ z4 \in Int /\ si = z1 + z2 /\ ti = z3 + z4
        /\ Cong(x[i], z1 + z2 + z3 + z4)
    BY <1>1, <1>3
  <2> HIDE DEF z1, z2, z3, z4, si, ti
  <2>2. si \in Int /\ ti \in Int /\ si = 1 * z1 + 1 * z2 /\ ti = 1 * z3 + z4
        /\ z1 + z2 + z3 + z4 = 1 * si + 1 * ti
    BY <2>1
  <2>3. Cong(si, 1 * z1 + 1 * z2) /\ Cong(ti, 1 * z3 + z4)  BY <2>2, CongRefl
  <2> QED BY <2>1, <2>2, <2>3 DEF z1, z2, z3, z4, si, ti
<1>5. 1 \in Int  OBVIOUS
<1>6. Cong(Dot(s, y, k), 1 * Dot(x1, y, k) + 1 * Dot(x2, y, k))  BY <1>2, <1>4, <1>5, DotLinear
<1>7. Cong(Dot(t, y, k), 1 * Dot(x3, y, k) + d * Dot(x4, y, k))  BY <1>2, <1>4, <1>5, DotLinear
<1>8. Cong(Dot(x, y, k), 1 * Dot(s, y, k) + 1 * Dot(t, y, k))  BY <1>2, <1>4, <1>5, DotLinear
<1> DEFINE X == Dot(x, y, k)
           S == Dot(s, y, k)
           R == Dot(t, y, k)
           D1 == Dot(x1, y, k)
           D2 == Dot(x2, y, k)
           D3 == Dot(x3, y, k)
           D4 == Dot(x4, y, k)
<1>9. /\ X \in Int /\ S \in Int /\ R \in Int
      /\ D1 \in Int /\ D2 \in Int /\ D3 \in Int /\ D4 \in Int
  BY <1>2, DotInt
<1>10. Cong(S, 1 * D1 + 1 * D2) /\ Cong(R, 1 * D3 + d * D4) /\ Cong(X, 1 * S + 1 * R)
  BY <1>6, <1>7, <1>8
<1> HIDE DEF X, S, R, D1, D2, D3, D4
<1> DEFINE p == d * D4
<1>11. p \in Int  BY <1>9
<1>12. Cong(R, 1 * D3 + p)  BY <1>10
<1> HIDE DEF p
<1>13. /\ 1 * D1 + 1 * D2 = D1 + D2 /\ 1 * D3 + p = D3 + p /\ 1 * S + 1 * R = S + R
       /\ D1 + D2 \in Int /\ D3 + p \in Int /\ S + R \in Int
  BY <1>9, <1>11
<1>14. Cong(S + R, (D1 + D2) + (D3 + p))  BY <1>9, <1>10, <1>12, <1>13, CongAdd
<1>15. (D1 + D2) + (D3 + p) = D1 + D2 + D3 + p /\ (D1 + D2) + (D3 + p) \in Int
  BY <1>9, <1>11
<1> DEFINE sum == D1 + D2 + D3 + p
<1>16. sum \in Int /\ Cong(S + R, sum) /\ Cong(X, S + R) /\ S + R \in Int
  BY <1>10, <1>13, <1>14, <1>15
<1> HIDE DEF sum
<1>17. Cong(X, sum)  BY <1>9, <1>16, CongTrans
<1> QED BY <1>17 DEF sum, p, X, D1, D2, D3, D4
============================================================================
