-------------------------- MODULE R1CSShapesProofs --------------------------
(***************************************************************************)
(* For every field, every bound and every circuit: the R1CS instances made *)
(* from a circuit's shape are satisfied exactly when the circuit is, and   *)
(* Spartan's prover and verifier make the same one.                        *)
(*                                                                         *)
(* Every claim is about the circuit synthesised so far, so the invariant   *)
(* needed is that of the types (Synthesised); the rest is what the         *)
(* operators do with a well-typed circuit.                                 *)
(***************************************************************************)
EXTENDS R1CSShapes, IPABaseProofs

----------------------------------------------------------------------------
(* Types. *)

Synthesised ==
  /\ TypeOK
  /\ Len(input_assignment) <= MaxInputs + 1
  /\ Len(aux_assignment) <= MaxAux

Constraint(vs) == [A : LCsOf(vs), B : LCsOf(vs), C : LCsOf(vs)]

(* Constraints over some variables are constraints over more of them.      *)
LEMMA ConstraintsGrow ==
  ASSUME NEW vs, NEW ws, vs \subseteq ws
  PROVE  Seq(Constraint(vs)) \subseteq Seq(Constraint(ws))
<1>1. [var : vs, coeff : Fq] \subseteq [var : ws, coeff : Fq]  OBVIOUS
<1>2. LCsOf(vs) \subseteq LCsOf(ws)  BY <1>1, SeqMonotonic DEF LCsOf
<1>3. Constraint(vs) \subseteq Constraint(ws)  BY <1>2 DEF Constraint
<1> QED BY <1>3, SeqMonotonic

(* Field elements are there: 0, which pads, and 1, the first input.        *)
LEMMA ZeroAndOne == 0 \in Fq /\ 1 \in Fq /\ Fq \subseteq Int /\ q \in Nat \ {0, 1}
BY PrimeAssumption DEF Fq

(* Synthesis keeps the types, whatever is allocated or enforced.           *)
LEMMA SynthesisedInvariant == Spec => []Synthesised
<1>1. Init => Synthesised
  <2> SUFFICES ASSUME Init PROVE Synthesised  OBVIOUS
  <2>1. constraints = <<>> /\ aux_assignment = <<>> /\ input_assignment = <<1>>  BY DEF Init
  <2>2. input_assignment \in Seq(Fq) /\ Len(input_assignment) = 1  BY <2>1, ZeroAndOne
  <2>3. Len(aux_assignment) = 0 /\ aux_assignment \in Seq(Fq)  BY <2>1
  <2> QED BY <2>1, <2>2, <2>3, CircuitsAssumption DEF Synthesised, TypeOK
<1>2. Synthesised /\ [Next]_vars => Synthesised'
  <2> SUFFICES ASSUME Synthesised, [Next]_vars PROVE Synthesised'  OBVIOUS
  <2>0. /\ constraints \in Seq(Constraint(Variables))
        /\ input_assignment \in Seq(Fq) /\ input_assignment # <<>>
        /\ aux_assignment \in Seq(Fq)
        /\ Len(input_assignment) <= MaxInputs + 1 /\ Len(aux_assignment) <= MaxAux
        /\ Len(input_assignment) \in 1 .. MaxInputs + 1
        /\ Len(aux_assignment) \in 0 .. MaxAux
    <3>1. Len(input_assignment) \in Nat /\ Len(input_assignment) # 0
      BY EmptySeq DEF Synthesised, TypeOK
    <3>2. Len(aux_assignment) \in Nat  BY DEF Synthesised, TypeOK
    <3> QED BY <3>1, <3>2, CircuitsAssumption DEF Synthesised, TypeOK, Constraint
  <2>1. ASSUME NEW v \in Values, Alloc(v) PROVE Synthesised'
    <3>1. v \in Fq  BY CircuitsAssumption
    <3>2. /\ aux_assignment' \in Seq(Fq) /\ Len(aux_assignment') = Len(aux_assignment) + 1
      BY <2>0, <2>1, <3>1, AppendProperties DEF Alloc
    <3>3. Variables \subseteq Variables'
      BY <2>0, <2>1, <3>2 DEF Alloc, Variables, VariablesOf
    <3>4. constraints' \in Seq(Constraint(Variables'))
      BY <2>0, <2>1, <3>3, ConstraintsGrow DEF Alloc
    <3>5. Len(aux_assignment') <= MaxAux
      BY <2>0, <2>1, <3>2, CircuitsAssumption DEF Alloc
    <3> QED BY <2>0, <2>1, <3>2, <3>4, <3>5 DEF Synthesised, TypeOK, Constraint, Alloc
  <2>2. ASSUME NEW v \in Values, AllocInput(v) PROVE Synthesised'
    <3>1. v \in Fq  BY CircuitsAssumption
    <3>2. /\ input_assignment' \in Seq(Fq)
          /\ Len(input_assignment') = Len(input_assignment) + 1
      BY <2>0, <2>2, <3>1, AppendProperties DEF AllocInput
    <3>3. Variables \subseteq Variables'
      BY <2>0, <2>2, <3>2 DEF AllocInput, Variables, VariablesOf
    <3>4. constraints' \in Seq(Constraint(Variables'))
      BY <2>0, <2>2, <3>3, ConstraintsGrow DEF AllocInput
    <3>5. Len(input_assignment') <= MaxInputs + 1 /\ input_assignment' # <<>>
      BY <2>0, <2>2, <3>2, EmptySeq, CircuitsAssumption DEF AllocInput
    <3> QED BY <2>0, <2>2, <3>2, <3>4, <3>5 DEF Synthesised, TypeOK, Constraint, AllocInput
  <2>3. ASSUME NEW a \in LCsA(Variables), NEW b \in LCsB(Variables), NEW c \in LCsC(Variables),
               Enforce(a, b, c)
        PROVE  Synthesised'
    <3>1. LCsA(Variables) \cup LCsB(Variables) \cup LCsC(Variables) \subseteq LCsOf(Variables)
      BY <2>0, CircuitsAssumption DEF Variables
    <3>2. [A |-> a, B |-> b, C |-> c] \in Constraint(Variables)  BY <3>1 DEF Constraint
    <3>3. constraints' \in Seq(Constraint(Variables))
      BY <2>0, <2>3, <3>2, AppendProperties DEF Enforce
    <3>4. Variables' = Variables  BY <2>3 DEF Enforce, Variables
    <3> QED BY <2>0, <2>3, <3>3, <3>4 DEF Synthesised, TypeOK, Constraint, Enforce
  <2>4. CASE UNCHANGED vars
    BY <2>4 DEF vars, Synthesised, TypeOK, Variables
  <2> QED BY <2>1, <2>2, <2>3, <2>4 DEF Next
<1> QED BY <1>1, <1>2, PTL DEF Spec

(* Every circuit synthesised, and its assignment, keeps its type.          *)
THEOREM ShapesTypes == Spec => []TypeOK
<1>1. Synthesised => TypeOK  BY DEF Synthesised
<1> QED BY <1>1, SynthesisedInvariant, PTL

----------------------------------------------------------------------------
(* Sparse matrices: sequences of <<row, column, value>>. *)

Entry(cols) == Nat \X (0 .. cols - 1) \X Fq

(* The value an entry adds to its row of the product with z. *)
TermOf(e, z) == e[3] * z[e[2] + 1]

InRow(M, z, row) == [k \in 1 .. Len(M) |-> IF M[k][1] = row THEN TermOf(M[k], z) ELSE 0]

RowSum(M, z, row) == SumTo(InRow(M, z, row), Len(M))

(* An entry within the columns of z adds an integer.                       *)
LEMMA TermInt ==
  ASSUME NEW cols \in Nat, NEW z, Ints(z, cols), NEW e \in Entry(cols)
  PROVE  /\ TermOf(e, z) \in Int
         /\ e[1] \in Nat /\ e[2] \in 0 .. cols - 1 /\ e[3] \in Fq
         /\ e = <<e[1], e[2], e[3]>>
<1>1. /\ e[1] \in Nat /\ e[2] \in 0 .. cols - 1 /\ e[3] \in Fq
      /\ e = <<e[1], e[2], e[3]>>
  BY DEF Entry
<1>2. e[3] \in Int /\ e[2] + 1 \in 1 .. cols  BY <1>1, ZeroAndOne
<1>3. z[e[2] + 1] \in Int  BY <1>2 DEF Ints
<1> QED BY <1>1, <1>2, <1>3 DEF TermOf

(* So all of a row's are integers.                                         *)
LEMMA InRowInts ==
  ASSUME NEW cols \in Nat, NEW z, Ints(z, cols), NEW M \in Seq(Entry(cols)), NEW row
  PROVE  /\ Len(M) \in Nat /\ \A k \in 1 .. Len(M) : InRow(M, z, row)[k] \in Int
         /\ RowSum(M, z, row) \in Int
<1>1. Len(M) \in Nat  BY LenProperties
<1>2. ASSUME NEW k \in 1 .. Len(M) PROVE InRow(M, z, row)[k] \in Int
  <2>1. M[k] \in Entry(cols)  BY ElementOfSeq
  <2>2. TermOf(M[k], z) \in Int  BY <2>1, TermInt
  <2> QED BY <2>2 DEF InRow
<1>3. RowSum(M, z, row) \in Int  BY <1>1, <1>2, SumToInt DEF RowSum
<1> QED BY <1>1, <1>2, <1>3

(* RowTimes reduces the sum of a row's terms.                              *)
LEMMA RowTimesIs ==
  ASSUME NEW cols \in Nat, NEW z, Ints(z, cols), NEW M \in Seq(Entry(cols)), NEW row
  PROVE  RowTimes(M, z, row) = RowSum(M, z, row) % q
<1> DEFINE f == InRow(M, z, row)
           K == 1 .. Len(M)
           iter == CHOOSE it : it = [S \in SUBSET DOMAIN M |->
                     IF S = {} THEN 0
                     ELSE (IF M[AnyOf(S)][1] = row
                           THEN M[AnyOf(S)][3] * z[M[AnyOf(S)][2] + 1] ELSE 0)
                          + it[S \ {AnyOf(S)}]]
<1>1. Len(M) \in Nat /\ \A k \in K : f[k] \in Int  BY InRowInts
<1>2. DOMAIN M = K  BY LenProperties
<1>3. IsFiniteSet(K)  BY <1>1, IntervalFinite
<1>4. \A k \in K : f[k] = IF M[k][1] = row THEN M[k][3] * z[M[k][2] + 1] ELSE 0
  BY DEF InRow, TermOf
<1>5. RowTimes(M, z, row) = iter[DOMAIN M] % q
  BY DEF RowTimes, MapThenSumSet, MapThenFoldSet, AnyOf
<1> HIDE DEF f
<1>6. PICK it : Sums(it, f, K)  BY <1>1, <1>3, SumExists
<1>7. \A S \in SUBSET K : S # {} =>
        f[AnyOf(S)] = IF M[AnyOf(S)][1] = row
                      THEN M[AnyOf(S)][3] * z[M[AnyOf(S)][2] + 1] ELSE 0
  BY <1>4 DEF AnyOf
<1>8. \A jt : Sums(jt, f, K) <=> jt = [S \in SUBSET DOMAIN M |->
                     IF S = {} THEN 0
                     ELSE (IF M[AnyOf(S)][1] = row
                           THEN M[AnyOf(S)][3] * z[M[AnyOf(S)][2] + 1] ELSE 0)
                          + jt[S \ {AnyOf(S)}]]
  <2>1. ASSUME NEW jt
        PROVE  [S \in SUBSET K |-> IF S = {} THEN 0 ELSE f[AnyOf(S)] + jt[S \ {AnyOf(S)}]]
                 = [S \in SUBSET DOMAIN M |->
                     IF S = {} THEN 0
                     ELSE (IF M[AnyOf(S)][1] = row
                           THEN M[AnyOf(S)][3] * z[M[AnyOf(S)][2] + 1] ELSE 0)
                          + jt[S \ {AnyOf(S)}]]
    BY <1>2, <1>7
  <2> QED BY <2>1 DEF Sums
<1>9. Sums(iter, f, K)  BY <1>6, <1>8
<1> HIDE DEF iter, K
<1>10. iter[K] = SumOver(f, K)  BY <1>1, <1>3, <1>9, SumByRecursion
<1>11. RowSum(M, z, row) = SumOver(f, K)  BY DEF RowSum, SumTo, f, K
<1> QED BY <1>2, <1>5, <1>10, <1>11

(* A row of two matrices, one after the other, is the sum of their rows.   *)
LEMMA RowSumJoin ==
  ASSUME NEW cols \in Nat, NEW z, Ints(z, cols), NEW row,
         NEW M \in Seq(Entry(cols)), NEW L \in Seq(Entry(cols))
  PROVE  /\ M \o L \in Seq(Entry(cols))
         /\ RowSum(M \o L, z, row) = RowSum(M, z, row) + RowSum(L, z, row)
<1> DEFINE m == Len(M)
           l == Len(L)
           J == M \o L
           f == InRow(J, z, row)
<1>1. /\ J \in Seq(Entry(cols)) /\ Len(J) = m + l
      /\ \A i \in 1 .. m + l : J[i] = IF i <= m THEN M[i] ELSE L[i - m]
  BY ConcatProperties
<1>2. m \in Nat /\ l \in Nat  BY LenProperties
<1>3. \A k \in 1 .. m + l : f[k] \in Int
  <2> HIDE DEF J
  <2>1. \A k \in 1 .. Len(J) : InRow(J, z, row)[k] \in Int  BY <1>1, InRowInts
  <2> QED BY <1>1, <2>1
<1>4. \A k \in 1 .. m : InRow(M, z, row)[k] \in Int /\ InRow(M, z, row)[k] = f[k]
  <2>1. \A k \in 1 .. m : InRow(M, z, row)[k] \in Int  BY InRowInts
  <2>2. \A k \in 1 .. m : k \in 1 .. m + l /\ J[k] = M[k]  BY <1>1, <1>2
  <2> HIDE DEF J
  <2> QED BY <1>1, <2>1, <2>2 DEF InRow
<1>5. \A k \in 1 .. l : InRow(L, z, row)[k] \in Int /\ InRow(L, z, row)[k] = f[m + k]
  <2>1. \A k \in 1 .. l : InRow(L, z, row)[k] \in Int  BY InRowInts
  <2>2. \A k \in 1 .. l : m + k \in 1 .. m + l /\ J[m + k] = L[k]
    <3>1. \A k \in 1 .. l : m + k \in 1 .. m + l /\ ~(m + k <= m) /\ (m + k) - m = k  BY <1>2
    <3> HIDE DEF J
    <3> QED BY <1>1, <3>1
  <2> HIDE DEF J
  <2> QED BY <1>1, <2>1, <2>2 DEF InRow
<1> DEFINE g == [i \in 1 .. l |-> f[m + i]]
<1>6. \A k \in 1 .. l : InRow(L, z, row)[k] = g[k]  BY <1>5
<1>7. RowSum(J, z, row) = SumTo(f, m + l)  BY <1>1 DEF RowSum
<1> HIDE DEF f, m, l, J
<1>8. SumTo(f, m + l) = SumTo(f, m) + SumTo(g, l)  BY SMTT(60), <1>2, <1>3, SumToSplit
<1> HIDE DEF g
<1>9. SumTo(InRow(M, z, row), m) = SumTo(f, m)  BY <1>2, <1>4, SumToSame
<1>10. SumTo(InRow(L, z, row), l) = SumTo(g, l)  BY <1>2, <1>5, <1>6, SumToSame
<1> QED BY <1>1, <1>7, <1>8, <1>9, <1>10 DEF RowSum, m, l, J

(* Terms that are all zero sum to zero.                                    *)
LEMMA SumOfZeros ==
  ASSUME NEW k \in Nat, NEW f, \A i \in 1 .. k : f[i] = 0
  PROVE  SumTo(f, k) = 0
<1> DEFINE T == {m \in Nat : m <= k => SumTo(f, m) = 0}
<1>1. 0 \in T  BY SumToZero
<1>2. ASSUME NEW m \in Nat, m \in T PROVE m + 1 \in T
  <2>1. CASE m + 1 <= k
    <3>1. \A i \in 1 .. m + 1 : f[i] \in Int  BY <2>1
    <3>2. SumTo(f, m + 1) = SumTo(f, m) + f[m + 1]  BY <3>1, SumToNext
    <3>3. SumTo(f, m) = 0 /\ f[m + 1] = 0  BY <1>2, <2>1
    <3> QED BY <3>2, <3>3
  <2> QED BY <2>1
<1> HIDE DEF T
<1>3. k \in T  BY <1>1, <1>2, Induction
<1> QED BY <1>3 DEF T

(* The whole of s, its entries being those of one row. *)
FullSum(s, z) == SumTo([k \in 1 .. Len(s) |-> TermOf(s[k], z)], Len(s))

(* Entries of one row sum up in that row, and are nothing in any other.    *)
LEMMA OneRow ==
  ASSUME NEW cols \in Nat, NEW z, Ints(z, cols), NEW s \in Seq(Entry(cols)), NEW r, NEW row,
         \A k \in 1 .. Len(s) : s[k][1] = r
  PROVE  RowSum(s, z, row) = IF row = r THEN FullSum(s, z) ELSE 0
<1>1. Len(s) \in Nat  BY LenProperties
<1>2. CASE row = r
  <2>1. InRow(s, z, row) = [k \in 1 .. Len(s) |-> TermOf(s[k], z)]  BY <1>2 DEF InRow
  <2> QED BY <1>2, <2>1 DEF RowSum, FullSum
<1>3. CASE row # r
  <2>1. \A k \in 1 .. Len(s) : InRow(s, z, row)[k] = 0  BY <1>3 DEF InRow
  <2> QED BY <1>1, <1>3, <2>1, SumOfZeros DEF RowSum
<1> QED BY <1>2, <1>3

(* ss holds, for each of k rows, its entries. *)
Rowwise(ss, k, cols) ==
  /\ IsList(ss, k)
  /\ \A n \in 1 .. k : ss[n] \in Seq(Entry(cols)) /\ \A j \in 1 .. Len(ss[n]) : ss[n][j][1] = n - 1

(* Rows joined up to k hold in each row below k its entries, above nothing. *)
Stacked(M, ss, z, k, cols) ==
  /\ M \in Seq(Entry(cols))
  /\ \A row \in Nat : RowSum(M, z, row) = IF row < k THEN FullSum(ss[row + 1], z) ELSE 0

(* Joining rows keeps each.                                                *)
LEMMA StackRows ==
  ASSUME NEW cols \in Nat, NEW z, Ints(z, cols), NEW k \in Nat, NEW ss, Rowwise(ss, k, cols)
  PROVE  Stacked(FlattenSeq(ss), ss, z, k, cols)
<1>1. CASE k = 0
  <2>1. Len(ss) = 0  BY <1>1, ListLength DEF Rowwise
  <2>2. FlattenSeq(ss) = ss  BY <2>1 DEF FlattenSeq
  <2>3. ss = <<>>  BY <1>1 DEF Rowwise, IsList
  <2>4. ss \in Seq(Entry(cols))  BY <2>3
  <2>5. ASSUME NEW row \in Nat PROVE RowSum(ss, z, row) = 0
    <3>1. Len(ss) = 0 BY <2>1
    <3> QED BY <3>1, SumToZero DEF RowSum
  <2> QED BY <1>1, <2>2, <2>4, <2>5 DEF Stacked
<1>2. CASE k # 0
  <2>1. PICK f : Flattens(f, ss, k) /\ FlattenSeq(ss) = f[k]
    BY <1>2, FlattenIs DEF Rowwise
  <2> DEFINE T == {m \in Nat : m + 1 <= k => Stacked(f[m + 1], ss, z, m + 1, cols)}
  <2>2. ASSUME NEW n \in 1 .. k, NEW row \in Nat
        PROVE  RowSum(ss[n], z, row) = IF row = n - 1 THEN FullSum(ss[n], z) ELSE 0
    <3>1. ss[n] \in Seq(Entry(cols)) /\ \A j \in 1 .. Len(ss[n]) : ss[n][j][1] = n - 1
      BY DEF Rowwise
    <3> DEFINE s == ss[n]
               r == n - 1
    <3>2. s \in Seq(Entry(cols)) /\ \A j \in 1 .. Len(s) : s[j][1] = r  BY <3>1
    <3> HIDE DEF s, r
    <3>3. RowSum(s, z, row) = IF row = r THEN FullSum(s, z) ELSE 0  BY ZenonT(60), <3>2, OneRow
    <3> QED BY <3>3 DEF s, r
  <2>3. \A n \in 1 .. k : f[n] = IF n = 1 THEN ss[n] ELSE f[n - 1] \o ss[n]
    BY <2>1 DEF Flattens
  <2>4. 0 \in T
    <3>1. 1 \in 1 .. k  BY <1>2
    <3>2. f[1] = ss[1] /\ f[1] \in Seq(Entry(cols))  BY <2>3, <3>1 DEF Rowwise
    <3>3. ASSUME NEW row \in Nat
          PROVE  RowSum(f[1], z, row) = IF row < 1 THEN FullSum(ss[row + 1], z) ELSE 0
      <4>1. RowSum(ss[1], z, row) = IF row = 1 - 1 THEN FullSum(ss[1], z) ELSE 0
        BY <2>2, <3>1
      <4>2. CASE row = 0
        <5>1. ss[row + 1] = ss[1]  BY <4>2
        <5> QED BY <3>2, <4>1, <4>2, <5>1
      <4>3. CASE row # 0
        <5>1. ~(row < 1) /\ row # 1 - 1  BY <4>3
        <5> QED BY <3>2, <4>1, <5>1
      <4> QED BY <4>2, <4>3
    <3>4. Stacked(f[1], ss, z, 1, cols)  BY <3>2, <3>3 DEF Stacked
    <3>5. f[0 + 1] = f[1]  OBVIOUS
    <3> QED BY <3>4, <3>5
  <2>5. ASSUME NEW m \in Nat, m \in T PROVE m + 1 \in T
    <3> SUFFICES ASSUME (m + 1) + 1 <= k
                 PROVE  Stacked(f[(m + 1) + 1], ss, z, (m + 1) + 1, cols)
      OBVIOUS
    <3> DEFINE n == (m + 1) + 1
    <3>1. n \in 1 .. k /\ n # 1 /\ n - 1 = m + 1 /\ m + 1 <= k  OBVIOUS
    <3>2. f[n] = f[n - 1] \o ss[n]  BY <2>3, <3>1
    <3>3. Stacked(f[n - 1], ss, z, n - 1, cols)  BY <2>5, <3>1
    <3> HIDE DEF n
    <3>4. ss[n] \in Seq(Entry(cols))  BY <3>1 DEF Rowwise
    <3>5. f[n - 1] \in Seq(Entry(cols))  BY <3>3 DEF Stacked
    <3> DEFINE g == f[n - 1]
               s == ss[n]
    <3>6. ASSUME NEW row \in Nat
          PROVE  /\ g \o s \in Seq(Entry(cols))
                 /\ RowSum(g \o s, z, row) = IF row < n THEN FullSum(ss[row + 1], z) ELSE 0
      <4>1. RowSum(g, z, row) = IF row < n - 1 THEN FullSum(ss[row + 1], z) ELSE 0
        BY <3>3 DEF Stacked
      <4>2. RowSum(s, z, row) = IF row = n - 1 THEN FullSum(s, z) ELSE 0  BY <2>2, <3>1
      <4>3. g \in Seq(Entry(cols)) /\ s \in Seq(Entry(cols))  BY <3>4, <3>5
      <4> HIDE DEF g, s
      <4>4. /\ g \o s \in Seq(Entry(cols))
            /\ RowSum(g \o s, z, row) = RowSum(g, z, row) + RowSum(s, z, row)
        BY <4>3, RowSumJoin
      <4>5. RowSum(g, z, row) \in Int /\ RowSum(s, z, row) \in Int  BY <4>3, InRowInts
      <4>6. CASE row = n - 1
        <5>1. row + 1 = n /\ row < n /\ ~(row < n - 1)  BY <3>1, <4>6
        <5>2. RowSum(g, z, row) = 0 /\ RowSum(s, z, row) = FullSum(ss[row + 1], z)
          BY <4>1, <4>2, <4>6, <5>1 DEF s
        <5> QED BY <4>4, <4>5, <5>1, <5>2
      <4>7. CASE row # n - 1
        <5>1. (row < n) <=> (row < n - 1)  BY <3>1, <4>7
        <5>2. RowSum(s, z, row) = 0  BY <4>2, <4>7
        <5>3. RowSum(g \o s, z, row) = RowSum(g, z, row)  BY <4>4, <4>5, <5>2
        <5> QED BY <4>1, <4>4, <5>1, <5>3
      <4> QED BY <4>6, <4>7
    <3>7. Stacked(g \o s, ss, z, n, cols)
      <4>1. 0 \in Nat  OBVIOUS
      <4>2. g \o s \in Seq(Entry(cols))  BY <3>6, <4>1
      <4> HIDE DEF g, s
      <4> QED BY <3>6, <4>2 DEF Stacked
    <3> QED BY <3>2, <3>7 DEF n
  <2> HIDE DEF T
  <2>6. \A m \in Nat : m \in T  BY <2>4, <2>5, Induction
  <2>7. k - 1 \in Nat /\ (k - 1) + 1 = k /\ k <= k  BY <1>2
  <2>8. Stacked(f[k], ss, z, k, cols)  BY <2>6, <2>7 DEF T
  <2> QED BY <2>1, <2>8
<1> QED BY <1>1, <1>2

----------------------------------------------------------------------------
(* What the unpadded matrices compute: the circuit's linear combinations. *)

Sides == {"A", "B", "C"}

(* z, with the witness w padded to n. *)
Assigned(w, n) == PadTo(w, n) \o input_assignment

(* M is the matrix of one side of the circuit's constraints, on z of c columns. *)
Represents(M, side, z, c) ==
  /\ M \in Seq(Entry(c))
  /\ \A row \in Nat :
       RowTimes(M, z, row) = IF row < Len(constraints)
                             THEN ValueOfLC(constraints[row + 1][side]) ELSE 0

(* The padded witness, then the inputs, column by column.                  *)
LEMMA AssignedAt ==
  ASSUME TypeOK, NEW n \in Nat, Len(aux_assignment) <= n
  PROVE  LET w == Len(aux_assignment)
             i == Len(input_assignment)
             z == Assigned(aux_assignment, n)
         IN  /\ w \in Nat /\ i \in Nat \ {0}
             /\ Ints(z, n + i)
             /\ \A c \in 0 .. n - 1 :
                  z[c + 1] = IF c < w THEN aux_assignment[c + 1] ELSE 0
             /\ \A c \in 0 .. i - 1 : z[n + c + 1] = input_assignment[c + 1]
<1> DEFINE w == Len(aux_assignment)
           i == Len(input_assignment)
           zeros == [k \in 1 .. n - w |-> 0]
           padded == PadTo(aux_assignment, n)
           z == Assigned(aux_assignment, n)
<1>1. aux_assignment \in Seq(Fq) /\ input_assignment \in Seq(Fq) /\ input_assignment # <<>>
  BY DEF TypeOK
<1>2. w \in Nat /\ i \in Nat /\ i # 0  BY <1>1, LenProperties, EmptySeq
<1>3. zeros \in Seq(Fq) /\ Len(zeros) = n - w
  <2>1. n - w \in Nat  BY <1>2
  <2>2. IsList(zeros, n - w)  BY DEF IsList
  <2>3. zeros \in [1 .. n - w -> Fq]  BY ZeroAndOne
  <2> HIDE DEF zeros
  <2> QED BY <2>1, <2>2, <2>3, ListLength
<1>4. /\ padded \in Seq(Fq) /\ Len(padded) = n
      /\ \A k \in 1 .. n : padded[k] = IF k <= w THEN aux_assignment[k] ELSE 0
  <2>1. padded = aux_assignment \o zeros  BY DEF PadTo
  <2>2. w + (n - w) = n  BY <1>2
  <2>3. \A k \in 1 .. n : k <= w \/ zeros[k - w] = 0  BY <1>2
  <2> HIDE DEF zeros, padded
  <2>4. /\ aux_assignment \o zeros \in Seq(Fq)
        /\ Len(aux_assignment \o zeros) = w + (n - w)
        /\ \A k \in 1 .. w + (n - w) :
             (aux_assignment \o zeros)[k] = IF k <= w THEN aux_assignment[k] ELSE zeros[k - w]
    BY <1>1, <1>3, ConcatProperties
  <2> QED BY <2>1, <2>2, <2>3, <2>4
<1> HIDE DEF padded
<1>5. /\ z \in Seq(Fq) /\ Len(z) = n + i
      /\ \A k \in 1 .. n + i : z[k] = IF k <= n THEN padded[k] ELSE input_assignment[k - n]
  <2>1. z = padded \o input_assignment  BY DEF Assigned, padded
  <2> HIDE DEF z
  <2>2. LET j == padded \o input_assignment
        IN  /\ j \in Seq(Fq) /\ Len(j) = Len(padded) + Len(input_assignment)
            /\ \A k \in 1 .. Len(padded) + Len(input_assignment) :
                 j[k] = IF k <= Len(padded) THEN padded[k] ELSE input_assignment[k - Len(padded)]
    BY <1>1, <1>4, ConcatProperties
  <2> QED BY <1>4, <2>1, <2>2
<1> HIDE DEF z
<1>6. Ints(z, n + i)
  <2>1. \A k \in 1 .. n + i : z[k] \in Fq  BY <1>5, ElementOfSeq
  <2> QED BY <2>1, ZeroAndOne DEF Ints
<1>7. \A c \in 0 .. n - 1 : z[c + 1] = IF c < w THEN aux_assignment[c + 1] ELSE 0
  <2>1. \A c \in 0 .. n - 1 : c + 1 \in 1 .. n + i /\ c + 1 \in 1 .. n /\ c + 1 <= n
                              /\ (c < w <=> c + 1 <= w)
    BY <1>2
  <2> HIDE DEF w, i
  <2> QED BY <1>4, <1>5, <2>1
<1>8. \A c \in 0 .. i - 1 : z[n + c + 1] = input_assignment[c + 1]
  <2>1. \A c \in 0 .. i - 1 : n + c + 1 \in 1 .. n + i /\ ~(n + c + 1 <= n) /\ (n + c + 1) - n = c + 1
    BY <1>2
  <2> HIDE DEF w, i
  <2> QED BY <1>5, <2>1
<1> QED BY <1>2, <1>6, <1>7, <1>8 DEF z

(* The column of a variable holds its value.                               *)
LEMMA VariableValue ==
  ASSUME TypeOK, NEW x \in Variables
  PROVE  LET w == Len(aux_assignment)
             z == Assigned(aux_assignment, w)
         IN  /\ Column(x, w) \in 0 .. (w + Len(input_assignment)) - 1
             /\ ValueOf(x) = z[Column(x, w) + 1] /\ ValueOf(x) \in Int
<1> DEFINE w == Len(aux_assignment)
           i == Len(input_assignment)
           z == Assigned(aux_assignment, w)
<1>1. /\ w \in Nat /\ i \in Nat \ {0} /\ Ints(z, w + i)
      /\ \A c \in 0 .. w - 1 : z[c + 1] = IF c < w THEN aux_assignment[c + 1] ELSE 0
      /\ \A c \in 0 .. i - 1 : z[w + c + 1] = input_assignment[c + 1]
  <2>1. w \in Nat /\ w <= w  BY LenProperties DEF TypeOK
  <2> QED BY <2>1, AssignedAt
<1> HIDE DEF w, i, z
<1>2. CASE x \in [kind : {"input"}, idx : 0 .. i - 1]
  <2>1. x.kind = "input" /\ x.idx \in 0 .. i - 1 /\ x.kind # "aux"  BY <1>2
  <2>2. Column(x, w) = x.idx + w /\ ValueOf(x) = input_assignment[x.idx + 1]
    BY <2>1 DEF Column, ValueOf
  <2>3. x.idx + w \in 0 .. (w + i) - 1 /\ (x.idx + w) + 1 = w + x.idx + 1
        /\ (x.idx + w) + 1 \in 1 .. w + i
    BY <1>1, <2>1
  <2>4. ValueOf(x) = z[Column(x, w) + 1]  BY <1>1, <2>1, <2>2, <2>3
  <2>5. z[Column(x, w) + 1] \in Int  BY <1>1, <2>2, <2>3 DEF Ints
  <2> QED BY <2>2, <2>3, <2>4, <2>5 DEF w, i, z
<1>3. CASE x \in [kind : {"aux"}, idx : 0 .. w - 1]
  <2>1. x.kind = "aux" /\ x.idx \in 0 .. w - 1  BY <1>3
  <2>2. Column(x, w) = x.idx /\ ValueOf(x) = aux_assignment[x.idx + 1]
    BY <2>1 DEF Column, ValueOf
  <2>3. x.idx \in 0 .. (w + i) - 1 /\ x.idx + 1 \in 1 .. w + i /\ x.idx < w
    BY <1>1, <2>1
  <2>4. ValueOf(x) = z[Column(x, w) + 1]  BY <1>1, <2>1, <2>2, <2>3
  <2>5. z[Column(x, w) + 1] \in Int  BY <1>1, <2>2, <2>3 DEF Ints
  <2> QED BY <2>2, <2>3, <2>4, <2>5 DEF w, i, z
<1> QED BY <1>2, <1>3 DEF Variables, VariablesOf, w, i

(* A linear combination's value is a sum over its terms.                   *)
LEMMA ValueOfLCIs ==
  ASSUME TypeOK, NEW lc \in LCsOf(Variables)
  PROVE  LET f == [k \in 1 .. Len(lc) |-> lc[k].coeff * ValueOf(lc[k].var)]
         IN  /\ \A k \in 1 .. Len(lc) : f[k] \in Int
             /\ ValueOfLC(lc) = SumTo(f, Len(lc)) % q
<1> DEFINE f == [k \in 1 .. Len(lc) |-> lc[k].coeff * ValueOf(lc[k].var)]
           K == 1 .. Len(lc)
           iter == CHOOSE it : it = [S \in SUBSET DOMAIN lc |->
                     IF S = {} THEN 0
                     ELSE lc[AnyOf(S)].coeff * ValueOf(lc[AnyOf(S)].var) + it[S \ {AnyOf(S)}]]
<1>1. Len(lc) \in Nat /\ DOMAIN lc = K  BY LenProperties DEF LCsOf
<1>2. ASSUME NEW k \in K PROVE f[k] \in Int
  <2>1. lc[k] \in [var : Variables, coeff : Fq]  BY ElementOfSeq DEF LCsOf
  <2>2. lc[k].var \in Variables /\ lc[k].coeff \in Int  BY <2>1, ZeroAndOne
  <2>3. ValueOf(lc[k].var) \in Int  BY <2>2, VariableValue
  <2> QED BY <2>2, <2>3
<1>3. IsFiniteSet(K)  BY <1>1, IntervalFinite
<1>4. \A k \in K : f[k] = lc[k].coeff * ValueOf(lc[k].var)  OBVIOUS
<1>5. ValueOfLC(lc) = iter[DOMAIN lc] % q
  BY DEF ValueOfLC, MapThenSumSet, MapThenFoldSet, AnyOf
<1> HIDE DEF f
<1>6. PICK it : Sums(it, f, K)  BY <1>2, <1>3, SumExists
<1>7. \A S \in SUBSET K : S # {} =>
        f[AnyOf(S)] = lc[AnyOf(S)].coeff * ValueOf(lc[AnyOf(S)].var)
  BY <1>4 DEF AnyOf
<1>8. \A jt : Sums(jt, f, K) <=> jt = [S \in SUBSET DOMAIN lc |->
                     IF S = {} THEN 0
                     ELSE lc[AnyOf(S)].coeff * ValueOf(lc[AnyOf(S)].var) + jt[S \ {AnyOf(S)}]]
  <2>1. ASSUME NEW jt
        PROVE  [S \in SUBSET K |-> IF S = {} THEN 0 ELSE f[AnyOf(S)] + jt[S \ {AnyOf(S)}]]
                 = [S \in SUBSET DOMAIN lc |->
                     IF S = {} THEN 0
                     ELSE lc[AnyOf(S)].coeff * ValueOf(lc[AnyOf(S)].var) + jt[S \ {AnyOf(S)}]]
    BY <1>1, <1>7
  <2> QED BY <2>1 DEF Sums
<1>9. Sums(iter, f, K)  BY <1>6, <1>8
<1> HIDE DEF iter
<1>10. iter[K] = SumOver(f, K)  BY <1>2, <1>3, <1>9, SumByRecursion
<1>11. SumTo(f, Len(lc)) = SumOver(f, K)  BY DEF SumTo
<1> QED BY <1>1, <1>2, <1>5, <1>10, <1>11 DEF f

(* Each row of the unpadded matrix is a constraint's combination.          *)
LEMMA EntriesRepresent ==
  ASSUME TypeOK, NEW side \in Sides
  PROVE  LET w == Len(aux_assignment)
         IN  Represents(Entries(side, w), side, Assigned(aux_assignment, w),
                        w + Len(input_assignment))
<1> DEFINE w == Len(aux_assignment)
           cols == w + Len(input_assignment)
           z == Assigned(aux_assignment, w)
           k == Len(constraints)
           row(n) == [j \in 1 .. Len(constraints[n][side]) |->
                        LET term == constraints[n][side][j]
                        IN  <<n - 1, Column(term.var, w), term.coeff>>]
           ss == [n \in 1 .. k |-> row(n)]
<1>1. cols \in Nat /\ Ints(z, cols)
  <2>1. w \in Nat /\ w <= w  BY LenProperties DEF TypeOK
  <2> QED BY <2>1, AssignedAt
<1>2. k \in Nat  BY LenProperties DEF TypeOK
<1>3. ASSUME NEW n \in 1 .. k PROVE constraints[n][side] \in LCsOf(Variables)
  <2>1. constraints \in Seq(Constraint(Variables))  BY DEF TypeOK, Constraint
  <2>2. constraints[n] \in Constraint(Variables)  BY <2>1, ElementOfSeq
  <2> QED BY <2>2 DEF Constraint, Sides
<1>4. ASSUME NEW n \in 1 .. k
      PROVE  LET lc == constraints[n][side]
             IN  /\ Len(lc) \in Nat
                 /\ row(n) \in Seq(Entry(cols)) /\ Len(row(n)) = Len(lc)
                 /\ \A j \in 1 .. Len(lc) :
                      /\ row(n)[j][1] = n - 1
                      /\ TermOf(row(n)[j], z) = lc[j].coeff * ValueOf(lc[j].var)
  <2> DEFINE lc == constraints[n][side]
             r == row(n)
  <2>1. lc \in LCsOf(Variables)  BY <1>3
  <2>2. r = [j \in 1 .. Len(lc) |-> <<n - 1, Column(lc[j].var, w), lc[j].coeff>>]  OBVIOUS
  <2> HIDE DEF lc, r, row, w, cols, z, k
  <2>3. Len(lc) \in Nat  BY <2>1, LenProperties DEF LCsOf
  <2>4. ASSUME NEW j \in 1 .. Len(lc)
        PROVE  /\ r[j] \in Entry(cols) /\ r[j][1] = n - 1
               /\ TermOf(r[j], z) = lc[j].coeff * ValueOf(lc[j].var)
    <3>1. lc[j] \in [var : Variables, coeff : Fq]  BY <2>1, ElementOfSeq DEF LCsOf
    <3> DEFINE x == lc[j].var
    <3>2. x \in Variables /\ lc[j].coeff \in Fq  BY <3>1
    <3> HIDE DEF x
    <3>3. Column(x, w) \in 0 .. cols - 1 /\ ValueOf(x) = z[Column(x, w) + 1]
      BY <3>2, VariableValue DEF w, cols, z
    <3>4. r[j] = <<n - 1, Column(x, w), lc[j].coeff>>  BY <2>2 DEF x
    <3>5. n - 1 \in Nat  BY <1>2 DEF k
    <3> QED BY <3>2, <3>3, <3>4, <3>5 DEF Entry, TermOf, x
  <2>5. r \in [1 .. Len(lc) -> Entry(cols)]  BY <2>2, <2>4
  <2>6. IsList(r, Len(lc))  BY <2>2 DEF IsList
  <2>7. Len(r) = Len(lc)  BY <2>3, <2>6, ListLength
  <2>8. r \in Seq(Entry(cols))  BY <2>3, <2>5
  <2> QED BY <2>3, <2>4, <2>7, <2>8 DEF r, lc
<1>5. \A n \in 1 .. k : ss[n] = row(n)  OBVIOUS
<1>6. Rowwise(ss, k, cols)
  <2>1. IsList(ss, k)  BY DEF IsList
  <2> HIDE DEF ss, row
  <2> QED BY <1>4, <1>5, <2>1 DEF Rowwise
<1>7. Entries(side, w) = FlattenSeq(ss)  BY DEF Entries
<1> HIDE DEF ss, row
<1> DEFINE M == FlattenSeq(ss)
<1>8. Stacked(M, ss, z, k, cols)
  <2> HIDE DEF cols, z, k
  <2> QED BY <1>1, <1>2, <1>6, StackRows
<1> HIDE DEF M
<1>9. M \in Seq(Entry(cols))  BY <1>8 DEF Stacked
<1>10. ASSUME NEW r \in Nat
       PROVE  RowTimes(M, z, r) = IF r < k THEN ValueOfLC(constraints[r + 1][side]) ELSE 0
  <2>1. RowTimes(M, z, r) = RowSum(M, z, r) % q
    <3> HIDE DEF cols, z
    <3> QED BY <1>1, <1>9, RowTimesIs
  <2>2. RowSum(M, z, r) = IF r < k THEN FullSum(ss[r + 1], z) ELSE 0  BY <1>8 DEF Stacked
  <2>3. CASE ~(r < k)
    <3>1. RowSum(M, z, r) = 0  BY <2>2, <2>3
    <3>2. 0 % q = 0  BY ZeroAndOne
    <3> QED BY <2>1, <2>3, <3>1, <3>2
  <2>4. CASE r < k
    <3> DEFINE n == r + 1
               lc == constraints[n][side]
               s == row(n)
               f == [j \in 1 .. Len(lc) |-> lc[j].coeff * ValueOf(lc[j].var)]
    <3>1. n \in 1 .. k  BY <1>2, <2>4
    <3>2. /\ Len(lc) \in Nat /\ Len(s) = Len(lc)
          /\ \A j \in 1 .. Len(lc) : TermOf(s[j], z) = lc[j].coeff * ValueOf(lc[j].var)
      BY <1>4, <3>1
    <3>3. lc \in LCsOf(Variables)  BY <1>3, <3>1
    <3>4. ss[n] = s  BY <1>5, <3>1
    <3> HIDE DEF n, lc, s, z
    <3>5. [j \in 1 .. Len(s) |-> TermOf(s[j], z)] = f  BY <3>2
    <3>6. FullSum(s, z) = SumTo(f, Len(lc))  BY <3>2, <3>5 DEF FullSum
    <3>7. ValueOfLC(lc) = SumTo(f, Len(lc)) % q  BY <3>3, ValueOfLCIs
    <3>8. RowSum(M, z, r) = FullSum(s, z)  BY <2>2, <2>4, <3>4 DEF n
    <3> QED BY <2>1, <2>4, <3>6, <3>7, <3>8 DEF n, lc
  <2> QED BY <2>3, <2>4
<1> QED BY <1>7, <1>9, <1>10 DEF Represents, M

(* Moving the columns after the witness keeps what the matrix computes:    *)
(* column n, of the constant one, moves with the inputs.                   *)
LEMMA ShiftRepresents ==
  ASSUME TypeOK, NEW side \in Sides, NEW n \in Nat, Len(aux_assignment) <= n, NEW by \in Nat,
         NEW M,
         Represents(M, side, Assigned(aux_assignment, n), n + Len(input_assignment))
  PROVE  Represents(Shift(M, n, by), side, Assigned(aux_assignment, n + by),
                    (n + by) + Len(input_assignment))
<1> DEFINE i == Len(input_assignment)
           w == Len(aux_assignment)
           z == Assigned(aux_assignment, n)
           y == Assigned(aux_assignment, n + by)
           c == n + i
           d == (n + by) + i
           L == Shift(M, n, by)
<1>1. /\ w \in Nat /\ i \in Nat \ {0} /\ Ints(z, c)
      /\ \A col \in 0 .. n - 1 : z[col + 1] = IF col < w THEN aux_assignment[col + 1] ELSE 0
      /\ \A col \in 0 .. i - 1 : z[n + col + 1] = input_assignment[col + 1]
  BY AssignedAt
<1>2. /\ Ints(y, d)
      /\ \A col \in 0 .. (n + by) - 1 :
           y[col + 1] = IF col < w THEN aux_assignment[col + 1] ELSE 0
      /\ \A col \in 0 .. i - 1 : y[(n + by) + col + 1] = input_assignment[col + 1]
  <2>1. n + by \in Nat /\ w <= n + by  BY <1>1
  <2> QED BY <2>1, AssignedAt
<1>3. c \in Nat /\ d \in Nat  BY <1>1
<1>4. M \in Seq(Entry(c)) /\ Len(M) \in Nat /\ DOMAIN M = 1 .. Len(M)
  BY LenProperties DEF Represents
<1>5. \A row \in Nat : RowTimes(M, z, row) = IF row < Len(constraints)
                             THEN ValueOfLC(constraints[row + 1][side]) ELSE 0
  BY DEF Represents
<1>6. L = [k \in 1 .. Len(M) |->
             IF M[k][2] >= n THEN <<M[k][1], M[k][2] + by, M[k][3]>> ELSE M[k]]
  BY <1>4 DEF Shift
<1> HIDE DEF w, i, z, y, c, d, L
<1>7. ASSUME NEW k \in 1 .. Len(M)
      PROVE  /\ L[k] \in Entry(d) /\ L[k][1] = M[k][1]
             /\ TermOf(L[k], y) = TermOf(M[k], z)
  <2> DEFINE e == M[k]
             col == e[2]
  <2>1. e \in Entry(c)  BY <1>4, ElementOfSeq
  <2>2. e[1] \in Nat /\ col \in 0 .. c - 1 /\ e[3] \in Fq /\ e = <<e[1], col, e[3]>>
    BY <1>1, <1>3, <2>1, TermInt
  <2>3. L[k] = IF col >= n THEN <<e[1], col + by, e[3]>> ELSE e  BY <1>6
  <2> HIDE DEF e, col
  <2>4. CASE col >= n
    <3>1. col - n \in 0 .. i - 1 /\ n + (col - n) + 1 = col + 1
          /\ (n + by) + (col - n) + 1 = (col + by) + 1 /\ col + by \in 0 .. d - 1
      <4>1. i \in Nat /\ col \in Nat /\ col <= (n + i) - 1 /\ n <= col
        BY <1>1, <2>2, <2>4 DEF c
      <4>2. col + by <= ((n + by) + i) - 1  BY <4>1
      <4> QED BY <4>1, <4>2 DEF d
    <3>2. z[col + 1] = input_assignment[(col - n) + 1]  BY SMTT(60), <1>1, <3>1
    <3>3. y[(col + by) + 1] = input_assignment[(col - n) + 1]  BY SMTT(60), <1>2, <3>1
    <3>4. L[k] = <<e[1], col + by, e[3]>>  BY <2>3, <2>4
    <3> QED BY <2>2, <3>1, <3>2, <3>3, <3>4 DEF Entry, TermOf, e, col
  <2>5. CASE ~(col >= n)
    <3>1. col \in 0 .. n - 1 /\ col \in 0 .. (n + by) - 1 /\ col \in 0 .. d - 1
      BY SMTT(60), <1>1, <2>2, <2>5 DEF c, d
    <3>2. z[col + 1] = y[col + 1]  BY <1>1, <1>2, <3>1
    <3>3. L[k] = e  BY <2>3, <2>5
    <3>4. e \in Entry(d)  BY <2>2, <3>1 DEF Entry
    <3> QED BY <3>2, <3>3, <3>4 DEF TermOf, e, col
  <2> QED BY <2>4, <2>5
<1>8. L \in Seq(Entry(d)) /\ Len(L) = Len(M)
  <2>1. IsList(L, Len(M))  BY <1>6 DEF IsList
  <2>2. L \in [1 .. Len(M) -> Entry(d)]  BY <1>6, <1>7
  <2> QED BY <1>4, <2>1, <2>2, ListLength
<1>9. ASSUME NEW row \in Nat PROVE RowTimes(L, y, row) = RowTimes(M, z, row)
  <2>1. InRow(L, y, row) = InRow(M, z, row)  BY <1>7, <1>8 DEF InRow
  <2>2. RowSum(L, y, row) = RowSum(M, z, row)  BY <1>8, <2>1 DEF RowSum
  <2>3. RowTimes(L, y, row) = RowSum(L, y, row) % q  BY <1>2, <1>3, <1>8, RowTimesIs
  <2>4. RowTimes(M, z, row) = RowSum(M, z, row) % q  BY <1>1, <1>3, <1>4, RowTimesIs
  <2> QED BY <2>2, <2>3, <2>4
<1> QED BY <1>5, <1>8, <1>9 DEF Represents, y, d, L, i

(* Entries of value zero add nothing, in whatever rows.                    *)
LEMMA DummiesRepresent ==
  ASSUME NEW side, NEW z, NEW c \in Nat, Ints(z, c), NEW M, Represents(M, side, z, c),
         NEW col \in 0 .. c - 1, NEW d \in Int, NEW b \in Nat
  PROVE  Represents(M \o [k \in 1 .. d |-> <<b + k - 1, col, 0>>], side, z, c)
<1> DEFINE D == [k \in 1 .. d |-> <<b + k - 1, col, 0>>]
           l == IF d < 0 THEN 0 ELSE d
<1>1. M \in Seq(Entry(c)) /\ Len(M) \in Nat  BY LenProperties DEF Represents
<1>2. l \in Nat /\ 1 .. d = 1 .. l  OBVIOUS
<1>3. ASSUME NEW k \in 1 .. l
      PROVE  D[k] = <<b + k - 1, col, 0>> /\ D[k] \in Entry(c)
  <2>1. D[k] = <<b + k - 1, col, 0>>  BY <1>2
  <2>2. b + k - 1 \in Nat  OBVIOUS
  <2> QED BY <2>1, <2>2, ZeroAndOne DEF Entry
<1>4. D \in Seq(Entry(c)) /\ Len(D) = l
  <2>1. D = [k \in 1 .. l |-> D[k]]  BY <1>2
  <2> HIDE DEF D, l
  <2>2. D \in [1 .. l -> Entry(c)]  BY <1>3, <2>1
  <2>3. IsList(D, l)  BY <2>1 DEF IsList
  <2> QED BY <1>2, <2>2, <2>3, ListLength
<1> HIDE DEF D, l
<1>5. ASSUME NEW row \in Nat
      PROVE  /\ M \o D \in Seq(Entry(c))
             /\ RowTimes(M \o D, z, row) = RowTimes(M, z, row)
  <2>1. \A k \in 1 .. l : InRow(D, z, row)[k] = 0
    <3>1. ASSUME NEW k \in 1 .. l PROVE TermOf(D[k], z) = 0
      <4>1. D[k][3] = 0 /\ D[k][2] = col  BY <1>3
      <4>2. z[col + 1] \in Int  BY DEF Ints
      <4> QED BY <4>1, <4>2 DEF TermOf
    <3> QED BY <1>4, <3>1 DEF InRow
  <2>2. RowSum(D, z, row) = 0  BY <1>2, <1>4, <2>1, SumOfZeros DEF RowSum
  <2>3. M \o D \in Seq(Entry(c)) /\ RowSum(M \o D, z, row) = RowSum(M, z, row) + RowSum(D, z, row)
    BY <1>1, <1>4, RowSumJoin
  <2>4. RowSum(M, z, row) \in Int  BY <1>1, InRowInts
  <2>5. RowSum(M \o D, z, row) = RowSum(M, z, row)  BY <2>2, <2>3, <2>4
  <2>6. RowTimes(M \o D, z, row) = RowSum(M \o D, z, row) % q  BY ZenonT(60), <2>3, RowTimesIs
  <2>7. RowTimes(M, z, row) = RowSum(M, z, row) % q  BY <1>1, RowTimesIs
  <2> QED BY <2>3, <2>5, <2>6, <2>7
<1>6. M \o D \in Seq(Entry(c))
  <2>1. 0 \in Nat  OBVIOUS
  <2> QED BY <1>5, <2>1
<1> QED BY <1>5, <1>6 DEF Represents, D

(* Matrices of the circuit's sides, over enough rows, hold as it does.     *)
LEMMA RowsHoldAsCircuit ==
  ASSUME TypeOK, NEW M, NEW z, NEW c, \A side \in Sides : Represents(M[side], side, z, c),
         NEW rows \in Nat, Len(constraints) <= rows
  PROVE  RowsHold(M, z, rows) <=> CircuitHolds
<1> DEFINE k == Len(constraints)
           Value(row, side) == IF row < k THEN ValueOfLC(constraints[row + 1][side]) ELSE 0
           Holds(row) == (Value(row, "A") * Value(row, "B")) % q = Value(row, "C")
<1>1. k \in Nat  BY LenProperties DEF TypeOK
<1>2. ASSUME NEW row \in 0 .. rows - 1, NEW side \in Sides
      PROVE  RowTimes(M[side], z, row) = Value(row, side)
  <2>1. row \in Nat  OBVIOUS
  <2> QED BY <2>1 DEF Represents
<1>3. "A" \in Sides /\ "B" \in Sides /\ "C" \in Sides  BY DEF Sides
<1> HIDE DEF Value
<1>4. RowsHold(M, z, rows) <=> \A row \in 0 .. rows - 1 : Holds(row)
  BY <1>2, <1>3 DEF RowsHold
<1>5. ASSUME NEW row \in 0 .. rows - 1, ~(row < k) PROVE Holds(row)
  <2>1. Value(row, "A") = 0 /\ Value(row, "B") = 0 /\ Value(row, "C") = 0  BY <1>5 DEF Value
  <2>2. (0 * 0) % q = 0  BY ZeroAndOne
  <2> QED BY <2>1, <2>2
<1>6. ASSUME NEW n \in 1 .. k
      PROVE  Holds(n - 1) <=> (ValueOfLC(constraints[n].A) * ValueOfLC(constraints[n].B)) % q
                                = ValueOfLC(constraints[n].C)
  <2>1. n - 1 < k /\ (n - 1) + 1 = n  BY <1>1
  <2>2. \A side : Value(n - 1, side) = ValueOfLC(constraints[n][side])  BY <2>1 DEF Value
  <2> QED BY <2>2
<1>7. \A n \in 1 .. k : n - 1 \in 0 .. rows - 1 /\ n - 1 < k  BY <1>1
<1>8. \A row \in 0 .. rows - 1 : row < k => row + 1 \in 1 .. k /\ (row + 1) - 1 = row  BY <1>1
<1> HIDE DEF Holds, k
<1>9. (\A row \in 0 .. rows - 1 : Holds(row)) <=> \A n \in 1 .. k : Holds(n - 1)
  <2>1. ASSUME \A n \in 1 .. k : Holds(n - 1), NEW row \in 0 .. rows - 1 PROVE Holds(row)
    <3>1. CASE row < k
      <4>1. row + 1 \in 1 .. k /\ (row + 1) - 1 = row  BY <1>8, <3>1
      <4>2. Holds((row + 1) - 1)  BY <2>1, <4>1
      <4> QED BY <4>1, <4>2
    <3> QED BY <1>5, <3>1
  <2> QED BY <1>7, <2>1
<1> QED BY <1>4, <1>6, <1>9 DEF CircuitHolds, k

----------------------------------------------------------------------------
(* Shapes, padded or not. *)

(* s is a shape of the circuit, its variables padded to s.num_vars. *)
IsShape(s) ==
  /\ s.num_cons \in Nat /\ Len(constraints) <= s.num_cons
  /\ s.num_vars \in Nat /\ Len(aux_assignment) <= s.num_vars
  /\ s.num_io = Len(input_assignment) - 1
  /\ \A side \in Sides :
       Represents(s.M[side], side, Assigned(aux_assignment, s.num_vars),
                  s.num_vars + Len(input_assignment))

(* The unpadded shape is one.                                              *)
LEMMA UnpaddedShape == TypeOK => IsShape(Unpadded)
<1> SUFFICES ASSUME TypeOK PROVE IsShape(Unpadded)  OBVIOUS
<1>1. Len(constraints) \in Nat /\ Len(aux_assignment) \in Nat  BY LenProperties DEF TypeOK
<1>2. \A side \in Sides : Unpadded.M[side] = Entries(side, Len(aux_assignment))
  BY DEF Unpadded, Sides
<1>3. /\ Unpadded.num_cons = Len(constraints) /\ Unpadded.num_vars = Len(aux_assignment)
      /\ Unpadded.num_io = Len(input_assignment) - 1
  BY DEF Unpadded
<1>4. \A side \in Sides :
        Represents(Entries(side, Len(aux_assignment)), side,
                   Assigned(aux_assignment, Len(aux_assignment)),
                   Len(aux_assignment) + Len(input_assignment))
  BY EntriesRepresent
<1> QED BY <1>1, <1>2, <1>3, <1>4 DEF IsShape

(* The larger of two numbers is one of them, and no less than either.      *)
LEMMA LargerLaw ==
  ASSUME NEW x \in Nat, NEW y \in Nat
  PROVE  LargerOf(x, y) \in Nat /\ x <= LargerOf(x, y) /\ y <= LargerOf(x, y)
BY DEF LargerOf

(* R1CSShape::pad makes a shape of as many variables as rows.              *)
LEMMA PadShape ==
  ASSUME TypeOK, NEW s, IsShape(s)
  PROVE  /\ IsShape(Pad(s))
         /\ Pad(s).num_cons = Pad(s).num_vars /\ IsPower(Pad(s).num_vars)
<1> DEFINE l == LargerOf(s.num_vars, s.num_cons)
           m == NextPowerOfTwo(l)
           by == m - s.num_vars
           n == s.num_vars
<1>1. s.num_cons \in Nat /\ n \in Nat /\ Len(constraints) <= s.num_cons
      /\ Len(aux_assignment) <= n
  BY DEF IsShape
<1>2. l \in Nat /\ n <= l /\ s.num_cons <= l  BY <1>1, LargerLaw
<1>3. IsPower(m) /\ m \in Nat /\ l <= m
  <2> HIDE DEF l
  <2> QED BY <1>2, NextPower DEF RoundsUp
<1>4. Len(constraints) \in Nat /\ Len(aux_assignment) \in Nat  BY LenProperties DEF TypeOK
<1>5. /\ Pad(s).num_cons = m /\ Pad(s).num_vars = m /\ Pad(s).num_io = s.num_io
      /\ \A side \in Sides : Pad(s).M[side] = Shift(s.M[side], n, by)
  BY DEF Pad, Sides
<1> HIDE DEF m, l
<1>6. Len(constraints) <= m /\ Len(aux_assignment) <= m /\ by \in Nat /\ n + by = m
  BY <1>1, <1>2, <1>3, <1>4
<1>7. ASSUME NEW side \in Sides
      PROVE  Represents(Pad(s).M[side], side, Assigned(aux_assignment, m),
                        m + Len(input_assignment))
  <2>1. Represents(s.M[side], side, Assigned(aux_assignment, n), n + Len(input_assignment))
    BY DEF IsShape
  <2> HIDE DEF n, by
  <2>2. Represents(Shift(s.M[side], n, by), side, Assigned(aux_assignment, n + by),
                   (n + by) + Len(input_assignment))
    BY <1>1, <1>6, <2>1, ShiftRepresents
  <2> QED BY <1>5, <1>6, <2>2
<1>8. Pad(s).num_io = Len(input_assignment) - 1  BY <1>5 DEF IsShape
<1> QED BY <1>3, <1>5, <1>6, <1>7, <1>8 DEF IsShape

(* The matrices of Instance::new: columns moved, dummy rows last. *)
NewMatrix(s, M) ==
  Shift(M, s.num_vars, VarsPadded(s) - s.num_vars)
    \o [k \in 1 .. (IF s.num_cons <= 1 THEN ConsPadded(s) - Len(M) ELSE 0) |->
          <<Len(M) + k - 1, s.num_vars, 0>>]

(* What Instance::new pads to: powers of two with room for everything.     *)
LEMMA NewSizes ==
  ASSUME TypeOK, NEW s, IsShape(s)
  PROVE  /\ IsPower(VarsPadded(s)) /\ VarsPadded(s) \in Nat
         /\ s.num_vars <= VarsPadded(s) /\ s.num_io + 1 <= VarsPadded(s)
         /\ IsPower(ConsPadded(s)) /\ ConsPadded(s) \in Nat /\ s.num_cons <= ConsPadded(s)
<1>1. s.num_vars \in Nat /\ s.num_io + 1 \in Nat /\ s.num_cons \in Nat
  <2>1. Len(input_assignment) \in Nat /\ Len(input_assignment) # 0
    BY LenProperties, EmptySeq DEF TypeOK
  <2> QED BY <2>1 DEF IsShape
<1> DEFINE l == LargerOf(s.num_vars, s.num_io + 1)
           vp == NextPowerOfTwo(l)
           n == s.num_cons
           r == NextPowerOfTwo(n)
<1>2. l \in Nat /\ s.num_vars <= l /\ s.num_io + 1 <= l  BY <1>1, LargerLaw
<1>3. IsPower(vp) /\ vp \in Nat /\ l <= vp
  <2> HIDE DEF l
  <2> QED BY <1>2, NextPower DEF RoundsUp
<1>4. IsPower(r) /\ r \in Nat /\ n <= r  BY <1>1, NextPower DEF RoundsUp
<1>5. ConsPadded(s) = IF r # n THEN r ELSE IF n <= 1 THEN 2 ELSE n  BY DEF ConsPadded
<1> HIDE DEF r, vp, l
<1>6. IsPower(ConsPadded(s)) /\ ConsPadded(s) \in Nat /\ n <= ConsPadded(s)
  BY <1>1, <1>4, <1>5, SmallPowers
<1>7. VarsPadded(s) = vp  BY DEF VarsPadded, vp, l
<1> QED BY <1>1, <1>2, <1>3, <1>6, <1>7

(* Instance::new fails none of R1CSInstance::new's assertions.             *)
LEMMA NewFields ==
  ASSUME TypeOK, NEW s, IsShape(s)
  PROVE  /\ NewInstance(s).num_cons = ConsPadded(s) /\ NewInstance(s).num_vars = VarsPadded(s)
         /\ \A side \in Sides : NewInstance(s).M[side] = NewMatrix(s, s.M[side])
         /\ ~NewInstance(s).panics
<1> DEFINE M == [side \in Sides |-> NewMatrix(s, s.M[side])]
<1>1. NewInstance(s) = R1CSInstance(ConsPadded(s), VarsPadded(s), s.num_io, M)
  BY DEF NewInstance, NewMatrix, Sides
<1>2. \A side \in Sides : M[side] = NewMatrix(s, s.M[side])  OBVIOUS
<1> HIDE DEF M
<1>3. NextPowerOfTwo(VarsPadded(s)) = VarsPadded(s) /\ NextPowerOfTwo(ConsPadded(s)) = ConsPadded(s)
  BY NewSizes, PowerStays
<1>4. ~(s.num_io >= VarsPadded(s))
  <2>1. Len(input_assignment) \in Nat  BY LenProperties DEF TypeOK
  <2>2. s.num_io \in Int  BY <2>1 DEF IsShape
  <2>3. s.num_io + 1 <= VarsPadded(s) /\ VarsPadded(s) \in Nat  BY NewSizes
  <2> QED BY <2>2, <2>3
<1> QED BY <1>1, <1>2, <1>3, <1>4 DEF R1CSInstance

(* Its instance means what the circuit means.                              *)
LEMMA NewMeaning ==
  ASSUME TypeOK, NEW s, IsShape(s)
  PROVE  IsSat(NewInstance(s)) <=> CircuitHolds
<1> DEFINE n == s.num_vars
           vp == VarsPadded(s)
           by == vp - n
           i == Len(input_assignment)
           z == Assigned(aux_assignment, vp)
           I == NewInstance(s)
<1>1. /\ n \in Nat /\ Len(aux_assignment) <= n
      /\ s.num_cons \in Nat /\ Len(constraints) <= s.num_cons
  BY DEF IsShape
<1>2. /\ vp \in Nat /\ n <= vp /\ ConsPadded(s) \in Nat /\ s.num_cons <= ConsPadded(s)
  BY NewSizes
<1>3. Len(constraints) \in Nat /\ Len(aux_assignment) \in Nat  BY LenProperties DEF TypeOK
<1>4. Len(aux_assignment) <= vp /\ Len(constraints) <= ConsPadded(s)
      /\ by \in Nat /\ n + by = vp
  <2> HIDE DEF vp, n
  <2> QED BY <1>1, <1>2, <1>3
<1>5. i \in Nat \ {0} /\ Ints(z, vp + i)
  <2> HIDE DEF vp
  <2> QED BY <1>2, <1>4, AssignedAt
<1>6. ASSUME NEW side \in Sides PROVE Represents(I.M[side], side, z, vp + i)
  <2> DEFINE M == s.M[side]
             L == Shift(M, n, by)
             d == IF s.num_cons <= 1 THEN ConsPadded(s) - Len(M) ELSE 0
             b == Len(M)
  <2>1. Represents(M, side, Assigned(aux_assignment, n), n + i)  BY DEF IsShape
  <2>2. I.M[side] = L \o [k \in 1 .. d |-> <<b + k - 1, n, 0>>]
    BY NewFields DEF NewMatrix
  <2>3. b \in Nat  BY <2>1, LenProperties DEF Represents
  <2>4. d \in Int  BY <1>2, <2>3
  <2> HIDE DEF M, b, d, n, by, i, vp, I
  <2>5. Represents(Shift(M, n, by), side, Assigned(aux_assignment, n + by), (n + by) + i)
    BY <1>1, <1>4, <2>1, ShiftRepresents DEF i
  <2>6. Represents(L, side, z, vp + i)  BY <1>4, <2>5
  <2>7. n \in 0 .. (vp + i) - 1 /\ vp + i \in Nat  BY <1>1, <1>2, <1>5
  <2> HIDE DEF L, z
  <2>8. Represents(L \o [k \in 1 .. d |-> <<b + k - 1, n, 0>>], side, z, vp + i)
    BY SMTT(60), <1>5, <2>3, <2>4, <2>6, <2>7, DummiesRepresent
  <2> QED BY <2>2, <2>8
<1>7. IsSat(I) <=> RowsHold(I.M, z, ConsPadded(s))
  BY NewFields DEF IsSat, Assigned
<1> HIDE DEF I, z, vp
<1>8. RowsHold(I.M, z, ConsPadded(s)) <=> CircuitHolds
  BY <1>2, <1>4, <1>6, RowsHoldAsCircuit
<1> QED BY <1>7, <1>8 DEF I

(* So does the instance Spartan's prover makes of the padded shape.        *)
LEMMA ProverMeaning ==
  ASSUME TypeOK
  PROVE  IsSat(ProverInstance) <=> CircuitHolds
<1> DEFINE z == Assigned(aux_assignment, Padded.num_vars)
<1>1. IsShape(Padded)  BY UnpaddedShape, PadShape DEF Padded
<1>2. IsSat(ProverInstance) <=> RowsHold(Padded.M, z, Padded.num_cons)
  BY DEF IsSat, Assigned, ProverInstance, R1CSInstance
<1>3. \A side \in Sides :
        Represents(Padded.M[side], side, z, Padded.num_vars + Len(input_assignment))
  BY <1>1 DEF IsShape
<1>4. Padded.num_cons \in Nat /\ Len(constraints) <= Padded.num_cons  BY <1>1 DEF IsShape
<1> HIDE DEF z
<1>5. RowsHold(Padded.M, z, Padded.num_cons) <=> CircuitHolds
  BY <1>3, <1>4, RowsHoldAsCircuit
<1> QED BY <1>2, <1>5

(* And that of R1CS-IPA, which adds rows only.                             *)
LEMMA IpaMeaning ==
  ASSUME TypeOK
  PROVE  IpaCheck(Unpadded) <=> CircuitHolds
<1> DEFINE w == Unpadded.num_vars
           k == Unpadded.num_cons
           i == Len(input_assignment)
           total == k + (w + Unpadded.num_io + 1)
           p == NextPowerOfTwo(total)
           z == Assigned(aux_assignment, w)
<1>1. IsShape(Unpadded)  BY UnpaddedShape
<1>2. /\ k \in Nat /\ Len(constraints) <= k /\ w \in Nat
      /\ Unpadded.num_io = i - 1
  BY <1>1 DEF IsShape
<1>3. i \in Nat /\ Len(constraints) \in Nat  BY LenProperties DEF TypeOK
<1>4. total \in Nat
  <2> HIDE DEF w, k, i
  <2> QED BY <1>2, <1>3
<1>5. p \in Nat /\ total <= p
  <2> HIDE DEF total
  <2> QED BY <1>4, NextPower DEF RoundsUp
<1>6. IpaCheck(Unpadded) <=> RowsHold(Unpadded.M, z, k + p - total)
  BY DEF IpaCheck, IpaInstance, Assigned
<1>7. \A side \in Sides : Represents(Unpadded.M[side], side, z, w + i)
  BY <1>1 DEF IsShape
<1> DEFINE rows == k + p - total
<1> HIDE DEF w, k, i, total, p, z
<1>8. rows \in Nat /\ Len(constraints) <= rows  BY <1>2, <1>3, <1>4, <1>5
<1> HIDE DEF rows
<1>9. RowsHold(Unpadded.M, z, rows) <=> CircuitHolds  BY <1>7, <1>8, RowsHoldAsCircuit
<1> QED BY <1>6, <1>9 DEF rows

(* Every R1CS instance made of a circuit is satisfied by the assignment    *)
(* exactly when the circuit is, whichever way it was padded, even where    *)
(* the prover's own assertions would fail.                                 *)
THEOREM PaddingKeepsMeaning == Spec => []MeaningKept
<1>1. Synthesised => MeaningKept
  <2> SUFFICES ASSUME TypeOK PROVE MeaningKept  BY DEF Synthesised
  <2>1. IpaCheck(Unpadded) <=> CircuitHolds  BY IpaMeaning
  <2>2. IsSat(ProverInstance) <=> CircuitHolds  BY ProverMeaning
  <2>3. IsShape(Unpadded) /\ IsShape(Padded)  BY UnpaddedShape, PadShape DEF Padded
  <2>4. IsSat(VerifierInstance) <=> CircuitHolds  BY <2>3, NewMeaning DEF VerifierInstance
  <2>5. IsSat(NewInstance(Unpadded)) <=> CircuitHolds  BY <2>3, NewMeaning
  <2> QED BY <2>1, <2>2, <2>4, <2>5 DEF MeaningKept
<1> QED BY <1>1, SynthesisedInvariant, PTL

(* Moving columns by nothing moves nothing.                                *)
LEMMA ShiftNone ==
  ASSUME NEW c \in Nat, NEW M \in Seq(Entry(c)), NEW n
  PROVE  Shift(M, n, 0) \o <<>> = M
<1>1. DOMAIN M = 1 .. Len(M) /\ M = [k \in 1 .. Len(M) |-> M[k]]  BY LenProperties
<1>2. ASSUME NEW k \in 1 .. Len(M)
      PROVE  M[k] = IF M[k][2] >= n THEN <<M[k][1], M[k][2] + 0, M[k][3]>> ELSE M[k]
  <2>1. M[k] \in Entry(c)  BY ElementOfSeq
  <2>2. M[k] = <<M[k][1], M[k][2], M[k][3]>> /\ M[k][2] \in Int  BY SMTT(60), <2>1 DEF Entry
  <2> QED BY <2>2
<1>3. Shift(M, n, 0) = M  BY <1>1, <1>2 DEF Shift
<1> QED BY <1>3, ConcatEmptySeq

(* Prover and verifier of Spartan make the same instance, but for circuits *)
(* of at most one row and variable, and the verifier's never panics.       *)
THEOREM SameInstance == Spec => []InstancesAgree
<1>1. Synthesised => InstancesAgree
  <2> SUFFICES ASSUME TypeOK PROVE InstancesAgree  BY DEF Synthesised
  <2>1. IsShape(Unpadded) /\ IsShape(Padded)
        /\ Padded.num_cons = Padded.num_vars /\ IsPower(Padded.num_vars)
    BY UnpaddedShape, PadShape DEF Padded
  <2>2. ~VerifierInstance.panics /\ ~NewInstance(Unpadded).panics
    BY <2>1, NewFields DEF VerifierInstance
  <2>3. ASSUME ~ProverInstance.panics, Padded.num_cons > 1
        PROVE  ProverInstance = VerifierInstance
    <3> DEFINE m == Padded.num_vars
               io == Padded.num_io
    <3>1. m \in Nat \ {0} /\ NextPowerOfTwo(m) = m  BY <2>1, PowerStays
    <3>2. ~(io >= m)  BY <2>3 DEF ProverInstance, R1CSInstance
    <3>3. io \in Nat
      <4>1. Len(input_assignment) \in Nat /\ Len(input_assignment) # 0
        BY LenProperties, EmptySeq DEF TypeOK
      <4> QED BY <2>1, <4>1 DEF IsShape
    <3>4. Padded.num_cons = m /\ m > 1  BY <2>1, <2>3
    <3>5. VarsPadded(Padded) = m
      <4>1. VarsPadded(Padded) = NextPowerOfTwo(LargerOf(m, io + 1))  BY DEF VarsPadded
      <4> HIDE DEF m, io
      <4>2. LargerOf(m, io + 1) = m  BY <3>1, <3>2, <3>3 DEF LargerOf
      <4> QED BY <3>1, <4>1, <4>2
    <3>6. ConsPadded(Padded) = m
      <4>1. ~(m <= 1)  BY <3>1, <3>4
      <4> QED BY <3>1, <3>4, <4>1 DEF ConsPadded
    <3>7. ASSUME NEW side \in Sides PROVE NewMatrix(Padded, Padded.M[side]) = Padded.M[side]
      <4> DEFINE M == Padded.M[side]
                 c == m + Len(input_assignment)
      <4>1. c \in Nat /\ M \in Seq(Entry(c))
        <5>1. Len(input_assignment) \in Nat  BY LenProperties DEF TypeOK
        <5> QED BY <2>1, <3>1, <5>1 DEF IsShape, Represents
      <4>2. ~(Padded.num_cons <= 1)  BY <3>1, <3>4
      <4>3. NewMatrix(Padded, M) = Shift(M, m, m - m) \o [k \in 1 .. 0 |-> <<Len(M) + k - 1, m, 0>>]
        BY <3>5, <4>2 DEF NewMatrix
      <4>4. m - m = 0  BY <3>1
      <4>5. [k \in 1 .. 0 |-> <<Len(M) + k - 1, m, 0>>] = <<>>  OBVIOUS
      <4> HIDE DEF M, c, m
      <4>6. Shift(M, m, 0) \o <<>> = M  BY <4>1, ShiftNone
      <4> QED BY <4>3, <4>4, <4>5, <4>6 DEF M
    <3> DEFINE L == [side \in Sides |-> NewMatrix(Padded, Padded.M[side])]
    <3>8. VerifierInstance = R1CSInstance(m, m, io, L)
      BY <3>5, <3>6 DEF VerifierInstance, NewInstance, NewMatrix, Sides
    <3>9. Padded.M = [side \in Sides |-> Padded.M[side]]  BY DEF Padded, Pad, Sides
    <3>10. L = Padded.M  BY <3>7, <3>9
    <3> QED BY <3>4, <3>8, <3>10 DEF ProverInstance
  <2> QED BY <2>2, <2>3 DEF InstancesAgree
<1> QED BY <1>1, SynthesisedInvariant, PTL
=============================================================================
