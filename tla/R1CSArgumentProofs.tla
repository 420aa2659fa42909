------------------------- MODULE R1CSArgumentProofs -------------------------
(***************************************************************************)
(* Proofs about R1CSArgument, for every field, size, shape and statement:  *)
(* the reduction keeps its type and calls the argument as create expects;  *)
(* the prover's and the verifier's halves of r1cs2ipa agree over every     *)
(* base; <u,v> is w plus a polynomial in gamma whose coefficients are the  *)
(* errors of the rows; so honest proofs are accepted, a proof accepted for *)
(* the verifier's P has <u,v> = w, and a witness that violates a           *)
(* constraint has that for fewer values of gamma than there are rows.      *)
(*                                                                         *)
(* The argument: lists are compared entry by entry (Parts, FieldList),     *)
(* commitments coefficient by coefficient (Assembled, Claimed, Sides), and *)
(* inner products row by row (RowExpands, ErrorAt); the polynomial of the  *)
(* errors is divided by its roots, one by one (RootsBound).  The inductive *)
(* invariant RInv says which statement, commitments and arguments every    *)
(* phase holds; the argument's own invariant comes from IPADeferredProofs. *)
(***************************************************************************)
EXTENDS R1CSArgument, IPADeferredProofs

-----------------------------------------------------------------------------
(* Sizes, entries and products: what a statement's parts are.             *)

Wit == Len(stmt.witness)

Ins == Len(stmt.inputs)

IsMatrix(M) == M \in Seq((1 .. Rows) \X (1 .. Cols) \X Fq)

(* The sizes of the statement's instance. *)
Shaped ==
  /\ Wit \in Nat /\ Ins \in Nat /\ Cols \in Nat /\ Rows \in Nat
  /\ Cols = Wit + Ins /\ Size = Cols + Rows
  /\ Size \in Nat /\ Size \in 1 .. N /\ \E e \in 0 .. N : Size = Pow2[e]
  /\ FieldList(stmt.witness, Wit) /\ FieldList(stmt.inputs, Ins)
  /\ IsMatrix(stmt.A) /\ IsMatrix(stmt.B) /\ IsMatrix(stmt.C)

(* A sequence is a list.                                                   *)
LEMMA SequenceIsList ==
  ASSUME NEW S, NEW s \in Seq(S)
  PROVE  /\ Len(s) \in Nat /\ IsList(s, Len(s))
         /\ \A i \in 1 .. Len(s) : s[i] \in S
<1>1. Len(s) \in Nat /\ s \in [1 .. Len(s) -> S]  BY LenProperties
<1> QED BY <1>1 DEF IsList

(* Padding makes the size a power of two for which there are bases, and    *)
(* keeps every row of constraints.                                         *)
LEMMA StatementShaped ==
  ASSUME stmt \in Statements
  PROVE  Shaped
<1> DEFINE c == stmt.cons
           s == stmt.cons + Cols
           p == NextPowerOfTwo(s)
<1>1. /\ c \in Nat /\ stmt.witness \in Seq(Fq) /\ stmt.inputs \in Seq(Fq)
      /\ \A M \in {stmt.A, stmt.B, stmt.C} : M \in Seq((1 .. c) \X (1 .. Cols) \X Fq)
      /\ p <= N
  BY StatementsAssumption DEF Cols
<1>2. /\ Wit \in Nat /\ FieldList(stmt.witness, Wit)
      /\ Ins \in Nat /\ FieldList(stmt.inputs, Ins)
  BY <1>1, SequenceIsList DEF Wit, Ins, FieldList
<1>3. Cols = Wit + Ins /\ Cols \in Nat
  <2>1. Cols = Wit + Ins  BY DEF Cols, Wit, Ins
  <2> QED BY <1>2, <2>1
<1>4. s \in Nat  BY <1>1, <1>3
<1>5. Rows = p - Cols /\ Size = Rows + Cols  BY DEF Rows, Size
<1> HIDE DEF p, s, c
<1>6. IsPower(p) /\ p \in Nat \ {0} /\ s <= p  BY <1>4, NextPower DEF RoundsUp, p
<1>7. Rows \in Nat /\ Size = Cols + Rows /\ Size = p /\ c <= Rows
  BY SMTT(60), <1>1, <1>3, <1>5, <1>6 DEF s, c
<1>8. PICK e \in Nat : p = Pow2[e]  BY <1>6 DEF IsPower
<1>9. e \in 0 .. N
  <2>1. e < Pow2[e]  BY PowerAbove
  <2>2. N \in Nat  BY BasesAssumption
  <2> QED BY <1>1, <1>6, <1>8, <2>1, <2>2
<1>10. p \in 1 .. N  BY <1>1, <1>6, BasesAssumption
<1>11. ASSUME NEW M, M \in Seq((1 .. c) \X (1 .. Cols) \X Fq) PROVE IsMatrix(M)
  <2> DEFINE E == (1 .. c) \X (1 .. Cols) \X Fq
             F == (1 .. Rows) \X (1 .. Cols) \X Fq
  <2>1. E \subseteq F
    <3>1. 1 .. c \subseteq 1 .. Rows  BY <1>1, <1>7 DEF c
    <3> QED BY <3>1
  <2> HIDE DEF E, F
  <2>2. Len(M) \in Nat /\ IsList(M, Len(M)) /\ \A i \in 1 .. Len(M) : M[i] \in E
    BY <1>11, SequenceIsList DEF E
  <2>3. M \in [1 .. Len(M) -> F]  BY <2>1, <2>2 DEF IsList
  <2>4. M \in Seq(F)  BY <2>2, <2>3, IsASeq
  <2> QED BY <2>4 DEF IsMatrix, F
<1>12. IsMatrix(stmt.A) /\ IsMatrix(stmt.B) /\ IsMatrix(stmt.C)  BY <1>1, <1>11 DEF c
<1> QED BY <1>2, <1>3, <1>6, <1>7, <1>8, <1>9, <1>10, <1>12 DEF Shaped

(* An entry of a matrix.                                                   *)
LEMMA EntryTyped ==
  ASSUME NEW M, IsMatrix(M)
  PROVE  /\ Len(M) \in Nat /\ DOMAIN M = 1 .. Len(M)
         /\ \A t \in 1 .. Len(M) :
              M[t][1] \in 1 .. Rows /\ M[t][2] \in 1 .. Cols /\ M[t][3] \in Fq /\ M[t][3] \in Int
<1>1. /\ Len(M) \in Nat /\ IsList(M, Len(M))
      /\ \A i \in 1 .. Len(M) : M[i] \in (1 .. Rows) \X (1 .. Cols) \X Fq
  BY SequenceIsList DEF IsMatrix
<1>2. DOMAIN M = 1 .. Len(M)  BY <1>1 DEF IsList
<1>3. Fq \subseteq Int  BY DEF Fq
<1> QED BY <1>1, <1>2, <1>3

(* The terms of M times z, each without its row; and their rows. *)
RowTerms(M, z) == [t \in 1 .. Len(M) |-> M[t][3] * z[M[t][2]]]

RowIndices(M) == [t \in 1 .. Len(M) |-> M[t][1]]

(* The terms of v times M, each without its column; and their columns. *)
ColTerms(M, v) == [t \in 1 .. Len(M) |-> M[t][3] * v[M[t][1]]]

ColIndices(M) == [t \in 1 .. Len(M) |-> M[t][2]]

(* multiply_vec gathers an entry's term in its row.                        *)
LEMMA MultiplyVecIs ==
  ASSUME Shaped, NEW M, IsMatrix(M), NEW z, FieldList(z, Cols)
  PROVE  LET x == RowTerms(M, z)
             g == Gathered(x, RowIndices(M), Len(M), Rows)
             r == MultiplyVec(M, z)
         IN  /\ Ints(x, Len(M))
             /\ FieldList(r, Rows)
             /\ \A row \in 1 .. Rows : g[row] \in Int /\ r[row] = g[row] % q
<1> DEFINE k == Len(M)
           x == RowTerms(M, z)
           g == Gathered(x, RowIndices(M), k, Rows)
           r == MultiplyVec(M, z)
           at(row) == {t \in DOMAIN M : M[t][1] = row}
           iter(row) == CHOOSE it : it = [S \in SUBSET at(row) |->
                          IF S = {} THEN 0
                          ELSE M[AnyOf(S)][3] * z[M[AnyOf(S)][2]] + it[S \ {AnyOf(S)}]]
<1>1. /\ k \in Nat /\ DOMAIN M = 1 .. k
      /\ \A t \in 1 .. k : M[t][1] \in 1 .. Rows /\ M[t][2] \in 1 .. Cols /\ M[t][3] \in Int
  BY EntryTyped
<1>2. \A t \in 1 .. k : x[t] = M[t][3] * z[M[t][2]]  BY DEF RowTerms
<1>3. \A t \in 1 .. k : x[t] \in Int
  <2>1. \A i \in 1 .. Cols : z[i] \in Int  BY DEF FieldList, Fq
  <2> QED BY SMTT(60), <1>1, <1>2, <2>1
<1>4. Ints(x, k)  BY <1>3 DEF Ints
<1> HIDE DEF x
<1>5. \A row \in 1 .. Rows : r[row] = iter(row)[at(row)] % q
  BY DEF MultiplyVec, MapThenSumSet, MapThenFoldSet, AnyOf
<1>6. ASSUME NEW row \in 1 .. Rows
      PROVE  /\ g[row] \in Int /\ r[row] = g[row] % q
  <2> DEFINE some == at(row)
             jt == iter(row)
  <2>1. some \subseteq 1 .. k  BY <1>1
  <2>2. IsFiniteSet(some)
    <3>1. IsFiniteSet(1 .. k)  BY <1>1, IntervalFinite
    <3> HIDE DEF some
    <3> QED BY <2>1, <3>1, FS_Subset
  <2>3. \A t \in some : x[t] \in Int  BY <1>3, <2>1
  <2>4. PICK it : Sums(it, x, some)
    <3> HIDE DEF some
    <3> QED BY <2>2, <2>3, SumExists
  <2>5. \A S \in SUBSET some : S # {} => x[AnyOf(S)] = M[AnyOf(S)][3] * z[M[AnyOf(S)][2]]
    BY <1>2, <2>1 DEF AnyOf
  <2>6. \A it1 : Sums(it1, x, some) <=> it1 = [S \in SUBSET at(row) |->
                          IF S = {} THEN 0
                          ELSE M[AnyOf(S)][3] * z[M[AnyOf(S)][2]] + it1[S \ {AnyOf(S)}]]
    <3>1. ASSUME NEW it1
          PROVE  [S \in SUBSET some |-> IF S = {} THEN 0 ELSE x[AnyOf(S)] + it1[S \ {AnyOf(S)}]]
                   = [S \in SUBSET at(row) |->
                          IF S = {} THEN 0
                          ELSE M[AnyOf(S)][3] * z[M[AnyOf(S)][2]] + it1[S \ {AnyOf(S)}]]
      BY <2>5
    <3> QED BY <3>1 DEF Sums
  <2>7. Sums(jt, x, some)  BY <2>4, <2>6
  <2>8. r[row] = jt[some] % q  BY <1>5
  <2>12. \A t \in 1 .. k : t \in some <=> M[t][1] = row  BY <1>1
  <2> HIDE DEF jt, some
  <2>9. jt[some] = SumOver(x, some)  BY <2>2, <2>3, <2>7, SumByRecursion
  <2>10. SumOver(x, some) = SumTo(Selected(x, some, k), k)  BY <1>1, <1>4, <2>1, SumOfSome
  <2>11. Selected(x, some, k) = [t \in 1 .. k |-> IF RowIndices(M)[t] = row THEN x[t] ELSE 0]
    BY <2>12 DEF Selected, RowIndices
  <2>13. g[row] = SumTo(Selected(x, some, k), k)  BY <2>11 DEF Gathered
  <2>14. SumTo(Selected(x, some, k), k) \in Int
    <3>1. \A t \in 1 .. k : Selected(x, some, k)[t] \in Int  BY <1>3 DEF Selected
    <3> QED BY <1>1, <3>1, SumToInt
  <2> QED BY <2>8, <2>9, <2>10, <2>13, <2>14
<1>7. FieldList(r, Rows)
  <2>1. IsList(r, Rows)  BY DEF MultiplyVec, IsList
  <2>2. \A row \in 1 .. Rows : r[row] \in Fq  BY <1>6, ModCong
  <2> QED BY <2>1, <2>2 DEF FieldList
<1> QED BY <1>4, <1>6, <1>7 DEF x

(* vec_multiply_mat gathers it in its column.                               *)
LEMMA VecMultiplyMatIs ==
  ASSUME Shaped, NEW M, IsMatrix(M), NEW v, FieldList(v, Rows)
  PROVE  LET x == ColTerms(M, v)
             g == Gathered(x, ColIndices(M), Len(M), Cols)
             r == VecMultiplyMat(M, v)
         IN  /\ Ints(x, Len(M))
             /\ FieldList(r, Cols)
             /\ \A col \in 1 .. Cols : g[col] \in Int /\ r[col] = g[col] % q
<1> DEFINE k == Len(M)
           x == ColTerms(M, v)
           g == Gathered(x, ColIndices(M), k, Cols)
           r == VecMultiplyMat(M, v)
           at(col) == {t \in DOMAIN M : M[t][2] = col}
           iter(col) == CHOOSE it : it = [S \in SUBSET at(col) |->
                          IF S = {} THEN 0
                          ELSE M[AnyOf(S)][3] * v[M[AnyOf(S)][1]] + it[S \ {AnyOf(S)}]]
<1>1. /\ k \in Nat /\ DOMAIN M = 1 .. k
      /\ \A t \in 1 .. k : M[t][1] \in 1 .. Rows /\ M[t][2] \in 1 .. Cols /\ M[t][3] \in Int
  BY EntryTyped
<1>2. \A t \in 1 .. k : x[t] = M[t][3] * v[M[t][1]]  BY DEF ColTerms
<1>3. \A t \in 1 .. k : x[t] \in Int
  <2>1. \A i \in 1 .. Rows : v[i] \in Int  BY DEF FieldList, Fq
  <2> QED BY SMTT(60), <1>1, <1>2, <2>1
<1>4. Ints(x, k)  BY <1>3 DEF Ints
<1> HIDE DEF x
<1>5. \A col \in 1 .. Cols : r[col] = iter(col)[at(col)] % q
  BY DEF VecMultiplyMat, MapThenSumSet, MapThenFoldSet, AnyOf
<1>6. ASSUME NEW col \in 1 .. Cols
      PROVE  /\ g[col] \in Int /\ r[col] = g[col] % q
  <2> DEFINE some == at(col)
             jt == iter(col)
  <2>1. some \subseteq 1 .. k  BY <1>1
  <2>2. IsFiniteSet(some)
    <3>1. IsFiniteSet(1 .. k)  BY <1>1, IntervalFinite
    <3> HIDE DEF some
    <3> QED BY <2>1, <3>1, FS_Subset
  <2>3. \A t \in some : x[t] \in Int  BY <1>3, <2>1
  <2>4. PICK it : Sums(it, x, some)
    <3> HIDE DEF some
    <3> QED BY <2>2, <2>3, SumExists
  <2>5. \A S \in SUBSET some : S # {} => x[AnyOf(S)] = M[AnyOf(S)][3] * v[M[AnyOf(S)][1]]
    BY <1>2, <2>1 DEF AnyOf
  <2>6. \A it1 : Sums(it1, x, some) <=> it1 = [S \in SUBSET at(col) |->
                          IF S = {} THEN 0
                          ELSE M[AnyOf(S)][3] * v[M[AnyOf(S)][1]] + it1[S \ {AnyOf(S)}]]
    <3>1. ASSUME NEW it1
          PROVE  [S \in SUBSET some |-> IF S = {} THEN 0 ELSE x[AnyOf(S)] + it1[S \ {AnyOf(S)}]]
                   = [S \in SUBSET at(col) |->
                          IF S = {} THEN 0
                          ELSE M[AnyOf(S)][3] * v[M[AnyOf(S)][1]] + it1[S \ {AnyOf(S)}]]
      BY <2>5
    <3> QED BY <3>1 DEF Sums
  <2>7. Sums(jt, x, some)  BY <2>4, <2>6
  <2>8. r[col] = jt[some] % q  BY <1>5
  <2>12. \A t \in 1 .. k : t \in some <=> M[t][2] = col  BY <1>1
  <2> HIDE DEF jt, some
  <2>9. jt[some] = SumOver(x, some)  BY <2>2, <2>3, <2>7, SumByRecursion
  <2>10. SumOver(x, some) = SumTo(Selected(x, some, k), k)  BY <1>1, <1>4, <2>1, SumOfSome
  <2>11. Selected(x, some, k) = [t \in 1 .. k |-> IF ColIndices(M)[t] = col THEN x[t] ELSE 0]
    BY <2>12 DEF Selected, ColIndices
  <2>13. g[col] = SumTo(Selected(x, some, k), k)  BY <2>11 DEF Gathered
  <2>14. SumTo(Selected(x, some, k), k) \in Int
    <3>1. \A t \in 1 .. k : Selected(x, some, k)[t] \in Int  BY <1>3 DEF Selected
    <3> QED BY <1>1, <3>1, SumToInt
  <2> QED BY <2>8, <2>9, <2>10, <2>13, <2>14
<1>7. FieldList(r, Cols)
  <2>1. IsList(r, Cols)  BY DEF VecMultiplyMat, IsList
  <2>2. \A col \in 1 .. Cols : r[col] \in Fq  BY <1>6, ModCong
  <2> QED BY <2>1, <2>2 DEF FieldList
<1> QED BY <1>4, <1>6, <1>7 DEF x

(* Multiplying from the left and from the right are adjoint: <z, vM> is    *)
(* <Mz, v>.                                                                *)
LEMMA Adjoint ==
  ASSUME Shaped, NEW M, IsMatrix(M), NEW z, FieldList(z, Cols), NEW v, FieldList(v, Rows)
  PROVE  LET l == VecMultiplyMat(M, v)
             r == MultiplyVec(M, z)
         IN  /\ FieldList(l, Cols) /\ FieldList(r, Rows)
             /\ Cong(Dot(l, z, Cols), Dot(r, v, Rows))
<1> DEFINE k == Len(M)
           l == VecMultiplyMat(M, v)
           r == MultiplyVec(M, z)
           x == RowTerms(M, z)
           y == ColTerms(M, v)
           rows == RowIndices(M)
           cols == ColIndices(M)
           g == Gathered(x, rows, k, Rows)
           h == Gathered(y, cols, k, Cols)
           xv == [t \in 1 .. k |-> x[t] * v[rows[t]]]
           yz == [t \in 1 .. k |-> y[t] * z[cols[t]]]
<1>1. /\ k \in Nat
      /\ \A t \in 1 .. k : M[t][1] \in 1 .. Rows /\ M[t][2] \in 1 .. Cols /\ M[t][3] \in Int
  BY EntryTyped
<1>2. /\ Ints(x, k) /\ FieldList(r, Rows)
      /\ \A row \in 1 .. Rows : g[row] \in Int /\ r[row] = g[row] % q
  BY MultiplyVecIs
<1>3. /\ Ints(y, k) /\ FieldList(l, Cols)
      /\ \A col \in 1 .. Cols : h[col] \in Int /\ l[col] = h[col] % q
  BY VecMultiplyMatIs
<1>4. Rows \in Nat /\ Cols \in Nat  BY DEF Shaped
<1>5. Ints(v, Rows) /\ Ints(z, Cols)  BY DEF FieldList, Fq, Ints
<1>6. /\ \A t \in 1 .. k : rows[t] = M[t][1] /\ rows[t] \in 1 .. Rows
      /\ \A t \in 1 .. k : cols[t] = M[t][2] /\ cols[t] \in 1 .. Cols
  BY <1>1 DEF RowIndices, ColIndices
<1>7. \A t \in 1 .. k : xv[t] \in Int /\ xv[t] = yz[t]
  <2>1. ASSUME NEW t \in 1 .. k PROVE xv[t] \in Int /\ xv[t] = yz[t]
    <3> DEFINE m == M[t][3]
               zt == z[M[t][2]]
               vt == v[M[t][1]]
    <3>1. m \in Int /\ zt \in Int /\ vt \in Int  BY <1>1, <1>5 DEF Ints
    <3>2. x[t] = m * zt /\ y[t] = m * vt  BY DEF RowTerms, ColTerms
    <3>3. xv[t] = x[t] * vt /\ yz[t] = y[t] * zt  BY <1>6
    <3> HIDE DEF m, zt, vt, xv, yz, x, y
    <3>4. (m * zt) * vt = (m * vt) * zt /\ (m * zt) * vt \in Int  BY <3>1
    <3> QED BY <3>2, <3>3, <3>4
  <2> QED BY <2>1
<1> HIDE DEF k, x, y, rows, cols, g, h, l, r
<1>8. SumTo(xv, k) = SumTo(yz, k)
  <2> HIDE DEF xv, yz
  <2> QED BY <1>1, <1>7, SumToSame
<1>9. /\ Ints(g, Rows) /\ Ints(xv, k)
      /\ Cong(Dot(g, v, Rows), SumTo(xv, k))
  BY ZenonT(60), <1>1, <1>2, <1>4, <1>5, <1>6, DotGathered DEF g
<1>10. /\ Ints(h, Cols) /\ Ints(yz, k)
       /\ Cong(Dot(h, z, Cols), SumTo(yz, k))
  BY ZenonT(60), <1>1, <1>3, <1>4, <1>5, <1>6, DotGathered DEF h
<1>11. SumTo(xv, k) \in Int
  <2> HIDE DEF xv
  <2> QED BY <1>1, <1>9, SumToInt DEF Ints
<1> HIDE DEF xv, yz
<1>12. Ints(l, Cols) /\ Ints(r, Rows)  BY <1>2, <1>3 DEF FieldList, Fq, Ints
<1>13. Cong(Dot(r, v, Rows), Dot(g, v, Rows))
  <2>1. \A i \in 1 .. Rows : Cong(r[i] * v[i], g[i] * v[i])
    <3>1. ASSUME NEW i \in 1 .. Rows PROVE Cong(r[i] * v[i], g[i] * v[i])
      <4>1. g[i] \in Int /\ r[i] \in Int /\ v[i] \in Int  BY <1>2, <1>5, <1>12 DEF Ints
      <4>2. Cong(r[i], g[i])  BY <1>2, <4>1, ModCong
      <4> QED BY <4>1, <4>2, CongScaled
    <3> QED BY <3>1
  <2> QED BY <1>4, <1>5, <1>9, <1>12, <2>1, DotCong
<1>14. Cong(Dot(l, z, Cols), Dot(h, z, Cols))
  <2>1. \A i \in 1 .. Cols : Cong(l[i] * z[i], h[i] * z[i])
    <3>1. ASSUME NEW i \in 1 .. Cols PROVE Cong(l[i] * z[i], h[i] * z[i])
      <4>1. h[i] \in Int /\ l[i] \in Int /\ z[i] \in Int  BY <1>3, <1>5, <1>12 DEF Ints
      <4>2. Cong(l[i], h[i])  BY <1>3, <4>1, ModCong
      <4> QED BY <4>1, <4>2, CongScaled
    <3> QED BY <3>1
  <2> QED BY <1>4, <1>5, <1>10, <1>12, <2>1, DotCong
<1> DEFINE L == Dot(l, z, Cols)
           R == Dot(r, v, Rows)
           right == Dot(h, z, Cols)
           left == Dot(g, v, Rows)
           sum == SumTo(xv, k)
<1>15. L \in Int /\ R \in Int /\ right \in Int /\ left \in Int /\ sum \in Int
  BY <1>4, <1>5, <1>9, <1>10, <1>11, <1>12, DotInt
<1>16. Cong(L, right) /\ Cong(right, sum) /\ Cong(R, left) /\ Cong(left, sum)
  BY <1>8, <1>9, <1>10, <1>13, <1>14
<1> HIDE DEF L, R, right, left, sum
<1>17. Cong(L, sum) /\ Cong(R, sum)  BY <1>15, <1>16, CongTrans
<1>18. Cong(sum, R)  BY <1>15, <1>17, CongSym
<1>19. Cong(L, R)  BY <1>15, <1>17, <1>18, CongTrans
<1> QED BY <1>2, <1>3, <1>19 DEF L, R, l, r

-----------------------------------------------------------------------------
(* What the challenges give: typed values.                                *)

(* Challenges of the field the prover can go on with. *)
FieldChallenges == [alpha : Fq, beta : Fq, gamma : Fq, delta : Fq]

Usable(ch) == ch \in FieldChallenges /\ Invertible(ch)

(* What the reduction may draw, it can use, with gamma and delta not zero. *)
LEMMA DrawnUsable ==
  ASSUME NEW ch \in ChallengeTuples, Invertible(ch)
  PROVE  Usable(ch)
BY ReductionDrawsAssumption DEF Usable, ChallengeTuples, FieldChallenges

(* Usable challenges are field elements, with the inverses taken of them.  *)
LEMMA ChallengeTyped ==
  ASSUME NEW ch, Usable(ch)
  PROVE  /\ ch.alpha \in Fq /\ ch.beta \in Fq /\ ch.gamma \in Fq /\ ch.delta \in Fq
         /\ ch.alpha \in Int /\ ch.beta \in Int /\ ch.gamma \in Int /\ ch.delta \in Int
         /\ ch.gamma # 0 /\ ch.delta # 0
         /\ Inv(ch.gamma) \in Fq /\ Inv(ch.gamma) \in Int
         /\ Inv(ch.delta) \in Fq /\ Inv(ch.delta) \in Int
         /\ Cong(ch.delta * Inv(ch.delta), 1)
         /\ Sq(ch.delta) \in Fq /\ Sq(ch.delta) \in Int
         /\ Cong(Sq(ch.delta), ch.delta * ch.delta)
<1>1. ch.alpha \in Fq /\ ch.beta \in Fq /\ ch.gamma \in Fq /\ ch.delta \in Fq
      /\ ch.gamma # 0 /\ ch.delta # 0
  <2>1. ch \in [alpha : Fq, beta : Fq, gamma : Fq, delta : Fq]
    BY DEF Usable, FieldChallenges
  <2>2. ch.alpha \in Fq /\ ch.beta \in Fq /\ ch.gamma \in Fq /\ ch.delta \in Fq
    BY <2>1
  <2> QED BY <2>2 DEF Usable, Invertible
<1>2. ch.alpha \in Int /\ ch.beta \in Int /\ ch.gamma \in Int /\ ch.delta \in Int
  BY <1>1 DEF Fq
<1>3. /\ Inv(ch.gamma) \in Fq /\ Inv(ch.gamma) \in Int
      /\ Inv(ch.delta) \in Fq /\ Inv(ch.delta) \in Int
      /\ Cong(ch.delta * Inv(ch.delta), 1)
  BY <1>1, InvLaw
<1>4. /\ Sq(ch.delta) \in Fq /\ Sq(ch.delta) \in Int
      /\ Cong(Sq(ch.delta), ch.delta * ch.delta)
  <2> DEFINE d == ch.delta
  <2>1. d \in Int  BY <1>2
  <2> HIDE DEF d
  <2>2. d * d \in Int  BY <2>1
  <2>3. (d * d) % q \in Fq /\ Cong((d * d) % q, d * d)  BY <2>2, ModCong
  <2> QED BY <2>3 DEF Sq, Fq, d
<1> QED BY <1>1, <1>2, <1>3, <1>4

(* Zeros are a list over the field.                                        *)
LEMMA ZerosList ==
  ASSUME NEW k \in Nat
  PROVE  FieldList(Zeros(k), k) /\ \A i \in 1 .. k : Zeros(k)[i] = 0
BY GeneratorPoint DEF Zeros, FieldList, IsList

Inputs0 == Zeros(Wit) \o stmt.inputs

Witness0 == stmt.witness \o Zeros(Ins)

(* The assignment and its parts: Z is the witness, then the inputs.        *)
LEMMA AssignmentTyped ==
  ASSUME Shaped
  PROVE  /\ FieldList(Z, Cols) /\ FieldList(Inputs0, Cols) /\ FieldList(Witness0, Cols)
         /\ \A i \in 1 .. Cols :
              /\ i \in 1 .. Wit => /\ Z[i] = stmt.witness[i]
                                   /\ Inputs0[i] = 0 /\ Witness0[i] = stmt.witness[i]
              /\ i \notin 1 .. Wit => /\ i - Wit \in 1 .. Ins /\ Z[i] = stmt.inputs[i - Wit]
                                      /\ Inputs0[i] = stmt.inputs[i - Wit] /\ Witness0[i] = 0
<1>1. /\ Wit \in Nat /\ Ins \in Nat /\ Cols = Wit + Ins
      /\ FieldList(stmt.witness, Wit) /\ FieldList(stmt.inputs, Ins)
  BY DEF Shaped
<1>2. /\ FieldList(Zeros(Wit), Wit) /\ \A i \in 1 .. Wit : Zeros(Wit)[i] = 0
      /\ FieldList(Zeros(Ins), Ins) /\ \A i \in 1 .. Ins : Zeros(Ins)[i] = 0
  BY <1>1, ZerosList
<1>3. /\ JoinsAt(stmt.witness, stmt.inputs, Wit, Ins)
      /\ JoinsAt(Zeros(Wit), stmt.inputs, Wit, Ins)
      /\ JoinsAt(stmt.witness, Zeros(Ins), Wit, Ins)
  BY <1>1, <1>2, FieldJoin
<1> QED BY ZenonT(60), <1>1, <1>2, <1>3 DEF JoinsAt, Z, Inputs0, Witness0

Cz == MultiplyVec(stmt.C, Z)

(* The products of the matrices with the assignment are lists.             *)
LEMMA ProductsTyped ==
  ASSUME Shaped
  PROVE  FieldList(Az, Rows) /\ FieldList(Bz, Rows) /\ FieldList(Cz, Rows)
<1>1. FieldList(Z, Cols)  BY AssignmentTyped
<1>2. IsMatrix(stmt.A) /\ IsMatrix(stmt.B) /\ IsMatrix(stmt.C)  BY DEF Shaped
<1> QED BY <1>1, <1>2, MultiplyVecIs DEF Az, Bz, Cz

(* The columns of the public combination c. *)
CA(ch) == VecMultiplyMat(stmt.A, ExpIter((ch.alpha * ch.gamma) % q, Rows))
CB(ch) == VecMultiplyMat(stmt.B, ExpIter(ch.beta, Rows))
CC(ch) == VecMultiplyMat(stmt.C, ExpIter(ch.gamma, Rows))

(* c is a list of the columns' combinations, DeltaVec of delta and ones.   *)
LEMMA PublicTyped ==
  ASSUME Shaped, NEW ch, Usable(ch)
  PROVE  /\ (ch.alpha * ch.gamma) % q \in Int
         /\ FieldList(CA(ch), Cols) /\ FieldList(CB(ch), Cols) /\ FieldList(CC(ch), Cols)
         /\ FieldList(CVec(ch), Cols)
         /\ \A i \in 1 .. Cols : Cong(CVec(ch)[i], CA(ch)[i] + CB(ch)[i] - CC(ch)[i])
         /\ FieldList(DeltaVec(ch), Cols)
         /\ \A i \in 1 .. Cols : DeltaVec(ch)[i] = IF i \in 1 .. Wit THEN ch.delta ELSE 1
<1>1. /\ ch.alpha \in Int /\ ch.beta \in Int /\ ch.gamma \in Int /\ ch.delta \in Fq
  BY ChallengeTyped
<1>2. Rows \in Nat /\ Cols \in Nat /\ Wit \in Nat /\ IsMatrix(stmt.A) /\ IsMatrix(stmt.B) /\ IsMatrix(stmt.C)
  BY DEF Shaped
<1> DEFINE ag == (ch.alpha * ch.gamma) % q
<1>3. ag \in Int
  <2>1. ch.alpha * ch.gamma \in Int  BY <1>1
  <2> QED BY <2>1, ModCong DEF Fq
<1>4. /\ FieldList(ExpIter(ag, Rows), Rows)
      /\ FieldList(ExpIter(ch.beta, Rows), Rows)
      /\ FieldList(ExpIter(ch.gamma, Rows), Rows)
  <2> HIDE DEF ag
  <2> QED BY <1>1, <1>2, <1>3, ExpIterIs
<1>5. FieldList(CA(ch), Cols) /\ FieldList(CB(ch), Cols) /\ FieldList(CC(ch), Cols)
  BY <1>2, <1>4, VecMultiplyMatIs DEF CA, CB, CC
<1> DEFINE xa == CA(ch)
           xb == CB(ch)
           xc == CC(ch)
           s == AddVec(xa, xb)
           c == SubVec(s, xc)
<1>6. CVec(ch) = c  BY DEF CVec, CA, CB, CC
<1> HIDE DEF xa, xb, xc
<1>7. FieldList(xa, Cols) /\ FieldList(xb, Cols) /\ FieldList(xc, Cols)  BY <1>5 DEF xa, xb, xc
<1>8. Elementwise(xa, xb, 1, Cols)
  <2>1. 1 \in Int  OBVIOUS
  <2> QED BY <1>2, <1>7, <2>1, VectorOps
<1>9. FieldList(s, Cols)  BY <1>8 DEF Elementwise
<1>11. \A i \in 1 .. Cols : Cong(s[i], xa[i] + xb[i])  BY <1>8 DEF Elementwise
<1> HIDE DEF s
<1>10. Elementwise(s, xc, 1, Cols)
  <2>1. 1 \in Int  OBVIOUS
  <2> QED BY <1>2, <1>7, <1>9, <2>1, VectorOps
<1>12. ASSUME NEW i \in 1 .. Cols PROVE Cong(c[i], xa[i] + xb[i] - xc[i])
  <2> DEFINE z1 == xa[i]
             z2 == xb[i]
             z3 == xc[i]
             si == s[i]
             ci == c[i]
  <2>1. /\ z1 \in Int /\ z2 \in Int /\ z3 \in Int /\ si \in Int
        /\ Cong(si, z1 + z2) /\ Cong(ci, si - z3)
    BY <1>8, <1>10, <1>11 DEF Elementwise
  <2>2. ci \in Int
    <3>1. FieldList(c, Cols)  BY <1>10 DEF Elementwise
    <3> QED BY <3>1 DEF FieldList, Fq
  <2> HIDE DEF z1, z2, z3, si, ci
  <2>3. z1 + z2 \in Int /\ -z3 \in Int  BY <2>1
  <2>4. Cong(-z3, -z3)  BY <2>3, CongRefl
  <2>5. Cong(si + (-z3), (z1 + z2) + (-z3))  BY <2>1, <2>3, <2>4, CongAdd
  <2>6. si + (-z3) = si - z3 /\ (z1 + z2) + (-z3) = z1 + z2 - z3
        /\ si - z3 \in Int /\ z1 + z2 - z3 \in Int
    BY <2>1
  <2>7. Cong(ci, z1 + z2 - z3)  BY <2>1, <2>2, <2>5, <2>6, CongTrans
  <2> QED BY <2>7 DEF z1, z2, z3, ci
<1>13. FieldList(c, Cols)  BY <1>10 DEF Elementwise
<1>14. \A i \in 1 .. Cols : DeltaVec(ch)[i] = IF i \in 1 .. Wit THEN ch.delta ELSE 1
  BY <1>2 DEF DeltaVec, Wit
<1>15. FieldList(DeltaVec(ch), Cols)
  <2>1. \A i \in 1 .. Cols : DeltaVec(ch)[i] \in Fq  BY <1>1, <1>14, GeneratorPoint
  <2>2. IsList(DeltaVec(ch), Cols)  BY DEF DeltaVec, IsList
  <2> QED BY <2>1, <2>2 DEF FieldList
<1> HIDE DEF c
<1> QED BY <1>3, <1>5, <1>6, <1>12, <1>13, <1>14, <1>15 DEF xa, xb, xc

-----------------------------------------------------------------------------
(* The four halves of the prover's vectors, and the verifier's scalars.   *)

(* The prover's u and v, upper and lower parts. *)
UTop(ch) ==
  AddVec(AddVec(Inputs0, ScalarMul(Witness0, Inv(ch.delta))),
         ScalarMul(ExpIter(ch.alpha, Cols), Sq(ch.delta)))

UBot(ch) == SubVec(ComponentWiseMul(Az, ExpIter(ch.gamma, Rows)), ExpIter(ch.beta, Rows))

VTop(ch) == ComponentWiseMul(CVec(ch), DeltaVec(ch))

VBot(ch) == SubVec(Bz, ExpIter(ch.alpha, Rows))

(* The prover's u and v are their upper and lower halves, joined.          *)
LEMMA ProverParts ==
  ASSUME NEW ch
  PROVE  UVec(ch) = UTop(ch) \o UBot(ch) /\ VVec(ch) = VTop(ch) \o VBot(ch)
BY DEF UVec, VVec, UTop, UBot, VTop, VBot, Inputs0, Witness0, Wit, Ins

(* A sum and a difference of two congruences.                              *)
LEMMA CongSub ==
  ASSUME NEW x \in Int, NEW y \in Int, NEW v \in Int, NEW w \in Int, Cong(x, y), Cong(v, w)
  PROVE  Cong(x - v, y - w)
<1>1. PICK c \in Int : x = y + c * q  BY DEF Cong
<1>2. PICK d \in Int : v = w + d * q  BY DEF Cong
<1> DEFINE cq == c * q
           dq == d * q
<1>3. q \in Int  BY PrimeAssumption
<1>4. cq \in Int /\ dq \in Int /\ x = y + cq /\ v = w + dq  BY <1>1, <1>2, <1>3
<1>5. cq - dq = (c - d) * q  BY <1>3
<1> HIDE DEF cq, dq
<1>6. x - v = (y - w) + (cq - dq)  BY <1>4
<1> QED BY <1>5, <1>6 DEF Cong

UTopParts(ch) ==
  /\ FieldList(UTop(ch), Cols)
  /\ \A i \in 1 .. Cols :
       Cong(UTop(ch)[i],
            Inputs0[i] + Witness0[i] * Inv(ch.delta) + Exp(ch.alpha, i - 1) * Sq(ch.delta))

(* The upper part of u: inputs, witness over delta, and powers of alpha.   *)
LEMMA UTopTyped ==
  ASSUME Shaped, NEW ch, Usable(ch)
  PROVE  UTopParts(ch)
<1> DEFINE di == Inv(ch.delta)
           dd == Sq(ch.delta)
           al == ch.alpha
           ea == ExpIter(al, Cols)
           x == Inputs0
           y == Witness0
           ys == ScalarMul(y, di)
           xy == AddVec(x, ys)
           es == ScalarMul(ea, dd)
           r == AddVec(xy, es)
<1>1. Cols \in Nat  BY DEF Shaped
<1>2. di \in Int /\ dd \in Int /\ al \in Int  BY ChallengeTyped
<1>3. FieldList(x, Cols) /\ FieldList(y, Cols)  BY AssignmentTyped
<1> HIDE DEF di, dd, al, x, y
<1>4. FieldList(ea, Cols) /\ \A i \in 1 .. Cols : ea[i] = Exp(al, i - 1)
  BY <1>1, <1>2, ExpIterIs
<1> HIDE DEF ea
<1>5. Elementwise(y, y, di, Cols) /\ Elementwise(ea, ea, dd, Cols)
  BY <1>1, <1>2, <1>3, <1>4, VectorOps
<1>6. /\ FieldList(ys, Cols) /\ \A i \in 1 .. Cols : Cong(ys[i], y[i] * di)
      /\ FieldList(es, Cols) /\ \A i \in 1 .. Cols : Cong(es[i], ea[i] * dd)
      /\ \A i \in 1 .. Cols : y[i] \in Int /\ ea[i] \in Int
  BY <1>5 DEF Elementwise
<1> HIDE DEF ys, es
<1>7. Elementwise(x, ys, dd, Cols)  BY <1>1, <1>2, <1>3, <1>6, VectorOps
<1>8. /\ FieldList(xy, Cols) /\ \A i \in 1 .. Cols : Cong(xy[i], x[i] + ys[i])
      /\ \A i \in 1 .. Cols : x[i] \in Int /\ ys[i] \in Int
  BY <1>7 DEF Elementwise
<1> HIDE DEF xy
<1>9. Elementwise(xy, es, dd, Cols)  BY <1>1, <1>2, <1>6, <1>8, VectorOps
<1>10. /\ FieldList(r, Cols) /\ \A i \in 1 .. Cols : Cong(r[i], xy[i] + es[i])
       /\ \A i \in 1 .. Cols : xy[i] \in Int /\ es[i] \in Int
  BY <1>9 DEF Elementwise
<1>11. \A i \in 1 .. Cols : r[i] \in Int  BY <1>10 DEF FieldList, Fq
<1> HIDE DEF r
<1>12. ASSUME NEW i \in 1 .. Cols PROVE Cong(r[i], x[i] + y[i] * di + ea[i] * dd)
  <2> DEFINE p == y[i] * di
             e == ea[i] * dd
             xi == x[i]
             ysi == ys[i]
             esi == es[i]
             xyi == xy[i]
             ri == r[i]
  <2>1. /\ p \in Int /\ e \in Int /\ xi \in Int /\ ysi \in Int /\ esi \in Int /\ xyi \in Int
        /\ ri \in Int
        /\ Cong(ysi, p) /\ Cong(esi, e) /\ Cong(xyi, xi + ysi) /\ Cong(ri, xyi + esi)
    BY <1>2, <1>6, <1>8, <1>10, <1>11
  <2> HIDE DEF p, e, xi, ysi, esi, xyi, ri
  <2>2. xi + ysi \in Int /\ xi + p \in Int /\ xyi + esi \in Int /\ (xi + p) + e \in Int
    BY <2>1
  <2>3. Cong(xi, xi)  BY <2>1, CongRefl
  <2>4. Cong(xi + ysi, xi + p)  BY <2>1, <2>3, CongAdd
  <2>5. Cong(xyi, xi + p)  BY <2>1, <2>2, <2>4, CongTrans
  <2>6. Cong(xyi + esi, (xi + p) + e)  BY <2>1, <2>2, <2>5, CongAdd
  <2>7. Cong(ri, (xi + p) + e)  BY <2>1, <2>2, <2>6, CongTrans
  <2> QED BY <2>7 DEF p, e, xi, ri
<1>13. \A i \in 1 .. Cols : Cong(r[i], x[i] + y[i] * di + Exp(al, i - 1) * dd)
  BY <1>4, <1>12
<1> QED BY <1>10, <1>13 DEF UTopParts, UTop, r, xy, es, ys, ea, x, y, di, dd, al

LowerParts(ch) ==
  /\ FieldList(UBot(ch), Rows) /\ FieldList(VBot(ch), Rows)
  /\ \A j \in 1 .. Rows :
       /\ Cong(UBot(ch)[j], Az[j] * Exp(ch.gamma, j - 1) - Exp(ch.beta, j - 1))
       /\ Cong(VBot(ch)[j], Bz[j] - Exp(ch.alpha, j - 1))

(* The lower parts: Az under powers of gamma less powers of beta, and Bz   *)
(* less powers of alpha.                                                   *)
LEMMA LowerTyped ==
  ASSUME Shaped, NEW ch, Usable(ch)
  PROVE  LowerParts(ch)
<1> DEFINE eg == ExpIter(ch.gamma, Rows)
           eb == ExpIter(ch.beta, Rows)
           ea == ExpIter(ch.alpha, Rows)
           x == Az
           y == Bz
           xg == ComponentWiseMul(x, eg)
           r == SubVec(xg, eb)
           s == SubVec(y, ea)
<1>1. Rows \in Nat /\ 1 \in Int  BY DEF Shaped
<1>2. ch.alpha \in Int /\ ch.beta \in Int /\ ch.gamma \in Int  BY ChallengeTyped
<1>3. FieldList(x, Rows) /\ FieldList(y, Rows)  BY ProductsTyped
<1> HIDE DEF x, y
<1>4. /\ FieldList(eg, Rows) /\ \A i \in 1 .. Rows : eg[i] = Exp(ch.gamma, i - 1)
      /\ FieldList(eb, Rows) /\ \A i \in 1 .. Rows : eb[i] = Exp(ch.beta, i - 1)
      /\ FieldList(ea, Rows) /\ \A i \in 1 .. Rows : ea[i] = Exp(ch.alpha, i - 1)
  BY <1>1, <1>2, ExpIterIs
<1> HIDE DEF ea, eb, eg
<1>5. Elementwise(x, eg, 1, Rows) /\ Elementwise(y, ea, 1, Rows)
  BY <1>1, <1>3, <1>4, VectorOps
<1>6. /\ FieldList(xg, Rows) /\ \A i \in 1 .. Rows : Cong(xg[i], x[i] * eg[i])
      /\ FieldList(s, Rows) /\ \A i \in 1 .. Rows : Cong(s[i], y[i] - ea[i])
      /\ \A i \in 1 .. Rows : x[i] \in Int /\ eg[i] \in Int
  BY <1>5 DEF Elementwise
<1> HIDE DEF xg, s
<1>7. Elementwise(xg, eb, 1, Rows)  BY <1>1, <1>4, <1>6, VectorOps
<1>8. /\ FieldList(r, Rows) /\ \A i \in 1 .. Rows : Cong(r[i], xg[i] - eb[i])
      /\ \A i \in 1 .. Rows : xg[i] \in Int /\ eb[i] \in Int
  BY <1>7 DEF Elementwise
<1>9. \A i \in 1 .. Rows : r[i] \in Int  BY <1>8 DEF FieldList, Fq
<1> HIDE DEF r
<1>10. ASSUME NEW i \in 1 .. Rows PROVE Cong(r[i], x[i] * eg[i] - eb[i])
  <2> DEFINE p == x[i] * eg[i]
             xgi == xg[i]
             ebi == eb[i]
             ri == r[i]
  <2>1. /\ p \in Int /\ xgi \in Int /\ ebi \in Int /\ ri \in Int
        /\ Cong(xgi, p) /\ Cong(ri, xgi - ebi)
    BY <1>6, <1>8, <1>9
  <2> HIDE DEF p, xgi, ebi, ri
  <2>2. Cong(ebi, ebi)  BY <2>1, CongRefl
  <2>3. Cong(xgi - ebi, p - ebi) /\ xgi - ebi \in Int /\ p - ebi \in Int
    BY <2>1, <2>2, CongSub
  <2>4. Cong(ri, p - ebi)  BY <2>1, <2>3, CongTrans
  <2> QED BY <2>4 DEF p, ebi, ri
<1>11. \A j \in 1 .. Rows : /\ Cong(r[j], x[j] * Exp(ch.gamma, j - 1) - Exp(ch.beta, j - 1))
                            /\ Cong(s[j], y[j] - Exp(ch.alpha, j - 1))
  BY <1>4, <1>6, <1>10
<1> QED BY <1>6, <1>8, <1>11 DEF LowerParts, UBot, VBot, r, s, xg, ea, eb, eg, x, y

(* The verifier's scalars over G before the factors, and below over H. *)
GTop(ch) == ScalarMul(ExpIter(ch.alpha, Cols), Sq(ch.delta))

GBot(ch) == ScalarMul(ExpIter(ch.beta, Rows), q - 1)

HBot(ch) == ScalarMul(ExpIter(ch.alpha, Rows), q - 1)

VerifierParts(ch) ==
  /\ FieldList(VTop(ch), Cols)
  /\ \A i \in 1 .. Cols : Cong(VTop(ch)[i], CVec(ch)[i] * DeltaVec(ch)[i])
  /\ FieldList(GTop(ch), Cols) /\ FieldList(GBot(ch), Rows) /\ FieldList(HBot(ch), Rows)
  /\ \A i \in 1 .. Cols : Cong(GTop(ch)[i], Exp(ch.alpha, i - 1) * Sq(ch.delta))
  /\ \A j \in 1 .. Rows : /\ Cong(GBot(ch)[j], -Exp(ch.beta, j - 1))
                          /\ Cong(HBot(ch)[j], -Exp(ch.alpha, j - 1))

(* They are the public parts of u and v.                                   *)
LEMMA VerifierTyped ==
  ASSUME Shaped, NEW ch, Usable(ch)
  PROVE  VerifierParts(ch)
<1> DEFINE eb == ExpIter(ch.beta, Rows)
           ea == ExpIter(ch.alpha, Rows)
           ec == ExpIter(ch.alpha, Cols)
           dd == Sq(ch.delta)
           m == q - 1
<1>1. Rows \in Nat /\ Cols \in Nat /\ 1 \in Int  BY DEF Shaped
<1>2. ch.alpha \in Int /\ ch.beta \in Int /\ dd \in Int /\ m \in Int
  BY ChallengeTyped, PrimeAssumption
<1>3. /\ FieldList(eb, Rows) /\ \A i \in 1 .. Rows : eb[i] = Exp(ch.beta, i - 1)
      /\ FieldList(ea, Rows) /\ \A i \in 1 .. Rows : ea[i] = Exp(ch.alpha, i - 1)
      /\ FieldList(ec, Cols) /\ \A i \in 1 .. Cols : ec[i] = Exp(ch.alpha, i - 1)
  BY <1>1, <1>2, ExpIterIs
<1> HIDE DEF ea, eb, ec, dd, m
<1>4. FieldList(CVec(ch), Cols) /\ FieldList(DeltaVec(ch), Cols)  BY PublicTyped
<1>5. /\ Elementwise(eb, eb, m, Rows) /\ Elementwise(ea, ea, m, Rows)
      /\ Elementwise(ec, ec, dd, Cols) /\ Elementwise(CVec(ch), DeltaVec(ch), 1, Cols)
  BY <1>1, <1>2, <1>3, <1>4, VectorOps
<1>6. /\ FieldList(ScalarMul(eb, m), Rows) /\ FieldList(ScalarMul(ea, m), Rows)
      /\ FieldList(ScalarMul(ec, dd), Cols)
      /\ FieldList(ComponentWiseMul(CVec(ch), DeltaVec(ch)), Cols)
      /\ \A i \in 1 .. Cols : /\ Cong(ScalarMul(ec, dd)[i], ec[i] * dd)
                              /\ Cong(ComponentWiseMul(CVec(ch), DeltaVec(ch))[i],
                                      CVec(ch)[i] * DeltaVec(ch)[i])
      /\ \A j \in 1 .. Rows : eb[j] \in Int /\ ea[j] \in Int
  BY <1>5 DEF Elementwise
<1>7. \A j \in 1 .. Rows : /\ ScalarMul(eb, m)[j] = (eb[j] * m) % q
                           /\ ScalarMul(ea, m)[j] = (ea[j] * m) % q
  BY <1>3 DEF ScalarMul, FieldList, IsList
<1>8. ASSUME NEW x \in Int PROVE Cong((x * m) % q, -x)
  <2>1. x * m = (q - 1) * x  BY PrimeAssumption DEF m
  <2> QED BY <2>1, CongMinus
<1>9. \A j \in 1 .. Rows : /\ Cong(ScalarMul(eb, m)[j], -eb[j])
                           /\ Cong(ScalarMul(ea, m)[j], -ea[j])
  BY <1>6, <1>7, <1>8
<1> QED BY <1>3, <1>6, <1>9 DEF VerifierParts, VTop, GTop, GBot, HBot, ea, eb, ec, dd, m

-----------------------------------------------------------------------------
(* The scalars of the commitments, and lists joined.                      *)

(* Commitments' scalars over G and H, padded to the size of the instance. *)
SOverG == Zeros(Cols) \o Az

SOverH == Zeros(Cols) \o Bz

IOverG == Inputs0 \o Zeros(Rows)

TOverG == stmt.witness \o Zeros(Size - Wit)

(* Two lists joined, seen from an index of the first or of the second. *)
Parts(r, s, k, t, l) ==
  /\ FieldList(r, k + l)
  /\ \A i \in 1 .. k : i \in 1 .. k + l /\ r[i] = s[i]
  /\ \A j \in 1 .. l : k + j \in 1 .. k + l /\ r[k + j] = t[j]

(* The join of two lists of field elements, seen from its two parts.       *)
LEMMA JoinParts ==
  ASSUME NEW k \in Nat, NEW l \in Nat, NEW s, NEW t, FieldList(s, k), FieldList(t, l)
  PROVE  Parts(s \o t, s, k, t, l)
<1>1. JoinsAt(s, t, k, l)  BY FieldJoin
<1>2. \A i \in 1 .. k : i \in 1 .. k + l  OBVIOUS
<1> QED BY <1>1, <1>2 DEF JoinsAt, Parts

(* The scalars of the three commitments.                                   *)
LEMMA CommittedTyped ==
  ASSUME Shaped
  PROVE  /\ FieldList(Zeros(Rows), Rows) /\ \A j \in 1 .. Rows : Zeros(Rows)[j] = 0
         /\ FieldList(Zeros(Cols), Cols) /\ \A i \in 1 .. Cols : Zeros(Cols)[i] = 0
         /\ Parts(SOverG, Zeros(Cols), Cols, Az, Rows)
         /\ Parts(SOverH, Zeros(Cols), Cols, Bz, Rows)
         /\ Parts(IOverG, Inputs0, Cols, Zeros(Rows), Rows)
         /\ Parts(TOverG, Witness0, Cols, Zeros(Rows), Rows)
<1>1. /\ Rows \in Nat /\ Cols \in Nat /\ Wit \in Nat /\ Ins \in Nat /\ Cols = Wit + Ins
      /\ Size = Cols + Rows /\ FieldList(stmt.witness, Wit)
  BY DEF Shaped
<1>2. /\ FieldList(Zeros(Rows), Rows) /\ \A j \in 1 .. Rows : Zeros(Rows)[j] = 0
      /\ FieldList(Zeros(Cols), Cols) /\ \A i \in 1 .. Cols : Zeros(Cols)[i] = 0
  BY <1>1, ZerosList
<1>3. /\ FieldList(Az, Rows) /\ FieldList(Bz, Rows) /\ FieldList(Inputs0, Cols)
      /\ FieldList(Witness0, Cols)
  BY ProductsTyped, AssignmentTyped
<1>4. Parts(TOverG, Witness0, Cols, Zeros(Rows), Rows)
  <2> DEFINE m == Size - Wit
             zs == Zeros(m)
  <2>1. m \in Nat /\ m = Ins + Rows  BY <1>1
  <2>2. FieldList(zs, m) /\ \A i \in 1 .. m : zs[i] = 0  BY <2>1, ZerosList
  <2> HIDE DEF m, zs
  <2>3. JoinsAt(stmt.witness, zs, Wit, m)  BY <1>1, <2>1, <2>2, FieldJoin
  <2>4. TOverG = stmt.witness \o zs  BY DEF TOverG, zs, m
  <2>5. Wit + m = Cols + Rows  BY <1>1, <2>1
  <2>6. FieldList(TOverG, Cols + Rows)  BY <2>3, <2>4, <2>5 DEF JoinsAt
  <2>7. ASSUME NEW i \in 1 .. Cols PROVE i \in 1 .. Cols + Rows /\ TOverG[i] = Witness0[i]
    <3>1. i \in 1 .. Cols + Rows  BY <1>1
    <3>2. CASE i \in 1 .. Wit
      <4>1. TOverG[i] = stmt.witness[i]  BY <2>3, <2>4, <3>2 DEF JoinsAt
      <4>2. Witness0[i] = stmt.witness[i]  BY <3>2, AssignmentTyped
      <4> QED BY <3>1, <4>1, <4>2
    <3>3. CASE i \notin 1 .. Wit
      <4>1. i \in 1 .. Wit + m  BY <2>5, <3>1
      <4>2. TOverG[i] = 0  BY <2>2, <2>3, <2>4, <3>3, <4>1 DEF JoinsAt
      <4>3. Witness0[i] = 0  BY <3>3, AssignmentTyped
      <4> QED BY <3>1, <4>2, <4>3
    <3> QED BY <3>2, <3>3
  <2>8. ASSUME NEW j \in 1 .. Rows
        PROVE  Cols + j \in 1 .. Cols + Rows /\ TOverG[Cols + j] = Zeros(Rows)[j]
    <3>1. Cols + j \in 1 .. Cols + Rows /\ Cols + j \notin 1 .. Wit /\ Cols + j \in 1 .. Wit + m
      BY <1>1, <2>5
    <3>2. TOverG[Cols + j] = 0
      <4> DEFINE i == Cols + j
      <4>1. i \in 1 .. Wit + m /\ i \notin 1 .. Wit  BY <3>1
      <4> HIDE DEF i
      <4>2. TOverG[i] = 0  BY <2>2, <2>3, <2>4, <4>1 DEF JoinsAt
      <4> QED BY <4>2 DEF i
    <3> QED BY <1>2, <3>1, <3>2
  <2> QED BY <2>6, <2>7, <2>8 DEF Parts
<1> QED BY <1>1, <1>2, <1>3, <1>4, JoinParts DEF SOverG, SOverH, IOverG

OnesTo(k) == [i \in 1 .. k |-> 1]

(* The factors of G': ones, then the powers of gamma's inverse.            *)
LEMMA FactorsTyped ==
  ASSUME Shaped, NEW ch, Usable(ch)
  PROVE  LET f == GprimeFactors(ch)
         IN  /\ FieldList(f, Size) /\ FieldList(OnesTo(Size), Size)
             /\ \A i \in 1 .. Size : OnesTo(Size)[i] = 1
             /\ \A i \in 1 .. Cols : f[i] = 1
             /\ \A j \in 1 .. Rows : f[Cols + j] = Exp(Inv(ch.gamma), j - 1)
<1> DEFINE g == Inv(ch.gamma)
           s == OnesTo(Cols)
           t == ExpIter(g, Rows)
<1>1. Rows \in Nat /\ Cols \in Nat /\ Size = Cols + Rows /\ Size \in Nat  BY DEF Shaped
<1>2. g \in Int  BY ChallengeTyped
<1> HIDE DEF g
<1>3. FieldList(t, Rows) /\ \A j \in 1 .. Rows : t[j] = Exp(g, j - 1)  BY <1>1, <1>2, ExpIterIs
<1>4. \A k \in Nat : FieldList(OnesTo(k), k) /\ \A i \in 1 .. k : OnesTo(k)[i] = 1
  BY GeneratorPoint DEF OnesTo, FieldList, IsList
<1>5. FieldList(s, Cols) /\ \A i \in 1 .. Cols : s[i] = 1  BY <1>1, <1>4
<1>6. GprimeFactors(ch) = s \o t  BY DEF GprimeFactors, OnesTo, g
<1> HIDE DEF s, t
<1>7. Parts(s \o t, s, Cols, t, Rows)  BY <1>1, <1>3, <1>5, JoinParts
<1> QED BY <1>1, <1>3, <1>4, <1>5, <1>6, <1>7 DEF Parts, g

(* The prover's factored entry below and the verifier's scalar differ by   *)
(* the entry of Az: the powers of gamma and of its inverse cancel.         *)
LEMMA FactoredEntry ==
  ASSUME NEW x \in Int, NEW c \in Int, NEW f \in Int, NEW p \in Int, NEW u \in Int, NEW s \in Int,
         NEW r \in Int, NEW t \in Int, Cong(c * f, 1), Cong(u, x * c - p), Cong(s, -p),
         Cong(r, u * f), Cong(t, s * f)
  PROVE  Cong(r, x + t)
<1> DEFINE xc == x * c
           uf == u * f
           sf == s * f
           pf == p * f
           cf == c * f
           xcf == x * cf
<1>1. xc \in Int /\ uf \in Int /\ sf \in Int /\ pf \in Int /\ cf \in Int /\ xcf \in Int  OBVIOUS
<1>2. xc - p \in Int /\ -p \in Int  BY <1>1
<1>3. Cong(uf, (xc - p) * f)
  <2> DEFINE y == xc - p
  <2>1. y \in Int /\ Cong(u, y)  BY <1>2
  <2> HIDE DEF y
  <2>2. Cong(u * f, y * f)  BY <2>1, CongScaled
  <2> QED BY <2>2 DEF y
<1>4. (xc - p) * f = xcf - pf
  <2>1. (x * c) * f = x * (c * f)  OBVIOUS
  <2>2. (xc - p) * f = xc * f - p * f
    <3> HIDE DEF xc
    <3> QED BY <1>1
  <2> QED BY <2>1, <2>2
<1>5. Cong(sf, -pf)
  <2> DEFINE y == -p
  <2>1. y \in Int /\ Cong(s, y)  BY <1>2
  <2>3. y * f = -pf  OBVIOUS
  <2> HIDE DEF y
  <2>2. Cong(s * f, y * f)  BY <2>1, CongScaled
  <2> QED BY <2>2, <2>3
<1>6. Cong(xcf, x)
  <2>1. Cong(x, x)  BY CongRefl
  <2>2. Cong(x * cf, x * 1)
    <3>1. Cong(cf, 1) /\ 1 \in Int  OBVIOUS
    <3> HIDE DEF cf
    <3> QED BY <1>1, <2>1, <3>1, CongMul
  <2> QED BY <2>2
<1>7. Cong(uf, xcf - pf) /\ Cong(r, uf) /\ Cong(t, sf)  BY <1>3, <1>4
<1> HIDE DEF xc, uf, sf, pf, cf, xcf
<1>8. -pf \in Int /\ xcf - pf \in Int /\ xcf - pf = xcf + (-pf) /\ x + t \in Int /\ x + sf \in Int
  BY <1>1
<1>9. Cong(-pf, sf)  BY <1>1, <1>5, <1>8, CongSym
<1>10. Cong(sf, t)  BY <1>1, <1>7, CongSym
<1>11. Cong(-pf, t)  BY <1>1, <1>8, <1>9, <1>10, CongTrans
<1>12. Cong(xcf + (-pf), x + t)  BY <1>1, <1>6, <1>8, <1>11, CongAdd
<1>13. Cong(r, xcf - pf)  BY <1>1, <1>7, <1>8, CongTrans
<1>14. Cong(xcf - pf, x + t)  BY <1>8, <1>12
<1> QED BY <1>8, <1>13, <1>14, CongTrans

(* The verifier's scalars over G, factors included, and over H. *)
GScalars(ch) == ComponentWiseMul(GTop(ch) \o GBot(ch), GprimeFactors(ch))

HScalars(ch) == VTop(ch) \o HBot(ch)

(* u and v are lists of the instance's size.                               *)
LEMMA FullVectors ==
  ASSUME Shaped, NEW ch, Usable(ch)
  PROVE  /\ Parts(UVec(ch), UTop(ch), Cols, UBot(ch), Rows) /\ FieldList(UVec(ch), Size)
         /\ Parts(VVec(ch), VTop(ch), Cols, VBot(ch), Rows) /\ FieldList(VVec(ch), Size)
         /\ Parts(GTop(ch) \o GBot(ch), GTop(ch), Cols, GBot(ch), Rows)
         /\ Parts(HScalars(ch), VTop(ch), Cols, HBot(ch), Rows) /\ FieldList(HScalars(ch), Size)
         /\ FieldList(GScalars(ch), Size)
         /\ \A i \in 1 .. Size :
              Cong(GScalars(ch)[i], (GTop(ch) \o GBot(ch))[i] * GprimeFactors(ch)[i])
<1>1. Rows \in Nat /\ Cols \in Nat /\ Size = Cols + Rows /\ Size \in Nat  BY DEF Shaped
<1>2. FieldList(UTop(ch), Cols) /\ FieldList(UBot(ch), Rows) /\ FieldList(VBot(ch), Rows)
  BY UTopTyped, LowerTyped DEF UTopParts, LowerParts
<1>3. /\ FieldList(VTop(ch), Cols) /\ FieldList(GTop(ch), Cols) /\ FieldList(GBot(ch), Rows)
      /\ FieldList(HBot(ch), Rows)
  BY VerifierTyped DEF VerifierParts
<1>4. /\ Parts(UTop(ch) \o UBot(ch), UTop(ch), Cols, UBot(ch), Rows)
      /\ Parts(VTop(ch) \o VBot(ch), VTop(ch), Cols, VBot(ch), Rows)
      /\ Parts(GTop(ch) \o GBot(ch), GTop(ch), Cols, GBot(ch), Rows)
      /\ Parts(VTop(ch) \o HBot(ch), VTop(ch), Cols, HBot(ch), Rows)
  BY <1>1, <1>2, <1>3, JoinParts
<1>5. FieldList(GTop(ch) \o GBot(ch), Size)  BY <1>1, <1>4 DEF Parts
<1>6. FieldList(GprimeFactors(ch), Size)  BY FactorsTyped
<1>7. Elementwise(GTop(ch) \o GBot(ch), GprimeFactors(ch), 1, Size)
  <2>1. 1 \in Int  OBVIOUS
  <2> QED BY <1>1, <1>5, <1>6, <2>1, VectorOps
<1>8. /\ FieldList(GScalars(ch), Size)
      /\ \A i \in 1 .. Size :
           Cong(GScalars(ch)[i], (GTop(ch) \o GBot(ch))[i] * GprimeFactors(ch)[i])
  BY <1>7 DEF Elementwise, GScalars
<1>9. FieldList(UVec(ch), Size) /\ FieldList(VVec(ch), Size) /\ FieldList(HScalars(ch), Size)
  BY <1>1, <1>4, ProverParts DEF Parts, HScalars
<1> QED BY <1>4, <1>8, <1>9, ProverParts DEF HScalars

-----------------------------------------------------------------------------
(* Scalar by scalar, the prover's side is the verifier's.                 *)

(* What the verifier's scalars over G, with the commitments' own, give of  *)
(* the prover's scalar.                                                    *)
GSideAt(ch, i) ==
  Cong(ComponentWiseMul(UVec(ch), GprimeFactors(ch))[i],
       IOverG[i] + SOverG[i] + GScalars(ch)[i] + Inv(ch.delta) * TOverG[i])

GSide(ch) ==
  LET r == ComponentWiseMul(UVec(ch), GprimeFactors(ch))
  IN  /\ FieldList(r, Size) /\ FieldList(IOverG, Size) /\ FieldList(SOverG, Size)
      /\ FieldList(GScalars(ch), Size) /\ FieldList(TOverG, Size)
      /\ \A i \in 1 .. Size : GSideAt(ch, i)

(* Over a base of an upper part, where the factor is 1: inputs, witness    *)
(* over delta, and the public powers of alpha.                             *)
LEMMA GSideTop ==
  ASSUME Shaped, NEW ch, Usable(ch), NEW i \in 1 .. Cols
  PROVE  GSideAt(ch, i)
<1> DEFINE f == GprimeFactors(ch)
           gg == GTop(ch) \o GBot(ch)
           r == ComponentWiseMul(UVec(ch), f)
           di == Inv(ch.delta)
           dd == Sq(ch.delta)
           p == Exp(ch.alpha, i - 1)
           pd == p * dd
           ri == r[i]
           ui == UVec(ch)[i]
           vi == UTop(ch)[i]
           ti == GTop(ch)[i]
           gi == GScalars(ch)[i]
           x == Inputs0[i]
           y == Witness0[i]
           yd == y * di
<1>1. Rows \in Nat /\ Cols \in Nat /\ Size = Cols + Rows /\ Size \in Nat  BY DEF Shaped
<1>2. i \in 1 .. Size  BY <1>1
<1>3. di \in Int /\ dd \in Int /\ ch.alpha \in Int /\ 1 \in Int  BY ChallengeTyped
<1>4. f[i] = 1 /\ FieldList(f, Size)  BY FactorsTyped
<1>5. /\ FieldList(UVec(ch), Size) /\ ui = vi
      /\ gg[i] = ti /\ Cong(gi, gg[i] * f[i]) /\ FieldList(GScalars(ch), Size)
  BY <1>2, FullVectors DEF Parts
<1>6. Cong(vi, x + yd + pd) /\ FieldList(UTop(ch), Cols)
  BY UTopTyped DEF UTopParts
<1>7. Cong(ti, pd) /\ FieldList(GTop(ch), Cols)  BY VerifierTyped DEF VerifierParts
<1>8. Elementwise(UVec(ch), f, 1, Size)  BY <1>1, <1>3, <1>4, <1>5, VectorOps
<1>9. Cong(ri, ui * f[i]) /\ FieldList(r, Size)  BY <1>2, <1>8 DEF Elementwise
<1>10. FieldList(Inputs0, Cols) /\ FieldList(Witness0, Cols)  BY AssignmentTyped
<1>11. Fq \subseteq Int  BY PrimeAssumption DEF Fq
<1>12. ri \in Int /\ vi \in Int /\ ti \in Int /\ gi \in Int /\ x \in Int /\ y \in Int
  BY <1>2, <1>5, <1>6, <1>7, <1>9, <1>10, <1>11 DEF FieldList
<1>13. yd \in Int  BY <1>3, <1>12
<1>14. p \in Int
  <2>1. FieldList(ExpIter(ch.alpha, Cols), Cols) /\ ExpIter(ch.alpha, Cols)[i] = p
    BY <1>1, <1>3, ExpIterIs
  <2> QED BY <2>1, <1>11 DEF FieldList
<1>15. pd \in Int  BY <1>3, <1>14
<1>16. /\ IOverG[i] = x /\ SOverG[i] = 0 /\ TOverG[i] = y
  BY CommittedTyped DEF Parts
<1>17. Cong(ri, vi) /\ Cong(gi, ti)
  <2>1. ui * f[i] = vi /\ gg[i] * f[i] = ti  BY <1>4, <1>5, <1>12
  <2> QED BY <1>5, <1>9, <2>1
<1> HIDE DEF ri, ui, vi, ti, gi, x, y, yd, pd, di
<1>18. Cong(ri, x + yd + pd)
  <2>1. x + yd + pd \in Int  BY <1>12, <1>13, <1>15
  <2> QED BY <1>6, <1>12, <1>17, <2>1, CongTrans
<1>19. Cong(pd, gi)
  <2>1. Cong(gi, pd)  BY <1>7, <1>12, <1>15, <1>17, CongTrans
  <2> QED BY <1>12, <1>15, <2>1, CongSym
<1>20. Cong((x + yd) + pd, (x + yd) + gi)
  <2>1. x + yd \in Int  BY <1>12, <1>13
  <2>2. Cong(x + yd, x + yd)  BY <2>1, CongRefl
  <2> QED BY <1>12, <1>15, <1>19, <2>1, <2>2, CongAdd
<1>21. Cong(ri, (x + yd) + gi)
  <2>1. (x + yd) + pd \in Int /\ (x + yd) + gi \in Int  BY <1>12, <1>13, <1>15
  <2> QED BY <1>12, <1>18, <1>20, <2>1, CongTrans
<1>22. x + 0 + gi + di * y = (x + yd) + gi
  <2>1. di * y = yd  BY <1>3, <1>12 DEF yd
  <2>2. x + 0 + gi + yd = (x + yd) + gi  BY <1>12, <1>13
  <2> QED BY <2>1, <2>2
<1> QED BY <1>16, <1>21, <1>22 DEF GSideAt, ri, gi, di, r, f

(* Over a base of a lower part: Az, the powers of gamma cancelling.        *)
LEMMA GSideBottom ==
  ASSUME Shaped, NEW ch, Usable(ch), NEW j \in 1 .. Rows
  PROVE  GSideAt(ch, Cols + j)
<1> DEFINE i == Cols + j
           f == GprimeFactors(ch)
           gg == GTop(ch) \o GBot(ch)
           r == ComponentWiseMul(UVec(ch), f)
           di == Inv(ch.delta)
           gin == Inv(ch.gamma)
           ri == r[i]
           ui == UVec(ch)[i]
           si == gg[i]
           fi == f[i]
           ti == GScalars(ch)[i]
           x == Az[j]
           c == Exp(ch.gamma, j - 1)
           p == Exp(ch.beta, j - 1)
<1>1. Rows \in Nat /\ Cols \in Nat /\ Size = Cols + Rows /\ Size \in Nat  BY DEF Shaped
<1>2. i \in 1 .. Size /\ j - 1 \in Nat  BY <1>1
<1>3. /\ di \in Int /\ gin \in Int /\ ch.gamma \in Fq /\ ch.gamma \in Int /\ ch.gamma # 0
      /\ ch.beta \in Int /\ 1 \in Int
  BY ChallengeTyped
<1>4. fi = Exp(gin, j - 1) /\ FieldList(f, Size)  BY FactorsTyped
<1>5. /\ FieldList(UVec(ch), Size) /\ ui = UBot(ch)[j]
      /\ si = GBot(ch)[j] /\ FieldList(GScalars(ch), Size)
  BY FullVectors DEF Parts
<1>6. /\ FieldList(UBot(ch), Rows) /\ Cong(UBot(ch)[j], x * c - p)
  BY LowerTyped DEF LowerParts
<1>7. FieldList(GBot(ch), Rows) /\ Cong(GBot(ch)[j], -p)  BY VerifierTyped DEF VerifierParts
<1>8. Elementwise(UVec(ch), f, 1, Size)  BY <1>1, <1>3, <1>4, <1>5, VectorOps
<1>9. Fq \subseteq Int  BY PrimeAssumption DEF Fq
<1>10. FieldList(Az, Rows)  BY ProductsTyped
<1>11. c \in Int /\ p \in Int /\ Cong(c * Exp(gin, j - 1), 1)
  <2>1. FieldList(ExpIter(ch.gamma, Rows), Rows) /\ ExpIter(ch.gamma, Rows)[j] = c
    BY <1>1, <1>3, ExpIterIs
  <2>2. FieldList(ExpIter(ch.beta, Rows), Rows) /\ ExpIter(ch.beta, Rows)[j] = p
    BY <1>1, <1>3, ExpIterIs
  <2>3. Cong(c * Exp(gin, j - 1), 1)  BY <1>2, <1>3, ExpInverse
  <2> QED BY <1>9, <2>1, <2>2, <2>3 DEF FieldList
<1>12. IOverG[i] = 0 /\ SOverG[i] = x /\ TOverG[i] = 0  BY CommittedTyped DEF Parts
<1> HIDE DEF i, c, p
<1>13. Cong(ti, si * fi)  BY <1>2, FullVectors
<1>14. Cong(ri, ui * fi) /\ FieldList(r, Size)  BY <1>2, <1>8 DEF Elementwise
<1>15. ri \in Int /\ ui \in Int /\ si \in Int /\ fi \in Int /\ ti \in Int /\ x \in Int
  <2>1. ri \in Fq  BY <1>2, <1>14 DEF FieldList
  <2>2. fi \in Fq  BY <1>2, <1>4 DEF FieldList
  <2>3. ui \in Fq /\ ti \in Fq  BY <1>2, <1>5 DEF FieldList
  <2>4. si \in Fq  BY <1>5, <1>7 DEF FieldList
  <2>5. x \in Fq  BY <1>10 DEF FieldList
  <2> QED BY <1>9, <2>1, <2>2, <2>3, <2>4, <2>5
<1>16. Cong(c * fi, 1) /\ Cong(ui, x * c - p) /\ Cong(si, -p)  BY <1>4, <1>5, <1>6, <1>7, <1>11
<1> HIDE DEF ri, ui, si, fi, ti, x, di
<1>17. Cong(ri, x + ti)  BY <1>11, <1>13, <1>14, <1>15, <1>16, FactoredEntry
<1>18. 0 + x + ti + di * 0 = x + ti  BY <1>3, <1>15
<1>19. Cong(ri, IOverG[i] + SOverG[i] + ti + di * TOverG[i])  BY <1>12, <1>17, <1>18
<1>20. GSideAt(ch, i)  BY <1>19 DEF GSideAt, ri, ti, di, r, f
<1> QED BY <1>20 DEF i

(* An index of a full vector is in its upper or in its lower part.         *)
LEMMA UpperOrLower ==
  ASSUME Shaped, NEW i \in 1 .. Size
  PROVE  i \in 1 .. Cols \/ \E j \in 1 .. Rows : i = Cols + j
<1>1. Rows \in Nat /\ Cols \in Nat /\ Size = Cols + Rows  BY DEF Shaped
<1> SUFFICES ASSUME i \notin 1 .. Cols PROVE \E j \in 1 .. Rows : i = Cols + j
  OBVIOUS
<1>2. i - Cols \in 1 .. Rows /\ i = Cols + (i - Cols)  BY <1>1
<1> QED BY <1>2

(* Every scalar of the prover over G is what the verifier assembles.       *)
LEMMA GSideHolds ==
  ASSUME Shaped, NEW ch, Usable(ch)
  PROVE  GSide(ch)
<1> DEFINE f == GprimeFactors(ch)
           r == ComponentWiseMul(UVec(ch), f)
<1>1. Rows \in Nat /\ Cols \in Nat /\ Size = Cols + Rows /\ Size \in Nat /\ 1 \in Int
  BY DEF Shaped
<1>2. FieldList(UVec(ch), Size) /\ FieldList(GScalars(ch), Size)  BY FullVectors
<1>3. FieldList(f, Size)  BY FactorsTyped
<1>4. Elementwise(UVec(ch), f, 1, Size)  BY <1>1, <1>2, <1>3, VectorOps
<1>5. FieldList(r, Size)  BY <1>4 DEF Elementwise
<1>6. FieldList(IOverG, Size) /\ FieldList(SOverG, Size) /\ FieldList(TOverG, Size)
  BY <1>1, CommittedTyped DEF Parts
<1>7. ASSUME NEW i \in 1 .. Size PROVE GSideAt(ch, i)
  <2>1. CASE i \in 1 .. Cols  BY <2>1, GSideTop
  <2>2. CASE \E j \in 1 .. Rows : i = Cols + j  BY <2>2, GSideBottom
  <2> QED BY <2>1, <2>2, UpperOrLower
<1> QED BY <1>2, <1>5, <1>6, <1>7 DEF GSide

HSide(ch) ==
  LET r == ComponentWiseMul(VVec(ch), OnesTo(Size))
  IN  /\ FieldList(r, Size) /\ FieldList(SOverH, Size) /\ FieldList(HScalars(ch), Size)
      /\ \A i \in 1 .. Size : Cong(r[i], SOverH[i] + HScalars(ch)[i])

(* And over H, where the factors are ones: c scaled above, Bz below.       *)
LEMMA HSideHolds ==
  ASSUME Shaped, NEW ch, Usable(ch)
  PROVE  HSide(ch)
<1> DEFINE f == OnesTo(Size)
           x == VVec(ch)
           r == ComponentWiseMul(x, f)
           h == HScalars(ch)
<1>1. Rows \in Nat /\ Cols \in Nat /\ Size = Cols + Rows /\ Size \in Nat /\ 1 \in Int
  BY DEF Shaped
<1>2. FieldList(x, Size) /\ FieldList(h, Size)  BY FullVectors
<1>3. FieldList(f, Size) /\ \A i \in 1 .. Size : f[i] = 1  BY FactorsTyped
<1>4. Elementwise(x, f, 1, Size)  BY <1>1, <1>2, <1>3, VectorOps
<1>5. FieldList(r, Size) /\ \A i \in 1 .. Size : Cong(r[i], x[i] * f[i]) /\ x[i] \in Int
  BY <1>4 DEF Elementwise
<1>6. \A i \in 1 .. Size : Cong(r[i], x[i])
  <2>1. ASSUME NEW i \in 1 .. Size PROVE Cong(r[i], x[i])
    <3>1. x[i] * f[i] = x[i]
      <4> HIDE DEF x
      <4>1. f[i] = 1 /\ x[i] \in Int  BY <1>3, <1>5
      <4> QED BY <4>1
    <3> QED BY <1>5, <3>1
  <2> QED BY <2>1
<1>7. FieldList(SOverH, Size)  BY <1>1, CommittedTyped DEF Parts
<1>8. Fq \subseteq Int  BY PrimeAssumption DEF Fq
<1> HIDE DEF r
<1>9. ASSUME NEW i \in 1 .. Size PROVE Cong(r[i], SOverH[i] + h[i])
  <2>1. CASE i \in 1 .. Cols
    <3>1. SOverH[i] = 0  BY <2>1, CommittedTyped DEF Parts
    <3>2. x[i] = VTop(ch)[i] /\ h[i] = VTop(ch)[i]  BY <2>1, FullVectors DEF Parts
    <3>3. h[i] \in Int  BY <1>2, <1>8 DEF FieldList
    <3>4. SOverH[i] + h[i] = h[i]  BY <3>1, <3>3
    <3> QED BY <1>6, <3>2, <3>4
  <2>2. CASE \E j \in 1 .. Rows : i = Cols + j
    <3>1. PICK j \in 1 .. Rows : i = Cols + j  BY <2>2
    <3> DEFINE xb == VBot(ch)[j]
               bz == Bz[j]
               p == Exp(ch.alpha, j - 1)
               hb == HBot(ch)[j]
               ri == r[i]
    <3>2. SOverH[i] = bz  BY <3>1, CommittedTyped DEF Parts
    <3>3. x[i] = xb /\ h[i] = hb  BY <3>1, FullVectors DEF Parts
    <3>4. Cong(xb, bz - p) /\ FieldList(VBot(ch), Rows)  BY LowerTyped DEF LowerParts
    <3>5. Cong(hb, -p) /\ FieldList(HBot(ch), Rows)  BY VerifierTyped DEF VerifierParts
    <3>6. FieldList(Bz, Rows)  BY ProductsTyped
    <3>7. ch.alpha \in Int  BY ChallengeTyped
    <3>8. FieldList(ExpIter(ch.alpha, Rows), Rows) /\ ExpIter(ch.alpha, Rows)[j] = p
      BY <1>1, <3>7, ExpIterIs
    <3>9. xb \in Int /\ bz \in Int /\ hb \in Int /\ p \in Int
      BY <1>8, <3>4, <3>5, <3>6, <3>8 DEF FieldList
    <3>10. ri \in Int  BY <1>5, <1>8 DEF FieldList
    <3>11. Cong(ri, xb)  BY <1>6, <3>3
    <3> HIDE DEF xb, bz, p, hb, ri
    <3>12. -p \in Int /\ bz - p \in Int /\ bz - p = bz + (-p) /\ bz + (-p) \in Int /\ bz + hb \in Int
      BY <3>9
    <3>13. Cong(-p, hb) /\ Cong(bz, bz)  BY <3>5, <3>9, <3>12, CongSym, CongRefl
    <3>14. Cong(bz + (-p), bz + hb)  BY <3>9, <3>12, <3>13, CongAdd
    <3>15. Cong(ri, bz - p)  BY <3>4, <3>9, <3>10, <3>11, <3>12, CongTrans
    <3>16. Cong(ri, bz + (-p))  BY <3>12, <3>15
    <3>17. Cong(ri, bz + hb)  BY <3>10, <3>12, <3>14, <3>16, CongTrans
    <3> QED BY <3>2, <3>3, <3>17 DEF ri
  <2> QED BY <2>1, <2>2, UpperOrLower
<1> QED BY <1>2, <1>5, <1>7, <1>9 DEF HSide, r

-----------------------------------------------------------------------------
(* Scalars over the instance's bases.                                     *)

(* Scalars against the instance's bases, seen at the coefficient g. *)
OverG(s, g) == MDot(s, BasesG(Size), g, Size)

OverH(s, g) == MDot(s, BasesH(Size), g, Size)

SizedScalars(s) ==
  /\ Scalars(s, Size)
  /\ \A g \in Generators : OverG(s, g) \in Int /\ OverH(s, g) \in Int

(* The bases of the instance, and scalars over them, are integers.         *)
LEMMA SizedBases ==
  ASSUME Shaped
  PROVE  /\ Size \in Nat /\ Points(BasesG(Size), Size) /\ Points(BasesH(Size), Size)
         /\ \A s : FieldList(s, Size) => SizedScalars(s)
<1>1. Size \in Nat /\ Size <= N  BY BasesAssumption DEF Shaped
<1>2. Points(BasesG(Size), Size) /\ Points(BasesH(Size), Size)  BY <1>1, BasesPoints
<1>3. ASSUME NEW s, FieldList(s, Size) PROVE SizedScalars(s)
  <2>1. Scalars(s, Size)  BY <1>1, <1>3, FieldScalars
  <2>2. ASSUME NEW g \in Generators
        PROVE  MDot(s, BasesG(Size), g, Size) \in Int /\ MDot(s, BasesH(Size), g, Size) \in Int
    BY <1>1, <1>2, <2>1, MDotInt
  <2> QED BY <2>1, <2>2 DEF SizedScalars, OverG, OverH
<1> QED BY <1>1, <1>2, <1>3

(* T opens to the witness under G, blinded.                                *)
LEMMA WitnessCommitted ==
  ASSUME Shaped, NEW e \in Int
  PROVE  /\ CommitToWitness(e) \in Point
         /\ \A g \in Generators : Cong(CommitToWitness(e)[g], OverG(TOverG, g) + e * V[g])
<1> DEFINE s == TOverG
           B == BasesG(Size)
           X == Msm(s \o <<e>>, B \o <<V>>)
           k == Size + 1
<1>1. FieldList(s, Size)  BY CommittedTyped DEF Parts, Shaped
<1>2. Size \in Nat /\ Points(B, Size) /\ Scalars(s, Size)  BY <1>1, SizedBases DEF SizedScalars
<1>3. V \in Point /\ 1 \in Nat  BY GeneratorPoint
<1>4. /\ Scalars(<<e>>, 1) /\ Points(<<V>>, 1)
      /\ \A g \in Generators : MDot(<<e>>, <<V>>, g, 1) = e * V[g]
  BY <1>3, MsmOne
<1>5. CommitToWitness(e) = X  BY DEF CommitToWitness, TOverG, Wit
<1> HIDE DEF s, B
<1>6. TermsJoined(s, <<e>>, B, <<V>>, Size, 1)  BY <1>2, <1>3, <1>4, MDotJoin
<1>7. /\ k \in Nat /\ Scalars(s \o <<e>>, k) /\ Points(B \o <<V>>, k)
      /\ \A g \in Generators :
           MDot(s \o <<e>>, B \o <<V>>, g, k) = MDot(s, B, g, Size) + MDot(<<e>>, <<V>>, g, 1)
  BY <1>6 DEF TermsJoined
<1> HIDE DEF k
<1>8. X \in Point  BY <1>7, MsmPoint
<1>9. \A g \in Generators : Cong(X[g], MDot(s \o <<e>>, B \o <<V>>, g, k))
  BY <1>7, MDotInt
<1>10. \A g \in Generators : Cong(X[g], MDot(s, B, g, Size) + e * V[g])
  BY <1>4, <1>7, <1>9
<1> HIDE DEF X
<1> QED BY <1>5, <1>8, <1>10 DEF OverG, s, B

(* I opens to the inputs under G.                                          *)
LEMMA InputsCommitted ==
  ASSUME Shaped
  PROVE  /\ CommitToInputs \in Point
         /\ \A g \in Generators : Cong(CommitToInputs[g], OverG(IOverG, g))
<1> DEFINE B == BasesG(Size)
<1>1. FieldList(IOverG, Size)  BY CommittedTyped DEF Parts, Shaped
<1>2. Size \in Nat /\ Points(B, Size) /\ Scalars(IOverG, Size)
  BY <1>1, SizedBases DEF SizedScalars
<1>3. CommitToInputs = Msm(IOverG, B)  BY DEF CommitToInputs, IOverG, Inputs0, Wit
<1> HIDE DEF B
<1>4. Msm(IOverG, B) \in Point  BY <1>2, MsmPoint
<1>5. \A g \in Generators : Cong(Msm(IOverG, B)[g], MDot(IOverG, B, g, Size))
  BY <1>2, MDotInt
<1> QED BY <1>3, <1>4, <1>5 DEF OverG, B

(* S0 opens to Az under G and Bz under H, blinded.                         *)
LEMMA ProductsCommitted ==
  ASSUME Shaped, NEW e \in Fq
  PROVE  /\ ComputeS0(e) \in Point
         /\ \A g \in Generators :
              Cong(ComputeS0(e)[g], OverG(SOverG, g) + OverH(SOverH, g) + e * V[g])
<1> DEFINE s == SOverG
           t == SOverH
           BG == BasesG(Size)
           BH == BasesH(Size)
           zs == Zeros(Cols)
           X == Msm(s \o t \o <<e>>, BG \o BH \o <<V>>)
<1>1. Rows \in Nat /\ Cols \in Nat /\ Size = Cols + Rows  BY DEF Shaped
<1>2. /\ FieldList(s, Size) /\ FieldList(t, Size) /\ FieldList(zs, Cols)
      /\ FieldList(Az, Rows) /\ FieldList(Bz, Rows)
  BY <1>1, CommittedTyped, ProductsTyped DEF Parts
<1>3. /\ Size \in Nat /\ Points(BG, Size) /\ Points(BH, Size)
      /\ Scalars(s, Size) /\ Scalars(t, Size)
  BY <1>2, SizedBases DEF SizedScalars
<1>4. V \in Point /\ e \in Int /\ 1 \in Nat  BY GeneratorPoint, PrimeAssumption DEF Fq
<1>5. /\ Scalars(<<e>>, 1) /\ Points(<<V>>, 1)
      /\ \A g \in Generators : MDot(<<e>>, <<V>>, g, 1) = e * V[g]
  BY <1>4, MsmOne
<1>6. zs \o Az \o zs \o Bz = s \o t
  <2>1. s = zs \o Az /\ t = zs \o Bz  BY DEF SOverG, SOverH
  <2>2. (s \o zs) \o Bz = s \o (zs \o Bz)
    <3> DEFINE bz == Bz
    <3>1. FieldList(s, Size) /\ FieldList(zs, Cols) /\ FieldList(bz, Rows)  BY <1>2
    <3> HIDE DEF s, zs, bz
    <3>2. (s \o zs) \o bz = s \o (zs \o bz)  BY SMTT(60), <1>1, <1>3, <3>1, JoinAssoc
    <3> QED BY <3>2 DEF bz
  <2> QED BY <2>1, <2>2
<1>7. ComputeS0(e) = X
  BY <1>6 DEF ComputeS0
<1> HIDE DEF s, t, BG, BH, zs
<1>8. /\ X \in Point
      /\ \A g \in Generators :
           Cong(X[g], MDot(s, BG, g, Size) + MDot(t, BH, g, Size) + MDot(<<e>>, <<V>>, g, 1))
  BY <1>3, <1>4, <1>5, MsmThree
<1>9. \A g \in Generators : Cong(X[g], MDot(s, BG, g, Size) + MDot(t, BH, g, Size) + e * V[g])
  BY <1>5, <1>8
<1> HIDE DEF X
<1> QED BY <1>7, <1>8, <1>9 DEF OverG, OverH, s, t, BG, BH

-----------------------------------------------------------------------------
(* What the verifier assembles, and what the prover claims.               *)

(* S is S0 and the inputs' commitment, added.                              *)
LEMMA InputsAdded ==
  ASSUME Shaped, S0 \in Point
  PROVE  /\ CommittedS \in Point
         /\ \A g \in Generators : Cong(CommittedS[g], S0[g] + CommitToInputs[g])
<1> DEFINE Y == CommitToInputs
           x == S0
<1>1. Y \in Point /\ x \in Point  BY InputsCommitted
<1>2. CommittedS = Msm(<<1, 1>>, <<x, Y>>)  BY DEF CommittedS
<1> HIDE DEF Y, x
<1>3. 1 \in Int  OBVIOUS
<1>4. /\ Msm(<<1, 1>>, <<x, Y>>) \in Point
      /\ \A g \in Generators : Msm(<<1, 1>>, <<x, Y>>)[g] = (1 * x[g] + 1 * Y[g]) % q
  BY <1>1, <1>3, MsmTwo
<1>5. ASSUME NEW g \in Generators PROVE Cong(Msm(<<1, 1>>, <<x, Y>>)[g], x[g] + Y[g])
  <2>1. x[g] \in Int /\ Y[g] \in Int  BY <1>1, CoefficientInt
  <2>2. 1 * x[g] + 1 * Y[g] = x[g] + Y[g] /\ x[g] + Y[g] \in Int  BY <2>1
  <2>3. Cong((x[g] + Y[g]) % q, x[g] + Y[g])  BY <2>2, ModCong
  <2>4. Msm(<<1, 1>>, <<x, Y>>)[g] = (x[g] + Y[g]) % q  BY <1>4, <2>2
  <2> QED BY <2>3, <2>4
<1> QED BY <1>2, <1>4, <1>5 DEF x, Y

(* The public value w.                                                     *)
LEMMA PublicValue ==
  ASSUME Shaped, NEW ch, Usable(ch)
  PROVE  LET d == Dot(ExpIter(ch.alpha, Rows), ExpIter(ch.beta, Rows), Rows)
             e == Dot(ExpIter(ch.alpha, Cols), VTop(ch), Cols)
         IN  /\ d \in Int /\ e \in Int /\ W(ch) \in Fq /\ W(ch) \in Int
             /\ Cong(W(ch), d + Sq(ch.delta) * e)
<1> DEFINE ea == ExpIter(ch.alpha, Rows)
           eb == ExpIter(ch.beta, Rows)
           ec == ExpIter(ch.alpha, Cols)
           v == VTop(ch)
           dd == Sq(ch.delta)
           d == Dot(ea, eb, Rows)
           e == Dot(ec, v, Cols)
           de == dd * e
           x == InnerProduct(ea, eb)
           y == InnerProduct(ec, v)
           dy == dd * y
<1>1. Rows \in Nat /\ Cols \in Nat  BY DEF Shaped
<1>2. ch.alpha \in Int /\ ch.beta \in Int /\ dd \in Int  BY ChallengeTyped
<1>3. FieldList(ea, Rows) /\ FieldList(eb, Rows) /\ FieldList(ec, Cols)
  BY <1>1, <1>2, ExpIterIs
<1>4. FieldList(v, Cols)  BY VerifierTyped DEF VerifierParts
<1>5. W(ch) = (x + dy) % q  BY DEF W, VTop
<1> HIDE DEF ea, eb, ec, v, dd
<1>6. Scalars(ea, Rows) /\ Scalars(eb, Rows) /\ Scalars(ec, Cols) /\ Scalars(v, Cols)
  BY <1>1, <1>3, <1>4, FieldScalars
<1>7. /\ d \in Int /\ x = d % q
      /\ e \in Int /\ y = e % q
  BY <1>1, <1>6, InnerProductIs DEF Scalars
<1> HIDE DEF d, e, x, y
<1>8. x \in Fq /\ Cong(x, d) /\ y \in Fq /\ Cong(y, e)  BY <1>7, ModCong
<1>9. x \in Int /\ y \in Int  BY <1>8, PrimeAssumption DEF Fq
<1>10. dy \in Int /\ de \in Int  BY <1>2, <1>7, <1>9
<1>11. Cong(dy, de)
  <2>1. Cong(dd, dd)  BY <1>2, CongRefl
  <2> QED BY <1>2, <1>7, <1>8, <1>9, <2>1, CongMul
<1> HIDE DEF dy, de
<1>12. Cong(x + dy, d + de)  BY <1>7, <1>8, <1>9, <1>10, <1>11, CongAdd
<1>13. x + dy \in Int /\ d + de \in Int  BY <1>7, <1>9, <1>10
<1>14. (x + dy) % q \in Fq /\ Cong((x + dy) % q, x + dy)  BY <1>13, ModCong
<1>15. (x + dy) % q \in Int  BY <1>14, PrimeAssumption DEF Fq
<1>16. Cong((x + dy) % q, d + de)
  <2> DEFINE w == (x + dy) % q
  <2>1. w \in Int /\ Cong(w, x + dy)  BY <1>14, <1>15
  <2> HIDE DEF w
  <2>2. Cong(w, d + de)  BY <1>12, <1>13, <2>1, CongTrans
  <2> QED BY <2>2 DEF w
<1>17. Cong(W(ch), d + de) /\ W(ch) \in Fq /\ W(ch) \in Int  BY <1>5, <1>14, <1>15, <1>16
<1> QED BY <1>7, <1>17 DEF d, e, de, ea, eb, ec, v, dd

(* What the verifier assembles, coefficient by coefficient.                *)
LEMMA Assembled ==
  ASSUME Shaped, NEW ch, Usable(ch), T \in Point, S0 \in Point
  PROVE  /\ VerifierP(ch) \in Point
         /\ \A g \in Generators :
              Cong(VerifierP(ch)[g],
                   CommittedS[g] + OverG(GScalars(ch), g) + OverH(HScalars(ch), g)
                     + (Inv(ch.delta) * T[g] + W(ch) * U[g]))
<1> DEFINE s == GScalars(ch)
           h == HScalars(ch)
           BG == BasesG(Size)
           BH == BasesH(Size)
           C == CommittedS
           t == T
           di == Inv(ch.delta)
           w == W(ch)
           X == Msm(<<1>> \o s \o h \o <<di, w>>, <<C>> \o BG \o BH \o <<t, U>>)
<1>1. C \in Point /\ t \in Point /\ U \in Point  BY InputsAdded, GeneratorPoint
<1>2. FieldList(s, Size) /\ FieldList(h, Size)  BY FullVectors
<1>3. /\ Size \in Nat /\ Points(BG, Size) /\ Points(BH, Size)
      /\ Scalars(s, Size) /\ Scalars(h, Size)
  BY <1>2, SizedBases DEF SizedScalars
<1>4. di \in Int /\ w \in Int /\ 1 \in Int /\ 1 \in Nat /\ 2 \in Nat
  BY ChallengeTyped, PublicValue
<1>5. VerifierP(ch) = X
  BY DEF VerifierP, GScalars, HScalars, GTop, GBot, VTop, HBot
<1> HIDE DEF s, h, BG, BH, C, t, di, w
<1>6. /\ Scalars(<<1>>, 1) /\ Points(<<C>>, 1)
      /\ \A g \in Generators : MDot(<<1>>, <<C>>, g, 1) = 1 * C[g]
  BY <1>1, <1>4, MsmOne
<1>7. /\ Scalars(<<di, w>>, 2) /\ Points(<<t, U>>, 2)
      /\ \A g \in Generators : MDot(<<di, w>>, <<t, U>>, g, 2) = di * t[g] + w * U[g]
  BY <1>1, <1>4, MsmTwo
<1>8. /\ X \in Point
      /\ \A g \in Generators :
           Cong(X[g], MDot(<<1>>, <<C>>, g, 1) + MDot(s, BG, g, Size) + MDot(h, BH, g, Size)
                        + MDot(<<di, w>>, <<t, U>>, g, 2))
  <2> DEFINE c1 == <<1>>
             C1 == <<C>>
             z == <<di, w>>
             Z1 == <<t, U>>
             k == 1 + Size
             cs == c1 \o s
             C2 == C1 \o BG
             Y == Msm(cs \o h \o z, C2 \o BH \o Z1)
  <2>1. Scalars(c1, 1) /\ Points(C1, 1) /\ Scalars(z, 2) /\ Points(Z1, 2)  BY <1>6, <1>7
  <2> HIDE DEF c1, C1, z, Z1
  <2>2. TermsJoined(c1, s, C1, BG, 1, Size)  BY <1>3, <1>4, <2>1, MDotJoin
  <2>3. /\ k \in Nat /\ Scalars(cs, k) /\ Points(C2, k)
        /\ \A g \in Generators : MDot(cs, C2, g, k) = MDot(c1, C1, g, 1) + MDot(s, BG, g, Size)
    BY <2>2 DEF TermsJoined
  <2> HIDE DEF k, cs, C2
  <2>4. /\ Y \in Point
        /\ \A g \in Generators :
             Cong(Y[g], MDot(cs, C2, g, k) + MDot(h, BH, g, Size) + MDot(z, Z1, g, 2))
    BY <1>3, <1>4, <2>1, <2>3, MsmThree
  <2> HIDE DEF Y
  <2>5. \A g \in Generators :
          Cong(Y[g], MDot(c1, C1, g, 1) + MDot(s, BG, g, Size) + MDot(h, BH, g, Size)
                       + MDot(z, Z1, g, 2))
    BY <2>3, <2>4
  <2>6. Y = X  BY DEF Y, X, cs, C2, c1, C1, z, Z1
  <2> HIDE DEF X
  <2> QED BY <2>4, <2>5, <2>6 DEF c1, C1, z, Z1
<1>9. \A g \in Generators : 1 * C[g] = C[g]
  <2>1. \A g \in Generators : C[g] \in Int  BY <1>1, CoefficientInt
  <2> QED BY <2>1
<1>10. \A g \in Generators :
         Cong(X[g], C[g] + MDot(s, BG, g, Size) + MDot(h, BH, g, Size) + (di * t[g] + w * U[g]))
  BY <1>6, <1>7, <1>8, <1>9
<1> HIDE DEF X
<1> QED BY <1>5, <1>8, <1>10 DEF OverG, OverH, s, h, BG, BH, C, t, di, w

(* What the prover's arguments claim, coefficient by coefficient.          *)
LEMMA Claimed ==
  ASSUME Shaped, NEW ch, Usable(ch), r_S \in Fq, eta \in Fq
  PROVE  LET x == Arguments(ch)
         IN  /\ ClaimOf(x) \in Point /\ InnerProduct(x.a, x.b) \in Fq
             /\ x.alpha \in Fq /\ Cong(x.alpha, r_S + Inv(ch.delta) * eta)
             /\ \A g \in Generators :
                  Cong(ClaimOf(x)[g],
                       OverG(ComponentWiseMul(UVec(ch), GprimeFactors(ch)), g)
                         + OverH(ComponentWiseMul(VVec(ch), OnesTo(Size)), g)
                         + (InnerProduct(x.a, x.b) * U[g] + x.alpha * V[g]))
<1> DEFINE x == Arguments(ch)
           f == GprimeFactors(ch)
           o == OnesTo(Size)
           ua == UVec(ch)
           vb == VVec(ch)
           di == Inv(ch.delta)
           al == (r_S + di * eta) % q
           s == ComponentWiseMul(ua, f)
           h == ComponentWiseMul(vb, o)
           BG == BasesG(Size)
           BH == BasesH(Size)
           ip == InnerProduct(ua, vb)
           X == Msm(s \o h \o <<ip, al>>, BG \o BH \o <<U, V>>)
<1>1. FieldList(s, Size) /\ FieldList(h, Size)  BY GSideHolds, HSideHolds DEF GSide, HSide
<1>2. /\ Size \in Nat /\ Points(BG, Size) /\ Points(BH, Size)
      /\ Scalars(s, Size) /\ Scalars(h, Size)
  BY <1>1, SizedBases DEF SizedScalars
<1>3. FieldList(ua, Size) /\ FieldList(vb, Size)  BY FullVectors
<1>4. Len(ua) = Size
  <2> HIDE DEF ua
  <2> QED BY <1>2, <1>3, ListLength DEF FieldList
<1>5. x.a = ua /\ x.b = vb /\ x.gf = f /\ x.hf = o /\ x.alpha = al
  BY DEF Arguments, OnesTo
<1>6. al \in Fq /\ Cong(al, r_S + di * eta)
  <2>1. di \in Int /\ r_S \in Int /\ eta \in Int  BY ChallengeTyped, PrimeAssumption DEF Fq
  <2>2. r_S + di * eta \in Int  BY <2>1
  <2> QED BY <2>2, ModCong
<1>7. ip \in Fq
  <2> HIDE DEF ua, vb
  <2>1. Scalars(ua, Size) /\ Scalars(vb, Size)  BY <1>2, <1>3, FieldScalars
  <2>2. Dot(ua, vb, Size) \in Int /\ ip = Dot(ua, vb, Size) % q
    BY <1>2, <2>1, InnerProductIs DEF Scalars
  <2> QED BY <2>2, ModCong
<1>8. ClaimOf(x) = X  BY <1>4, <1>5 DEF ClaimOf
<1> HIDE DEF x, f, o, ua, vb, al, s, h, BG, BH, ip
<1>9. ip \in Int /\ al \in Int /\ 2 \in Nat /\ U \in Point /\ V \in Point
  BY <1>6, <1>7, GeneratorPoint, PrimeAssumption DEF Fq
<1>10. /\ Scalars(<<ip, al>>, 2) /\ Points(<<U, V>>, 2)
       /\ \A g \in Generators : MDot(<<ip, al>>, <<U, V>>, g, 2) = ip * U[g] + al * V[g]
  BY <1>9, MsmTwo
<1>11. /\ X \in Point
       /\ \A g \in Generators :
            Cong(X[g], MDot(s, BG, g, Size) + MDot(h, BH, g, Size)
                         + MDot(<<ip, al>>, <<U, V>>, g, 2))
  BY <1>2, <1>9, <1>10, MsmThree
<1>12. \A g \in Generators :
         Cong(X[g], MDot(s, BG, g, Size) + MDot(h, BH, g, Size) + (ip * U[g] + al * V[g]))
  BY <1>10, <1>11
<1> HIDE DEF X
<1>13. InnerProduct(x.a, x.b) = ip /\ x.alpha = al  BY <1>5 DEF ip
<1> QED BY <1>6, <1>7, <1>8, <1>11, <1>12, <1>13 DEF OverG, OverH, x, s, h, ua, vb, f, o, BG, BH, di

-----------------------------------------------------------------------------
(* The two sides agree over every base.                                   *)

(* The prover's scalars over G are the four lists' the verifier uses, and  *)
(* over H two lists'.                                                      *)
LEMMA SidesOver ==
  ASSUME Shaped, NEW ch, Usable(ch), NEW g \in Generators
  PROVE  /\ Cong(OverG(ComponentWiseMul(UVec(ch), GprimeFactors(ch)), g),
                 OverG(IOverG, g) + OverG(SOverG, g) + OverG(GScalars(ch), g)
                   + Inv(ch.delta) * OverG(TOverG, g))
         /\ Cong(OverH(ComponentWiseMul(VVec(ch), OnesTo(Size)), g),
                 OverH(SOverH, g) + OverH(HScalars(ch), g))
<1> DEFINE r == ComponentWiseMul(UVec(ch), GprimeFactors(ch))
           s == ComponentWiseMul(VVec(ch), OnesTo(Size))
           y == At(BasesG(Size), g, Size)
           z == At(BasesH(Size), g, Size)
           x1 == IOverG
           x2 == SOverG
           x3 == GScalars(ch)
           x4 == TOverG
           h1 == SOverH
           h2 == HScalars(ch)
           di == Inv(ch.delta)
<1>1. Size \in Nat /\ Points(BasesG(Size), Size) /\ Points(BasesH(Size), Size)  BY SizedBases
<1>2. Ints(y, Size) /\ Ints(z, Size)  BY <1>1, AtInts
<1>3. di \in Int /\ 1 \in Int  BY ChallengeTyped
<1>4. /\ FieldList(r, Size) /\ FieldList(x1, Size) /\ FieldList(x2, Size)
      /\ FieldList(x3, Size) /\ FieldList(x4, Size)
      /\ \A i \in 1 .. Size : Cong(r[i], x1[i] + x2[i] + x3[i] + di * x4[i])
  BY GSideHolds DEF GSide, GSideAt
<1>5. /\ FieldList(s, Size) /\ FieldList(h1, Size) /\ FieldList(h2, Size)
      /\ \A i \in 1 .. Size : Cong(s[i], h1[i] + h2[i])
  BY HSideHolds DEF HSide
<1> HIDE DEF r, s, y, z, x1, x2, x3, x4, h1, h2, di
<1>6. /\ Ints(r, Size) /\ Ints(x1, Size) /\ Ints(x2, Size) /\ Ints(x3, Size) /\ Ints(x4, Size)
      /\ Ints(s, Size) /\ Ints(h1, Size) /\ Ints(h2, Size)
  BY <1>1, <1>4, <1>5, FieldScalars DEF Scalars
<1>7. Cong(Dot(r, y, Size), Dot(x1, y, Size) + Dot(x2, y, Size) + Dot(x3, y, Size)
                              + di * Dot(x4, y, Size))
  BY <1>1, <1>2, <1>3, <1>4, <1>6, DotOfFour
<1>8. Cong(Dot(s, z, Size), Dot(h1, z, Size) + Dot(h2, z, Size))
  <2>1. \A i \in 1 .. Size : Cong(s[i], 1 * h1[i] + 1 * h2[i])
    <3>1. \A i \in 1 .. Size : h1[i] \in Int /\ h2[i] \in Int  BY <1>6 DEF Ints
    <3>2. \A i \in 1 .. Size : 1 * h1[i] + 1 * h2[i] = h1[i] + h2[i]  BY <3>1
    <3> QED BY <1>5, <3>2
  <2>2. Cong(Dot(s, z, Size), 1 * Dot(h1, z, Size) + 1 * Dot(h2, z, Size))
    BY <1>1, <1>2, <1>3, <1>6, <2>1, DotLinear
  <2>3. Dot(h1, z, Size) \in Int /\ Dot(h2, z, Size) \in Int  BY <1>1, <1>2, <1>6, DotInt
  <2>4. 1 * Dot(h1, z, Size) + 1 * Dot(h2, z, Size) = Dot(h1, z, Size) + Dot(h2, z, Size)
    BY <2>3
  <2> QED BY <2>2, <2>4
<1> QED BY <1>7, <1>8 DEF OverG, OverH, MDot, r, s, y, z, x1, x2, x3, x4, h1, h2, di

(* Both sides of the agreement, expanded: only w against <u,v> is left.    *)
LEMMA Balance ==
  ASSUME NEW di \in Int, NEW et \in Int, NEW r \in Int, NEW w \in Int, NEW ip \in Int,
         NEW u \in Int, NEW v \in Int, NEW i1 \in Int, NEW s1 \in Int, NEW s2 \in Int,
         NEW t1 \in Int, NEW g4 \in Int, NEW h2 \in Int
  PROVE  (((s1 + s2 + r * v) + i1) + g4 + h2 + (di * (t1 + et * v) + w * u))
           = ((i1 + s1 + g4 + di * t1) + (s2 + h2) + (ip * u + (r + di * et) * v))
               + (w - ip) * u
<1> DEFINE rv == r * v
           dt == di * t1
           ev == et * v
           dev == di * ev
           de == di * et
           wu == w * u
           iu == ip * u
<1>1. /\ rv \in Int /\ dt \in Int /\ ev \in Int /\ dev \in Int /\ de \in Int /\ wu \in Int
      /\ iu \in Int
  OBVIOUS
<1>2. di * (t1 + ev) = dt + dev
  <2> HIDE DEF ev
  <2> QED BY <1>1
<1>3. (r + de) * v = rv + dev
  <2>1. (r + de) * v = r * v + de * v
    <3> HIDE DEF de
    <3> QED BY <1>1
  <2>2. de * v = dev  OBVIOUS
  <2> QED BY <2>1, <2>2
<1>4. (w - ip) * u = wu - iu  OBVIOUS
<1> HIDE DEF rv, dt, ev, dev, de, wu, iu
<1>5. (((s1 + s2 + rv) + i1) + g4 + h2 + ((dt + dev) + wu))
        = ((i1 + s1 + g4 + dt) + (s2 + h2) + (iu + (rv + dev))) + (wu - iu)
  BY <1>1
<1>6. (((s1 + s2 + rv) + i1) + g4 + h2 + (di * (t1 + ev) + wu))
        = ((i1 + s1 + g4 + dt) + (s2 + h2) + (iu + (r + de) * v)) + (w - ip) * u
  BY <1>2, <1>3, <1>4, <1>5
<1> QED BY <1>6 DEF rv, dt, ev, de, wu, iu

(* All that the verifier's P and the claim are made of, at one coefficient. *)
Sides(di, et, r, w, ip, al, u, v, i1, s1, s2, t1, g4, h2, I, S, C, t, P, X, gu, hv) ==
  /\ di \in Int /\ et \in Int /\ r \in Int /\ w \in Int /\ ip \in Int /\ al \in Int
  /\ u \in Int /\ v \in Int /\ i1 \in Int /\ s1 \in Int /\ s2 \in Int /\ t1 \in Int
  /\ g4 \in Int /\ h2 \in Int /\ I \in Int /\ S \in Int /\ C \in Int /\ t \in Int
  /\ P \in Int /\ X \in Int /\ gu \in Int /\ hv \in Int
  /\ Cong(I, i1) /\ Cong(S, s1 + s2 + r * v) /\ Cong(C, S + I) /\ Cong(t, t1 + et * v)
  /\ Cong(P, C + g4 + h2 + (di * t + w * u))
  /\ Cong(al, r + di * et) /\ Cong(gu, i1 + s1 + g4 + di * t1) /\ Cong(hv, s2 + h2)
  /\ Cong(X, gu + hv + (ip * u + al * v))

(* They then differ only in w against <u,v>.                               *)
LEMMA Agreement ==
  ASSUME NEW di, NEW et, NEW r, NEW w, NEW ip, NEW al, NEW u, NEW v, NEW i1, NEW s1, NEW s2,
         NEW t1, NEW g4, NEW h2, NEW I, NEW S, NEW C, NEW t, NEW P, NEW X, NEW gu, NEW hv,
         Sides(di, et, r, w, ip, al, u, v, i1, s1, s2, t1, g4, h2, I, S, C, t, P, X, gu, hv)
  PROVE  Cong(P, X + (w - ip) * u)
<1>0. /\ di \in Int /\ et \in Int /\ r \in Int /\ w \in Int /\ ip \in Int /\ al \in Int
      /\ u \in Int /\ v \in Int /\ i1 \in Int /\ s1 \in Int /\ s2 \in Int /\ t1 \in Int
      /\ g4 \in Int /\ h2 \in Int /\ I \in Int /\ S \in Int /\ C \in Int /\ t \in Int
      /\ P \in Int /\ X \in Int /\ gu \in Int /\ hv \in Int
      /\ Cong(I, i1) /\ Cong(S, s1 + s2 + r * v) /\ Cong(C, S + I) /\ Cong(t, t1 + et * v)
      /\ Cong(P, C + g4 + h2 + (di * t + w * u))
      /\ Cong(al, r + di * et) /\ Cong(gu, i1 + s1 + g4 + di * t1) /\ Cong(hv, s2 + h2)
      /\ Cong(X, gu + hv + (ip * u + al * v))
  BY DEF Sides
<1> USE <1>0
<1> DEFINE rv == r * v
           ev == et * v
           tv == t1 + ev
           dt == di * t
           dtv == di * tv
           wu == w * u
           c1 == (s1 + s2 + rv) + i1
           p0 == C + g4 + h2 + (dt + wu)
           p1 == c1 + g4 + h2 + (dtv + wu)
           de == di * et
           al1 == r + de
           av == al * v
           av1 == al1 * v
           iu == ip * u
           dt1 == di * t1
           gu1 == i1 + s1 + g4 + dt1
           hv1 == s2 + h2
           x0 == gu + hv + (iu + av)
           x1 == gu1 + hv1 + (iu + av1)
           d == (w - ip) * u
<1>1. rv \in Int /\ ev \in Int /\ de \in Int /\ dt1 \in Int /\ wu \in Int /\ iu \in Int
  OBVIOUS
<1>2. tv \in Int /\ dt \in Int /\ c1 \in Int /\ al1 \in Int /\ av \in Int
  <2> HIDE DEF rv, ev, de
  <2> QED BY <1>1
<1>3. dtv \in Int /\ av1 \in Int /\ d \in Int
  <2>1. w - ip \in Int  OBVIOUS
  <2> HIDE DEF tv, al1
  <2> QED BY <1>2, <2>1
<1>4. p1 = x1 + d
  BY Balance
<1>5. Cong(S, s1 + s2 + rv) /\ Cong(P, p0) /\ Cong(X, x0) /\ Cong(t, tv) /\ Cong(al, al1)
      /\ Cong(gu, gu1) /\ Cong(hv, hv1)
  OBVIOUS
<1>6. Cong(dt, dtv)
  <2>1. Cong(di, di)  BY CongRefl
  <2> HIDE DEF tv
  <2> QED BY <1>2, <1>5, <2>1, CongMul
<1>7. Cong(av, av1)
  <2>1. Cong(v, v)  BY CongRefl
  <2> HIDE DEF al1
  <2> QED BY <1>2, <1>5, <2>1, CongMul
<1> HIDE DEF rv, ev, tv, dt, dtv, wu, de, al1, av, av1, iu, dt1, gu1, hv1, d
<1>8. Cong(C, c1)
  <2> DEFINE s == s1 + s2 + rv
  <2>1. s \in Int /\ Cong(S, s)  BY <1>1, <1>5
  <2> HIDE DEF s
  <2>2. Cong(S + I, s + i1) /\ S + I \in Int /\ s + i1 \in Int  BY <2>1, CongAdd
  <2>3. Cong(C, s + i1)  BY <2>2, CongTrans
  <2> QED BY <2>3 DEF s
<1> HIDE DEF c1
<1>9. Cong(P, p1)
  <2>1. g4 + h2 \in Int /\ Cong(g4 + h2, g4 + h2)  BY CongRefl
  <2>2. Cong(wu, wu)  BY <1>1, CongRefl
  <2>3. Cong(C + (g4 + h2), c1 + (g4 + h2))  BY <1>2, <1>8, <2>1, CongAdd
  <2>4. Cong(dt + wu, dtv + wu)  BY <1>1, <1>2, <1>3, <1>6, <2>2, CongAdd
  <2>5. /\ C + (g4 + h2) \in Int /\ c1 + (g4 + h2) \in Int /\ dt + wu \in Int /\ dtv + wu \in Int
    BY <1>1, <1>2, <1>3, <2>1
  <2>6. Cong((C + (g4 + h2)) + (dt + wu), (c1 + (g4 + h2)) + (dtv + wu))
    <3> DEFINE l1 == C + (g4 + h2)
               l2 == c1 + (g4 + h2)
               l3 == dt + wu
               l4 == dtv + wu
    <3>1. /\ l1 \in Int /\ l2 \in Int /\ l3 \in Int /\ l4 \in Int /\ Cong(l1, l2) /\ Cong(l3, l4)
      BY <2>3, <2>4, <2>5
    <3> HIDE DEF l1, l2, l3, l4
    <3>2. Cong(l1 + l3, l2 + l4)  BY <3>1, CongAdd
    <3> QED BY <3>2 DEF l1, l2, l3, l4
  <2>7. (C + (g4 + h2)) + (dt + wu) = p0 /\ (c1 + (g4 + h2)) + (dtv + wu) = p1
    BY <1>1, <1>2, <1>3
  <2>8. p0 \in Int /\ p1 \in Int  BY <1>1, <1>2, <1>3
  <2>9. Cong(p0, p1)  BY <2>6, <2>7
  <2> HIDE DEF p0, p1
  <2> QED BY <1>5, <2>8, <2>9, CongTrans
<1>10. gu1 \in Int /\ hv1 \in Int  BY <1>1 DEF gu1, hv1
<1>11. Cong(X, x1)
  <2>1. Cong(gu + hv, gu1 + hv1) /\ gu + hv \in Int /\ gu1 + hv1 \in Int
    BY <1>5, <1>10, CongAdd
  <2>2. Cong(iu, iu)  BY <1>1, CongRefl
  <2>3. Cong(iu + av, iu + av1) /\ iu + av \in Int /\ iu + av1 \in Int
    BY <1>1, <1>2, <1>3, <1>7, <2>2, CongAdd
  <2>4. Cong((gu + hv) + (iu + av), (gu1 + hv1) + (iu + av1))
    <3> DEFINE l1 == gu + hv
               l2 == gu1 + hv1
               l3 == iu + av
               l4 == iu + av1
    <3>1. /\ l1 \in Int /\ l2 \in Int /\ l3 \in Int /\ l4 \in Int /\ Cong(l1, l2) /\ Cong(l3, l4)
      BY <2>1, <2>3
    <3> HIDE DEF l1, l2, l3, l4
    <3>2. Cong(l1 + l3, l2 + l4)  BY <3>1, CongAdd
    <3> QED BY <3>2 DEF l1, l2, l3, l4
  <2>5. x0 \in Int /\ x1 \in Int /\ Cong(x0, x1)  BY <2>1, <2>3, <2>4
  <2> HIDE DEF x0, x1
  <2> QED BY <1>5, <2>5, CongTrans
<1>12. x1 \in Int  BY <1>1, <1>3, <1>10
<1> HIDE DEF p0, p1, x0, x1
<1>13. Cong(d, d)  BY <1>3, CongRefl
<1>14. Cong(x1, X)  BY <1>11, <1>12, CongSym
<1>15. Cong(x1 + d, X + d) /\ x1 + d \in Int /\ X + d \in Int  BY <1>3, <1>12, <1>13, <1>14, CongAdd
<1>16. Cong(P, x1 + d)  BY <1>4, <1>9
<1>17. Cong(P, X + d)  BY <1>15, <1>16, CongTrans
<1> QED BY <1>17 DEF d

-----------------------------------------------------------------------------
(* By how much the two halves of r1cs2ipa differ; a product by a row.     *)

(* By how much the verifier's P differs from the claim the prover opens. *)
DiffersBy(ch) ==
  LET x == Arguments(ch)
  IN  /\ VerifierP(ch) \in Point /\ ClaimOf(x) \in Point
      /\ InnerProduct(x.a, x.b) \in Fq /\ W(ch) \in Fq
      /\ \A g \in Generators :
           Cong(VerifierP(ch)[g],
                ClaimOf(x)[g] + (W(ch) - InnerProduct(x.a, x.b)) * U[g])

(* The two halves of r1cs2ipa agree over every base but the inner          *)
(* product's, and there they differ by w less <u,v>.                       *)
LEMMA HalvesAgree ==
  ASSUME Shaped, NEW ch, Usable(ch), r_S \in Fq, eta \in Fq,
         T = CommitToWitness(eta), S0 = ComputeS0(r_S)
  PROVE  DiffersBy(ch)
<1> DEFINE x == Arguments(ch)
           w == W(ch)
           ip == InnerProduct(x.a, x.b)
           di == Inv(ch.delta)
           al == x.alpha
           gul == ComponentWiseMul(UVec(ch), GprimeFactors(ch))
           hvl == ComponentWiseMul(VVec(ch), OnesTo(Size))
<1>1. eta \in Int /\ r_S \in Int /\ Fq \subseteq Int  BY PrimeAssumption DEF Fq
<1>2. T \in Point /\ S0 \in Point  BY <1>1, WitnessCommitted, ProductsCommitted
<1>3. /\ VerifierP(ch) \in Point
      /\ \A g \in Generators :
           Cong(VerifierP(ch)[g],
                CommittedS[g] + OverG(GScalars(ch), g) + OverH(HScalars(ch), g)
                  + (di * T[g] + w * U[g]))
  BY <1>2, Assembled
<1>4. /\ ClaimOf(x) \in Point /\ ip \in Fq /\ al \in Fq /\ Cong(al, r_S + di * eta)
      /\ \A g \in Generators :
           Cong(ClaimOf(x)[g], OverG(gul, g) + OverH(hvl, g) + (ip * U[g] + al * V[g]))
  BY Claimed
<1>5. w \in Fq /\ w \in Int /\ di \in Int  BY PublicValue, ChallengeTyped
<1>6. ip \in Int /\ al \in Int  BY <1>1, <1>4
<1>7. CommittedS \in Point /\ \A g \in Generators : Cong(CommittedS[g], S0[g] + CommitToInputs[g])
  BY <1>2, InputsAdded
<1>8. CommitToInputs \in Point /\ \A g \in Generators : Cong(CommitToInputs[g], OverG(IOverG, g))
  BY InputsCommitted
<1>9. \A g \in Generators : /\ Cong(T[g], OverG(TOverG, g) + eta * V[g])
                            /\ Cong(S0[g], OverG(SOverG, g) + OverH(SOverH, g) + r_S * V[g])
  BY <1>1, WitnessCommitted, ProductsCommitted
<1>10. /\ SizedScalars(IOverG) /\ SizedScalars(SOverG) /\ SizedScalars(SOverH)
       /\ SizedScalars(TOverG) /\ SizedScalars(GScalars(ch)) /\ SizedScalars(HScalars(ch))
       /\ SizedScalars(gul) /\ SizedScalars(hvl)
  BY GSideHolds, HSideHolds, SizedBases DEF GSide, HSide
<1>11. ASSUME NEW g \in Generators
       PROVE  Cong(VerifierP(ch)[g], ClaimOf(x)[g] + (w - ip) * U[g])
  <2> DEFINE u == U[g]
             v == V[g]
             i1 == OverG(IOverG, g)
             s1 == OverG(SOverG, g)
             s2 == OverH(SOverH, g)
             t1 == OverG(TOverG, g)
             g4 == OverG(GScalars(ch), g)
             h2 == OverH(HScalars(ch), g)
             gu == OverG(gul, g)
             hv == OverH(hvl, g)
             I == CommitToInputs[g]
             S == S0[g]
             C == CommittedS[g]
             t == T[g]
             P == VerifierP(ch)[g]
             X == ClaimOf(x)[g]
  <2>1. /\ i1 \in Int /\ s1 \in Int /\ s2 \in Int /\ t1 \in Int /\ g4 \in Int /\ h2 \in Int
        /\ gu \in Int /\ hv \in Int
    BY <1>10 DEF SizedScalars
  <2>2. /\ u \in Int /\ v \in Int /\ I \in Int /\ S \in Int /\ C \in Int /\ t \in Int
        /\ P \in Int /\ X \in Int
    BY <1>2, <1>3, <1>4, <1>7, <1>8, GeneratorPoint, CoefficientInt
  <2>3. /\ Cong(gu, i1 + s1 + g4 + di * t1) /\ Cong(hv, s2 + h2)
    BY SidesOver
  <2>4. /\ Cong(I, i1) /\ Cong(S, s1 + s2 + r_S * v) /\ Cong(C, S + I) /\ Cong(t, t1 + eta * v)
        /\ Cong(P, C + g4 + h2 + (di * t + w * u))
        /\ Cong(al, r_S + di * eta) /\ Cong(X, gu + hv + (ip * u + al * v))
    BY <1>3, <1>4, <1>7, <1>8, <1>9
  <2> HIDE DEF u, v, i1, s1, s2, t1, g4, h2, gu, hv, I, S, C, t, P, X, w, ip, al, di
  <2>5. Sides(di, eta, r_S, w, ip, al, u, v, i1, s1, s2, t1, g4, h2, I, S, C, t, P, X, gu, hv)
    BY <1>1, <1>5, <1>6, <2>1, <2>2, <2>3, <2>4 DEF Sides
  <2>6. Cong(P, X + (w - ip) * u)  BY <2>5, Agreement
  <2> QED BY <2>6 DEF P, X, u
<1> QED BY <1>3, <1>4, <1>5, <1>11 DEF DiffersBy, x, w, ip

(* The violation of each constraint. *)
Errors == [j \in 1 .. Rows |-> Az[j] * Bz[j] - Cz[j]]

Products == [j \in 1 .. Rows |-> Az[j] * Bz[j]]

(* One row below: its product, less the two cross terms.                   *)
LEMMA RowExpands ==
  ASSUME NEW x \in Int, NEW y \in Int, NEW c \in Int, NEW p \in Int, NEW d \in Int,
         NEW cd \in Int, Cong(cd, d * c), NEW u \in Int, NEW v \in Int,
         Cong(u, x * c - p), Cong(v, y - d)
  PROVE  Cong(u * v, 1 * ((x * y) * c + (-1) * (x * cd)) + 1 * (d * p + (-1) * (y * p)))
<1> DEFINE xc == x * c
           dc == d * c
           xy == x * y
           xyc == xy * c
           xdc == x * dc
           xcd == x * cd
           dp == d * p
           yp == y * p
           e == (xyc - xdc) + (dp - yp)
           e1 == (xyc - xcd) + (dp - yp)
           uv == u * v
<1>1. xc \in Int /\ dc \in Int /\ xy \in Int /\ xcd \in Int /\ dp \in Int /\ yp \in Int /\ uv \in Int
  OBVIOUS
<1>2. xyc \in Int /\ xdc \in Int
  <2> HIDE DEF xy, dc
  <2> QED BY <1>1
<1>3. Cong(uv, (xc - p) * (y - d))
  <2> DEFINE l == xc - p
             k == y - d
  <2>1. l \in Int /\ k \in Int  BY <1>1
  <2>2. Cong(u, l) /\ Cong(v, k)  OBVIOUS
  <2> HIDE DEF l, k
  <2>3. Cong(u * v, l * k)  BY <2>1, <2>2, CongMul
  <2> QED BY <2>3 DEF l, k
<1>4. (xc - p) * (y - d) = e
  <2>1. (xc - p) * (y - d) = (xc * y - xc * d) - (p * y - p * d)
    <3> HIDE DEF xc
    <3> QED BY <1>1
  <2>2. xc * y = xyc  OBVIOUS
  <2>3. xc * d = xdc  OBVIOUS
  <2>4. p * y = yp /\ p * d = dp  OBVIOUS
  <2>5. (xyc - xdc) - (yp - dp) = (xyc - xdc) + (dp - yp)
    <3> HIDE DEF xyc, xdc, yp, dp
    <3> QED BY <1>1, <1>2
  <2> QED BY <2>1, <2>2, <2>3, <2>4, <2>5
<1>5. Cong(xcd, xdc)
  <2>1. Cong(x, x) /\ Cong(cd, dc)  BY CongRefl
  <2> HIDE DEF dc
  <2> QED BY <1>1, <2>1, CongMul
<1> HIDE DEF xc, dc, xy, xyc, xdc, xcd, dp, yp, uv
<1>6. Cong(xyc, xyc) /\ Cong(xdc, xcd)  BY <1>1, <1>2, <1>5, CongRefl, CongSym
<1>7. Cong(xyc - xdc, xyc - xcd)  BY <1>1, <1>2, <1>6, CongSub
<1>8. dp - yp \in Int /\ Cong(dp - yp, dp - yp)  BY <1>1, CongRefl
<1>9. xyc - xdc \in Int /\ xyc - xcd \in Int  BY <1>1, <1>2
<1>10. Cong(e, e1) /\ e \in Int /\ e1 \in Int
  <2> DEFINE l1 == xyc - xdc
             l2 == xyc - xcd
             l3 == dp - yp
  <2>1. /\ l1 \in Int /\ l2 \in Int /\ l3 \in Int /\ Cong(l1, l2) /\ Cong(l3, l3)
        /\ e = l1 + l3 /\ e1 = l2 + l3
    BY <1>7, <1>8, <1>9
  <2> HIDE DEF l1, l2, l3, e, e1
  <2> QED BY <2>1, CongAdd
<1>11. Cong(uv, e)  BY <1>3, <1>4
<1> HIDE DEF e, e1
<1>12. Cong(uv, e1)  BY <1>1, <1>10, <1>11, CongTrans
<1>13. e1 = 1 * (xyc + (-1) * xcd) + 1 * (dp + (-1) * yp)  BY <1>1, <1>2 DEF e1
<1> QED BY <1>12, <1>13 DEF uv, xyc, xy, xcd, dp, yp

-----------------------------------------------------------------------------
(* The lower halves' inner product.                                       *)

(* The powers of alpha times gamma. *)
AlphaGamma(ch) == ExpIter((ch.alpha * ch.gamma) % q, Rows)

(* The lists of powers, over the rows and over the columns.                *)
LEMMA PowersTyped ==
  ASSUME Shaped, NEW ch, Usable(ch)
  PROVE  LET eag == AlphaGamma(ch)
             eg == ExpIter(ch.gamma, Rows)
             ea == ExpIter(ch.alpha, Rows)
             eb == ExpIter(ch.beta, Rows)
             ec == ExpIter(ch.alpha, Cols)
         IN  /\ FieldList(eag, Rows) /\ FieldList(eg, Rows) /\ FieldList(ea, Rows)
             /\ FieldList(eb, Rows) /\ FieldList(ec, Cols)
             /\ Ints(eag, Rows) /\ Ints(eg, Rows) /\ Ints(ea, Rows) /\ Ints(eb, Rows) /\ Ints(ec, Cols)
             /\ \A j \in 1 .. Rows :
                  /\ eg[j] = Exp(ch.gamma, j - 1) /\ ea[j] = Exp(ch.alpha, j - 1)
                  /\ eb[j] = Exp(ch.beta, j - 1) /\ Cong(eag[j], ea[j] * eg[j])
             /\ \A i \in 1 .. Cols : ec[i] = Exp(ch.alpha, i - 1)
<1> DEFINE ag == (ch.alpha * ch.gamma) % q
           eag == ExpIter(ag, Rows)
           eg == ExpIter(ch.gamma, Rows)
           ea == ExpIter(ch.alpha, Rows)
           eb == ExpIter(ch.beta, Rows)
           ec == ExpIter(ch.alpha, Cols)
<1>1. Rows \in Nat /\ Cols \in Nat  BY DEF Shaped
<1>2. ch.alpha \in Int /\ ch.beta \in Int /\ ch.gamma \in Int /\ ag \in Int
  BY ChallengeTyped, PublicTyped
<1>3. ch.alpha * ch.gamma \in Int  BY <1>2
<1>4. Cong(ag, ch.alpha * ch.gamma)  BY <1>3, ModCong
<1> HIDE DEF ag
<1>5. /\ FieldList(eag, Rows) /\ FieldList(eg, Rows) /\ FieldList(ea, Rows)
      /\ FieldList(eb, Rows) /\ FieldList(ec, Cols)
      /\ \A j \in 1 .. Rows : /\ eg[j] = Exp(ch.gamma, j - 1) /\ ea[j] = Exp(ch.alpha, j - 1)
                              /\ eb[j] = Exp(ch.beta, j - 1) /\ eag[j] = Exp(ag, j - 1)
      /\ \A i \in 1 .. Cols : ec[i] = Exp(ch.alpha, i - 1)
  BY <1>1, <1>2, ExpIterIs
<1> HIDE DEF eag, eg, ea, eb, ec
<1>6. /\ Ints(eag, Rows) /\ Ints(eg, Rows) /\ Ints(ea, Rows) /\ Ints(eb, Rows) /\ Ints(ec, Cols)
  BY <1>1, <1>5, FieldScalars DEF Scalars
<1>7. ASSUME NEW j \in 1 .. Rows PROVE Cong(eag[j], ea[j] * eg[j])
  <2>1. j - 1 \in Nat  BY <1>1
  <2>2. Cong(Exp(ag, j - 1), Exp(ch.alpha, j - 1) * Exp(ch.gamma, j - 1))
    BY <1>2, <1>4, <2>1, ExpProduct
  <2> QED BY <1>5, <2>2
<1> QED BY <1>5, <1>6, <1>7 DEF AlphaGamma, eag, eg, ea, eb, ec, ag

LowerDot(ch) ==
  LET eg == ExpIter(ch.gamma, Rows)
      ea == ExpIter(ch.alpha, Rows)
      eb == ExpIter(ch.beta, Rows)
  IN  Cong(Dot(UBot(ch), VBot(ch), Rows),
           (Dot(Products, eg, Rows) - Dot(Az, AlphaGamma(ch), Rows))
             + (Dot(ea, eb, Rows) - Dot(Bz, eb, Rows)))

(* The rows of the three products, with the powers, are field lists.       *)
LEMMA RowsTyped ==
  ASSUME Shaped
  PROVE  /\ Rows \in Nat
         /\ Ints(Az, Rows) /\ Ints(Bz, Rows) /\ Ints(Cz, Rows)
         /\ Ints(Products, Rows) /\ Ints(Errors, Rows)
         /\ \A j \in 1 .. Rows : /\ Products[j] = Az[j] * Bz[j]
                                 /\ Errors[j] = Products[j] - Cz[j]
<1>1. Rows \in Nat  BY DEF Shaped
<1> DEFINE x == Az
           y == Bz
           z == Cz
<1>2. FieldList(x, Rows) /\ FieldList(y, Rows) /\ FieldList(z, Rows)  BY ProductsTyped
<1> HIDE DEF x, y, z
<1>3. Ints(x, Rows) /\ Ints(y, Rows) /\ Ints(z, Rows)  BY <1>1, <1>2, FieldScalars DEF Scalars
<1>4. \A j \in 1 .. Rows : x[j] * y[j] \in Int /\ x[j] * y[j] - z[j] \in Int
  <2>1. \A j \in 1 .. Rows : x[j] \in Int /\ y[j] \in Int /\ z[j] \in Int  BY <1>3 DEF Ints
  <2>2. ASSUME NEW j \in 1 .. Rows PROVE x[j] * y[j] \in Int /\ x[j] * y[j] - z[j] \in Int
    <3> DEFINE p == x[j] * y[j]
    <3>1. p \in Int  BY <2>1
    <3> HIDE DEF p
    <3>2. p - z[j] \in Int  BY <2>1, <3>1
    <3> QED BY <3>1, <3>2 DEF p
  <2> QED BY <2>2
<1>5. /\ \A j \in 1 .. Rows : Products[j] = x[j] * y[j]
      /\ \A j \in 1 .. Rows : Errors[j] = x[j] * y[j] - z[j]
  BY DEF Products, Errors, x, y, z
<1>6. Ints(Products, Rows) /\ Ints(Errors, Rows)  BY <1>4, <1>5 DEF Ints
<1> QED BY <1>1, <1>3, <1>5, <1>6 DEF x, y, z

(* The lower parts' inner product: the rows' products under powers of      *)
(* gamma, a public constant, and two cross terms.                          *)
LEMMA LowerDotIs ==
  ASSUME Shaped, NEW ch, Usable(ch)
  PROVE  LowerDot(ch)
<1> DEFINE x == Az
           y == Bz
           pr == Products
           eag == AlphaGamma(ch)
           eg == ExpIter(ch.gamma, Rows)
           ea == ExpIter(ch.alpha, Rows)
           eb == ExpIter(ch.beta, Rows)
           u == UBot(ch)
           v == VBot(ch)
           uv == [j \in 1 .. Rows |-> u[j] * v[j]]
           t1 == [j \in 1 .. Rows |-> pr[j] * eg[j]]
           t2 == [j \in 1 .. Rows |-> x[j] * eag[j]]
           t3 == [j \in 1 .. Rows |-> y[j] * eb[j]]
           t4 == [j \in 1 .. Rows |-> ea[j] * eb[j]]
           f == [j \in 1 .. Rows |-> t1[j] + (-1) * t2[j]]
           g == [j \in 1 .. Rows |-> t4[j] + (-1) * t3[j]]
<1>1. /\ Rows \in Nat /\ Ints(x, Rows) /\ Ints(y, Rows) /\ Ints(pr, Rows)
      /\ \A j \in 1 .. Rows : pr[j] = x[j] * y[j]
  BY RowsTyped
<1>2. /\ Ints(eag, Rows) /\ Ints(eg, Rows) /\ Ints(ea, Rows) /\ Ints(eb, Rows)
      /\ \A j \in 1 .. Rows :
           /\ eg[j] = Exp(ch.gamma, j - 1) /\ ea[j] = Exp(ch.alpha, j - 1)
           /\ eb[j] = Exp(ch.beta, j - 1) /\ Cong(eag[j], ea[j] * eg[j])
  BY PowersTyped
<1>3. FieldList(u, Rows) /\ FieldList(v, Rows)  BY LowerTyped DEF LowerParts
<1>4. \A j \in 1 .. Rows : Cong(u[j], x[j] * eg[j] - eb[j]) /\ Cong(v[j], y[j] - ea[j])
  BY <1>2, LowerTyped DEF LowerParts
<1> HIDE DEF x, y, pr, eag, eg, ea, eb, u, v
<1>5. Ints(u, Rows) /\ Ints(v, Rows)  BY <1>1, <1>3, FieldScalars DEF Scalars
<1>6. /\ Ints(uv, Rows) /\ Ints(t1, Rows) /\ Ints(t2, Rows) /\ Ints(t3, Rows) /\ Ints(t4, Rows)
  BY <1>1, <1>2, <1>5 DEF Ints
<1>7. \A j \in 1 .. Rows :
        Cong(uv[j], 1 * (pr[j] * eg[j] + (-1) * (x[j] * eag[j]))
                      + 1 * (ea[j] * eb[j] + (-1) * (y[j] * eb[j])))
  <2>1. ASSUME NEW j \in 1 .. Rows
        PROVE  Cong(u[j] * v[j], 1 * (pr[j] * eg[j] + (-1) * (x[j] * eag[j]))
                                   + 1 * (ea[j] * eb[j] + (-1) * (y[j] * eb[j])))
    <3> DEFINE xj == x[j]
               yj == y[j]
               c == eg[j]
               p == eb[j]
               d == ea[j]
               cd == eag[j]
               uj == u[j]
               vj == v[j]
    <3>1. /\ xj \in Int /\ yj \in Int /\ c \in Int /\ p \in Int /\ d \in Int /\ cd \in Int
          /\ uj \in Int /\ vj \in Int
      BY <1>1, <1>2, <1>5 DEF Ints
    <3>2. Cong(cd, d * c) /\ Cong(uj, xj * c - p) /\ Cong(vj, yj - d) /\ pr[j] = xj * yj
      BY <1>1, <1>2, <1>4
    <3> HIDE DEF xj, yj, c, p, d, cd, uj, vj
    <3>3. Cong(uj * vj, 1 * ((xj * yj) * c + (-1) * (xj * cd)) + 1 * (d * p + (-1) * (yj * p)))
      BY <3>1, <3>2, RowExpands
    <3> QED BY <3>2, <3>3 DEF xj, yj, c, p, d, cd, uj, vj
  <2> QED BY <2>1
<1>8. /\ \A j \in 1 .. Rows : t1[j] = pr[j] * eg[j] /\ t2[j] = x[j] * eag[j]
      /\ \A j \in 1 .. Rows : t3[j] = y[j] * eb[j] /\ t4[j] = ea[j] * eb[j]
  OBVIOUS
<1>9. /\ \A j \in 1 .. Rows : f[j] = t1[j] + (-1) * t2[j]
      /\ \A j \in 1 .. Rows : g[j] = t4[j] + (-1) * t3[j]
      /\ \A j \in 1 .. Rows : f[j] \in Int /\ g[j] \in Int
  <2> HIDE DEF t1, t2, t3, t4
  <2>1. \A j \in 1 .. Rows : t1[j] \in Int /\ t2[j] \in Int /\ t3[j] \in Int /\ t4[j] \in Int
    BY <1>6 DEF Ints
  <2> QED BY <2>1
<1>10. \A j \in 1 .. Rows : Cong(uv[j], 1 * f[j] + 1 * g[j])
  <2> HIDE DEF f, g, uv, t1, t2, t3, t4
  <2> QED BY <1>7, <1>8, <1>9
<1> HIDE DEF uv, t1, t2, t3, t4, f, g
<1>11. Ints(f, Rows) /\ Ints(g, Rows) /\ 1 \in Int /\ -1 \in Int  BY <1>9 DEF Ints
<1>12. /\ SumTo(uv, Rows) \in Int /\ SumTo(f, Rows) \in Int /\ SumTo(g, Rows) \in Int
       /\ Cong(SumTo(uv, Rows), 1 * SumTo(f, Rows) + 1 * SumTo(g, Rows))
  BY <1>1, <1>6, <1>10, <1>11, SumLinear
<1>13. \A j \in 1 .. Rows : /\ Cong(f[j], 1 * t1[j] + (-1) * t2[j])
                            /\ Cong(g[j], 1 * t4[j] + (-1) * t3[j])
  <2>1. \A j \in 1 .. Rows : t1[j] \in Int /\ t2[j] \in Int /\ t3[j] \in Int /\ t4[j] \in Int
    BY <1>6 DEF Ints
  <2>2. \A j \in 1 .. Rows : f[j] = 1 * t1[j] + (-1) * t2[j] /\ g[j] = 1 * t4[j] + (-1) * t3[j]
    BY <1>9, <2>1
  <2> QED BY <1>9, <2>2, CongRefl
<1>14. /\ SumTo(t1, Rows) \in Int /\ SumTo(t2, Rows) \in Int
       /\ Cong(SumTo(f, Rows), 1 * SumTo(t1, Rows) + (-1) * SumTo(t2, Rows))
  BY ZenonT(60), <1>1, <1>6, <1>11, <1>13, SumLinear
<1>15. /\ SumTo(t4, Rows) \in Int /\ SumTo(t3, Rows) \in Int
       /\ Cong(SumTo(g, Rows), 1 * SumTo(t4, Rows) + (-1) * SumTo(t3, Rows))
  BY ZenonT(60), <1>1, <1>6, <1>11, <1>13, SumLinear
<1> DEFINE U0 == SumTo(uv, Rows)
           F0 == SumTo(f, Rows)
           G0 == SumTo(g, Rows)
           s1 == SumTo(t1, Rows)
           s2 == SumTo(t2, Rows)
           s3 == SumTo(t3, Rows)
           s4 == SumTo(t4, Rows)
<1>16. /\ U0 \in Int /\ F0 \in Int /\ G0 \in Int /\ s1 \in Int /\ s2 \in Int /\ s3 \in Int /\ s4 \in Int
       /\ Cong(U0, 1 * F0 + 1 * G0) /\ Cong(F0, 1 * s1 + (-1) * s2) /\ Cong(G0, 1 * s4 + (-1) * s3)
  BY <1>12, <1>14, <1>15
<1> HIDE DEF U0, F0, G0, s1, s2, s3, s4
<1>17. Cong(U0, (s1 - s2) + (s4 - s3))
  <2> DEFINE l == s1 - s2
             k == s4 - s3
  <2>1. l \in Int /\ k \in Int  BY <1>16
  <2>2. 1 * F0 + 1 * G0 = F0 + G0 /\ 1 * s1 + (-1) * s2 = l /\ 1 * s4 + (-1) * s3 = k
    BY <1>16
  <2>3. Cong(U0, F0 + G0) /\ Cong(F0, l) /\ Cong(G0, k)  BY <1>16, <2>2
  <2> HIDE DEF l, k
  <2>4. Cong(F0 + G0, l + k) /\ F0 + G0 \in Int /\ l + k \in Int  BY <1>16, <2>1, <2>3, CongAdd
  <2>5. Cong(U0, l + k)  BY <1>16, <2>3, <2>4, CongTrans
  <2> QED BY <2>5 DEF l, k
<1>18. /\ U0 = Dot(u, v, Rows) /\ s1 = Dot(pr, eg, Rows) /\ s2 = Dot(x, eag, Rows)
       /\ s3 = Dot(y, eb, Rows) /\ s4 = Dot(ea, eb, Rows)
  BY DEF Dot, U0, s1, s2, s3, s4, uv, t1, t2, t3, t4
<1>19. Cong(Dot(u, v, Rows), (Dot(pr, eg, Rows) - Dot(x, eag, Rows))
                               + (Dot(ea, eb, Rows) - Dot(y, eb, Rows)))
  BY <1>17, <1>18
<1> QED BY <1>19 DEF LowerDot, u, v, pr, eg, x, eag, ea, eb, y

-----------------------------------------------------------------------------
(* The upper halves' inner product.                                       *)

(* An index of the witness: delta and its inverse cancel.                  *)
LEMMA WitnessEntry ==
  ASSUME NEW z \in Int, NEW c \in Int, NEW d \in Int, NEW di \in Int, Cong(d * di, 1),
         NEW v \in Int, Cong(v, c * d)
  PROVE  Cong((0 + z * di) * v, z * c)
<1> DEFINE zdi == z * di
           cd == c * d
           zc == z * c
           ddi == d * di
<1>1. zdi \in Int /\ cd \in Int /\ zc \in Int /\ ddi \in Int  OBVIOUS
<1>2. Cong(zdi, zdi) /\ Cong(v, cd)  BY <1>1, CongRefl
<1>3. Cong(zdi * v, zdi * cd) /\ zdi * v \in Int /\ zdi * cd \in Int
  <2> HIDE DEF zdi, cd
  <2> QED BY <1>1, <1>2, CongMul
<1>4. zdi * cd = zc * ddi
  <2>1. (z * di) * (c * d) = (z * c) * (d * di)  OBVIOUS
  <2> QED BY <2>1
<1>5. Cong(zc * ddi, zc)
  <2> HIDE DEF zc, ddi
  <2>1. Cong(zc, zc) /\ Cong(ddi, 1) /\ 1 \in Int  BY <1>1, CongRefl DEF ddi
  <2>2. Cong(zc * ddi, zc * 1)  BY <1>1, <2>1, CongMul
  <2> QED BY <1>1, <2>2
<1>6. 0 + zdi = zdi  BY <1>1
<1> HIDE DEF zdi, cd, zc, ddi
<1>7. Cong(zdi * cd, zc)  BY <1>4, <1>5
<1>8. Cong(zdi * v, zc)  BY <1>1, <1>3, <1>7, CongTrans
<1> QED BY <1>6, <1>8 DEF zdi, zc

UpperDot(ch) ==
  LET ec == ExpIter(ch.alpha, Cols)
  IN  Cong(Dot(UTop(ch), VTop(ch), Cols),
           Dot(Z, CVec(ch), Cols) + Sq(ch.delta) * Dot(ec, VTop(ch), Cols))

(* The upper parts' inner product: the assignment against c, and a public  *)
(* term.                                                                   *)
LEMMA UpperDotIs ==
  ASSUME Shaped, NEW ch, Usable(ch)
  PROVE  UpperDot(ch)
<1> DEFINE u == UTop(ch)
           v == VTop(ch)
           c == CVec(ch)
           z == Z
           ec == ExpIter(ch.alpha, Cols)
           dd == Sq(ch.delta)
           d == ch.delta
           di == Inv(ch.delta)
           dv == DeltaVec(ch)
           y == [i \in 1 .. Cols |-> Inputs0[i] + Witness0[i] * di]
<1>1. Cols \in Nat /\ Wit \in Nat  BY DEF Shaped
<1>2. dd \in Int /\ d \in Int /\ di \in Int /\ 1 \in Int /\ Cong(d * di, 1)  BY ChallengeTyped
<1>3. /\ FieldList(v, Cols) /\ \A i \in 1 .. Cols : Cong(v[i], c[i] * dv[i])
  BY VerifierTyped DEF VerifierParts
<1>4. FieldList(c, Cols) /\ \A i \in 1 .. Cols : dv[i] = IF i \in 1 .. Wit THEN d ELSE 1
  BY PublicTyped
<1>5. Ints(ec, Cols) /\ \A i \in 1 .. Cols : ec[i] = Exp(ch.alpha, i - 1)  BY PowersTyped
<1>6. /\ FieldList(u, Cols)
      /\ \A i \in 1 .. Cols : Cong(u[i], Inputs0[i] + Witness0[i] * di + ec[i] * dd)
  BY <1>5, UTopTyped DEF UTopParts
<1>7. /\ FieldList(z, Cols) /\ FieldList(Inputs0, Cols) /\ FieldList(Witness0, Cols)
      /\ \A i \in 1 .. Cols :
           /\ i \in 1 .. Wit => z[i] = Witness0[i] /\ Inputs0[i] = 0
           /\ i \notin 1 .. Wit => z[i] = Inputs0[i] /\ Witness0[i] = 0
  BY AssignmentTyped
<1> HIDE DEF u, v, c, z, ec, dd, d, di, dv
<1>8. /\ Ints(u, Cols) /\ Ints(v, Cols) /\ Ints(c, Cols) /\ Ints(z, Cols)
      /\ Ints(Inputs0, Cols) /\ Ints(Witness0, Cols)
  BY <1>1, <1>3, <1>4, <1>6, <1>7, FieldScalars DEF Scalars
<1>9. Ints(y, Cols) /\ \A i \in 1 .. Cols : y[i] = Inputs0[i] + Witness0[i] * di
  <2>1. \A i \in 1 .. Cols : y[i] = Inputs0[i] + Witness0[i] * di  OBVIOUS
  <2>2. ASSUME NEW i \in 1 .. Cols PROVE Inputs0[i] + Witness0[i] * di \in Int
    <3> DEFINE p == Witness0[i] * di
    <3>1. p \in Int /\ Inputs0[i] \in Int  BY <1>2, <1>8 DEF Ints
    <3> QED BY <3>1
  <2> QED BY <2>1, <2>2 DEF Ints
<1> HIDE DEF y
<1>10. \A i \in 1 .. Cols : Cong(u[i], 1 * y[i] + dd * ec[i])
  <2>1. ASSUME NEW i \in 1 .. Cols
        PROVE  y[i] + ec[i] * dd = 1 * y[i] + dd * ec[i]
    BY <1>2, <1>5, <1>9 DEF Ints
  <2> QED BY <1>6, <1>9, <2>1
<1>11. Cong(Dot(u, v, Cols), 1 * Dot(y, v, Cols) + dd * Dot(ec, v, Cols))
  BY <1>1, <1>2, <1>5, <1>8, <1>9, <1>10, DotLinear
<1>12. ASSUME NEW i \in 1 .. Cols PROVE Cong(y[i] * v[i], z[i] * c[i])
  <2> DEFINE zi == z[i]
             ci == c[i]
             vi == v[i]
  <2>1. zi \in Int /\ ci \in Int /\ vi \in Int  BY <1>8 DEF Ints
  <2>2. CASE i \in 1 .. Wit
    <3>1. Cong(vi, ci * d)  BY <1>3, <1>4, <2>2
    <3>2. y[i] = 0 + zi * di  BY <1>7, <1>9, <2>2
    <3> HIDE DEF zi, ci, vi
    <3>3. Cong((0 + zi * di) * vi, zi * ci)  BY <1>2, <2>1, <3>1, WitnessEntry
    <3> QED BY <3>2, <3>3 DEF zi, ci, vi
  <2>3. CASE i \notin 1 .. Wit
    <3>1. Cong(vi, ci * 1)  BY <1>3, <1>4, <2>3
    <3>2. y[i] = zi + 0 * di  BY <1>7, <1>9, <2>3
    <3> HIDE DEF zi, ci, vi
    <3>3. zi + 0 * di = zi /\ ci * 1 = ci  BY <1>2, <2>1
    <3>4. Cong(vi, ci) /\ Cong(zi, zi)  BY <2>1, <3>1, <3>3, CongRefl
    <3>5. Cong(zi * vi, zi * ci)  BY <2>1, <3>4, CongMul
    <3> QED BY <3>2, <3>3, <3>5 DEF zi, ci, vi
  <2> QED BY <2>2, <2>3
<1>13. Cong(Dot(y, v, Cols), Dot(z, c, Cols))
  BY <1>1, <1>8, <1>9, <1>12, DotCong
<1> DEFINE A0 == Dot(u, v, Cols)
           A1 == Dot(y, v, Cols)
           A2 == Dot(z, c, Cols)
           A3 == Dot(ec, v, Cols)
           A4 == dd * A3
<1>14. A0 \in Int /\ A1 \in Int /\ A2 \in Int /\ A3 \in Int
  BY <1>1, <1>5, <1>8, <1>9, DotInt
<1> HIDE DEF A0, A1, A2, A3
<1>15. A4 \in Int  BY <1>2, <1>14
<1>16. Cong(A0, 1 * A1 + A4) /\ Cong(A1, A2)  BY <1>11, <1>13 DEF A0, A1, A2, A3
<1> HIDE DEF A4
<1>17. Cong(A4, A4)  BY <1>15, CongRefl
<1>18. Cong(A1 + A4, A2 + A4) /\ 1 * A1 + A4 = A1 + A4 /\ A1 + A4 \in Int /\ A2 + A4 \in Int
  BY <1>14, <1>15, <1>16, <1>17, CongAdd
<1>19. Cong(A0, A1 + A4)  BY <1>16, <1>18
<1>20. Cong(A0, A2 + A4)  BY <1>14, <1>18, <1>19, CongTrans
<1> QED BY <1>20 DEF UpperDot, A0, A2, A3, A4, u, v, c, z, ec, dd

ColumnsDot(ch) ==
  LET eg == ExpIter(ch.gamma, Rows)
      eb == ExpIter(ch.beta, Rows)
  IN  Cong(Dot(Z, CVec(ch), Cols),
           (Dot(Az, AlphaGamma(ch), Rows) + Dot(Bz, eb, Rows)) - Dot(Cz, eg, Rows))

(* Against c the assignment meets each matrix once: c's columns are moved  *)
(* over to the products.                                                   *)
LEMMA ColumnsDotIs ==
  ASSUME Shaped, NEW ch, Usable(ch)
  PROVE  ColumnsDot(ch)
<1> DEFINE z == Z
           c == CVec(ch)
           ca == CA(ch)
           cb == CB(ch)
           cc == CC(ch)
           ab == [i \in 1 .. Cols |-> ca[i] + cb[i]]
           eag == AlphaGamma(ch)
           eg == ExpIter(ch.gamma, Rows)
           eb == ExpIter(ch.beta, Rows)
<1>1. Cols \in Nat /\ Rows \in Nat /\ IsMatrix(stmt.A) /\ IsMatrix(stmt.B) /\ IsMatrix(stmt.C)
  BY DEF Shaped
<1>2. FieldList(z, Cols)  BY AssignmentTyped
<1>3. /\ FieldList(ca, Cols) /\ FieldList(cb, Cols) /\ FieldList(cc, Cols) /\ FieldList(c, Cols)
      /\ \A i \in 1 .. Cols : Cong(c[i], ca[i] + cb[i] - cc[i])
  BY PublicTyped
<1>4. FieldList(eag, Rows) /\ FieldList(eg, Rows) /\ FieldList(eb, Rows)  BY PowersTyped
<1>5. /\ Cong(Dot(ca, z, Cols), Dot(Az, eag, Rows))
      /\ Cong(Dot(cb, z, Cols), Dot(Bz, eb, Rows))
      /\ Cong(Dot(cc, z, Cols), Dot(Cz, eg, Rows))
  <2>1. Cong(Dot(VecMultiplyMat(stmt.A, eag), z, Cols), Dot(MultiplyVec(stmt.A, z), eag, Rows))
    <3> HIDE DEF z, eag
    <3> QED BY <1>1, <1>2, <1>4, Adjoint
  <2>2. Cong(Dot(VecMultiplyMat(stmt.B, eb), z, Cols), Dot(MultiplyVec(stmt.B, z), eb, Rows))
    <3> HIDE DEF z, eb
    <3> QED BY <1>1, <1>2, <1>4, Adjoint
  <2>3. Cong(Dot(VecMultiplyMat(stmt.C, eg), z, Cols), Dot(MultiplyVec(stmt.C, z), eg, Rows))
    <3> HIDE DEF z, eg
    <3> QED BY <1>1, <1>2, <1>4, Adjoint
  <2> QED BY <2>1, <2>2, <2>3 DEF Az, Bz, Cz, CA, CB, CC, AlphaGamma
<1>6. Ints(Az, Rows) /\ Ints(Bz, Rows) /\ Ints(Cz, Rows)  BY RowsTyped
<1> HIDE DEF z, c, ca, cb, cc, eag, eg, eb
<1>7. /\ Ints(z, Cols) /\ Ints(ca, Cols) /\ Ints(cb, Cols) /\ Ints(cc, Cols) /\ Ints(c, Cols)
      /\ Ints(eag, Rows) /\ Ints(eg, Rows) /\ Ints(eb, Rows)
  BY <1>1, <1>2, <1>3, <1>4, FieldScalars DEF Scalars
<1>8. Ints(ab, Cols) /\ \A i \in 1 .. Cols : ab[i] = ca[i] + cb[i]
  BY <1>7 DEF Ints
<1> HIDE DEF ab
<1>9. /\ \A i \in 1 .. Cols : Cong(ab[i], 1 * ca[i] + 1 * cb[i])
      /\ \A i \in 1 .. Cols : Cong(c[i], 1 * ab[i] + (-1) * cc[i])
  <2>1. ASSUME NEW i \in 1 .. Cols
        PROVE  ab[i] = 1 * ca[i] + 1 * cb[i] /\ ca[i] + cb[i] - cc[i] = 1 * ab[i] + (-1) * cc[i]
               /\ ab[i] \in Int
    BY <1>7, <1>8 DEF Ints
  <2> QED BY <1>3, <2>1, CongRefl
<1> DEFINE dz == Dot(z, c, Cols)
           da == Dot(ca, z, Cols)
           db == Dot(cb, z, Cols)
           dc == Dot(cc, z, Cols)
           dab == Dot(ab, z, Cols)
           ra == Dot(Az, eag, Rows)
           rb == Dot(Bz, eb, Rows)
           rc == Dot(Cz, eg, Rows)
<1>10. /\ dz \in Int /\ da \in Int /\ db \in Int /\ dc \in Int /\ dab \in Int
  BY <1>1, <1>7, <1>8, DotInt
<1>11. ra \in Int /\ rb \in Int /\ rc \in Int  BY <1>1, <1>6, <1>7, DotInt
<1>12. 1 \in Int /\ -1 \in Int  OBVIOUS
<1>13. Cong(dab, 1 * da + 1 * db)
  BY <1>1, <1>7, <1>8, <1>9, <1>12, DotLinear
<1>14. Cong(Dot(c, z, Cols), 1 * dab + (-1) * dc)
  BY <1>1, <1>7, <1>8, <1>9, <1>12, DotLinear
<1>15. dz = Dot(c, z, Cols)  BY <1>1, <1>7, DotSym
<1> HIDE DEF dz, da, db, dc, dab, ra, rb, rc
<1>16. Cong(dab, da + db) /\ Cong(dz, dab - dc)
  <2>1. 1 * da + 1 * db = da + db /\ 1 * dab + (-1) * dc = dab - dc  BY <1>10
  <2> QED BY <1>13, <1>14, <1>15, <2>1
<1>17. Cong(da, ra) /\ Cong(db, rb) /\ Cong(dc, rc)  BY <1>5 DEF da, db, dc, ra, rb, rc
<1>18. Cong(da + db, ra + rb) /\ da + db \in Int /\ ra + rb \in Int
  BY <1>10, <1>11, <1>17, CongAdd
<1>19. Cong(dab, ra + rb)  BY <1>10, <1>16, <1>18, CongTrans
<1>20. Cong(dab - dc, (ra + rb) - rc)
  <2> DEFINE rs == ra + rb
  <2>1. rs \in Int /\ Cong(dab, rs)  BY <1>18, <1>19
  <2> HIDE DEF rs
  <2>2. Cong(dab - dc, rs - rc)  BY <1>10, <1>11, <1>17, <2>1, CongSub
  <2> QED BY <2>2 DEF rs
<1>21. dab - dc \in Int /\ (ra + rb) - rc \in Int  BY <1>10, <1>11
<1>22. Cong(dz, (ra + rb) - rc)  BY <1>10, <1>16, <1>20, <1>21, CongTrans
<1> QED BY <1>22 DEF ColumnsDot, dz, ra, rb, rc, z, c, eag, eg, eb

-----------------------------------------------------------------------------
(* The inner product the prover computes, against the public w.           *)

(* An inner product of two vectors is their parts' inner products.         *)
LEMMA DotOfParts ==
  ASSUME NEW k \in Nat, NEW l \in Nat, NEW x, NEW y, NEW s, NEW t, NEW v, NEW w,
         Parts(x, s, k, t, l), Parts(y, v, k, w, l),
         FieldList(s, k), FieldList(t, l), FieldList(v, k), FieldList(w, l)
  PROVE  Dot(x, y, k + l) = Dot(s, v, k) + Dot(t, w, l)
<1>1. /\ Ints(s, k) /\ Ints(v, k) /\ Ints(t, l) /\ Ints(w, l)
  BY FieldScalars DEF Scalars
<1>2. Ints(x, k + l) /\ Ints(y, k + l)
  <2>1. FieldList(x, k + l) /\ FieldList(y, k + l) /\ k + l \in Nat  BY DEF Parts
  <2> QED BY <2>1, FieldScalars DEF Scalars
<1>3. Dot(x, y, k + l) = Dot(x, y, k) + Dot(Drop(x, k, l), Drop(y, k, l), l)
  BY <1>2, DotSplit
<1>4. Dot(s, v, k) = Dot(x, y, k)
  <2>1. \A i \in 1 .. k : s[i] = x[i] /\ v[i] = y[i]  BY DEF Parts
  <2> QED BY <1>1, <2>1, DotSame
<1>5. Dot(t, w, l) = Dot(Drop(x, k, l), Drop(y, k, l), l)
  <2>1. \A i \in 1 .. l : t[i] = Drop(x, k, l)[i] /\ w[i] = Drop(y, k, l)[i]  BY DEF Parts, Drop
  <2> HIDE DEF Drop
  <2> QED BY <1>1, <2>1, DotSame
<1> QED BY <1>3, <1>4, <1>5

(* The error of the statement's assignment: every constraint's, weighed by *)
(* its power of gamma. *)
ErrorAt(ch) == Dot(Errors, ExpIter(ch.gamma, Rows), Rows)

(* <u,v> is the public w plus the error.                                   *)
LEMMA InnerProductError ==
  ASSUME Shaped, NEW ch, Usable(ch)
  PROVE  /\ ErrorAt(ch) \in Int
         /\ Cong(InnerProduct(UVec(ch), VVec(ch)), W(ch) + ErrorAt(ch))
<1> DEFINE u == UVec(ch)
           v == VVec(ch)
           ut == UTop(ch)
           ub == UBot(ch)
           vt == VTop(ch)
           vb == VBot(ch)
           eg == ExpIter(ch.gamma, Rows)
           eb == ExpIter(ch.beta, Rows)
           ea == ExpIter(ch.alpha, Rows)
           ec == ExpIter(ch.alpha, Cols)
           eag == AlphaGamma(ch)
           dd == Sq(ch.delta)
           x == Az
           y == Bz
           z == Cz
           pr == Products
           er == Errors
<1>1. Rows \in Nat /\ Cols \in Nat /\ Size = Cols + Rows /\ Size \in Nat  BY DEF Shaped
<1>2. /\ Parts(u, ut, Cols, ub, Rows) /\ Parts(v, vt, Cols, vb, Rows)
      /\ FieldList(u, Size) /\ FieldList(v, Size)
  BY FullVectors
<1>3. FieldList(ut, Cols) /\ FieldList(ub, Rows) /\ FieldList(vb, Rows) /\ FieldList(vt, Cols)
  BY UTopTyped, LowerTyped, VerifierTyped DEF UTopParts, LowerParts, VerifierParts
<1>4. Cong(Dot(ut, vt, Cols), Dot(Z, CVec(ch), Cols) + dd * Dot(ec, vt, Cols))
  BY UpperDotIs DEF UpperDot
<1>5. Cong(Dot(Z, CVec(ch), Cols),
           (Dot(x, eag, Rows) + Dot(y, eb, Rows)) - Dot(z, eg, Rows))
  BY ColumnsDotIs DEF ColumnsDot
<1>6. Cong(Dot(ub, vb, Rows),
           (Dot(pr, eg, Rows) - Dot(x, eag, Rows)) + (Dot(ea, eb, Rows) - Dot(y, eb, Rows)))
  BY LowerDotIs DEF LowerDot
<1>7. /\ Dot(ea, eb, Rows) \in Int /\ Dot(ec, vt, Cols) \in Int /\ W(ch) \in Int
      /\ Cong(W(ch), Dot(ea, eb, Rows) + dd * Dot(ec, vt, Cols))
  BY PublicValue
<1>8. dd \in Int  BY ChallengeTyped
<1>9. /\ Ints(x, Rows) /\ Ints(y, Rows) /\ Ints(z, Rows) /\ Ints(pr, Rows) /\ Ints(er, Rows)
      /\ \A j \in 1 .. Rows : er[j] = pr[j] - z[j]
  BY RowsTyped
<1>10. Ints(eg, Rows) /\ Ints(eb, Rows) /\ Ints(eag, Rows)  BY PowersTyped
<1>11. FieldList(Z, Cols) /\ FieldList(CVec(ch), Cols)  BY AssignmentTyped, PublicTyped
<1> DEFINE zz == Z
           cc == CVec(ch)
           w0 == W(ch)
<1> HIDE DEF u, v, ut, ub, vt, vb, eg, eb, ea, ec, eag, dd, x, y, z, pr, er, zz, cc, w0
<1>12. /\ Ints(u, Size) /\ Ints(v, Size) /\ Ints(ut, Cols) /\ Ints(vt, Cols)
       /\ Ints(ub, Rows) /\ Ints(vb, Rows) /\ Ints(zz, Cols) /\ Ints(cc, Cols)
       /\ Scalars(u, Size)
  BY <1>1, <1>2, <1>3, <1>11, FieldScalars DEF Scalars, zz, cc
<1>13. Dot(u, v, Size) = Dot(ut, vt, Cols) + Dot(ub, vb, Rows)
  <2>1. Dot(u, v, Cols + Rows) = Dot(ut, vt, Cols) + Dot(ub, vb, Rows)
    BY <1>1, <1>2, <1>3, DotOfParts
  <2> QED BY <1>1, <2>1
<1>14. InnerProduct(u, v) = Dot(u, v, Size) % q  BY <1>1, <1>12, InnerProductIs
<1>15. Cong(Dot(er, eg, Rows), 1 * Dot(pr, eg, Rows) + (-1) * Dot(z, eg, Rows))
  <2>1. \A j \in 1 .. Rows : Cong(er[j], 1 * pr[j] + (-1) * z[j])
    <3>1. \A j \in 1 .. Rows : er[j] = 1 * pr[j] + (-1) * z[j] /\ er[j] \in Int
      BY <1>9 DEF Ints
    <3> QED BY <3>1, CongRefl
  <2>2. 1 \in Int /\ -1 \in Int  OBVIOUS
  <2> QED BY <1>1, <1>9, <1>10, <2>1, <2>2, DotLinear
<1> DEFINE D == Dot(u, v, Size)
           A == Dot(ut, vt, Cols)
           B == Dot(ub, vb, Rows)
           K == Dot(zz, cc, Cols)
           E == Dot(ec, vt, Cols)
           dE == dd * E
           xa == Dot(x, eag, Rows)
           yb == Dot(y, eb, Rows)
           zg == Dot(z, eg, Rows)
           pg == Dot(pr, eg, Rows)
           ab == Dot(ea, eb, Rows)
           er0 == Dot(er, eg, Rows)
           ip == InnerProduct(u, v)
<1>16. /\ D \in Int /\ A \in Int /\ B \in Int /\ K \in Int /\ E \in Int /\ xa \in Int
       /\ yb \in Int /\ zg \in Int /\ pg \in Int /\ ab \in Int /\ er0 \in Int
  BY <1>1, <1>7, <1>9, <1>10, <1>12, DotInt
<1>17. /\ D = A + B /\ ip = D % q /\ Cong(A, K + dE) /\ Cong(K, (xa + yb) - zg)
       /\ Cong(B, (pg - xa) + (ab - yb)) /\ Cong(w0, ab + dE)
       /\ Cong(er0, 1 * pg + (-1) * zg) /\ w0 \in Int
  BY <1>4, <1>5, <1>6, <1>7, <1>13, <1>14, <1>15 DEF zz, cc, w0
<1> HIDE DEF D, A, B, K, E, xa, yb, zg, pg, ab, er0
<1>18. dE \in Int  BY <1>8, <1>16
<1> HIDE DEF dE, ip
<1>19. Cong(A + B, (ab + dE) + (pg - zg)) /\ (ab + dE) + (pg - zg) \in Int
  <2> DEFINE k1 == (xa + yb) - zg
             b1 == (pg - xa) + (ab - yb)
  <2>1. k1 \in Int /\ b1 \in Int  BY <1>16
  <2>2. Cong(K, k1) /\ Cong(B, b1)  BY <1>17
  <2> HIDE DEF k1, b1
  <2>3. Cong(dE, dE)  BY <1>18, CongRefl
  <2>4. Cong(K + dE, k1 + dE) /\ K + dE \in Int /\ k1 + dE \in Int
    BY <1>16, <1>18, <2>1, <2>2, <2>3, CongAdd
  <2>5. Cong(A, k1 + dE)  BY <1>16, <1>17, <2>4, CongTrans
  <2>6. Cong(A + B, (k1 + dE) + b1)  BY <1>16, <2>1, <2>2, <2>4, <2>5, CongAdd
  <2>7. (k1 + dE) + b1 = (ab + dE) + (pg - zg)  BY <1>16, <1>18 DEF k1, b1
  <2> QED BY <1>16, <1>18, <2>6, <2>7
<1>20. Cong(ab + dE, w0) /\ Cong(pg - zg, er0)
  <2>1. 1 * pg + (-1) * zg = pg - zg /\ pg - zg \in Int /\ ab + dE \in Int  BY <1>16, <1>18
  <2>2. Cong(er0, pg - zg)  BY <1>17, <2>1
  <2> QED BY <1>16, <1>17, <2>1, <2>2, CongSym
<1>21. Cong((ab + dE) + (pg - zg), w0 + er0)
  <2> DEFINE l == ab + dE
             k == pg - zg
  <2>1. l \in Int /\ k \in Int /\ Cong(l, w0) /\ Cong(k, er0)  BY <1>16, <1>18, <1>20
  <2> HIDE DEF l, k
  <2>2. Cong(l + k, w0 + er0)  BY <1>16, <1>17, <2>1, CongAdd
  <2> QED BY <2>2 DEF l, k
<1>22. Cong(D, w0 + er0) /\ w0 + er0 \in Int
  <2>1. w0 + er0 \in Int /\ A + B \in Int  BY <1>16, <1>17
  <2>2. Cong(A + B, w0 + er0)
    <3> DEFINE m == (ab + dE) + (pg - zg)
    <3>1. m \in Int /\ Cong(A + B, m) /\ Cong(m, w0 + er0)  BY <1>19, <1>21
    <3> HIDE DEF m
    <3> QED BY <2>1, <3>1, CongTrans
  <2> QED BY <1>17, <2>1, <2>2
<1>23. Cong(ip, w0 + er0)
  <2>1. ip \in Fq /\ Cong(ip, D)  BY <1>16, <1>17, ModCong
  <2>2. ip \in Int  BY <2>1, PrimeAssumption DEF Fq
  <2> QED BY <1>16, <1>22, <2>1, <2>2, CongTrans
<1> QED BY <1>16, <1>23 DEF ErrorAt, ip, w0, er0, u, v, er, eg

(* With no violated constraint, w is <u,v>.                                *)
LEMMA SatisfiedOpens ==
  ASSUME Shaped, NEW ch, Usable(ch), Satisfied
  PROVE  InnerProduct(UVec(ch), VVec(ch)) = W(ch)
<1> DEFINE ip == InnerProduct(UVec(ch), VVec(ch))
           w == W(ch)
           eg == ExpIter(ch.gamma, Rows)
           x == Az
           y == Bz
           z == Cz
<1>1. Rows \in Nat  BY DEF Shaped
<1>2. FieldList(x, Rows) /\ FieldList(y, Rows) /\ FieldList(z, Rows)  BY ProductsTyped
<1>3. /\ Ints(Errors, Rows)
      /\ \A j \in 1 .. Rows : Errors[j] = Products[j] - z[j]
      /\ \A j \in 1 .. Rows : Products[j] = x[j] * y[j]
  BY RowsTyped
<1>4. ComponentWiseMul(x, y) = z  BY DEF Satisfied, Cz
<1> HIDE DEF x, y, z
<1>5. Elementwise(x, y, 1, Rows)
  <2>1. 1 \in Int  OBVIOUS
  <2> QED BY <1>1, <1>2, <2>1, VectorOps
<1>6. \A j \in 1 .. Rows : Cong(z[j], x[j] * y[j]) /\ x[j] \in Int /\ y[j] \in Int
  BY <1>4, <1>5 DEF Elementwise
<1>7. Fq \subseteq Int  BY PrimeAssumption DEF Fq
<1>8. ASSUME NEW j \in 1 .. Rows PROVE Cong(Errors[j], 0)
  <2> DEFINE p == x[j] * y[j]
             zj == z[j]
  <2>4. x[j] \in Int /\ y[j] \in Int /\ zj \in Int  BY <1>2, <1>6, <1>7 DEF FieldList
  <2>5. p \in Int  BY <2>4
  <2>1. p \in Int /\ zj \in Int /\ Cong(zj, p) /\ Errors[j] = p - zj
    BY <1>3, <1>6, <2>4, <2>5
  <2> HIDE DEF p, zj
  <2>2. Cong(p, p) /\ Cong(p - zj, p - p)
    <3>1. Cong(p, p)  BY <2>1, CongRefl
    <3>2. Cong(p, zj)  BY <2>1, CongSym
    <3>3. Cong(zj, p)  BY <2>1
    <3> QED BY <2>1, <3>1, <3>3, CongSub
  <2>3. p - p = 0  BY <2>1
  <2> QED BY <2>1, <2>2, <2>3
<1>9. Ints(eg, Rows)  BY PowersTyped
<1>10. ErrorAt(ch) \in Int /\ Cong(ip, w + ErrorAt(ch))  BY InnerProductError
<1> DEFINE zs == Zeros(Rows)
           e == ErrorAt(ch)
<1>11. Ints(zs, Rows) /\ \A j \in 1 .. Rows : zs[j] = 0
  BY <1>1, ZerosList, FieldScalars DEF Scalars
<1>12. Cong(e, 0)
  <2> HIDE DEF eg, zs
  <2>1. \A j \in 1 .. Rows : Cong(Errors[j] * eg[j], eg[j] * zs[j])
    <3>1. ASSUME NEW j \in 1 .. Rows PROVE Cong(Errors[j] * eg[j], eg[j] * zs[j])
      <4> DEFINE ej == Errors[j]
                 gj == eg[j]
      <4>1. ej \in Int /\ gj \in Int /\ Cong(ej, 0) /\ zs[j] = 0 /\ 0 \in Int
        BY <1>3, <1>8, <1>9, <1>11 DEF Ints
      <4> HIDE DEF ej, gj
      <4>2. Cong(ej * gj, 0 * gj)  BY <4>1, CongScaled
      <4>3. 0 * gj = gj * 0  BY <4>1
      <4> QED BY <4>1, <4>2, <4>3 DEF ej, gj
    <3> QED BY <3>1
  <2>2. Cong(Dot(Errors, eg, Rows), Dot(eg, zs, Rows))
    BY <1>1, <1>3, <1>9, <1>11, <2>1, DotCong
  <2>3. Cong(Dot(eg, zs, Rows), 0) /\ Dot(eg, zs, Rows) \in Int
    BY <1>1, <1>9, <1>11, DotOfZeros
  <2>4. Dot(Errors, eg, Rows) \in Int  BY <1>1, <1>3, <1>9, DotInt
  <2>5. Cong(Dot(Errors, eg, Rows), 0)  BY <2>2, <2>3, <2>4, CongTrans
  <2> QED BY <2>5 DEF ErrorAt, eg, e
<1>13. w \in Fq /\ w \in Int  BY PublicValue
<1>14. ip \in Fq
  <2>1. FieldList(UVec(ch), Size) /\ FieldList(VVec(ch), Size) /\ Size \in Nat
    BY FullVectors DEF Shaped
  <2>2. Scalars(UVec(ch), Size) /\ Scalars(VVec(ch), Size)  BY <2>1, FieldScalars
  <2>3. Dot(UVec(ch), VVec(ch), Size) \in Int /\ ip = Dot(UVec(ch), VVec(ch), Size) % q
    BY <2>1, <2>2, InnerProductIs DEF Scalars
  <2> QED BY <2>3, ModCong
<1> HIDE DEF ip, w, e
<1>15. ip \in Int  BY <1>7, <1>14
<1>16. e \in Int /\ Cong(ip, w + e)  BY <1>10 DEF e
<1>17. Cong(w, w)  BY <1>13, CongRefl
<1>18. Cong(w + e, w + 0) /\ w + e \in Int /\ w + 0 = w  BY <1>12, <1>13, <1>16, <1>17, CongAdd
<1>19. Cong(ip, w)  BY <1>13, <1>15, <1>16, <1>18, CongTrans
<1>20. ip = w  BY <1>13, <1>14, <1>19, CongEqual
<1> QED BY <1>20 DEF ip, w

-----------------------------------------------------------------------------
(* The inductive invariant of the reduction.                              *)

(* What the prover passes is what create accepts.                          *)
LEMMA ArgumentsCallable ==
  ASSUME Shaped, NEW ch, Usable(ch), r_S \in Fq, eta \in Fq
  PROVE  Callable(Arguments(ch)) /\ Len(Arguments(ch).a) = Size
<1> DEFINE x == Arguments(ch)
           ua == UVec(ch)
           vb == VVec(ch)
           f == GprimeFactors(ch)
           o == OnesTo(Size)
<1>1. Size \in Nat /\ Size \in 1 .. N /\ \E e \in 0 .. N : Size = Pow2[e]  BY DEF Shaped
<1>2. FieldList(ua, Size) /\ FieldList(vb, Size) /\ FieldList(f, Size) /\ FieldList(o, Size)
  BY FullVectors, FactorsTyped
<1>3. x.alpha \in Fq  BY Claimed
<1>4. x.a = ua /\ x.b = vb /\ x.gf = f /\ x.hf = o  BY DEF Arguments, OnesTo
<1> HIDE DEF x, ua, vb, f, o
<1>5. /\ ua \in [1 .. Size -> Fq] /\ vb \in [1 .. Size -> Fq]
      /\ f \in [1 .. Size -> Fq] /\ o \in [1 .. Size -> Fq]
  BY <1>1, <1>2, FieldListType
<1>6. Len(ua) = Size  BY <1>1, <1>2, ListLength DEF FieldList
<1>7. Callable(x)  BY <1>1, <1>3, <1>4, <1>5, <1>6 DEF Callable
<1> QED BY <1>4, <1>6, <1>7 DEF x

(* The products of matrices, with what they read of the state as parameters. *)
RowsOf(M, z, rows) ==
  [row \in 1 .. rows |->
     MapThenSumSet(LAMBDA t : M[t][3] * z[M[t][2]], {t \in DOMAIN M : M[t][1] = row}) % q]

ColumnsOf(M, v, cols) ==
  [col \in 1 .. cols |->
     MapThenSumSet(LAMBDA t : M[t][3] * v[M[t][1]], {t \in DOMAIN M : M[t][2] = col}) % q]

ProductsRead ==
  /\ Az = RowsOf(stmt.A, Z, Rows) /\ Bz = RowsOf(stmt.B, Z, Rows)
  /\ \A ch : CVec(ch) =
       SubVec(AddVec(ColumnsOf(stmt.A, ExpIter((ch.alpha * ch.gamma) % q, Rows), Cols),
                     ColumnsOf(stmt.B, ExpIter(ch.beta, Rows), Cols)),
              ColumnsOf(stmt.C, ExpIter(ch.gamma, Rows), Cols))

(* Rows, columns and products are those of the statement alone.            *)
LEMMA ProductsAreRead == ProductsRead
BY DEF ProductsRead, Az, Bz, CVec, MultiplyVec, VecMultiplyMat, RowsOf, ColumnsOf

(* And in the next state.                                                  *)
LEMMA ProductsReadNext == ProductsRead'
BY ProductsAreRead, PTL

(* The reduction's operators read the statement and the prover's blindings *)
(* only: a step that keeps these keeps them.                               *)
LEMMA StatementKept ==
  ASSUME stmt' = stmt
  PROVE  /\ \A e : CommitToWitness(e)' = CommitToWitness(e)
         /\ \A r : ComputeS0(r)' = ComputeS0(r)
         /\ Size' = Size
<1>1. Cols' = Cols  BY DEF Cols
<1>2. Rows' = Rows  BY <1>1 DEF Rows
<1>3. Size' = Size  BY <1>1, <1>2 DEF Size
<1>4. Z' = Z  BY DEF Z
<1>5. Az' = Az /\ Bz' = Bz  BY <1>2, <1>4, ProductsAreRead, ProductsReadNext DEF ProductsRead
<1>6. \A e : CommitToWitness(e)' = CommitToWitness(e)  BY <1>3 DEF CommitToWitness
<1>7. \A r : ComputeS0(r)' = ComputeS0(r)  BY <1>1, <1>3, <1>5 DEF ComputeS0
<1> QED BY <1>3, <1>6, <1>7

(* The arguments depend on the statement, the blindings and challenges.    *)
LEMMA ArgumentsKept ==
  ASSUME stmt' = stmt, eta' = eta, r_S' = r_S, NEW ch
  PROVE  Arguments(ch)' = Arguments(ch)
<1>1. Cols' = Cols  BY DEF Cols
<1>2. Rows' = Rows  BY <1>1 DEF Rows
<1>3. Size' = Size  BY <1>1, <1>2 DEF Size
<1>4. Z' = Z  BY DEF Z
<1>5. Az' = Az /\ Bz' = Bz  BY <1>2, <1>4, ProductsAreRead, ProductsReadNext DEF ProductsRead
<1>6. CVec(ch)' = CVec(ch)  BY <1>1, <1>2, ProductsAreRead, ProductsReadNext DEF ProductsRead
<1>7. DeltaVec(ch)' = DeltaVec(ch)  BY <1>1 DEF DeltaVec
<1>8. UVec(ch)' = UVec(ch)  BY <1>1, <1>2, <1>5 DEF UVec
<1>9. VVec(ch)' = VVec(ch)  BY <1>2, <1>5, <1>6, <1>7 DEF VVec
<1>10. GprimeFactors(ch)' = GprimeFactors(ch)  BY <1>1, <1>2 DEF GprimeFactors
<1> QED BY <1>3, <1>8, <1>9, <1>10 DEF Arguments

(* The inductive invariant: the argument's own, the prover's commitments   *)
(* opening to the statement, and the argument called with what the         *)
(* challenges make of it. *)
Reduced ==
  /\ chal \in ChallengeTuples /\ Invertible(chal)
  /\ inst = Arguments(chal) /\ pc # "idle"

RInv ==
  /\ PInv
  /\ stmt \in Statements /\ phase \in {"start", "committed", "reduced", "panicked"}
  /\ eta \in Fq /\ r_S \in Fq /\ T \in Point /\ S0 \in Point
  /\ phase \in {"committed", "reduced"} => T = CommitToWitness(eta) /\ S0 = ComputeS0(r_S)
  /\ IF phase = "reduced" THEN Reduced ELSE chal = <<>> /\ pc = "idle"

(* The reduction starts with nothing committed and nothing called.         *)
LEMMA RInvInit == ReductionInit => RInv
<1> SUFFICES ASSUME ReductionInit PROVE RInv  OBVIOUS
<1>1. Init /\ pc = "idle"  BY DEF ReductionInit, Init
<1>2. PInv  BY <1>1, DInvInit DEF PInv
<1>3. Identity \in Point  BY GeneratorPoint DEF Identity, Point
<1> QED BY <1>1, <1>2, <1>3, GeneratorPoint DEF RInv, ReductionInit

(* Commit *)
LEMMA RInvCommit ==
  ASSUME RInv, NEW e \in CommitDraws, NEW r \in CommitDraws, Commit(e, r)
  PROVE  RInv'
<1>1. /\ phase = "start" /\ phase' = "committed" /\ eta' = e /\ r_S' = r
      /\ T' = CommitToWitness(e) /\ S0' = ComputeS0(r)
      /\ stmt' = stmt /\ chal' = chal /\ vars' = vars
  BY DEF Commit
<1>2. PInv'  BY <1>1, PInvNext DEF RInv
<1>3. e \in Fq /\ r \in Fq /\ e \in Int  BY ReductionDrawsAssumption, PrimeAssumption DEF Fq
<1>4. Shaped  BY StatementShaped DEF RInv
<1>5. T' \in Point /\ S0' \in Point  BY <1>1, <1>3, <1>4, WitnessCommitted, ProductsCommitted
<1>6. T' = CommitToWitness(eta)' /\ S0' = ComputeS0(r_S)'
  <2>1. CommitToWitness(e)' = CommitToWitness(e) /\ ComputeS0(r)' = ComputeS0(r)
    BY <1>1, StatementKept
  <2> QED BY <1>1, <2>1
<1>7. chal = <<>> /\ pc = "idle" /\ pc' = pc /\ stmt \in Statements  BY <1>1 DEF RInv, vars
<1> QED BY <1>1, <1>2, <1>3, <1>5, <1>6, <1>7 DEF RInv

(* Reduce *)
LEMMA RInvReduce ==
  ASSUME RInv, NEW ch \in ChallengeTuples, Reduce(ch)
  PROVE  RInv'
<1>1. /\ phase = "committed" /\ Invertible(ch) /\ phase' = "reduced" /\ chal' = ch
      /\ stmt' = stmt /\ eta' = eta /\ r_S' = r_S /\ T' = T /\ S0' = S0
      /\ Call(Arguments(ch))
  BY DEF Reduce
<1>2. /\ PInv /\ stmt \in Statements /\ eta \in Fq /\ r_S \in Fq /\ T \in Point /\ S0 \in Point
      /\ T = CommitToWitness(eta) /\ S0 = ComputeS0(r_S)
  BY <1>1 DEF RInv
<1>3. Shaped  BY <1>2, StatementShaped
<1>4. Usable(ch)  BY <1>1, DrawnUsable
<1>5. Callable(Arguments(ch))  BY <1>2, <1>3, <1>4, ArgumentsCallable
<1>6. PInv'
  <2> DEFINE x == Arguments(ch)
  <2>1. Callable(x) /\ Call(x)  BY <1>1, <1>5
  <2> HIDE DEF x
  <2> QED BY <1>2, <2>1, PInvCall
<1>7. pc' = "fold" /\ inst' = Arguments(ch)  BY <1>1 DEF Call
<1>8. Arguments(ch)' = Arguments(ch)  BY <1>1, ArgumentsKept
<1>9. T' = CommitToWitness(eta)' /\ S0' = ComputeS0(r_S)'
  <2>1. CommitToWitness(eta)' = CommitToWitness(eta) /\ ComputeS0(r_S)' = ComputeS0(r_S)
    <3>1. \A e : CommitToWitness(e)' = CommitToWitness(e)  BY <1>1, StatementKept
    <3>2. \A r : ComputeS0(r)' = ComputeS0(r)  BY <1>1, StatementKept
    <3> QED BY <1>1, <3>1, <3>2
  <2> QED BY <1>1, <1>2, <2>1
<1>10. inst' = Arguments(chal)'  BY <1>1, <1>7, <1>8
<1>11. Reduced'  BY <1>1, <1>7, <1>10 DEF Reduced
<1> QED BY <1>1, <1>2, <1>6, <1>9, <1>11 DEF RInv

(* The argument's own steps keep its arguments.                            *)
LEMMA StepKeepsCall ==
  ASSUME Step, pc # "idle"
  PROVE  inst' = inst /\ pc' # "idle"
BY DEF Step, Round, ZeroChallenge, LastStep

(* Prove *)
LEMMA RInvProve ==
  ASSUME RInv, Prove
  PROVE  RInv'
<1>1. /\ phase = "reduced" /\ Step /\ phase' = "reduced" /\ chal' = chal
      /\ stmt' = stmt /\ eta' = eta /\ r_S' = r_S /\ T' = T /\ S0' = S0
  BY DEF Prove
<1>2. PInv'  BY <1>1, PInvNext DEF RInv, Next
<1>3. inst' = inst /\ pc' # "idle"  BY <1>1, StepKeepsCall DEF RInv, Reduced
<1>4. Arguments(chal)' = Arguments(chal)
  <2>1. \A ch : Arguments(ch)' = Arguments(ch)  BY <1>1, ArgumentsKept
  <2> QED BY <1>1, <2>1
<1>5. Reduced'  BY <1>1, <1>3, <1>4 DEF RInv, Reduced
<1>6. T' = CommitToWitness(eta)' /\ S0' = ComputeS0(r_S)'
  <2>1. \A e : CommitToWitness(e)' = CommitToWitness(e)  BY <1>1, StatementKept
  <2>2. \A r : ComputeS0(r)' = ComputeS0(r)  BY <1>1, StatementKept
  <2> QED BY <1>1, <2>1, <2>2 DEF RInv
<1> QED BY <1>1, <1>2, <1>5, <1>6 DEF RInv

(* Every step of the reduction keeps the invariant.                        *)
LEMMA RInvNext == RInv /\ [ReductionNext]_r1csVars => RInv'
<1> SUFFICES ASSUME RInv, [ReductionNext]_r1csVars PROVE RInv'  OBVIOUS
<1>1. CASE UNCHANGED <<stmt, eta, r_S, T, S0, chal, vars>> /\ (phase' = phase \/ ReducePanics)
  <2>1. PInv'  BY <1>1, PInvNext DEF RInv
  <2>2. T' = T /\ S0' = S0 /\ eta' = eta /\ r_S' = r_S /\ stmt' = stmt /\ chal' = chal
        /\ inst' = inst /\ pc' = pc
    BY <1>1 DEF vars
  <2>3. CommitToWitness(eta)' = CommitToWitness(eta) /\ ComputeS0(r_S)' = ComputeS0(r_S)
    <3>1. \A e : CommitToWitness(e)' = CommitToWitness(e)  BY <2>2, StatementKept
    <3>2. \A r : ComputeS0(r)' = ComputeS0(r)  BY <2>2, StatementKept
    <3> QED BY <2>2, <3>1, <3>2
  <2>4. Arguments(chal)' = Arguments(chal)
    <3>1. \A ch : Arguments(ch)' = Arguments(ch)  BY <2>2, ArgumentsKept
    <3> QED BY <2>2, <3>1
  <2>5. CASE phase' = phase
    <3>1. Reduced' <=> Reduced  BY <2>2, <2>4 DEF Reduced
    <3> QED BY <2>1, <2>2, <2>3, <2>5, <3>1 DEF RInv
  <2>6. CASE ReducePanics
    BY <2>1, <2>2, <2>6 DEF RInv, ReducePanics
  <2> QED BY <1>1, <2>5, <2>6
<1>2. ASSUME NEW e \in CommitDraws, NEW r \in CommitDraws, Commit(e, r) PROVE RInv'
  BY <1>2, RInvCommit
<1>3. ASSUME NEW ch \in ChallengeTuples, Reduce(ch) PROVE RInv'  BY <1>3, RInvReduce
<1>4. CASE Prove  BY <1>4, RInvProve
<1> QED BY <1>1, <1>2, <1>3, <1>4 DEF ReductionNext, ReducePanics, r1csVars

(* It holds in every state of every run.                                   *)
LEMMA RInvHolds == ReductionSpec => []RInv
BY RInvInit, RInvNext, PTL DEF ReductionSpec

(* Type correctness of the whole reduction: for every prime q, every       *)
(* statement with bases enough and all draws, the argument is called with  *)
(* arguments its assertions accept.                                        *)
THEOREM ReductionTypes == ReductionSpec => []ReductionTypeOK
<1>1. RInv => ReductionTypeOK
  <2> SUFFICES ASSUME RInv PROVE ReductionTypeOK  OBVIOUS
  <2>1. ASSUME phase = "reduced" PROVE n \in 1 .. Size
    <3>1. Usable(chal) /\ Shaped /\ inst = Arguments(chal) /\ pc # "idle"
      BY <2>1, StatementShaped, DrawnUsable DEF RInv, Reduced
    <3>2. Len(inst.a) = Size  BY <3>1, ArgumentsCallable DEF RInv
    <3> DEFINE p == Pow2[Len(us)]
    <3>3. n * p = Size /\ n \in Nat /\ Len(us) \in Nat /\ \E e \in 0 .. N : n = Pow2[e]
      BY <3>1, <3>2 DEF RInv, PInv, DInv, BlindShape
    <3>4. p \in Nat \ {0}  BY <3>3, Pow2Law
    <3>5. n \in Nat \ {0}
      <4>1. PICK e \in 0 .. N : n = Pow2[e]  BY <3>3
      <4>2. e \in Nat  BY BasesAssumption
      <4> QED BY <4>1, <4>2, Pow2Law
    <3> HIDE DEF p
    <3>6. n <= Size
      <4> DEFINE m == p - 1
                 nm == n * m
      <4>1. m \in Nat /\ p = m + 1  BY <3>4
      <4> HIDE DEF m
      <4>2. nm \in Nat  BY <3>3, <4>1
      <4>3. n * (m + 1) = n * m + n  BY SMTT(60), <3>3, <4>1
      <4>4. Size = nm + n  BY <3>3, <4>1, <4>3
      <4> HIDE DEF nm
      <4> QED BY <3>3, <4>2, <4>4
    <3>7. Size \in Nat  BY <3>1 DEF Shaped
    <3> QED BY <3>5, <3>6, <3>7
  <2> QED BY <2>1 DEF RInv, Reduced, ReductionTypeOK
<1> QED BY <1>1, RInvHolds, PTL

-----------------------------------------------------------------------------
(* What the verifier decides.                                             *)

(* The claim under proof, and the verifier's P, in any state of a run.     *)
LEMMA ReducedDiffers ==
  ASSUME RInv, phase = "reduced"
  PROVE  /\ Shaped /\ Usable(chal) /\ DiffersBy(chal)
         /\ inst = Arguments(chal) /\ Claim = ClaimOf(inst)
         /\ inst.a = UVec(chal) /\ inst.b = VVec(chal)
<1>1. /\ Shaped /\ Usable(chal) /\ inst = Arguments(chal)
  BY StatementShaped, DrawnUsable DEF RInv, Reduced
<1>2. /\ r_S \in Fq /\ eta \in Fq /\ T = CommitToWitness(eta) /\ S0 = ComputeS0(r_S)
  BY DEF RInv
<1>3. DiffersBy(chal)  BY <1>1, <1>2, HalvesAgree
<1>4. Claim = ClaimOf(inst)  BY DEF Claim, ClaimOf
<1>5. inst.a = UVec(chal) /\ inst.b = VVec(chal)  BY <1>1 DEF Arguments
<1> QED BY <1>1, <1>3, <1>4, <1>5

(* A base other than the inner product's holds no part of it.              *)
LEMMA InnerProductBase ==
  /\ <<"U", 0>> \in Generators /\ U[<<"U", 0>>] = 1
  /\ \A g \in Generators : g # <<"U", 0>> => U[g] = 0
BY DEF U, Generator, Identity, Generators

(* For a satisfied statement the two halves of r1cs2ipa agree; for any,    *)
(* they agree over every base but the inner product's: for every prime q,  *)
(* every statement with bases enough, all challenges and blindings.        *)
THEOREM ReductionIsComplete == ReductionSpec => []ReductionComplete
<1>1. RInv => ReductionComplete
  <2> SUFFICES ASSUME RInv, phase = "reduced", NEW g \in Generators,
                      Satisfied \/ g # <<"U", 0>>
               PROVE  VerifierP(chal)[g] = Claim[g]
    BY DEF ReductionComplete
  <2> DEFINE P == VerifierP(chal)
             C == Claim
             w == W(chal)
             ip == InnerProduct(inst.a, inst.b)
             d == (w - ip) * U[g]
  <2>1. /\ P \in Point /\ C \in Point /\ ip \in Fq /\ w \in Fq
        /\ Cong(P[g], C[g] + d)
    BY ReducedDiffers DEF DiffersBy
  <2>2. w \in Int /\ ip \in Int  BY <2>1, PrimeAssumption DEF Fq
  <2>3. d = 0
    <3>1. CASE Satisfied
      <4>1. ip = w  BY <3>1, ReducedDiffers, SatisfiedOpens
      <4>2. U[g] \in Int  BY GeneratorPoint, CoefficientInt
      <4> HIDE DEF w, ip
      <4>3. w - ip = 0 /\ 0 * U[g] = 0  BY <2>2, <4>1, <4>2
      <4> QED BY <4>3
    <3>2. CASE g # <<"U", 0>>
      <4>1. U[g] = 0  BY <3>2, InnerProductBase
      <4>2. w - ip \in Int  BY <2>2
      <4> QED BY <4>1, <4>2
    <3> QED BY <3>1, <3>2
  <2> HIDE DEF P, C, d
  <2>4. P[g] \in Fq /\ C[g] \in Fq /\ C[g] \in Int  BY <2>1, CoefficientInt
  <2>5. C[g] + d = C[g]  BY <2>3, <2>4
  <2>6. Cong(P[g], C[g])  BY <2>1, <2>5
  <2>7. P[g] = C[g]  BY <2>4, <2>6, CongEqual
  <2> QED BY <2>7 DEF P, C
<1> QED BY <1>1, RInvHolds, PTL

(* What a last challenge that is not zero scales is zero only if it was.   *)
LEMMA ScaledAway ==
  ASSUME NEW e \in Fq, e # 0, NEW z \in Int, Cong((e * e) * z, 0)
  PROVE  Cong(z, 0)
<1> DEFINE i == Inv(e)
           ei == e * i
           ii == i * i
           ee == e * e
           eez == ee * z
<1>1. i \in Int /\ e \in Int /\ Cong(ei, 1)  BY InvLaw
<1> HIDE DEF i
<1>2. ei \in Int /\ ii \in Int /\ ee \in Int /\ 1 \in Int /\ 0 \in Int  BY <1>1
<1>3. eez \in Int
  <2> HIDE DEF ee
  <2> QED BY <1>2
<1>4. Cong(eez * ii, 0 * ii)
  <2>1. Cong(eez, 0)  OBVIOUS
  <2> HIDE DEF eez, ii
  <2> QED BY <1>2, <1>3, <2>1, CongScaled
<1>5. eez * ii = (ei * ei) * z
  <2>1. ((e * e) * z) * (i * i) = ((e * i) * (e * i)) * z  BY <1>1
  <2> QED BY <2>1
<1> DEFINE e4 == ei * ei
<1> HIDE DEF ei, ii, eez
<1>6. e4 \in Int /\ Cong(e4, 1 * 1)  BY <1>1, <1>2, CongMul
<1> HIDE DEF e4
<1>7. Cong(e4, 1)  BY <1>6
<1>8. Cong(e4 * z, 1 * z) /\ e4 * z \in Int /\ 1 * z = z
  <2>1. Cong(z, z)  BY CongRefl
  <2>2. Cong(e4 * z, 1 * z)  BY <1>2, <1>6, <1>7, <2>1, CongMul
  <2>3. e4 * z \in Int /\ 1 * z = z  BY <1>6
  <2> QED BY <2>2, <2>3
<1>9. 0 * ii = 0  BY <1>2
<1>10. Cong(e4 * z, 0)  BY <1>4, <1>5, <1>9 DEF e4
<1>11. Cong(z, e4 * z)  BY <1>8, CongSym
<1> QED BY <1>2, <1>8, <1>10, <1>11, CongTrans

(* Over the inner product's base, B is moved by the difference of w and    *)
(* <u,v> alone.                                                            *)
LEMMA MovedByDifference ==
  ASSUME NEW e \in Fq, e # 0, NEW B \in Int, NEW C \in Int, NEW P \in Int,
         NEW w \in Fq, NEW ip \in Fq,
         Cong(P, C + (w - ip)), Cong(B, B + (e * e) * (C - P))
  PROVE  ip = w
<1>1. e \in Int /\ w \in Int /\ ip \in Int  BY PrimeAssumption DEF Fq
<1> DEFINE ee == e * e
           z == C - P
           t == ee * z
<1>2. ee \in Int /\ z \in Int  BY <1>1
<1>3. t \in Int
  <2> HIDE DEF ee, z
  <2> QED BY <1>2
<1>4. Cong(t, 0)
  <2>1. Cong(B, B + t)  OBVIOUS
  <2> HIDE DEF t
  <2>2. Cong(B, B) /\ B + t \in Int  BY <1>3, CongRefl
  <2>3. Cong(B + t, B)  BY <1>3, <2>1, <2>2, CongSym
  <2>4. Cong((B + t) - B, B - B)  BY <2>2, <2>3, CongSub
  <2>5. (B + t) - B = t /\ B - B = 0  BY <1>3
  <2> QED BY <2>4, <2>5
<1>5. Cong(z, 0)  BY <1>2, <1>4, ScaledAway
<1>6. Cong(w, ip)
  <2> DEFINE d == w - ip
             cd == C + d
  <2>1. d \in Int /\ cd \in Int /\ Cong(P, cd) /\ Cong(C, C) /\ 0 \in Int  BY <1>1, CongRefl
  <2> HIDE DEF d, cd, z
  <2>2. Cong(C - P, C - cd)  BY <2>1, CongSub
  <2>3. C - cd = -d /\ -d \in Int  BY <2>1 DEF cd
  <2>4. Cong(z, -d)  BY <2>2, <2>3 DEF z
  <2>5. Cong(-d, z)  BY <1>2, <2>3, <2>4, CongSym
  <2>6. Cong(-d, 0)  BY <1>2, <1>5, <2>1, <2>3, <2>5, CongTrans
  <2>7. Cong(ip, ip)  BY <1>1, CongRefl
  <2>8. Cong(ip - (-d), ip - 0)  BY <1>1, <2>1, <2>3, <2>6, <2>7, CongSub
  <2>9. ip - (-d) = w /\ ip - 0 = ip  BY <1>1, <2>1 DEF d
  <2> QED BY <2>8, <2>9
<1>7. w = ip  BY <1>6, CongEqual
<1> QED BY <1>7

(* A valid finished proof is accepted exactly when <u,v> is w, or e is 0.  *)
LEMMA Decides ==
  ASSUME RInv, phase = "reduced", pc = "done", ProofValid
  PROVE  Verify(VerifierP(chal)) <=>
           proof.e = 0 \/ InnerProduct(inst.a, inst.b) = W(chal)
<1> DEFINE P == VerifierP(chal)
           C == Claim
           B == proof.B
           e == proof.e
           ee == e * e
           w == W(chal)
           ip == InnerProduct(inst.a, inst.b)
           X == ExpectB(P)
           u == <<"U", 0>>
<1>1. /\ P \in Point /\ C \in Point /\ ip \in Fq /\ w \in Fq
      /\ \A g \in Generators : Cong(P[g], C[g] + (w - ip) * U[g])
  BY ReducedDiffers DEF DiffersBy
<1>2. e \in Fq /\ B \in Point /\ e \in Int
  <2>1. proof \in [A : Point, B : Point, r : Fq, s : Fq, delta : Fq, e : Challenges]
    BY DEF RInv, PInv, DInv, CallTyped
  <2>2. proof.e \in Challenges /\ proof.B \in Point  BY <2>1
  <2>3. proof.e \in Fq  BY <2>2, DrawsAssumption
  <2> QED BY <2>2, <2>3, PrimeAssumption DEF Fq
<1>3. PInv  BY DEF RInv
<1>4. Expects(P)  BY <1>1, <1>3, ExpectsB
<1>5. X \in Point /\ \A g \in Generators : Cong(X[g], B[g] + ee * (C[g] - P[g]))
  BY <1>4 DEF Expects
<1>6. Verify(P) <=> X = B  BY DEF Verify
<1>7. w \in Int /\ ip \in Int /\ ee \in Int  BY <1>1, <1>2, PrimeAssumption DEF Fq
<1>8. \A g \in Generators : C[g] \in Int /\ P[g] \in Int /\ B[g] \in Int /\ U[g] \in Int
  BY <1>1, <1>2, GeneratorPoint, CoefficientInt
<1> HIDE DEF P, C, B, e, w, ip, X, u
<1>9. ASSUME e = 0 PROVE X = B
  <2>1. ee = 0  BY <1>9
  <2>2. \A g \in Generators : B[g] + ee * (C[g] - P[g]) = B[g]
    <3> HIDE DEF ee
    <3>1. ASSUME NEW g \in Generators PROVE B[g] + ee * (C[g] - P[g]) = B[g]
      <4>1. C[g] - P[g] \in Int  BY <1>8
      <4>2. ee * (C[g] - P[g]) = 0  BY <2>1, <4>1
      <4> QED BY <1>8, <4>2
    <3> QED BY <3>1
  <2>3. \A g \in Generators : Cong(X[g], B[g])  BY <1>5, <2>2
  <2> QED BY <1>2, <1>5, <2>3, PointsEqual
<1>10. ASSUME ip = w PROVE X = B
  <2>1. \A g \in Generators : C[g] + (w - ip) * U[g] = C[g]
    <3>1. ASSUME NEW g \in Generators PROVE C[g] + (w - ip) * U[g] = C[g]
      <4>1. w - ip = 0  BY <1>7, <1>10
      <4>2. (w - ip) * U[g] = 0  BY <1>8, <4>1
      <4> QED BY <1>8, <4>2
    <3> QED BY <3>1
  <2>2. P = C
    <3>1. \A g \in Generators : Cong(P[g], C[g])  BY <1>1, <2>1
    <3> QED BY <1>1, <3>1, PointsEqual
  <2>3. \A g \in Generators : B[g] + ee * (C[g] - P[g]) = B[g]
    <3> HIDE DEF ee
    <3>1. ASSUME NEW g \in Generators PROVE B[g] + ee * (C[g] - P[g]) = B[g]
      <4>1. C[g] - P[g] = 0  BY <1>8, <2>2
      <4>2. ee * (C[g] - P[g]) = 0  BY <1>7, <4>1
      <4> QED BY <1>8, <4>2
    <3> QED BY <3>1
  <2>4. \A g \in Generators : Cong(X[g], B[g])  BY <1>5, <2>3
  <2> QED BY <1>2, <1>5, <2>4, PointsEqual
<1>11. ASSUME X = B, e # 0 PROVE ip = w
  <2>1. u \in Generators /\ U[u] = 1  BY InnerProductBase DEF u
  <2> DEFINE c == C[u]
             p == P[u]
             bu == B[u]
             d == w - ip
  <2>2. c \in Int /\ p \in Int /\ bu \in Int /\ d \in Int  BY <1>7, <1>8, <2>1
  <2>3. Cong(p, c + d * U[u]) /\ Cong(bu, bu + ee * (c - p))  BY <1>1, <1>5, <1>11, <2>1
  <2> HIDE DEF c, p, bu
  <2>4. d * U[u] = d  BY <2>1, <2>2
  <2>5. Cong(p, c + (w - ip))  BY <2>3, <2>4
  <2>6. Cong(bu, bu + (e * e) * (c - p))  BY <2>3
  <2> QED BY <1>1, <1>2, <1>11, <2>2, <2>5, <2>6, MovedByDifference
<1>12. Verify(P) <=> e = 0 \/ ip = w  BY <1>6, <1>9, <1>10, <1>11
<1> QED BY <1>12 DEF P, e, ip, w

(* A finished proof with no identity among its points is accepted for the  *)
(* verifier's own P exactly when w is <u,v>, or the last challenge was     *)
(* zero.                                                                   *)
THEOREM ArgumentsDecide == ReductionSpec => []ArgumentDecides
<1>1. RInv => ArgumentDecides  BY Decides DEF ArgumentDecides
<1> QED BY <1>1, RInvHolds, PTL

-----------------------------------------------------------------------------
(* Roots of a polynomial, and the challenges a bad witness escapes.       *)

(* The polynomial with coefficients c, the constant one first, at x. *)
Poly(c, k, x) == Dot(c, ExpIter(x, k), k)

(* A polynomial's value, by its constant coefficient and the rest.         *)
LEMMA PolyStep ==
  ASSUME NEW k \in Nat, NEW c, Ints(c, k + 1), NEW x \in Int
  PROVE  /\ c[1] \in Int /\ Ints(Drop(c, 1, k), k)
         /\ Poly(c, k + 1, x) \in Int /\ Poly(Drop(c, 1, k), k, x) \in Int
         /\ Cong(Poly(c, k + 1, x), c[1] + x * Poly(Drop(c, 1, k), k, x))
<1> DEFINE l == k + 1
           E == ExpIter(x, l)
           e == ExpIter(x, k)
           d == Drop(c, 1, k)
           t == Drop(E, 1, k)
<1>1. l \in Nat /\ l = 1 + k /\ 1 \in 1 .. l /\ \A i \in 1 .. k : 1 + i \in 1 .. l /\ i \in 1 .. l
  OBVIOUS
<1>2. Ints(E, l) /\ \A i \in 1 .. l : E[i] = Exp(x, i - 1)
  BY <1>1, ExpIterIs, FieldScalars DEF Scalars
<1>3. Ints(e, k) /\ \A i \in 1 .. k : e[i] = Exp(x, i - 1)
  BY ExpIterIs, FieldScalars DEF Scalars
<1>4. \A i \in 1 .. k : d[i] = c[1 + i] /\ t[i] = E[1 + i]  BY DEF Drop
<1>5. Ints(c, l)  OBVIOUS
<1> HIDE DEF E, e, d, t, l
<1>6. Ints(d, k) /\ Ints(t, k)  BY <1>1, <1>2, <1>4, <1>5 DEF Ints
<1>7. c[1] \in Int /\ E[1] = 1
  <2>1. E[1] = Exp(x, 1 - 1)  BY <1>1, <1>2
  <2> QED BY <1>1, <1>5, <2>1, ExpLaw DEF Ints
<1>8. Dot(c, E, l) = c[1] + Dot(d, t, k)
  <2>1. 1 \in Nat  OBVIOUS
  <2>2. Ints(c, 1 + k) /\ Ints(E, 1 + k)  BY <1>1, <1>2, <1>5
  <2>3. Dot(c, E, 1 + k) = Dot(c, E, 1) + Dot(Drop(c, 1, k), Drop(E, 1, k), k)
    BY <2>1, <2>2, DotSplit
  <2>4. Dot(c, E, 1) = c[1] * E[1]  BY <1>7, DotOne
  <2>5. c[1] * E[1] = c[1]  BY <1>7
  <2> QED BY <1>1, <2>3, <2>4, <2>5 DEF d, t
<1>9. Cong(Dot(t, d, k), x * Dot(e, d, k) + 0 * Dot(e, d, k))
  <2>1. \A i \in 1 .. k : Cong(t[i], x * e[i] + 0 * e[i])
    <3>1. ASSUME NEW i \in 1 .. k PROVE Cong(t[i], x * e[i] + 0 * e[i])
      <4> DEFINE ei == Exp(x, i - 1)
      <4>1. i - 1 \in Nat /\ 1 + i - 1 = i - 1 + 1 OBVIOUS
      <4>2. t[i] = Exp(x, i - 1 + 1) /\ e[i] = ei  BY <1>1, <1>2, <1>3, <1>4, <4>1
      <4>3. ei \in Int /\ Exp(x, i - 1 + 1) = (ei * x) % q  BY <4>1, ExpLaw
      <4> HIDE DEF ei
      <4>4. ei * x \in Int  BY <4>3
      <4>5. Cong((ei * x) % q, ei * x)  BY <4>4, ModCong
      <4>6. ei * x = x * ei + 0 * ei  BY <4>3
      <4> QED BY <4>2, <4>3, <4>5, <4>6
    <3> QED BY <3>1
  <2>2. 0 \in Int  OBVIOUS
  <2> QED BY <1>3, <1>6, <2>1, <2>2, DotLinear
<1>10. Dot(t, d, k) = Dot(d, t, k) /\ Dot(e, d, k) = Dot(d, e, k)  BY <1>3, <1>6, DotSym
<1>11. Dot(d, t, k) \in Int /\ Dot(d, e, k) \in Int /\ Dot(c, E, l) \in Int
  <2>1. Dot(d, t, k) \in Int /\ Dot(d, e, k) \in Int  BY <1>3, <1>6, DotInt
  <2> QED BY <1>7, <1>8, <2>1
<1>12. Cong(c[1] + Dot(d, t, k), c[1] + x * Dot(d, e, k))
  <2> DEFINE p == Dot(d, t, k)
             g == Dot(d, e, k)
             f == c[1]
  <2>1. p \in Int /\ g \in Int /\ f \in Int  BY <1>7, <1>11
  <2>2. Cong(p, x * g + 0 * g)  BY <1>9, <1>10
  <2> HIDE DEF p, g, f
  <2>3. x * g + 0 * g = x * g /\ x * g \in Int  BY <2>1
  <2>4. Cong(p, x * g) /\ Cong(f, f)  BY <2>1, <2>2, <2>3, CongRefl
  <2>5. Cong(f + p, f + x * g)  BY <2>1, <2>3, <2>4, CongAdd
  <2> QED BY <2>5 DEF p, g, f
<1> QED BY <1>6, <1>7, <1>8, <1>11, <1>12 DEF Poly, l, E, e, d

(* A polynomial's quotient by x - r, and the rest: if both vanish, so does *)
(* the polynomial.                                                         *)
Divided(c, k, r, f, m) ==
  /\ m \in Int /\ Ints(f, k)
  /\ \A x \in Int : Cong(Poly(c, k + 1, x), m + (x - r) * Poly(f, k, x))
  /\ Cong(m, 0) /\ (\A i \in 1 .. k : Cong(f[i], 0)) => \A i \in 1 .. k + 1 : Cong(c[i], 0)

(* The arithmetic of one step: c = c1 + x c', c' = m + (x - r) g.          *)
LEMMA QuotientTerms ==
  ASSUME NEW c1 \in Int, NEW x \in Int, NEW r \in Int, NEW m \in Int, NEW y \in Int
  PROVE  c1 + x * (m + (x - r) * y) = (c1 + r * m) + (x - r) * (m + x * y)
<1> DEFINE xm == x * m
           rm == r * m
           xxy == x * (x * y)
           rxy == r * (x * y)
<1>1. xm \in Int /\ rm \in Int  OBVIOUS
<1>2. x * y \in Int  OBVIOUS
<1>3. xxy \in Int /\ rxy \in Int  BY <1>2
<1>4. x * (m + (x - r) * y) = xm + (xxy - rxy)  OBVIOUS
<1>5. (x - r) * (m + x * y) = (xm - rm) + (xxy - rxy)  OBVIOUS
<1> HIDE DEF xm, rm, xxy, rxy
<1>6. c1 + (xm + (xxy - rxy)) = (c1 + rm) + ((xm - rm) + (xxy - rxy))  BY <1>1, <1>3
<1> QED BY <1>4, <1>5, <1>6 DEF rm

(* A constant is its own rest. *)
LEMMA ConstantDivided ==
  ASSUME NEW c, Ints(c, 0 + 1), NEW r \in Int
  PROVE  Divided(c, 0, r, c, c[1])
<1>1. 0 \in Nat  OBVIOUS
<1>2. c[1] \in Int /\ Ints(c, 0)  BY DEF Ints
<1>3. ASSUME NEW x \in Int PROVE Cong(Poly(c, 0 + 1, x), c[1] + (x - r) * Poly(c, 0, x))
  <2>1. Poly(c, 0, x) = 0 /\ Poly(Drop(c, 1, 0), 0, x) = 0  BY DotZero DEF Poly
  <2>2. Cong(Poly(c, 0 + 1, x), c[1] + x * Poly(Drop(c, 1, 0), 0, x))  BY <1>1, PolyStep
  <2>3. c[1] + x * 0 = c[1] /\ c[1] + (x - r) * 0 = c[1]  BY <1>2
  <2> QED BY <2>1, <2>2, <2>3
<1>4. Cong(c[1], 0) => \A i \in 1 .. 0 + 1 : Cong(c[i], 0)
  <2>1. \A i \in 1 .. 0 + 1 : i = 1  OBVIOUS
  <2> QED BY <2>1
<1> QED BY <1>2, <1>3, <1>4 DEF Divided

(* One coefficient more. *)
LEMMA NextDivided ==
  ASSUME NEW k \in Nat, NEW c, Ints(c, k + 1 + 1), NEW r \in Int,
         NEW f, NEW m, Divided(Drop(c, 1, k + 1), k, r, f, m)
  PROVE  Divided(c, k + 1, r, [i \in 1 .. k + 1 |-> IF i = 1 THEN m ELSE f[i - 1]], c[1] + r * m)
<1> DEFINE l == k + 1
           d == Drop(c, 1, l)
           h == [i \in 1 .. l |-> IF i = 1 THEN m ELSE f[i - 1]]
           n1 == c[1] + r * m
<1>1. /\ l \in Nat /\ l = k + 1 /\ 1 \in 1 .. l
      /\ \A i \in 1 .. k : 1 + i \in 1 .. l /\ i \in 1 .. l
      /\ \A i \in 1 .. l : 1 + i \in 1 .. l + 1
  OBVIOUS
<1>2. Ints(c, l + 1)  OBVIOUS
<1>3. m \in Int /\ Ints(f, k)  BY DEF Divided
<1>4. /\ \A x \in Int : Cong(Poly(d, l, x), m + (x - r) * Poly(f, k, x))
      /\ Cong(m, 0) /\ (\A i \in 1 .. k : Cong(f[i], 0)) => \A i \in 1 .. l : Cong(d[i], 0)
  BY DEF Divided
<1>5. \A i \in 1 .. l : d[i] = c[1 + i]  BY DEF Drop
<1>6. h[1] = m /\ \A i \in 1 .. k : h[1 + i] = f[i]  BY <1>1
<1>7. Ints(h, l)
  <2>1. \A i \in 1 .. l : i = 1 \/ i - 1 \in 1 .. k  BY <1>1
  <2> QED BY <1>3, <2>1 DEF Ints
<1> HIDE DEF h, l, d
<1>8. c[1] \in Int /\ r * m \in Int /\ n1 \in Int
  <2>1. c[1] \in Int  BY <1>1, <1>2 DEF Ints
  <2> QED BY <1>3, <2>1
<1>9. ASSUME NEW x \in Int PROVE Cong(Poly(c, l + 1, x), n1 + (x - r) * Poly(h, l, x))
  <2> DEFINE y == Poly(f, k, x)
             pc1 == Poly(c, l + 1, x)
             pd == Poly(d, l, x)
             ph == Poly(h, l, x)
             xr == x - r
             c1 == c[1]
  <2>1. c1 \in Int /\ Ints(d, l) /\ pc1 \in Int /\ pd \in Int /\ Cong(pc1, c1 + x * pd)
    BY <1>1, <1>2, PolyStep DEF d
  <2>2. ph \in Int /\ y \in Int /\ Cong(ph, m + x * y)
    <3>1. Ints(h, k + 1)  BY <1>1, <1>7
    <3>2. /\ ph \in Int /\ Poly(Drop(h, 1, k), k, x) \in Int
          /\ Cong(ph, h[1] + x * Poly(Drop(h, 1, k), k, x))
      BY <1>1, <3>1, PolyStep
    <3>3. Ints(ExpIter(x, k), k)  BY ExpIterIs, FieldScalars DEF Scalars
    <3>4. \A i \in 1 .. k : f[i] = Drop(h, 1, k)[i]  BY <1>6 DEF Drop
    <3>5. y = Poly(Drop(h, 1, k), k, x)  BY <1>3, <3>3, <3>4, DotSame DEF Poly
    <3> QED BY <1>6, <3>2, <3>5
  <2>3. Cong(pd, m + xr * y)  BY <1>4
  <2>4. xr \in Int /\ x \in Int /\ m \in Int /\ r \in Int  BY <1>3
  <2> HIDE DEF y, pc1, pd, ph, c1
  <2>5. xr * y \in Int /\ x * y \in Int  BY <2>2, <2>4
  <2>6. Cong(x * pd, x * (m + xr * y)) /\ x * pd \in Int /\ x * (m + xr * y) \in Int
    <3> DEFINE s == m + xr * y
    <3>1. s \in Int /\ Cong(pd, s) /\ Cong(x, x)  BY <2>3, <2>4, <2>5, CongRefl
    <3> HIDE DEF s, xr
    <3>2. Cong(x * pd, x * s)  BY <2>1, <2>4, <3>1, CongMul
    <3>3. x * s \in Int /\ x * pd \in Int  BY <2>1, <2>4, <3>1
    <3> QED BY <3>2, <3>3 DEF s
  <2>7. Cong(xr * ph, xr * (m + x * y)) /\ xr * ph \in Int /\ xr * (m + x * y) \in Int
    <3> DEFINE s == m + x * y
    <3>1. s \in Int /\ Cong(ph, s) /\ Cong(xr, xr)  BY <2>2, <2>4, <2>5, CongRefl
    <3> HIDE DEF s, xr
    <3>2. Cong(xr * ph, xr * s)  BY <2>2, <2>4, <3>1, CongMul
    <3>3. xr * s \in Int /\ xr * ph \in Int  BY <2>2, <2>4, <3>1
    <3> QED BY <3>2, <3>3 DEF s
  <2>8. c1 + x * (m + xr * y) = (c1 + r * m) + xr * (m + x * y)
    BY <2>1, <2>2, <2>4, QuotientTerms
  <2>9. n1 = c1 + r * m  BY DEF c1
  <2> DEFINE xp == x * pd
             xs == x * (m + xr * y)
             rp == xr * ph
             rs == xr * (m + x * y)
  <2>10. xp \in Int /\ xs \in Int /\ rp \in Int /\ rs \in Int
         /\ Cong(xp, xs) /\ Cong(rp, rs) /\ Cong(pc1, c1 + xp) /\ c1 + xs = n1 + rs
    BY <2>1, <2>6, <2>7, <2>8, <2>9
  <2>11. n1 \in Int  BY <1>8
  <2> HIDE DEF xp, xs, rp, rs, n1, xr
  <2>12. Cong(c1, c1) /\ Cong(n1, n1)  BY <2>1, <2>11, CongRefl
  <2>13. Cong(c1 + xp, c1 + xs)  BY <2>1, <2>10, <2>12, CongAdd
  <2>14. Cong(rs, rp)  BY <2>10, CongSym
  <2>15. Cong(n1 + rs, n1 + rp)  BY <2>10, <2>11, <2>12, <2>14, CongAdd
  <2>16. c1 + xp \in Int /\ c1 + xs \in Int /\ n1 + rp \in Int  BY <2>1, <2>10, <2>11
  <2>17. Cong(pc1, c1 + xs)  BY <2>1, <2>10, <2>13, <2>16, CongTrans
  <2>18. Cong(c1 + xs, n1 + rp)  BY <2>10, <2>15
  <2>19. Cong(pc1, n1 + rp)  BY <2>1, <2>16, <2>17, <2>18, CongTrans
  <2> QED BY <2>19 DEF rp, xr, ph, pc1
<1>10. ASSUME Cong(n1, 0), \A i \in 1 .. l : Cong(h[i], 0)
       PROVE  \A i \in 1 .. l + 1 : Cong(c[i], 0)
  <2>1. Cong(m, 0) /\ \A i \in 1 .. k : Cong(f[i], 0)  BY <1>1, <1>6, <1>10
  <2>2. \A i \in 1 .. l : Cong(c[1 + i], 0)  BY <1>4, <1>5, <2>1
  <2>3. Cong(c[1], 0)
    <3> DEFINE c1 == c[1]
               rm == r * m
    <3>1. c1 \in Int /\ rm \in Int /\ 0 \in Int /\ n1 = c1 + rm  BY <1>8
    <3>2. Cong(rm, 0)
      <4>1. Cong(r, r) /\ r * 0 = 0  BY CongRefl
      <4>2. Cong(r * m, r * 0)  BY <1>3, <2>1, <3>1, <4>1, CongMul
      <4> QED BY <4>1, <4>2
    <3>3. Cong(n1, 0)  BY <1>10
    <3> HIDE DEF c1, rm, n1
    <3>4. Cong(n1 - rm, 0 - 0)  BY <1>8, <3>1, <3>2, <3>3, CongSub
    <3>5. n1 - rm = c1 /\ 0 - 0 = 0  BY <3>1
    <3> QED BY <3>4, <3>5 DEF c1
  <2>4. \A i \in 1 .. l + 1 : i = 1 \/ (i - 1 \in 1 .. l /\ i = 1 + (i - 1))  BY <1>1
  <2> QED BY <2>2, <2>3, <2>4
<1>11. Divided(c, l, r, h, n1)  BY <1>7, <1>8, <1>9, <1>10 DEF Divided
<1> QED BY <1>11 DEF h, l

(* Every polynomial of k + 1 coefficients can be divided by x - r.         *)
LEMMA Division ==
  ASSUME NEW r \in Int, NEW k \in Nat, NEW c, Ints(c, k + 1)
  PROVE  \E f, m : Divided(c, k, r, f, m)
<1> DEFINE J == {j \in Nat : \A s : Ints(s, j + 1) => \E f, m : Divided(s, j, r, f, m)}
<1>1. 0 \in J  BY ConstantDivided
<1>2. ASSUME NEW j \in Nat, j \in J PROVE j + 1 \in J
  <2>1. ASSUME NEW s, Ints(s, j + 1 + 1) PROVE \E f, m : Divided(s, j + 1, r, f, m)
    <3>1. j + 1 \in Nat /\ Ints(Drop(s, 1, j + 1), j + 1)
      <4>1. j + 1 \in Nat  OBVIOUS
      <4>2. \A i \in 1 .. j + 1 : 1 + i \in 1 .. j + 1 + 1  OBVIOUS
      <4> QED BY <2>1, <4>1, <4>2 DEF Ints, Drop
    <3>2. PICK f, m : Divided(Drop(s, 1, j + 1), j, r, f, m)  BY <1>2, <3>1
    <3> QED BY <2>1, <3>2, NextDivided
  <2> QED BY <2>1
<1> HIDE DEF J
<1>3. k \in J  BY <1>1, <1>2, Induction
<1> QED BY <1>3 DEF J

(* In a field, the difference of two elements divides nothing.             *)
LEMMA DifferenceCancels ==
  ASSUME NEW x \in Fq, NEW r \in Fq, x # r, NEW z \in Int, Cong((x - r) * z, 0)
  PROVE  Cong(z, 0)
<1> DEFINE d == x - r
           e == d % q
           ez == e * z
<1>1. x \in Int /\ r \in Int /\ d \in Int  BY DEF Fq
<1>2. e \in Fq /\ e \in Int /\ Cong(e, d)  BY <1>1, ModCong DEF Fq
<1>3. e # 0
  <2>1. ASSUME e = 0 PROVE FALSE
    <3>1. Cong(d, 0)  BY <1>1, <1>2, <2>1, CongSym
    <3>2. Cong(r, r)  BY <1>1, CongRefl
    <3>3. 0 \in Int /\ d + r = x /\ 0 + r = r  BY <1>1
    <3> HIDE DEF d
    <3>4. Cong(d + r, 0 + r)  BY <1>1, <3>1, <3>2, <3>3, CongAdd
    <3>5. Cong(x, r)  BY <3>3, <3>4
    <3> QED BY <3>5, CongEqual
  <2> QED BY <2>1
<1>4. Cong(ez, 0) /\ ez \in Int
  <2> DEFINE dz == d * z
  <2>1. Cong(z, z)  BY CongRefl
  <2>2. Cong(dz, 0)  OBVIOUS
  <2> HIDE DEF d, e
  <2>3. Cong(e * z, d * z)  BY <1>1, <1>2, <2>1, CongMul
  <2>4. ez \in Int /\ dz \in Int /\ 0 \in Int  BY <1>1, <1>2
  <2> HIDE DEF dz, ez
  <2>5. Cong(ez, dz)  BY <2>3 DEF dz, ez
  <2> QED BY <2>2, <2>4, <2>5, CongTrans
<1>5. Cong((e * e) * z, 0)
  <2>1. Cong(e, e)  BY <1>2, CongRefl
  <2> HIDE DEF e, ez
  <2>2. Cong(e * ez, e * 0)  BY <1>2, <1>4, <2>1, CongMul
  <2>3. e * ez = (e * e) * z /\ e * 0 = 0  BY <1>2 DEF ez
  <2> QED BY <2>2, <2>3
<1> HIDE DEF e
<1> QED BY <1>2, <1>3, <1>5, ScaledAway

(* A set of elements of the field at which the polynomial vanishes.        *)
Roots(S, c, k) ==
  S \subseteq Fq /\ \A x \in S : Cong(Poly(c, k, x), 0)

Vanishes(c, k) == \A i \in 1 .. k : Cong(c[i], 0)

(* A polynomial that vanishes at r is its quotient times x - r.            *)
LEMMA RootDivided ==
  ASSUME NEW k \in Nat, NEW c, Ints(c, k + 1), NEW S, Roots(S, c, k + 1), NEW r \in S,
         NEW f, NEW m, Divided(c, k, r, f, m)
  PROVE  Roots(S \ {r}, f, k) /\ (Vanishes(f, k) => Vanishes(c, k + 1))
<1>1. /\ m \in Int /\ Ints(f, k)
      /\ \A x \in Int : Cong(Poly(c, k + 1, x), m + (x - r) * Poly(f, k, x))
      /\ Cong(m, 0) /\ (\A i \in 1 .. k : Cong(f[i], 0)) => \A i \in 1 .. k + 1 : Cong(c[i], 0)
  BY DEF Divided
<1>2. /\ S \subseteq Fq /\ \A x \in S : Cong(Poly(c, k + 1, x), 0)
  BY DEF Roots
<1>3. Fq \subseteq Int /\ r \in Fq /\ r \in Int  BY <1>2 DEF Fq
<1>4. ASSUME NEW x \in S PROVE Cong(0, m + (x - r) * Poly(f, k, x)) /\ Poly(f, k, x) \in Int
  <2> DEFINE y == Poly(c, k + 1, x)
             p == Poly(f, k, x)
             s == m + (x - r) * p
  <2>1. x \in Int  BY <1>2, <1>3
  <2>2. y \in Int /\ Cong(y, 0) /\ Cong(y, s)  BY <1>1, <1>2, <2>1, PolyStep
  <2>3. p \in Int
    <3>1. Ints(ExpIter(x, k), k)  BY <2>1, ExpIterIs, FieldScalars DEF Scalars
    <3> QED BY <1>1, <3>1, DotInt DEF Poly
  <2>4. s \in Int /\ 0 \in Int
    <3> HIDE DEF p
    <3> QED BY <1>1, <1>3, <2>1, <2>3
  <2> HIDE DEF y, s
  <2>5. Cong(0, y)  BY <2>2, <2>4, CongSym
  <2>6. Cong(0, s)  BY <2>2, <2>4, <2>5, CongTrans
  <2> QED BY <2>3, <2>6 DEF s
<1>5. Cong(m, 0)
  <2>1. Cong(0, m + (r - r) * Poly(f, k, r)) /\ Poly(f, k, r) \in Int  BY <1>4
  <2>2. m + (r - r) * Poly(f, k, r) = m  BY <1>1, <1>3, <2>1
  <2> QED BY <1>1, <2>1, <2>2, CongSym
<1>6. ASSUME NEW x \in S \ {r} PROVE Cong(Poly(f, k, x), 0)
  <2> DEFINE p == Poly(f, k, x)
             z == (x - r) * p
  <2>1. p \in Int /\ Cong(0, m + z)  BY <1>4
  <2>2. x \in Fq /\ x \in Int /\ x # r  BY <1>2, <1>3
  <2> HIDE DEF p
  <2>3. z \in Int  BY <1>3, <2>1, <2>2
  <2>4. Cong(z, 0)
    <3> HIDE DEF z
    <3>1. 0 \in Int /\ m + z \in Int  BY <1>1, <2>3
    <3>2. Cong(m + z, 0)  BY <2>1, <3>1, CongSym
    <3>3. Cong((m + z) - m, 0 - 0)  BY <1>1, <1>5, <3>1, <3>2, CongSub
    <3>4. (m + z) - m = z /\ 0 - 0 = 0  BY <1>1, <2>3
    <3> QED BY <3>3, <3>4
  <2>5. Cong(p, 0)  BY <1>3, <2>1, <2>2, <2>4, DifferenceCancels
  <2> QED BY <2>5 DEF p
<1>7. Roots(S \ {r}, f, k)  BY <1>2, <1>6 DEF Roots
<1> QED BY <1>1, <1>5, <1>7 DEF Vanishes

(* A polynomial of k coefficients with k roots or more is the zero one.    *)
LEMMA RootsBound ==
  ASSUME NEW k \in Nat, NEW c, Ints(c, k), NEW S, IsFiniteSet(S), Roots(S, c, k),
         k <= Cardinality(S)
  PROVE  Vanishes(c, k)
<1> DEFINE Bounded(j) ==
             \A s, R : Ints(s, j) /\ IsFiniteSet(R) /\ Roots(R, s, j) /\ j <= Cardinality(R)
                         => Vanishes(s, j)
           J == {j \in Nat : Bounded(j)}
<1>1. 0 \in J  BY DEF Vanishes
<1>2. ASSUME NEW j \in Nat, j \in J PROVE j + 1 \in J
  <2>1. ASSUME NEW s, NEW R, Ints(s, j + 1), IsFiniteSet(R), Roots(R, s, j + 1),
               j + 1 <= Cardinality(R)
        PROVE  Vanishes(s, j + 1)
    <3>1. R # {}
      <4>1. Cardinality({}) = 0  BY FS_EmptySet
      <4> QED BY <2>1, <4>1
    <3>2. PICK r \in R : TRUE  BY <3>1
    <3>3. /\ IsFiniteSet(R \ {r}) /\ Cardinality(R) \in Nat
          /\ Cardinality(R \ {r}) = Cardinality(R) - 1
      <4>1. R \in SUBSET R  OBVIOUS
      <4> QED BY <2>1, <3>2, <4>1, RemoveOne
    <3>4. j <= Cardinality(R \ {r})  BY <2>1, <3>3
    <3>5. r \in Int  BY <2>1, <3>2 DEF Roots, Fq
    <3>6. PICK f, m : Divided(s, j, r, f, m)  BY <2>1, <3>5, Division
    <3>7. Roots(R \ {r}, f, j) /\ (Vanishes(f, j) => Vanishes(s, j + 1))
      BY <2>1, <3>2, <3>6, RootDivided
    <3>8. Ints(f, j)  BY <3>6 DEF Divided
    <3>9. Bounded(j)  BY <1>2
    <3>10. Vanishes(f, j)  BY <3>3, <3>4, <3>7, <3>8, <3>9
    <3> QED BY <3>7, <3>10
  <2> QED BY <2>1
<1> HIDE DEF J
<1>3. k \in J  BY <1>1, <1>2, Induction
<1>4. Bounded(k)  BY <1>3 DEF J
<1> QED BY <1>4

(* No errors, no violated constraint.                                      *)
LEMMA NoErrors ==
  ASSUME Shaped, Vanishes(Errors, Rows)
  PROVE  Satisfied
<1> DEFINE x == Az
           y == Bz
           z == Cz
           p == ComponentWiseMul(x, y)
<1>1. Rows \in Nat /\ Fq \subseteq Int  BY PrimeAssumption DEF Shaped, Fq
<1>2. FieldList(x, Rows) /\ FieldList(y, Rows) /\ FieldList(z, Rows)  BY ProductsTyped
<1>3. /\ \A j \in 1 .. Rows : Errors[j] = Products[j] - z[j]
      /\ \A j \in 1 .. Rows : Products[j] = x[j] * y[j]
  BY RowsTyped
<1>4. p = z => Satisfied  BY DEF Satisfied, Cz
<1>5. \A j \in 1 .. Rows : Cong(Errors[j], 0)  BY DEF Vanishes
<1> HIDE DEF x, y, z
<1>6. Elementwise(x, y, 1, Rows)
  <2>1. 1 \in Int  OBVIOUS
  <2> QED BY <1>1, <1>2, <2>1, VectorOps
<1>7. /\ FieldList(p, Rows)
      /\ \A j \in 1 .. Rows : Cong(p[j], x[j] * y[j]) /\ x[j] \in Int /\ y[j] \in Int
  BY <1>6 DEF Elementwise
<1> HIDE DEF p
<1>8. ASSUME NEW j \in 1 .. Rows PROVE p[j] = z[j]
  <2> DEFINE xy == x[j] * y[j]
             pj == p[j]
             zj == z[j]
  <2>1. x[j] \in Int /\ y[j] \in Int /\ zj \in Int /\ pj \in Int /\ pj \in Fq /\ zj \in Fq
    BY <1>1, <1>2, <1>7 DEF FieldList
  <2>2. xy \in Int /\ Cong(pj, xy) /\ Cong(xy - zj, 0) /\ 0 \in Int
    BY <1>3, <1>5, <1>7, <2>1
  <2> HIDE DEF xy, pj, zj
  <2>3. Cong(zj, zj)  BY <2>1, CongRefl
  <2>4. xy - zj \in Int  BY <2>1, <2>2
  <2>5. Cong((xy - zj) + zj, 0 + zj)  BY <2>1, <2>2, <2>3, <2>4, CongAdd
  <2>6. (xy - zj) + zj = xy /\ 0 + zj = zj  BY <2>1, <2>2
  <2>7. Cong(xy, zj)  BY <2>5, <2>6
  <2>8. Cong(pj, zj)  BY <2>1, <2>2, <2>7, CongTrans
  <2>9. pj = zj  BY <2>1, <2>8, CongEqual
  <2> QED BY <2>9 DEF pj, zj
<1>9. IsList(p, Rows) /\ IsList(z, Rows)  BY <1>2, <1>7 DEF FieldList
<1>10. p = z  BY <1>1, <1>8, <1>9, SameList
<1> QED BY <1>4, <1>10

(* A value of gamma that hides the errors is a root of their polynomial.   *)
LEMMA EscapesAreRoots ==
  ASSUME Shaped
  PROVE  Roots(EscapingGammas, Errors, Rows)
<1>1. EscapingGammas \subseteq Fq  BY DEF EscapingGammas
<1>2. ASSUME NEW c \in EscapingGammas PROVE Cong(Poly(Errors, Rows, c), 0)
  <2>1. c \in Fq /\ c # 0  BY DEF EscapingGammas
  <2>2. PICK al \in Fq, be \in Fq, de \in Fq \ {0} :
          LET ch == [alpha |-> al, beta |-> be, gamma |-> c, delta |-> de]
          IN  InnerProduct(UVec(ch), VVec(ch)) = W(ch)
    BY DEF EscapingGammas
  <2> DEFINE ch == [alpha |-> al, beta |-> be, gamma |-> c, delta |-> de]
             w == W(ch)
             e == ErrorAt(ch)
  <2>3. Usable(ch) /\ ch.gamma = c  BY <2>1 DEF Usable, FieldChallenges, Invertible
  <2>4. InnerProduct(UVec(ch), VVec(ch)) = w  BY <2>2
  <2>5. e = Poly(Errors, Rows, c)  BY <2>3 DEF ErrorAt, Poly
  <2> HIDE DEF ch
  <2>6. e \in Int /\ Cong(InnerProduct(UVec(ch), VVec(ch)), w + e)  BY <2>3, InnerProductError
  <2>7. w \in Int  BY <2>3, PublicValue
  <2>8. Cong(w, w + e)  BY <2>4, <2>6
  <2> HIDE DEF w, e
  <2>9. w + e \in Int /\ Cong(w, w)  BY <2>6, <2>7, CongRefl
  <2>10. Cong(w + e, w)  BY <2>7, <2>8, <2>9, CongSym
  <2>11. Cong((w + e) - w, w - w)  BY <2>7, <2>9, <2>10, CongSub
  <2>12. (w + e) - w = e /\ w - w = 0  BY <2>6, <2>7
  <2> QED BY <2>5, <2>11, <2>12
<1> QED BY <1>1, <1>2 DEF Roots

(* A witness that violates a constraint escapes fewer values of gamma than *)
(* there are rows, whatever alpha, beta and delta: for every prime field,  *)
(* every size and every statement.                                         *)
THEOREM BadWitnessesAreCaught == ReductionSpec => []BadWitnessIsCaught
<1>1. RInv => BadWitnessIsCaught
  <2> SUFFICES ASSUME RInv, ~Satisfied
               PROVE  Cardinality(EscapingGammas) < Rows
    BY DEF BadWitnessIsCaught
  <2>1. Shaped  BY StatementShaped DEF RInv
  <2>2. Roots(EscapingGammas, Errors, Rows)  BY <2>1, EscapesAreRoots
  <2>3. Rows \in Nat /\ Ints(Errors, Rows)  BY <2>1, RowsTyped
  <2>4. IsFiniteSet(EscapingGammas)
    <3>1. q \in Int  BY PrimeAssumption
    <3>2. IsFiniteSet(Fq)  BY <3>1, FS_Interval DEF Fq
    <3> QED BY <2>2, <3>2, FS_Subset DEF Roots
  <2>5. Cardinality(EscapingGammas) \in Nat  BY <2>4, FS_CardinalityType
  <2>6. ~Vanishes(Errors, Rows)  BY <2>1, NoErrors
  <2>7. ~(Rows <= Cardinality(EscapingGammas))  BY <2>2, <2>3, <2>4, <2>6, RootsBound
  <2> QED BY <2>3, <2>5, <2>7
<1> QED BY <1>1, RInvHolds, PTL
=============================================================================
