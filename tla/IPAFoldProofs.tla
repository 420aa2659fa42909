--------------------------- MODULE IPAFoldProofs ---------------------------
(***************************************************************************)
(* Proofs about the inner product argument of IPAFold: for vectors of any  *)
(* power of two, any factors and any challenges, what is left after each   *)
(* round opens the claim the call began with.                              *)
(***************************************************************************)
EXTENDS IPAFold, IPABaseProofs

(* The lists of a state, of n entries and one per round, and the length    *)
(* that is left: a power of two.                                           *)
Shape ==
  /\ n \in Nat /\ FieldList(a, n) /\ FieldList(b, n) /\ Points(G, n) /\ Points(H, n)
  /\ Len(us) \in Nat /\ FieldList(us, Len(us))
  /\ \A i \in 1 .. Len(us) : us[i] \in Challenges
  /\ Points(L_vec, Len(us)) /\ Points(R_vec, Len(us))
  /\ n * Pow2[Len(us)] = Len(inst.a)
  /\ pc # "idle" => \E e \in 0 .. N : n = Pow2[e]

(* The call's arguments; before it the state is that of an empty one.      *)
Arguments ==
  /\ pc \in {"idle", "fold", "done", "panicked"}
  /\ IF pc = "idle" THEN inst = NoCall /\ us = <<>> /\ n = 0 ELSE inst \in Instances

(* What the vectors open over the coefficients of each base is what the    *)
(* rounds moved the claim's by.                                            *)
OpensMoved ==
  \A g \in Generators :
    Cong(Opens(a, b, At(Factored(G, inst.gf), g, n), At(Factored(H, inst.hf), g, n), n, U[g]),
         Moved(Claim, us, L_vec, R_vec, Len(us), g))

FoldInv == Arguments /\ Shape /\ OpensMoved

----------------------------------------------------------------------------
(* The types of FoldInv are those of TypeOK.                               *)
LEMMA ShapeIsType == Arguments /\ Shape => TypeOK
<1> SUFFICES ASSUME Arguments, Shape PROVE TypeOK  OBVIOUS
<1>1. us \in [1 .. Len(us) -> Challenges]  BY DEF Shape, FieldList, IsList
<1>2. a \in [1 .. n -> Fq] /\ b \in [1 .. n -> Fq]  BY FieldListType DEF Shape
<1>3. G \in [1 .. n -> Point] /\ H \in [1 .. n -> Point]  BY PointsType DEF Shape
<1>4. L_vec \in [1 .. Len(us) -> Point] /\ R_vec \in [1 .. Len(us) -> Point]
  BY PointsType DEF Shape
<1>5. /\ IF pc = "idle" THEN inst = NoCall ELSE inst \in Instances
      /\ pc \in {"idle", "fold", "done", "panicked"}
  BY DEF Arguments
<1>6. n * Pow2[Len(us)] = Len(inst.a)  BY DEF Shape
<1> QED BY <1>1, <1>2, <1>3, <1>4, <1>5, <1>6 DEF TypeOK

(* The bases with their factors are points.                                *)
LEMMA FactoredPoints ==
  ASSUME Arguments, Shape
  PROVE  Points(Factored(G, inst.gf), n) /\ Points(Factored(H, inst.hf), n)
<1>1. CASE us # <<>>  BY <1>1 DEF Factored, Shape
<1>2. CASE us = <<>>
  <2>1. n = Len(inst.a) /\ n \in Nat
    <3>1. Len(us) = 0  BY <1>2
    <3>2. n * 1 = Len(inst.a)  BY <3>1, Pow2Law DEF Shape
    <3> QED BY <3>2 DEF Shape
  <2>2. FieldList(inst.gf, n) /\ FieldList(inst.hf, n)
    <3>1. CASE pc = "idle"
      <4>1. inst.gf = <<>> /\ inst.hf = <<>> /\ n = 0  BY <3>1 DEF Arguments, NoCall
      <4> QED BY <4>1 DEF FieldList, IsList
    <3>2. CASE pc # "idle"
      <4>1. inst.gf \in [1 .. n -> Fq] /\ inst.hf \in [1 .. n -> Fq]
        BY <2>1, <3>2, InstancesAssumption DEF Arguments
      <4> QED BY <2>1, <4>1, FieldListType
    <3> QED BY <3>1, <3>2
  <2>3. Points(G, n) /\ Points(H, n) /\ DOMAIN G = 1 .. n /\ DOMAIN H = 1 .. n
    BY DEF Shape, Points, IsList
  <2>4. /\ Points([i \in 1 .. n |-> Msm(<<inst.gf[i]>>, <<G[i]>>)], n)
        /\ Points([i \in 1 .. n |-> Msm(<<inst.hf[i]>>, <<H[i]>>)], n)
    BY <2>1, <2>2, <2>3, ScaledPoints
  <2> QED BY <1>2, <2>3, <2>4 DEF Factored
<1> QED BY <1>1, <1>2

(* The equation of points is that of their coefficients.                   *)
LEMMA OpensMovedIsClaim ==
  ASSUME Arguments, Shape, Claim \in Point
  PROVE  OpensMoved <=> ClaimPreserved
<1> DEFINE FG == Factored(G, inst.gf)
           FH == Factored(H, inst.hf)
           k == Len(us)
           X == Msm(a \o b \o <<InnerProduct(a, b)>>, FG \o FH \o <<U>>)
           Y == Msm(<<1>> \o Squares(us) \o Squares(BatchInvert(us)), <<Claim>> \o L_vec \o R_vec)
           x(g) == Opens(a, b, At(FG, g, n), At(FH, g, n), n, U[g])
           y(g) == Moved(Claim, us, L_vec, R_vec, k, g)
<1>1. Points(FG, n) /\ Points(FH, n)  BY FactoredPoints
<1>2. X \in Point /\ \A g \in Generators : x(g) \in Int /\ Cong(X[g], x(g))
  <2>1. n \in Nat /\ FieldList(a, n) /\ FieldList(b, n)  BY DEF Shape
  <2> HIDE DEF FG, FH
  <2> QED BY <1>1, <2>1, OpensAt
<1>3. Y \in Point /\ \A g \in Generators : y(g) \in Int /\ Cong(Y[g], y(g))
  <2>1. k \in Nat /\ FieldList(us, k) /\ Points(L_vec, k) /\ Points(R_vec, k)  BY DEF Shape
  <2> HIDE DEF k
  <2> QED BY <2>1, MovedAt
<1>4. OpensMoved <=> \A g \in Generators : Cong(x(g), y(g))  BY DEF OpensMoved
<1>5. ClaimPreserved <=> X = Y  BY DEF ClaimPreserved
<1> HIDE DEF X, Y, x, y
<1>6. \A g \in Generators : X[g] \in Int /\ Y[g] \in Int  BY <1>2, <1>3, CoefficientInt
<1>7. ASSUME \A g \in Generators : Cong(x(g), y(g)) PROVE X = Y
  <2>1. ASSUME NEW g \in Generators PROVE Cong(X[g], Y[g])
    <3>1. Cong(X[g], x(g)) /\ Cong(x(g), y(g)) /\ Cong(y(g), Y[g])
      BY <1>2, <1>3, <1>6, <1>7, CongSym
    <3>2. Cong(X[g], y(g))  BY <1>2, <1>3, <1>6, <3>1, CongTrans
    <3> QED BY <1>2, <1>3, <1>6, <3>1, <3>2, CongTrans
  <2> QED BY <1>2, <1>3, <2>1, PointsEqual
<1>8. ASSUME X = Y PROVE \A g \in Generators : Cong(x(g), y(g))
  <2>1. ASSUME NEW g \in Generators PROVE Cong(x(g), y(g))
    <3>1. Cong(x(g), X[g]) /\ Cong(Y[g], y(g))  BY <1>2, <1>3, <1>6, CongSym
    <3> QED BY <1>2, <1>3, <1>6, <1>8, <3>1, CongTrans
  <2> QED BY <2>1
<1> QED BY <1>4, <1>5, <1>7, <1>8

----------------------------------------------------------------------------
(* Arguments of the code's, and those of no call at all, are vectors of    *)
(* one length.                                                             *)
IsCall(x) ==
  LET k == Len(x.a)
  IN  /\ k \in 0 .. N
      /\ FieldList(x.a, k) /\ FieldList(x.b, k) /\ FieldList(x.gf, k) /\ FieldList(x.hf, k)

(* Every call is made with such arguments.                                 *)
LEMMA InstancesAreCalls == IsCall(NoCall) /\ \A x \in Instances : IsCall(x)
<1>1. IsCall(NoCall)
  <2>1. 0 \in 0 .. N  BY BasesAssumption
  <2>2. FieldList(<<>>, 0)  BY DEF FieldList, IsList
  <2> QED BY <2>1, <2>2 DEF IsCall, NoCall
<1>2. ASSUME NEW x \in Instances PROVE IsCall(x)
  <2> DEFINE k == Len(x.a)
  <2>1. k \in 1 .. N  BY InstancesAssumption
  <2>2. /\ x.a \in [1 .. k -> Fq] /\ x.b \in [1 .. k -> Fq]
        /\ x.gf \in [1 .. k -> Fq] /\ x.hf \in [1 .. k -> Fq]
    BY InstancesAssumption
  <2> HIDE DEF k
  <2>3. k \in Nat /\ k \in 0 .. N  BY <2>1, BasesAssumption
  <2>4. FieldList(x.a, k) /\ FieldList(x.b, k) /\ FieldList(x.gf, k) /\ FieldList(x.hf, k)
    BY <2>2, <2>3, FieldListType
  <2> QED BY <2>3, <2>4 DEF IsCall, k
<1> QED BY <1>1, <1>2

(* Claim, of the arguments of a call.                                      *)
ClaimOf(x) ==
  Msm(ComponentWiseMul(x.a, x.gf) \o ComponentWiseMul(x.b, x.hf) \o <<InnerProduct(x.a, x.b)>>,
      BasesG(Len(x.a)) \o BasesH(Len(x.a)) \o <<U>>)

(* The vectors of a call open its claim under the bases with their         *)
(* factors.                                                                *)
LEMMA CallOpens ==
  ASSUME NEW x, IsCall(x)
  PROVE  LET k == Len(x.a)
         IN  /\ k \in Nat
             /\ FieldList(x.a, k) /\ FieldList(x.b, k)
             /\ Points(BasesG(k), k) /\ Points(BasesH(k), k)
             /\ ClaimOf(x) \in Point
             /\ \A g \in Generators :
                  Cong(Opens(x.a, x.b, At(FactoredBases(BasesG(k), x.gf, k), g, k),
                             At(FactoredBases(BasesH(k), x.hf, k), g, k), k, U[g]),
                       ClaimOf(x)[g])
<1> DEFINE k == Len(x.a)
           aa == x.a
           bb == x.b
           gf == x.gf
           hf == x.hf
           A == BasesG(k)
           B == BasesH(k)
<1>1. k \in Nat /\ k <= N  BY BasesAssumption DEF IsCall
<1>2. FieldList(aa, k) /\ FieldList(bb, k) /\ FieldList(gf, k) /\ FieldList(hf, k)
  BY DEF IsCall
<1>3. ClaimOf(x) = Msm(ComponentWiseMul(aa, gf) \o ComponentWiseMul(bb, hf)
                         \o <<InnerProduct(aa, bb)>>, A \o B \o <<U>>)
  BY DEF ClaimOf
<1> HIDE DEF k, aa, bb, gf, hf
<1>4. Points(A, k) /\ Points(B, k)  BY <1>1, BasesPoints
<1> HIDE DEF A, B
<1>5. /\ ClaimOf(x) \in Point
      /\ \A g \in Generators :
           Cong(Opens(aa, bb, At(FactoredBases(A, gf, k), g, k),
                      At(FactoredBases(B, hf, k), g, k), k, U[g]), ClaimOf(x)[g])
  BY <1>1, <1>2, <1>3, <1>4, PlainClaimOpens DEF FactoredBases
<1> QED BY <1>1, <1>2, <1>4, <1>5 DEF k, aa, bb, gf, hf, A, B

(* The claim is a point.                                                   *)
LEMMA ClaimPoint == Arguments => Claim \in Point
<1> SUFFICES ASSUME Arguments PROVE Claim \in Point  OBVIOUS
<1>1. IsCall(inst)  BY InstancesAreCalls DEF Arguments
<1>2. Claim = ClaimOf(inst)  BY DEF Claim, ClaimOf
<1> QED BY <1>1, <1>2, CallOpens

(* Before the first round the claim has not moved and nothing is folded.   *)
LEMMA FoldInvInit == Init => FoldInv
<1> SUFFICES ASSUME Init PROVE FoldInv  OBVIOUS
<1> DEFINE x == NoCall
<1>1. IsCall(x) /\ Len(x.a) = 0 /\ x.a = <<>> /\ x.b = <<>>
  BY InstancesAreCalls DEF NoCall
<1>2. /\ inst = x /\ n = 0 /\ us = <<>> /\ a = x.a /\ b = x.b /\ pc = "idle"
      /\ G = <<>> /\ H = <<>> /\ L_vec = <<>> /\ R_vec = <<>>
  BY <1>1 DEF Init
<1>3. BasesG(0) = <<>> /\ BasesH(0) = <<>>  BY DEF BasesG, BasesH
<1>4. /\ FieldList(x.a, 0) /\ FieldList(x.b, 0)
      /\ Points(BasesG(0), 0) /\ Points(BasesH(0), 0)
      /\ ClaimOf(x) \in Point
      /\ \A g \in Generators :
           Cong(Opens(x.a, x.b, At(FactoredBases(BasesG(0), x.gf, 0), g, 0),
                      At(FactoredBases(BasesH(0), x.hf, 0), g, 0), 0, U[g]), ClaimOf(x)[g])
  BY <1>1, CallOpens
<1> HIDE DEF x
<1>5. Arguments  BY <1>2 DEF Arguments, x
<1>6. Shape
  <2>1. FieldList(<<>>, 0) /\ Points(<<>>, 0)  BY DEF FieldList, Points, IsList
  <2>2. Len(us) = 0 /\ 0 * Pow2[0] = 0  BY <1>2, Pow2Law
  <2> QED BY <1>1, <1>2, <1>3, <1>4, <2>1, <2>2 DEF Shape
<1>7. OpensMoved
  <2>1. /\ Factored(G, inst.gf) = FactoredBases(BasesG(0), x.gf, 0)
        /\ Factored(H, inst.hf) = FactoredBases(BasesH(0), x.hf, 0)
    BY <1>2, <1>3 DEF Factored, FactoredBases
  <2>2. Claim = ClaimOf(x)  BY <1>2 DEF Claim, ClaimOf
  <2>3. Len(us) = 0  BY <1>2
  <2>4. \A g \in Generators : Moved(Claim, us, L_vec, R_vec, 0, g) = ClaimOf(x)[g]
    BY <1>4, <2>2, MovedNone
  <2> QED BY <1>2, <1>4, <2>1, <2>3, <2>4 DEF OpensMoved
<1> QED BY <1>5, <1>6, <1>7 DEF FoldInv

(* A call starts at its claim.                                             *)
LEMMA FoldInvCall ==
  ASSUME FoldInv, NEW x \in Instances, Call(x)
  PROVE  FoldInv'
<1> DEFINE k == Len(x.a)
<1>1. IsCall(x)  BY InstancesAreCalls
<1>2. /\ k \in Nat
      /\ FieldList(x.a, k) /\ FieldList(x.b, k)
      /\ Points(BasesG(k), k) /\ Points(BasesH(k), k)
      /\ ClaimOf(x) \in Point
      /\ \A g \in Generators :
           Cong(Opens(x.a, x.b, At(FactoredBases(BasesG(k), x.gf, k), g, k),
                      At(FactoredBases(BasesH(k), x.hf, k), g, k), k, U[g]), ClaimOf(x)[g])
  BY <1>1, CallOpens
<1>3. \E e \in 0 .. N : k = Pow2[e]  BY InstancesAssumption
<1>4. /\ inst' = x /\ n' = k /\ a' = x.a /\ b' = x.b /\ pc' = "fold"
      /\ G' = BasesG(k) /\ H' = BasesH(k)
      /\ us' = us /\ L_vec' = L_vec /\ R_vec' = R_vec
  BY DEF Call
<1>5. us = <<>> /\ Len(us) = 0  BY DEF FoldInv, Arguments, Call
<1>6. Len(inst'.a) = k  BY <1>4
<1> HIDE DEF k
<1>7. Arguments'  BY <1>4 DEF Arguments
<1>8. Shape'
  <2>1. k * Pow2[0] = k  BY <1>2, Pow2Law
  <2>2. /\ FieldList(us, 0) /\ Points(L_vec, 0) /\ Points(R_vec, 0)
    BY <1>5 DEF FoldInv, Shape
  <2>3. Len(us') = 0  BY <1>4, <1>5
  <2>4. n' * Pow2[Len(us')] = Len(inst'.a)  BY <1>4, <1>6, <2>1, <2>3
  <2> QED BY <1>2, <1>3, <1>4, <1>5, <2>2, <2>3, <2>4 DEF Shape
<1>9. OpensMoved'
  <2>1. DOMAIN BasesG(k) = 1 .. k /\ DOMAIN BasesH(k) = 1 .. k  BY DEF BasesG, BasesH
  <2>2. /\ Factored(G, inst.gf)' = FactoredBases(BasesG(k), x.gf, k)
        /\ Factored(H, inst.hf)' = FactoredBases(BasesH(k), x.hf, k)
    BY <1>4, <1>5, <2>1 DEF Factored, FactoredBases
  <2>3. Claim' = ClaimOf(x)  BY <1>4 DEF Claim, ClaimOf
  <2>4. \A g \in Generators : Moved(Claim', us', L_vec', R_vec', 0, g) = ClaimOf(x)[g]
    BY <1>2, <2>3, MovedNone
  <2>5. Len(us') = 0  BY <1>4, <1>5
  <2> QED BY <1>2, <1>4, <2>2, <2>4, <2>5 DEF OpensMoved
<1> QED BY <1>7, <1>8, <1>9 DEF FoldInv

(* The state a round leaves.                                               *)
LEMMA FoldShape ==
  ASSUME FoldInv, NEW u \in Challenges, Fold(u)
  PROVE  LET h == n \div 2
             FG == Factored(G, inst.gf)
             FH == Factored(H, inst.hf)
         IN  /\ h \in Nat /\ n = h + h /\ u \in Fq /\ u # 0
             /\ RoundFolds(a, b, FG, FH, a', b', G', H', h, u, Inv(u))
             /\ Appends(us', us, u, Len(us)) /\ Len(us') = Len(us) + 1 /\ us' # <<>>
             /\ L_vec' = Append(L_vec, CrossTerm(Left(a, h), Right(b, h), Right(FG, h), Left(FH, h)))
             /\ R_vec' = Append(R_vec, CrossTerm(Right(a, h), Left(b, h), Left(FG, h), Right(FH, h)))
             /\ n' = h /\ pc' = "fold" /\ inst' = inst
             /\ h * Pow2[Len(us) + 1] = Len(inst.a)
             /\ \E d \in 0 .. N : h = Pow2[d]
<1> DEFINE h == n \div 2
           k == Len(us)
           FG == Factored(G, inst.gf)
           FH == Factored(H, inst.hf)
<1>1. /\ pc = "fold" /\ n # 1 /\ u # 0 /\ n' = h /\ pc' = pc /\ inst' = inst
      /\ us' = Append(us, u)
      /\ a' = FoldVec(a, h, u, Inv(u)) /\ b' = FoldVec(b, h, Inv(u), u)
      /\ G' = FoldBases(FG, h, Inv(u), u) /\ H' = FoldBases(FH, h, u, Inv(u))
      /\ L_vec' = Append(L_vec, CrossTerm(Left(a, h), Right(b, h), Right(FG, h), Left(FH, h)))
      /\ R_vec' = Append(R_vec, CrossTerm(Right(a, h), Left(b, h), Left(FG, h), Right(FH, h)))
  BY DEF Fold
<1>2. u \in Fq  BY ChallengesAssumption
<1>3. Inv(u) \in Int /\ u \in Int  BY <1>1, <1>2, InvLaw
<1>4. PICK e \in 0 .. N : n = Pow2[e]  BY <1>1 DEF FoldInv, Shape
<1>5. h \in Nat /\ n = h + h /\ \E d \in 0 .. N : h = Pow2[d]
  BY <1>1, <1>4, HalfPower
<1>6. Points(FG, n) /\ Points(FH, n)  BY FactoredPoints DEF FoldInv
<1>7. /\ k \in Nat /\ FieldList(us, k) /\ n * Pow2[k] = Len(inst.a)
      /\ FieldList(a, n) /\ FieldList(b, n)
  BY DEF FoldInv, Shape
<1> HIDE DEF FG, FH, h, k
<1>8. FieldList(a', h) /\ Folded(a', a, h, u, Inv(u))
  BY <1>1, <1>3, <1>5, <1>7, FoldedVector DEF FoldVec
<1>9. FieldList(b', h) /\ Folded(b', b, h, Inv(u), u)
  BY <1>1, <1>3, <1>5, <1>7, FoldedVector DEF FoldVec
<1>10. /\ Points(G', h)
       /\ \A g \in Generators : Folded(At(G', g, h), At(FG, g, h + h), h, Inv(u), u)
  BY <1>1, <1>3, <1>5, <1>6, FoldedBases DEF FoldBases
<1>11. /\ Points(H', h)
       /\ \A g \in Generators : Folded(At(H', g, h), At(FH, g, h + h), h, u, Inv(u))
  BY <1>1, <1>3, <1>5, <1>6, FoldedBases DEF FoldBases
<1>12. RoundFolds(a, b, FG, FH, a', b', G', H', h, u, Inv(u))
  <2>1. FieldList(a, h + h) /\ FieldList(b, h + h) /\ Points(FG, h + h) /\ Points(FH, h + h)
    BY <1>5, <1>6, <1>7
  <2> QED BY <1>8, <1>9, <1>10, <1>11, <2>1 DEF RoundFolds
<1>13. Appends(us', us, u, k) /\ Len(us') = k + 1 /\ us' # <<>>
  <2>1. Appends(us', us, u, k)  BY <1>1, <1>7, ListAppend DEF FieldList
  <2>2. IsList(us', k + 1)  BY <2>1 DEF Appends
  <2> QED BY <1>7, <2>1, <2>2, NotEmpty
<1>14. h * Pow2[k + 1] = Len(inst.a)
  <2> DEFINE p == Pow2[k]
  <2>1. Pow2[k + 1] = 2 * p /\ p \in Nat  BY <1>7, Pow2Law
  <2>2. (h + h) * p = Len(inst.a)  BY <1>5, <1>7
  <2> HIDE DEF p
  <2>3. h * (2 * p) = (h + h) * p  BY <1>5, <2>1
  <2> QED BY <2>1, <2>2, <2>3
<1> QED BY <1>1, <1>2, <1>5, <1>12, <1>13, <1>14 DEF FG, FH, h, k

(* A round's L and R are points, and open the halves crosswise.            *)
LEMMA CrossTerms ==
  ASSUME NEW h \in Nat, NEW x, NEW y, NEW A, NEW B,
         FieldList(x, h), FieldList(y, h), Points(A, h), Points(B, h)
  PROVE  /\ CrossTerm(x, y, A, B) \in Point
         /\ \A g \in Generators :
              Cong(CrossTerm(x, y, A, B)[g], Opens(x, y, At(A, g, h), At(B, g, h), h, U[g]))
BY OpensAt DEF CrossTerm

(* A round moves what is opened and the claim by the same.                 *)
LEMMA FoldInvFold ==
  ASSUME FoldInv, NEW u \in Challenges, Fold(u)
  PROVE  FoldInv'
<1> DEFINE h == n \div 2
           k == Len(us)
           FG == Factored(G, inst.gf)
           FH == Factored(H, inst.hf)
           al == Left(a, h)
           ar == Right(a, h)
           bl == Left(b, h)
           br == Right(b, h)
           Gl == Left(FG, h)
           Gr == Right(FG, h)
           Hl == Left(FH, h)
           Hr == Right(FH, h)
           L == CrossTerm(al, br, Gr, Hl)
           R == CrossTerm(ar, bl, Gl, Hr)
<1>1. /\ h \in Nat /\ n = h + h /\ u \in Fq /\ u # 0
      /\ RoundFolds(a, b, FG, FH, a', b', G', H', h, u, Inv(u))
      /\ Appends(us', us, u, k) /\ Len(us') = k + 1 /\ us' # <<>>
      /\ L_vec' = Append(L_vec, L) /\ R_vec' = Append(R_vec, R)
      /\ n' = h /\ pc' = "fold" /\ inst' = inst
      /\ h * Pow2[k + 1] = Len(inst.a)
      /\ \E d \in 0 .. N : h = Pow2[d]
  BY FoldShape
<1>2. /\ k \in Nat /\ FieldList(us, k) /\ Points(L_vec, k) /\ Points(R_vec, k)
      /\ \A i \in 1 .. k : us[i] \in Challenges
      /\ inst \in Instances
  <2>1. pc = "fold"  BY DEF Fold
  <2> QED BY <2>1 DEF FoldInv, Shape, Arguments
<1>3. Claim \in Point  BY ClaimPoint DEF FoldInv
<1> HIDE DEF FG, FH, h, k
<1>4. FieldList(a, h + h) /\ FieldList(b, h + h) /\ Points(FG, h + h) /\ Points(FH, h + h)
  BY <1>1 DEF RoundFolds
<1>5. /\ Halves(a, al, ar, h) /\ Halves(FG, Gl, Gr, h)
      /\ FieldList(al, h) /\ FieldList(ar, h) /\ Points(Gl, h) /\ Points(Gr, h)
  BY <1>1, <1>4, HalfLists
<1>6. /\ Halves(b, bl, br, h) /\ Halves(FH, Hl, Hr, h)
      /\ FieldList(bl, h) /\ FieldList(br, h) /\ Points(Hl, h) /\ Points(Hr, h)
  BY <1>1, <1>4, HalfLists
<1> HIDE DEF al, ar, bl, br, Gl, Gr, Hl, Hr
<1>7. /\ L \in Point
      /\ \A g \in Generators : Cong(L[g], Opens(al, br, At(Gr, g, h), At(Hl, g, h), h, U[g]))
  BY <1>1, <1>5, <1>6, CrossTerms
<1>8. /\ R \in Point
      /\ \A g \in Generators : Cong(R[g], Opens(ar, bl, At(Gl, g, h), At(Hr, g, h), h, U[g]))
  BY <1>1, <1>5, <1>6, CrossTerms
<1> HIDE DEF L, R
<1>9. Appends(L_vec', L_vec, L, k) /\ Appends(R_vec', R_vec, R, k)
  BY <1>1, <1>2, ListAppend DEF Points
<1>10. ASSUME NEW g \in Generators
       PROVE  /\ FieldList(us', k + 1) /\ Points(L_vec', k + 1) /\ Points(R_vec', k + 1)
              /\ Moved(Claim, us, L_vec, R_vec, k, g) \in Int
              /\ Moved(Claim, us', L_vec', R_vec', k + 1, g) \in Int
              /\ Cong(Moved(Claim, us', L_vec', R_vec', k + 1, g),
                      Moved(Claim, us, L_vec, R_vec, k, g)
                        + (u * u * L[g] + Inv(u) * Inv(u) * R[g]))
  BY <1>1, <1>2, <1>3, <1>7, <1>8, <1>9, MovedNext
<1>11. Claim' = Claim  BY <1>1 DEF Claim
<1>12. Factored(G, inst.gf)' = G' /\ Factored(H, inst.hf)' = H'
  BY <1>1 DEF Factored
<1>13. FieldList(a', h) /\ FieldList(b', h) /\ Points(G', h) /\ Points(H', h)
  BY <1>1 DEF RoundFolds
<1>14. Arguments'  BY <1>1, <1>2 DEF Arguments
<1>15. Shape'
  <2>2. PICK g \in Generators : TRUE  BY DEF Generators
  <2>3. FieldList(us', k + 1) /\ Points(L_vec', k + 1) /\ Points(R_vec', k + 1)
    BY <1>10, <2>2
  <2>4. \A i \in 1 .. k + 1 : us'[i] \in Challenges
    <3>1. \A i \in 1 .. k + 1 : i \in 1 .. k \/ i = k + 1  BY <1>2
    <3> QED BY <1>1, <1>2, <3>1 DEF Appends
  <2>5. k + 1 \in Nat  BY <1>2
  <2> QED BY <1>1, <1>13, <2>3, <2>4, <2>5 DEF Shape
<1>16. OpensMoved'
  <2>1. ASSUME NEW g \in Generators
        PROVE  Cong(Opens(a', b', At(G', g, h), At(H', g, h), h, U[g]),
                    Moved(Claim, us', L_vec', R_vec', k + 1, g))
    <3> DEFINE lo == Opens(al, br, At(Gr, g, h), At(Hl, g, h), h, U[g])
               ro == Opens(ar, bl, At(Gl, g, h), At(Hr, g, h), h, U[g])
               O == Opens(a, b, At(FG, g, h + h), At(FH, g, h + h), h + h, U[g])
               O1 == Opens(a', b', At(G', g, h), At(H', g, h), h, U[g])
               M == Moved(Claim, us, L_vec, R_vec, k, g)
               M1 == Moved(Claim, us', L_vec', R_vec', k + 1, g)
               w == Inv(u)
    <3>1. lo \in Int /\ ro \in Int /\ Cong(O1, O + (u * u * lo + w * w * ro))
      BY SMTT(60), <1>1, <1>5, <1>6, OpensRound
    <3>2. M \in Int /\ M1 \in Int /\ Cong(M1, M + (u * u * L[g] + w * w * R[g]))
      BY <1>10
    <3>3. Cong(O, M)  BY <1>1 DEF FoldInv, OpensMoved, FG, FH, k
    <3>4. Cong(L[g], lo) /\ Cong(R[g], ro) /\ L[g] \in Int /\ R[g] \in Int
      BY <1>7, <1>8, CoefficientInt
    <3>5. u \in Int /\ w \in Int  BY <1>1, InvLaw
    <3>6. O \in Int /\ O1 \in Int
      <4>1. U[g] \in Int  BY GeneratorPoint, CoefficientInt
      <4>2. /\ Ints(a, h + h) /\ Ints(b, h + h) /\ Ints(a', h) /\ Ints(b', h)
            /\ h + h \in Nat
        BY SMTT(60), <1>1, <1>4, <1>13, FieldScalars DEF Scalars
      <4>3. /\ Ints(At(FG, g, h + h), h + h) /\ Ints(At(FH, g, h + h), h + h)
            /\ Ints(At(G', g, h), h) /\ Ints(At(H', g, h), h)
        BY <1>1, <1>4, <1>13, <4>2, AtInts
      <4> QED BY <1>1, <4>1, <4>2, <4>3, OpensInt
    <3> HIDE DEF lo, ro, O, O1, M, M1, w
    <3>7. Cong(O1, M1)  BY <3>1, <3>2, <3>3, <3>4, <3>5, <3>6, KeepsUp
    <3> QED BY <3>7 DEF O1, M1
  <2> QED BY <1>1, <1>11, <1>12, <2>1 DEF OpensMoved
<1> QED BY <1>14, <1>15, <1>16 DEF FoldInv

(* Every step keeps the invariant.                                         *)
LEMMA FoldInvNext == FoldInv /\ [Next]_vars => FoldInv'
<1> SUFFICES ASSUME FoldInv, [Next]_vars PROVE FoldInv'  OBVIOUS
<1>1. ASSUME NEW x \in Instances, Call(x) PROVE FoldInv'
  BY <1>1, FoldInvCall
<1>2. ASSUME NEW u \in Challenges, Fold(u) PROVE FoldInv'
  BY <1>2, FoldInvFold
<1>3. ASSUME UNCHANGED <<inst, n, a, b, G, H, L_vec, R_vec, us>>,
             pc' \in {"fold", "done", "panicked"}, pc # "idle"
      PROVE  FoldInv'
  <2>1. Arguments'  BY <1>3 DEF FoldInv, Arguments
  <2>2. Shape'  BY <1>3 DEF FoldInv, Shape
  <2>3. OpensMoved'  BY <1>3 DEF FoldInv, OpensMoved, Factored, Claim
  <2> QED BY <2>1, <2>2, <2>3 DEF FoldInv
<1>4. CASE ZeroChallenge  BY <1>3, <1>4 DEF ZeroChallenge
<1>5. CASE Finish  BY <1>3, <1>5 DEF Finish
<1>6. CASE UNCHANGED vars
  BY <1>6 DEF vars, FoldInv, Arguments, Shape, OpensMoved, Factored, Claim
<1> QED BY <1>1, <1>2, <1>4, <1>5, <1>6 DEF Next

(* It holds in every state of every run.                                   *)
LEMMA FoldInvHolds == Spec => []FoldInv
BY FoldInvInit, FoldInvNext, PTL DEF Spec

(* The vectors, bases and challenges keep their types and lengths.         *)
THEOREM FoldTypes == Spec => []TypeOK
<1>1. FoldInv => TypeOK  BY ShapeIsType DEF FoldInv
<1> QED BY <1>1, FoldInvHolds, PTL

(* Every round keeps the claim: for every q that is a prime, every length  *)
(* that is a power of two, all vectors, factors and challenges, what the   *)
(* prover holds opens the claim moved by the L's and R's it has sent.      *)
THEOREM ClaimIsPreserved == Spec => []ClaimPreserved
<1>1. FoldInv => ClaimPreserved
  <2> SUFFICES ASSUME FoldInv PROVE ClaimPreserved  OBVIOUS
  <2>1. Arguments /\ Shape /\ OpensMoved /\ Claim \in Point  BY ClaimPoint DEF FoldInv
  <2> QED BY <2>1, OpensMovedIsClaim
<1> QED BY <1>1, FoldInvHolds, PTL

----------------------------------------------------------------------------
(* Each base the prover has left is the combination of the original ones,  *)
(* with their factors, that the verifier computes from the challenges.     *)
SpreadBases ==
  LET k == Len(inst.a)
      c == VerificationScalars(us)
      m == Pow2[Len(us)]
  IN  /\ Spreads(Factored(G, inst.gf), FactoredBases(BasesG(k), inst.gf, k), c, m, n)
      /\ Spreads(Factored(H, inst.hf), FactoredBases(BasesH(k), inst.hf, k), Reverse(c), m, n)

SpreadInv == FoldInv /\ (pc # "idle" => SpreadBases) /\ (pc = "done" => n = 1)

(* The bases of a call with their factors.                                 *)
LEMMA CallBases ==
  ASSUME NEW x, IsCall(x)
  PROVE  LET k == Len(x.a)
         IN  /\ k \in Nat /\ FieldList(x.gf, k) /\ FieldList(x.hf, k)
             /\ Points(BasesG(k), k) /\ Points(BasesH(k), k)
             /\ Points(FactoredBases(BasesG(k), x.gf, k), k)
             /\ Points(FactoredBases(BasesH(k), x.hf, k), k)
<1> DEFINE k == Len(x.a)
           f == x.gf
           e == x.hf
<1>1. k \in Nat /\ k <= N  BY BasesAssumption DEF IsCall
<1>2. FieldList(f, k) /\ FieldList(e, k)  BY DEF IsCall
<1> HIDE DEF k, f, e
<1>3. Points(BasesG(k), k) /\ Points(BasesH(k), k)  BY <1>1, BasesPoints
<1>4. Points(FactoredBases(BasesG(k), f, k), k)
  BY <1>1, <1>2, <1>3, ScaledPoints DEF FactoredBases
<1>5. Points(FactoredBases(BasesH(k), e, k), k)
  BY <1>1, <1>2, <1>3, ScaledPoints DEF FactoredBases
<1> QED BY <1>1, <1>2, <1>3, <1>4, <1>5 DEF k, f, e

(* A call starts with the original bases.                                  *)
LEMMA SpreadCall ==
  ASSUME SpreadInv, NEW x \in Instances, Call(x)
  PROVE  SpreadInv'
<1> DEFINE k == Len(x.a)
           FG == FactoredBases(BasesG(k), x.gf, k)
           FH == FactoredBases(BasesH(k), x.hf, k)
<1>1. FoldInv'  BY FoldInvCall DEF SpreadInv
<1>2. IsCall(x)  BY InstancesAreCalls
<1>3. k \in Nat /\ Points(FG, k) /\ Points(FH, k)  BY <1>2, CallBases
<1>4. /\ inst' = x /\ n' = k /\ pc' = "fold" /\ G' = BasesG(k) /\ H' = BasesH(k) /\ us' = us
  BY DEF Call
<1>5. us = <<>> /\ Len(us) = 0  BY DEF SpreadInv, FoldInv, Arguments, Call
<1>6. Len(inst'.a) = k  BY <1>4
<1>7. Factored(G, inst.gf)' = FG /\ Factored(H, inst.hf)' = FH
  <2>1. DOMAIN BasesG(k) = 1 .. k /\ DOMAIN BasesH(k) = 1 .. k  BY DEF BasesG, BasesH
  <2> QED BY <1>4, <1>5, <2>1 DEF Factored, FactoredBases
<1>8. /\ FactoredBases(BasesG(Len(inst.a)), inst.gf, Len(inst.a))' = FG
      /\ FactoredBases(BasesH(Len(inst.a)), inst.hf, Len(inst.a))' = FH
  BY <1>4
<1>9. VerificationScalars(us)' = <<1>> /\ Reverse(VerificationScalars(us))' = <<1>>
  <2>1. FieldList(us, 0)  BY <1>5 DEF SpreadInv, FoldInv, Shape
  <2>2. VerificationScalars(us) = <<1>> /\ Reverse(<<1>>) = <<1>>  BY <2>1, ScalarsNone
  <2> QED BY <1>4, <2>2
<1>10. Pow2[Len(us)]' = 1  BY <1>4, <1>5, Pow2Law
<1> HIDE DEF FG, FH, k
<1>11. Spreads(FG, FG, <<1>>, 1, k) /\ Spreads(FH, FH, <<1>>, 1, k)
  BY <1>3, SpreadsStart
<1>12. SpreadBases'  BY <1>4, <1>7, <1>8, <1>9, <1>10, <1>11 DEF SpreadBases
<1> QED BY <1>1, <1>4, <1>12 DEF SpreadInv

(* A round combines them in pairs.                                         *)
LEMMA SpreadFold ==
  ASSUME SpreadInv, NEW u \in Challenges, Fold(u)
  PROVE  SpreadInv'
<1> DEFINE h == n \div 2
           k == Len(us)
           m == Pow2[k]
           len == Len(inst.a)
           X == Factored(G, inst.gf)
           Y == Factored(H, inst.hf)
           FG == FactoredBases(BasesG(len), inst.gf, len)
           FH == FactoredBases(BasesH(len), inst.hf, len)
           c == VerificationScalars(us)
           cc == VerificationScalars(us')
           d == Reverse(c)
           dd == Reverse(cc)
<1>1. FoldInv' /\ FoldInv  BY FoldInvFold DEF SpreadInv
<1>2. /\ h \in Nat /\ n = h + h /\ u \in Fq /\ u # 0
      /\ RoundFolds(a, b, X, Y, a', b', G', H', h, u, Inv(u))
      /\ Appends(us', us, u, k) /\ Len(us') = k + 1 /\ us' # <<>>
      /\ n' = h /\ pc' = "fold" /\ inst' = inst
  BY <1>1, FoldShape
<1>3. pc = "fold"  BY DEF Fold
<1>4. IsCall(inst)  BY <1>1, <1>3, InstancesAreCalls DEF FoldInv, Arguments
<1>5. len \in Nat /\ Points(FG, len) /\ Points(FH, len)  BY <1>4, CallBases
<1>6. k \in Nat /\ FieldList(us, k) /\ n * m = len  BY <1>1 DEF FoldInv, Shape
<1>7. FieldList(us', k + 1)  BY <1>1, <1>2 DEF FoldInv, Shape
<1>8. m \in Nat /\ Pow2[k + 1] = 2 * m  BY <1>6, Pow2Law
<1>9. FieldList(c, m) /\ FieldList(cc, 2 * m) /\ Doubled(c, cc, Inv(u), u, m)
  BY <1>2, <1>6, <1>7, ScalarsDouble
<1>10. Spreads(X, FG, c, m, n) /\ Spreads(Y, FH, d, m, n)
  BY <1>3 DEF SpreadInv, SpreadBases
<1>11. Factored(G, inst.gf)' = G' /\ Factored(H, inst.hf)' = H'
  BY <1>2 DEF Factored
<1>12. /\ FactoredBases(BasesG(Len(inst.a)), inst.gf, Len(inst.a))' = FG
       /\ FactoredBases(BasesH(Len(inst.a)), inst.hf, Len(inst.a))' = FH
  BY <1>2
<1>13. Pow2[Len(us)]' = 2 * m  BY <1>2, <1>8
<1> HIDE DEF h, k, m, len, X, Y, FG, FH, c, cc
<1>14. FieldList(d, m) /\ FieldList(dd, 2 * m) /\ Doubled(d, dd, u, Inv(u), m)
  BY <1>8, <1>9, ReverseDouble
<1> HIDE DEF d, dd
<1>15. Inv(u) \in Int /\ u \in Int  BY <1>2, InvLaw
<1>16. Points(FG, m * (h + h)) /\ Points(FH, m * (h + h))
  <2>1. m * (h + h) = len  BY <1>2, <1>6, <1>8
  <2> QED BY <1>5, <2>1
<1>17. /\ Points(X, h + h) /\ Points(Y, h + h) /\ Points(G', h) /\ Points(H', h)
       /\ \A g \in Generators : Folded(At(G', g, h), At(X, g, h + h), h, Inv(u), u)
       /\ \A g \in Generators : Folded(At(H', g, h), At(Y, g, h + h), h, u, Inv(u))
  BY <1>2 DEF RoundFolds
<1>18. Spreads(G', FG, cc, 2 * m, h)
  <2>1. Spreads(X, FG, c, m, h + h)  BY <1>2, <1>10
  <2> QED BY <1>2, <1>8, <1>9, <1>15, <1>16, <1>17, <2>1, SpreadsFold
<1>19. Spreads(H', FH, dd, 2 * m, h)
  <2>1. Spreads(Y, FH, d, m, h + h)  BY <1>2, <1>10
  <2> QED BY <1>2, <1>8, <1>14, <1>15, <1>16, <1>17, <2>1, SpreadsFold
<1>20. SpreadBases'
  BY <1>2, <1>11, <1>12, <1>13, <1>18, <1>19 DEF SpreadBases, cc, dd
<1> QED BY <1>1, <1>2, <1>20 DEF SpreadInv

(* Every step keeps them so.                                               *)
LEMMA SpreadInvNext == SpreadInv /\ [Next]_vars => SpreadInv'
<1> SUFFICES ASSUME SpreadInv, [Next]_vars PROVE SpreadInv'  OBVIOUS
<1>1. ASSUME NEW x \in Instances, Call(x) PROVE SpreadInv'
  BY <1>1, SpreadCall
<1>2. ASSUME NEW u \in Challenges, Fold(u) PROVE SpreadInv'
  BY <1>2, SpreadFold
<1>3. FoldInv'  BY FoldInvNext DEF SpreadInv
<1>4. ASSUME UNCHANGED <<inst, n, G, H, us>>, pc' # "idle" => pc # "idle",
             pc' = "done" => n = 1
      PROVE  SpreadInv'
  <2>1. SpreadBases => SpreadBases'  BY <1>4 DEF SpreadBases, Factored
  <2> QED BY <1>3, <1>4, <2>1 DEF SpreadInv
<1>5. CASE ZeroChallenge  BY <1>4, <1>5 DEF ZeroChallenge
<1>6. CASE Finish  BY <1>4, <1>6 DEF Finish
<1>7. CASE UNCHANGED vars  BY <1>4, <1>7 DEF vars, SpreadInv
<1> QED BY <1>1, <1>2, <1>5, <1>6, <1>7 DEF Next

(* It holds in every state of every run.                                   *)
LEMMA SpreadInvHolds == Spec => []SpreadInv
<1>1. Init => SpreadInv  BY FoldInvInit DEF SpreadInv, Init
<1> QED BY <1>1, SpreadInvNext, PTL DEF Spec

(* q times anything vanishes.                                              *)
LEMMA VerifierSumsToClaim ==
  ASSUME NEW X \in Int, NEW p \in Int, NEW s \in Int, NEW t \in Int, NEW v \in Int,
         NEW M \in Int, NEW C \in Int,
         Cong(X, p + s + t + (q - 1) * (M - C)), Cong(p, v), Cong(s + t + v, M)
  PROVE  Cong(X, C)
<1>1. q \in Int  BY PrimeAssumption
<1>2. PICK c1 \in Int : X = p + s + t + (q - 1) * (M - C) + c1 * q  BY DEF Cong
<1>3. PICK c2 \in Int : p = v + c2 * q  BY DEF Cong
<1>4. PICK c3 \in Int : s + t + v = M + c3 * q  BY DEF Cong
<1> DEFINE e == M - C
<1>5. e \in Int /\ M = C + e  OBVIOUS
<1>6. (q - 1) * e = e * q - e  BY <1>1, <1>5
<1>7. X = C + (c1 * q + c2 * q + c3 * q + e * q)
  <2> DEFINE q1 == c1 * q
             q2 == c2 * q
             q3 == c3 * q
             q4 == e * q
  <2>1. q1 \in Int /\ q2 \in Int /\ q3 \in Int /\ q4 \in Int  BY <1>1, <1>5
  <2>2. X = p + s + t + (q4 - e) + q1 /\ p = v + q2 /\ s + t + v = M + q3
    BY <1>2, <1>3, <1>4, <1>6
  <2> HIDE DEF q1, q2, q3, q4, e
  <2>3. X = C + (q1 + q2 + q3 + q4)  BY <1>5, <2>1, <2>2
  <2> QED BY <2>3 DEF q1, q2, q3, q4
<1>8. c1 * q + c2 * q + c3 * q + e * q = (c1 + c2 + c3 + e) * q
  <2> HIDE DEF e
  <2> QED BY <1>1, <1>5
<1> QED BY <1>5, <1>7, <1>8 DEF Cong

(* At the end the verifier's MSM is the claim.                             *)
LEMMA ExpectsClaim ==
  ASSUME SpreadInv, pc = "done"
  PROVE  Verify(Claim) <=> Valid(L_vec) /\ Valid(R_vec)
<1> DEFINE k == Len(us)
           m == Pow2[k]
           c == VerificationScalars(us)
           d == Reverse(c)
           f == inst.gf
           h == inst.hf
           A == BasesG(m)
           B == BasesH(m)
           F == FactoredBases(A, f, m)
           E == FactoredBases(B, h, m)
           G1 == Factored(G, f)
           H1 == Factored(H, h)
           r == <<(a[1] * b[1]) % q>>
           z == q - 1
           C == Claim
           X == Msm(r \o ScalarMul(ComponentWiseMul(c, f), a[1])
                      \o ScalarMul(ComponentWiseMul(d, h), b[1])
                      \o ScalarMul(Squares(us), z) \o ScalarMul(Squares(BatchInvert(us)), z),
                    <<U>> \o A \o B \o L_vec \o R_vec)
<1>1. /\ FoldInv /\ n = 1 /\ SpreadBases
      /\ Arguments /\ Shape /\ OpensMoved
  BY DEF SpreadInv, FoldInv
<1>2. /\ k \in Nat /\ FieldList(us, k) /\ Points(L_vec, k) /\ Points(R_vec, k)
      /\ n * m = Len(inst.a) /\ FieldList(a, 1) /\ FieldList(b, 1)
  BY <1>1 DEF Shape
<1>3. m \in Nat /\ Len(inst.a) = m
  <2>1. m \in Nat  BY <1>2, Pow2Law
  <2> HIDE DEF m
  <2> QED BY <1>1, <1>2, <2>1
<1>4. IsCall(inst)  BY <1>1, InstancesAreCalls DEF Arguments
<1>5. FieldList(f, m) /\ FieldList(h, m) /\ Points(A, m) /\ Points(B, m)
  BY <1>3, <1>4, CallBases
<1>6. FieldList(c, m) /\ FieldList(d, m)  BY <1>2, ScalarsField
<1>7. Spreads(G1, F, c, m, 1) /\ Spreads(H1, E, d, m, 1)
  BY <1>1, <1>3 DEF SpreadBases
<1>8. Points(G1, 1) /\ Points(H1, 1)  BY <1>1, FactoredPoints
<1>9. C \in Point  BY <1>1, ClaimPoint
<1>10. Verify(C) <=> Valid(L_vec) /\ Valid(R_vec) /\ X = C
  BY <1>3 DEF Verify
<1>11. \A g \in Generators :
         Cong(Opens(a, b, At(G1, g, 1), At(H1, g, 1), 1, U[g]),
              Moved(C, us, L_vec, R_vec, k, g))
  BY <1>1 DEF OpensMoved
<1>12. /\ F = [i \in 1 .. m |-> Msm(<<f[i]>>, <<A[i]>>)]
       /\ E = [i \in 1 .. m |-> Msm(<<h[i]>>, <<B[i]>>)]
  BY DEF FactoredBases
<1>13. a[1] \in Fq /\ b[1] \in Fq /\ a[1] \in Int /\ b[1] \in Int
  BY <1>2 DEF FieldList, Fq
<1>14. a[1] * b[1] \in Int /\ (a[1] * b[1]) % q \in Int /\ Cong((a[1] * b[1]) % q, a[1] * b[1])
  <2>1. a[1] * b[1] \in Int  BY <1>13
  <2> QED BY <2>1, ModCong DEF Fq
<1>15. /\ Scalars(r, 1) /\ Points(<<U>>, 1)
       /\ \A g \in Generators : MDot(r, <<U>>, g, 1) = ((a[1] * b[1]) % q) * U[g]
  BY <1>14, MsmOne, GeneratorPoint
<1>16. z \in Int  BY PrimeAssumption
<1> HIDE DEF k, m, c, d, f, h, A, B, F, E, G1, H1, r, C
<1>17. /\ X \in Point
       /\ \A g \in Generators :
            Cong(X[g], MDot(r, <<U>>, g, 1) + a[1] * G1[1][g] + b[1] * H1[1][g]
                         + z * (Moved(C, us, L_vec, R_vec, k, g) - C[g]))
  <2>1. 1 \in Nat  OBVIOUS
  <2>2. VerifierOpens(c, d, f, h, A, B, G1, H1, k, us, L_vec, R_vec, 1, r, <<U>>, a[1], b[1], z, C)
    <3> DEFINE u1 == <<U>>
               x == a[1]
               y == b[1]
    <3>1. x \in Int /\ y \in Int /\ Points(u1, 1)  BY <1>13, <1>15
    <3> HIDE DEF z, x, y, u1, X
    <3>2. VerifierOpens(c, d, f, h, A, B, G1, H1, k, us, L_vec, R_vec, 1, r, u1, x, y, z, C)
      BY <1>2, <1>3, <1>5, <1>6, <1>7, <1>8, <1>9, <1>12, <1>15, <1>16, <2>1, <3>1, VerifierMsm
    <3> QED BY <3>2 DEF x, y, u1
  <2> QED BY <2>2 DEF VerifierOpens
<1> HIDE DEF X
<1>18. ASSUME NEW g \in Generators PROVE Cong(X[g], C[g])
  <2> DEFINE p == MDot(r, <<U>>, g, 1)
             s == a[1] * G1[1][g]
             t == b[1] * H1[1][g]
             v == (a[1] * b[1]) * U[g]
             M == Moved(C, us, L_vec, R_vec, k, g)
             Xg == X[g]
             Cg == C[g]
  <2>1. /\ G1[1][g] \in Int /\ H1[1][g] \in Int /\ U[g] \in Int
        /\ Opens(a, b, At(G1, g, 1), At(H1, g, 1), 1, U[g]) = s + t + v
    BY <1>2, <1>8, OpensOne
  <2>2. s \in Int /\ t \in Int /\ v \in Int /\ ((a[1] * b[1]) % q) * U[g] \in Int
    BY <1>13, <1>14, <2>1
  <2>3. p = ((a[1] * b[1]) % q) * U[g] /\ p \in Int  BY <1>15, <2>2
  <2>4. Cong(p, v)  BY ZenonT(60), <1>14, <2>1, <2>3, CongMul, CongRefl
  <2>5. M \in Int  BY <1>2, <1>9, MovedAt
  <2>6. Cong(s + t + v, M)  BY <1>11, <2>1
  <2>7. Xg \in Int /\ Cg \in Int  BY <1>9, <1>17, CoefficientInt
  <2>8. Cong(Xg, p + s + t + (q - 1) * (M - Cg))  BY <1>17
  <2> HIDE DEF p, s, t, v, M, Xg, Cg
  <2>9. Cong(Xg, Cg)
    BY <2>2, <2>3, <2>4, <2>5, <2>6, <2>7, <2>8, VerifierSumsToClaim
  <2> QED BY <2>9 DEF Xg, Cg
<1>19. X = C  BY <1>9, <1>17, <1>18, PointsEqual
<1> QED BY <1>10, <1>19 DEF C

(* verify accepts every proof create_orig completes, for its claim, unless *)
(* the identity is among its points: for every prime q, every length that  *)
(* is a power of two, all vectors, factors and challenges.                 *)
THEOREM HonestProofsVerify == Spec => []HonestProofVerifies
<1>1. SpreadInv => HonestProofVerifies
  BY ExpectsClaim DEF HonestProofVerifies
<1> QED BY <1>1, SpreadInvHolds, PTL
============================================================================
