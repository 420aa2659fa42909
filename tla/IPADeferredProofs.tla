------------------------- MODULE IPADeferredProofs -------------------------
(***************************************************************************)
(* Proofs about IPADeferred.  The counter that decides when the symbolic   *)
(* bases are collapsed is the length of every list it stands for.  Their   *)
(* values open the blinded claim and fold as create_orig's bases do, and   *)
(* verify accepts a completed proof for its claim and none next to it.     *)
(***************************************************************************)
EXTENDS IPADeferred, IPABaseProofs

(* n symbolic bases of t terms each. *)
Listed(B, len, t) ==
  /\ IsList(B.scalars, len) /\ IsList(B.bases, len)
  /\ \A i \in 1 .. len : IsList(B.scalars[i], t)

LInv ==
  /\ n \in Nat /\ terms_per_base \in Nat \ {0} /\ Len(inst.a) \in Nat
  /\ pc = "idle" => terms_per_base = 1
  /\ Listed(G_bases, n, terms_per_base)
  /\ Listed(H_bases, n, terms_per_base)
  /\ n # 1 => terms_per_base < CollapseThreshold

----------------------------------------------------------------------------
(* Two lists of t terms, each scaled, make one of 2t. *)
LEMMA ListConcat ==
  ASSUME NEW t \in Nat, NEW r, NEW s, NEW k, NEW l, IsList(r, t), IsList(s, t)
  PROVE  IsList(ScalarMul(r, k) \o ScalarMul(s, l), 2 * t)
<1> DEFINE f == ScalarMul(r, k)
           g == ScalarMul(s, l)
           S == {f[j] : j \in 1 .. t} \cup {g[j] : j \in 1 .. t}
<1>1. f = [j \in 1 .. t |-> f[j]] /\ g = [j \in 1 .. t |-> g[j]]
  BY DEF ScalarMul, IsList
<1> HIDE DEF f, g
<1>2. f \in Seq(S) /\ g \in Seq(S) /\ Len(f) = t /\ Len(g) = t
  BY SMTT(60), <1>1
<1> HIDE DEF S
<1>3. f \o g \in Seq(S) /\ Len(f \o g) = 2 * t
  BY <1>2, ConcatProperties
<1>4. f \o g \in [1 .. 2 * t -> S]
  BY <1>3, LenProperties
<1>5. IsList(f \o g, 2 * t)
  BY <1>4 DEF IsList
<1> QED  BY <1>5 DEF f, g

----------------------------------------------------------------------------
(* Fresh symbolic bases have one term each. *)
LEMMA InitListed ==
  ASSUME NEW len \in Nat, NEW factors, NEW points, IsList(points, len)
  PROVE  Listed(DeferInit(factors, points), len, 1)
BY DEF DeferInit, Listed, IsList

(* Deferring a round onto the left half doubles the terms of each base. *)
LEMMA DeferListed ==
  ASSUME NEW len \in Nat, NEW t \in Nat, NEW B, NEW kl, NEW kr,
         Listed(B, len, t)
  PROVE  LET h == len \div 2
         IN  Listed(Defer(SplitL(B, h), SplitR(B, h), h, kl, kr), h, 2 * t)
<1> DEFINE h == len \div 2
           left == SplitL(B, h)
           right == SplitR(B, h)
           D == Defer(left, right, h, kl, kr)
<1>1. h \in 0 .. len /\ h <= len - h
  OBVIOUS
<1> HIDE DEF h
<1>2. \A i \in 1 .. h : left.scalars[i] = B.scalars[i] /\ right.scalars[i] = B.scalars[h + i]
  <2>1. IsList(B.scalars, len)  BY DEF Listed
  <2>2. left.scalars = Left(B.scalars, h) /\ right.scalars = Right(B.scalars, h)
    BY DEF SplitL, SplitR
  <2>3. \A i \in 1 .. h : Left(B.scalars, h)[i] = B.scalars[i]
    BY ZenonT(60), <1>1, <2>1, ListParts
  <2>4. \A i \in 1 .. len - h : Right(B.scalars, h)[i] = B.scalars[h + i]
    BY ZenonT(60), <1>1, <2>1, ListParts
  <2> QED  BY <1>1, <2>2, <2>3, <2>4
<1>3. \A i \in 1 .. h : IsList(left.scalars[i], t) /\ IsList(right.scalars[i], t)
  BY <1>1, <1>2 DEF Listed
<1> HIDE DEF left, right
<1>4. /\ D.scalars = [i \in 1 .. h |-> ScalarMul(left.scalars[i], kl) \o ScalarMul(right.scalars[i], kr)]
      /\ D.bases = [i \in 1 .. h |-> left.bases[i] \o right.bases[i]]
  BY DEF Defer
<1>5. \A i \in 1 .. h : IsList(ScalarMul(left.scalars[i], kl) \o ScalarMul(right.scalars[i], kr), 2 * t)
  BY <1>3, ListConcat
<1>6. Listed(D, h, 2 * t)
  BY ZenonT(60), <1>4, <1>5 DEF Listed, IsList
<1> QED  BY <1>6 DEF left, right, h

(* Collapsed bases have one term each. *)
LEMMA CollapseListed ==
  ASSUME NEW len \in Nat, NEW t \in Nat, NEW B, Listed(B, len, t)
  PROVE  Listed(Collapse(B), len, 1)
<1>1. DOMAIN B.bases = 1 .. len  BY DEF Listed, IsList
<1>2. IsList([i \in DOMAIN B.bases |-> Value(B, i)], len)  BY <1>1 DEF IsList
<1> QED  BY <1>2, InitListed DEF Collapse

(* The threshold is a number above 1, whatever the length. *)
LEMMA ClampAboveOne ==
  ASSUME NEW len \in Nat
  PROVE  LET share == len \div CollapseDiv
             c == IF share < CollapseMin THEN CollapseMin
                  ELSE IF share > CollapseMax THEN CollapseMax ELSE share
         IN  c \in Int /\ c > 1
<1> DEFINE share == len \div CollapseDiv
<1>1. share \in Int  BY CollapseAssumption
<1> HIDE DEF share
<1>2. /\ CollapseMin \in Int /\ CollapseMin > 1
      /\ CollapseMax \in Int /\ CollapseMax >= CollapseMin
  BY CollapseAssumption
<1>3. LET c == IF share < CollapseMin THEN CollapseMin
               ELSE IF share > CollapseMax THEN CollapseMax ELSE share
      IN  c \in Int /\ c > 1
  BY <1>1, <1>2
<1> QED  BY <1>3 DEF share

(* A base of one term is below the threshold.                              *)
LEMMA ThresholdAboveOne ==
  ASSUME Len(inst.a) \in Nat
  PROVE  CollapseThreshold \in Int /\ CollapseThreshold > 1
BY ClampAboveOne DEF CollapseThreshold

----------------------------------------------------------------------------
(* Before a call there are no bases.                                       *)
LEMMA LInvInit == Init => LInv
<1> SUFFICES ASSUME Init PROVE LInv  OBVIOUS
<1>1. Len(inst.a) \in Nat /\ terms_per_base = 1 /\ n = 0
  BY DEF Init, NoCall
<1>2. IsList(<<>>, 0)  BY DEF IsList
<1>3. Listed(G_bases, n, 1) /\ Listed(H_bases, n, 1)
  BY <1>1, <1>2, InitListed DEF Init
<1> QED  BY <1>1, <1>3, ThresholdAboveOne DEF LInv

(* A call defers one term for each base.                                   *)
LEMMA LInvCall ==
  ASSUME LInv, NEW x, Callable(x), Call(x)
  PROVE  LInv'
<1>1. Len(x.a) \in Nat  BY DEF Callable
<1>2. n' = Len(x.a) /\ inst' = x /\ terms_per_base' = 1 /\ pc' = "fold"
  BY DEF Call, LInv
<1>3. IsList(BasesG(n'), n') /\ IsList(BasesH(n'), n')
  BY <1>1, <1>2 DEF BasesG, BasesH, IsList
<1>4. Listed(G_bases', n', 1) /\ Listed(H_bases', n', 1)
  BY <1>1, <1>2, <1>3, InitListed DEF Call
<1>5. CollapseThreshold' > 1 /\ CollapseThreshold' \in Int
  <2>1. Len(inst'.a) \in Nat  BY <1>1, <1>2
  <2> QED  BY <2>1, ClampAboveOne DEF CollapseThreshold
<1> QED  BY <1>1, <1>2, <1>4, <1>5 DEF LInv

(* After a round the lists have doubled, or all been collapsed: the one    *)
(* test decides for both kinds of base and for the counter.                *)
LEMMA LInvRound ==
  ASSUME LInv, NEW d_L, NEW d_R, NEW u, Round(d_L, d_R, u)
  PROVE  LInv'
<1> DEFINE h == n \div 2
           t == 2 * terms_per_base
           G_new == Defer(SplitL(G_bases, h), SplitR(G_bases, h), h, Inv(u), u)
           H_new == Defer(SplitL(H_bases, h), SplitR(H_bases, h), h, u, Inv(u))
           due == CollapseDue(t, h)
<1>1. h \in Nat /\ t \in Nat \ {0}  BY DEF LInv
<1>2. Listed(G_new, h, t) /\ Listed(H_new, h, t)
  BY DeferListed DEF LInv
<1>3. /\ n' = h /\ inst' = inst /\ pc' = "fold"
      /\ G_bases' = IF due THEN Collapse(G_new) ELSE G_new
      /\ H_bases' = IF due THEN Collapse(H_new) ELSE H_new
      /\ terms_per_base' = IF due THEN 1 ELSE t
  BY DEF Round
<1>4. CollapseThreshold' = CollapseThreshold /\ CollapseThreshold \in Int /\ CollapseThreshold > 1
  BY <1>3, ThresholdAboveOne DEF LInv, CollapseThreshold
<1> HIDE DEF G_new, H_new, h, t
<1>5. CASE due
  <2>1. Listed(Collapse(G_new), h, 1) /\ Listed(Collapse(H_new), h, 1)
    BY <1>1, <1>2, CollapseListed
  <2> QED  BY <1>1, <1>3, <1>4, <1>5, <2>1 DEF LInv
<1>6. CASE ~due
  <2>1. h # 1 => t < CollapseThreshold  BY <1>1, <1>4, <1>6 DEF CollapseDue
  <2> QED  BY <1>1, <1>2, <1>3, <1>4, <1>6, <2>1 DEF LInv
<1> QED  BY <1>5, <1>6

(* Every step keeps the counter exact.                                     *)
LEMMA LInvNext == LInv /\ [Next]_vars => LInv'
<1> SUFFICES ASSUME LInv, [Next]_vars PROVE LInv'  OBVIOUS
<1>1. CASE \E x \in Instances : Call(x)
  BY <1>1, InstancesAssumption, LInvCall
<1>2. CASE \E d_L, d_R \in Blinds, u \in Challenges : Round(d_L, d_R, u)
  BY <1>2, LInvRound
<1>3. CASE ZeroChallenge
  BY <1>3 DEF ZeroChallenge, LInv, CollapseThreshold
<1>4. CASE \E d \in FinalDraws, e \in Challenges : LastStep(d[1], d[2], d[3], d[4], e)
  BY <1>4 DEF LastStep, LInv, CollapseThreshold
<1>5. CASE UNCHANGED vars
  BY <1>5 DEF vars, LInv, CollapseThreshold
<1> QED  BY <1>1, <1>2, <1>3, <1>4, <1>5 DEF Next, Step

(* terms_per_base is exact and capped, for every vector, every choice of   *)
(* challenges and blindings, and every divisor and clamp of the threshold. *)
THEOREM TermsAreCounted == Spec => []TermsCounted
<1>1. LInv => TermsCounted
  BY ListLength DEF LInv, Listed, TermsCounted
<1> QED  BY <1>1, LInvInit, LInvNext, PTL DEF Spec

----------------------------------------------------------------------------
(* The points that symbolic bases stand for.                               *)

(* The symbolic bases B: len of them, of t terms each. *)
SymbolicBases(B, len, t) == Symbolic(B.scalars, B.bases, len, t)

(* Values are the points that the terms stand for.                         *)
LEMMA ValuesStand ==
  ASSUME NEW len \in Nat, NEW t \in Nat, NEW B, SymbolicBases(B, len, t)
  PROVE  /\ Values(B) = Stand(B.scalars, B.bases, len)
         /\ Points(Values(B), len)
         /\ \A i \in 1 .. len : Values(B)[i] = Value(B, i)
<1>1. DOMAIN B.bases = 1 .. len  BY DEF SymbolicBases, Symbolic, IsList
<1>2. Values(B) = Stand(B.scalars, B.bases, len)  BY <1>1 DEF Values, Value, Stand
<1>3. Points(Stand(B.scalars, B.bases, len), len)  BY StandPoints DEF SymbolicBases
<1>4. \A i \in 1 .. len : Values(B)[i] = Value(B, i)  BY <1>1 DEF Values
<1> QED BY <1>2, <1>3, <1>4

(* Two lists of one length with the same entries are the same. *)
LEMMA SameList ==
  ASSUME NEW k \in Nat, NEW s, NEW r, IsList(s, k), IsList(r, k), \A i \in 1 .. k : s[i] = r[i]
  PROVE  s = r
BY DEF IsList

(* The halves of symbolic bases stand for the halves of the points. *)
LEMMA SplitValues ==
  ASSUME NEW h \in Nat, NEW t \in Nat, NEW B, SymbolicBases(B, h + h, t)
  PROVE  /\ SymbolicBases(SplitL(B, h), h, t) /\ SymbolicBases(SplitR(B, h), h, t)
         /\ Values(SplitL(B, h)) = Left(Values(B), h)
         /\ Values(SplitR(B, h)) = Right(Values(B), h)
         /\ \A i \in 1 .. h : /\ SplitL(B, h).scalars[i] = B.scalars[i]
                              /\ SplitL(B, h).bases[i] = B.bases[i]
                              /\ SplitR(B, h).scalars[i] = B.scalars[h + i]
                              /\ SplitR(B, h).bases[i] = B.bases[h + i]
<1> DEFINE L == SplitL(B, h)
           R == SplitR(B, h)
           VB == Values(B)
<1>1. Halves(B.scalars, Left(B.scalars, h), Right(B.scalars, h), h)
  BY ListHalves DEF SymbolicBases, Symbolic
<1>2. Halves(B.bases, Left(B.bases, h), Right(B.bases, h), h)
  BY ListHalves DEF SymbolicBases, Symbolic
<1>3. /\ L.scalars = Left(B.scalars, h) /\ L.bases = Left(B.bases, h)
      /\ R.scalars = Right(B.scalars, h) /\ R.bases = Right(B.bases, h)
  BY DEF SplitL, SplitR
<1> HIDE DEF L, R
<1>4. /\ IsList(L.scalars, h) /\ IsList(L.bases, h) /\ IsList(R.scalars, h) /\ IsList(R.bases, h)
      /\ \A i \in 1 .. h : i \in 1 .. h + h /\ h + i \in 1 .. h + h
      /\ \A i \in 1 .. h : L.scalars[i] = B.scalars[i] /\ L.bases[i] = B.bases[i]
      /\ \A i \in 1 .. h : R.scalars[i] = B.scalars[h + i] /\ R.bases[i] = B.bases[h + i]
  BY <1>1, <1>2, <1>3 DEF Halves
<1>5. SymbolicBases(L, h, t) /\ SymbolicBases(R, h, t)
  BY <1>4 DEF SymbolicBases, Symbolic
<1>6. h + h \in Nat  OBVIOUS
<1>7. /\ Points(Values(L), h) /\ \A i \in 1 .. h : Values(L)[i] = Value(L, i)
      /\ Points(Values(R), h) /\ \A i \in 1 .. h : Values(R)[i] = Value(R, i)
  BY <1>5, ValuesStand
<1>8. /\ Points(VB, h + h) /\ \A i \in 1 .. h + h : VB[i] = Value(B, i)
  BY <1>6, ValuesStand
<1> HIDE DEF VB
<1>9. Halves(VB, Left(VB, h), Right(VB, h), h)  BY <1>8, ListHalves DEF Points
<1>10. \A i \in 1 .. h : Value(L, i) = Value(B, i) /\ Value(R, i) = Value(B, h + i)
  BY <1>4 DEF Value
<1>11. Values(L) = Left(VB, h)
  <2>1. \A i \in 1 .. h : Values(L)[i] = Left(VB, h)[i]
    BY <1>4, <1>7, <1>8, <1>9, <1>10 DEF Halves
  <2> QED BY <1>7, <1>9, <2>1, SameList DEF Halves, Points
<1>12. Values(R) = Right(VB, h)
  <2>1. \A i \in 1 .. h : Values(R)[i] = Right(VB, h)[i]
    BY <1>4, <1>7, <1>8, <1>9, <1>10 DEF Halves
  <2> QED BY <1>7, <1>9, <2>1, SameList DEF Halves, Points
<1> QED BY <1>4, <1>5, <1>11, <1>12 DEF L, R, VB

(* The points folded: what deferring stands for. *)
FoldedPoints(X, h, kl, kr) == [i \in 1 .. h |-> Msm(<<kl, kr>>, <<X[i], X[h + i]>>)]

(* The symbolic bases D, of h points, stand for B's folded.                *)
DefersTo(D, B, h, t, kl, kr) ==
  SymbolicBases(D, h, 2 * t) /\ Values(D) = FoldedPoints(Values(B), h, kl, kr)

(* Deferring folds the points without computing any. *)
LEMMA DeferValues ==
  ASSUME NEW h \in Nat, NEW t \in Nat, NEW B, SymbolicBases(B, h + h, t),
         NEW kl \in Int, NEW kr \in Int
  PROVE  DefersTo(Defer(SplitL(B, h), SplitR(B, h), h, kl, kr), B, h, t, kl, kr)
<1> DEFINE L == SplitL(B, h)
           R == SplitR(B, h)
           D == Defer(L, R, h, kl, kr)
<1>1. /\ \A i \in 1 .. h : /\ L.scalars[i] = B.scalars[i] /\ L.bases[i] = B.bases[i]
                           /\ R.scalars[i] = B.scalars[h + i] /\ R.bases[i] = B.bases[h + i]
  BY SplitValues
<1>2. \A i \in 1 .. h : i \in 1 .. h + h /\ h + i \in 1 .. h + h  OBVIOUS
<1>3. \A i \in 1 .. h : /\ FieldList(B.scalars[i], t) /\ Points(B.bases[i], t)
                        /\ FieldList(B.scalars[h + i], t) /\ Points(B.bases[h + i], t)
  BY <1>2 DEF SymbolicBases, Symbolic
<1>4. h + h \in Nat  OBVIOUS
<1>5. \A i \in 1 .. h + h : Values(B)[i] = Value(B, i)  BY <1>4, ValuesStand
<1> HIDE DEF L, R
<1>6. /\ D.scalars = [i \in 1 .. h |-> ScalarMul(L.scalars[i], kl) \o ScalarMul(R.scalars[i], kr)]
      /\ D.bases = [i \in 1 .. h |-> L.bases[i] \o R.bases[i]]
  BY DEF Defer
<1> HIDE DEF D
<1>7. ASSUME NEW i \in 1 .. h
      PROVE  /\ FieldList(D.scalars[i], 2 * t) /\ Points(D.bases[i], 2 * t)
             /\ Value(D, i) = Msm(<<kl, kr>>, <<Values(B)[i], Values(B)[h + i]>>)
  <2> DEFINE s == B.scalars[i]
             r == B.scalars[h + i]
             bs == B.bases[i]
             br == B.bases[h + i]
  <2>1. FieldList(s, t) /\ FieldList(r, t) /\ Points(bs, t) /\ Points(br, t)  BY <1>3
  <2>2. /\ D.scalars[i] = ScalarMul(s, kl) \o ScalarMul(r, kr)
        /\ D.bases[i] = bs \o br
    <3>1. /\ D.scalars[i] = ScalarMul(L.scalars[i], kl) \o ScalarMul(R.scalars[i], kr)
          /\ D.bases[i] = L.bases[i] \o R.bases[i]
      BY <1>6
    <3>2. L.scalars[i] = s /\ L.bases[i] = bs /\ R.scalars[i] = r /\ R.bases[i] = br
      BY <1>1
    <3> HIDE DEF s, r, bs, br
    <3> QED BY <3>1, <3>2
  <2>3. Values(B)[i] = Msm(s, bs) /\ Values(B)[h + i] = Msm(r, br)
    BY <1>2, <1>5 DEF Value
  <2>4. Value(D, i) = Msm(D.scalars[i], D.bases[i])  BY DEF Value
  <2>5. t + t = 2 * t  OBVIOUS
  <2> HIDE DEF s, r, bs, br
  <2>6. /\ FieldList(ScalarMul(s, kl) \o ScalarMul(r, kr), t + t)
        /\ Points(bs \o br, t + t)
        /\ Msm(ScalarMul(s, kl) \o ScalarMul(r, kr), bs \o br)
             = Msm(<<kl, kr>>, <<Msm(s, bs), Msm(r, br)>>)
    BY <2>1, JoinedValue
  <2> QED BY <2>2, <2>3, <2>4, <2>5, <2>6
<1>8. SymbolicBases(D, h, 2 * t)
  <2>1. IsList(D.scalars, h) /\ IsList(D.bases, h)  BY <1>6 DEF IsList
  <2> QED BY <1>7, <2>1 DEF SymbolicBases, Symbolic
<1>9. Values(D) = FoldedPoints(Values(B), h, kl, kr)
  <2>1. DOMAIN D.bases = 1 .. h  BY <1>6
  <2>2. Values(D) = [i \in 1 .. h |-> Value(D, i)]  BY <2>1 DEF Values
  <2> HIDE DEF Value, Values
  <2> QED BY <1>7, <2>2 DEF FoldedPoints
<1>10. DefersTo(D, B, h, t, kl, kr)  BY <1>8, <1>9 DEF DefersTo
<1> QED BY <1>10 DEF D, L, R

(* One term of each base: the points themselves. *)
LEMMA InitValues ==
  ASSUME NEW len \in Nat, NEW factors, NEW points, FieldList(factors, len), Points(points, len)
  PROVE  /\ SymbolicBases(DeferInit(factors, points), len, 1)
         /\ Values(DeferInit(factors, points))
              = [i \in 1 .. len |-> Msm(<<factors[i]>>, <<points[i]>>)]
<1> DEFINE D == DeferInit(factors, points)
<1>1. DOMAIN points = 1 .. len  BY DEF Points, IsList
<1>2. /\ D.scalars = [i \in 1 .. len |-> <<factors[i]>>]
      /\ D.bases = [i \in 1 .. len |-> <<points[i]>>]
  BY <1>1 DEF DeferInit
<1> HIDE DEF D
<1>3. ASSUME NEW i \in 1 .. len
      PROVE  /\ FieldList(D.scalars[i], 1) /\ Points(D.bases[i], 1)
             /\ Value(D, i) = Msm(<<factors[i]>>, <<points[i]>>)
  <2>1. factors[i] \in Fq /\ points[i] \in Point  BY DEF FieldList, Points
  <2>2. FieldList(<<factors[i]>>, 1) /\ Points(<<points[i]>>, 1)
    BY <2>1 DEF FieldList, Points, IsList
  <2> QED BY <1>2, <2>2 DEF Value
<1>4. IsList(D.scalars, len) /\ IsList(D.bases, len) /\ DOMAIN D.bases = 1 .. len
  BY <1>2 DEF IsList
<1>5. SymbolicBases(D, len, 1)  BY <1>3, <1>4 DEF SymbolicBases, Symbolic
<1>6. Values(D) = [i \in 1 .. len |-> Value(D, i)]  BY <1>4 DEF Values
<1> HIDE DEF Value, Values, Msm
<1>7. Values(D) = [i \in 1 .. len |-> Msm(<<factors[i]>>, <<points[i]>>)]  BY <1>3, <1>6
<1> QED BY <1>5, <1>7 DEF D

(* Collapsing leaves the points as they are. *)
LEMMA CollapseValues ==
  ASSUME NEW len \in Nat, NEW t \in Nat, NEW B, SymbolicBases(B, len, t)
  PROVE  SymbolicBases(Collapse(B), len, 1) /\ Values(Collapse(B)) = Values(B)
<1> DEFINE ones == [i \in 1 .. len |-> 1]
           VB == Values(B)
<1>1. DOMAIN B.bases = 1 .. len  BY DEF SymbolicBases, Symbolic, IsList
<1>2. Points(VB, len)  BY ValuesStand
<1>3. VB = [i \in 1 .. len |-> Value(B, i)]  BY <1>1 DEF Values
<1>4. Collapse(B) = DeferInit(ones, VB)  BY <1>1, <1>3 DEF Collapse
<1>5. FieldList(ones, len)  BY GeneratorPoint DEF FieldList, IsList
<1>6. \A i \in 1 .. len : ones[i] = 1  OBVIOUS
<1> HIDE DEF ones, VB
<1>7. /\ SymbolicBases(DeferInit(ones, VB), len, 1)
      /\ Values(DeferInit(ones, VB)) = [i \in 1 .. len |-> Msm(<<ones[i]>>, <<VB[i]>>)]
  BY <1>2, <1>5, InitValues
<1>8. \A i \in 1 .. len : Msm(<<ones[i]>>, <<VB[i]>>) = VB[i]
  BY <1>2, <1>6, OnePoint DEF Points
<1>9. [i \in 1 .. len |-> Msm(<<ones[i]>>, <<VB[i]>>)] = [i \in 1 .. len |-> VB[i]]
  BY <1>8
<1>10. VB = [i \in 1 .. len |-> VB[i]]  BY <1>2 DEF Points, IsList
<1> QED BY <1>4, <1>7, <1>9, <1>10 DEF VB

----------------------------------------------------------------------------
(* What calls and rounds open.                                             *)

(* What a round sends: the halves, crosswise, and the blinding d.          *)
LEMMA CrossTermOpens ==
  ASSUME NEW k \in Nat \ {0}, NEW t \in Nat, NEW x, NEW y, FieldList(x, k), FieldList(y, k),
         NEW d \in Int, NEW A, NEW B, SymbolicBases(A, k, t), SymbolicBases(B, k, t)
  PROVE  LET X == CrossTerm(x, y, A, B, d)
             at(g) == Opens(x, y, At(Values(A), g, k), At(Values(B), g, k), k, U[g]) + d * V[g]
         IN  X \in Point /\ \A g \in Generators : at(g) \in Int /\ Cong(X[g], at(g))
<1> DEFINE X == CrossTerm(x, y, A, B, d)
           sa == A.scalars
           ba == A.bases
           sb == B.scalars
           bb == B.bases
<1>1. Len(x) = k /\ Len(y) = k  BY ListLength DEF FieldList
<1>2. /\ GetScalars(A, x) = FlattenSeq([i \in 1 .. k |-> ScalarMul(sa[i], x[i])])
      /\ GetScalars(B, y) = FlattenSeq([i \in 1 .. k |-> ScalarMul(sb[i], y[i])])
  BY <1>1 DEF GetScalars
<1>3. X = Msm(FlattenSeq([i \in 1 .. k |-> ScalarMul(sa[i], x[i])])
                \o FlattenSeq([i \in 1 .. k |-> ScalarMul(sb[i], y[i])])
                \o <<InnerProduct(x, y), d>>,
              FlattenSeq(ba) \o FlattenSeq(bb) \o <<U, V>>)
  <2> DEFINE xs == FlattenSeq([i \in 1 .. k |-> ScalarMul(sa[i], x[i])])
             ys == FlattenSeq([i \in 1 .. k |-> ScalarMul(sb[i], y[i])])
  <2>1. GetScalars(A, x) = xs /\ GetScalars(B, y) = ys  BY <1>2
  <2>2. GetBases(A) = FlattenSeq(ba) /\ GetBases(B) = FlattenSeq(bb)  BY DEF GetBases
  <2> HIDE DEF xs, ys, ba, bb
  <2>3. X = Msm(xs \o ys \o <<InnerProduct(x, y), d>>, FlattenSeq(ba) \o FlattenSeq(bb) \o <<U, V>>)
    BY <2>1, <2>2 DEF CrossTerm
  <2> QED BY <2>3 DEF xs, ys
<1>4. k \in Nat  OBVIOUS
<1>5. Values(A) = Stand(sa, ba, k) /\ Values(B) = Stand(sb, bb, k)
  BY <1>4, ValuesStand
<1>6. Symbolic(sa, ba, k, t) /\ Symbolic(sb, bb, k, t)  BY DEF SymbolicBases
<1> HIDE DEF sa, ba, sb, bb, X
<1>7. X \in Point /\ \A g \in Generators :
        /\ Opens(x, y, At(Stand(sa, ba, k), g, k), At(Stand(sb, bb, k), g, k), k, U[g]) + d * V[g] \in Int
        /\ Cong(X[g], Opens(x, y, At(Stand(sa, ba, k), g, k), At(Stand(sb, bb, k), g, k), k, U[g]) + d * V[g])
  BY ZenonT(60), <1>3, <1>6, BlindedCross
<1> QED BY <1>5, <1>7 DEF X

----------------------------------------------------------------------------
(* CallTyped of the code's, and those of no call at all.                   *)
IsCall(x) ==
  LET k == Len(x.a)
  IN  /\ k \in 0 .. N
      /\ FieldList(x.a, k) /\ FieldList(x.b, k) /\ FieldList(x.gf, k) /\ FieldList(x.hf, k)
      /\ x.alpha \in Fq

(* Every call is made with such arguments.                                 *)
LEMMA InstancesAreCalls == IsCall(NoCall) /\ \A x : Callable(x) => IsCall(x)
<1>1. IsCall(NoCall)
  <2>1. 0 \in 0 .. N  BY BasesAssumption
  <2>2. FieldList(<<>>, 0)  BY DEF FieldList, IsList
  <2> QED BY <2>1, <2>2, GeneratorPoint DEF IsCall, NoCall
<1>2. ASSUME NEW x, Callable(x) PROVE IsCall(x)
  <2> DEFINE k == Len(x.a)
  <2>1. k \in 1 .. N  BY <1>2 DEF Callable
  <2>2. /\ x.a \in [1 .. k -> Fq] /\ x.b \in [1 .. k -> Fq]
        /\ x.gf \in [1 .. k -> Fq] /\ x.hf \in [1 .. k -> Fq]
        /\ x.alpha \in Fq
    BY <1>2 DEF Callable
  <2> HIDE DEF k
  <2>3. k \in Nat /\ k \in 0 .. N  BY <2>1, BasesAssumption
  <2>4. FieldList(x.a, k) /\ FieldList(x.b, k) /\ FieldList(x.gf, k) /\ FieldList(x.hf, k)
    BY <2>2, <2>3, FieldListType
  <2> QED BY <2>2, <2>3, <2>4 DEF IsCall, k
<1> QED BY <1>1, <1>2

(* Claim, of the arguments of a call.                                      *)
ClaimOf(x) ==
  Msm(ComponentWiseMul(x.a, x.gf) \o ComponentWiseMul(x.b, x.hf)
        \o <<InnerProduct(x.a, x.b), x.alpha>>,
      BasesG(Len(x.a)) \o BasesH(Len(x.a)) \o <<U, V>>)

(* The bases with their factors hold no part of V.                         *)
NoBlinding(points, k) == \A i \in 1 .. k : points[i][<<"V", 0>>] = 0

(* Points with no part of V have none times their factors.                 *)
LEMMA ScaledNoBlinding ==
  ASSUME NEW k \in Nat, NEW f, FieldList(f, k), NEW bases, Points(bases, k), NoBlinding(bases, k)
  PROVE  NoBlinding([i \in 1 .. k |-> Msm(<<f[i]>>, <<bases[i]>>)], k)
<1> DEFINE v == <<"V", 0>>
<1>1. v \in Generators  BY DEF Generators
<1>2. ASSUME NEW i \in 1 .. k PROVE Msm(<<f[i]>>, <<bases[i]>>)[v] = 0
  <2> DEFINE x == f[i]
             X == bases[i]
  <2>1. x \in Int /\ X \in Point  BY DEF FieldList, Points, Fq
  <2>2. X[v] = 0  BY DEF NoBlinding
  <2> HIDE DEF x, X, v
  <2>3. Msm(<<x>>, <<X>>)[v] = (x * X[v]) % q  BY <1>1, <2>1, MsmOne
  <2>4. x * 0 = 0  BY <2>1
  <2>5. 0 % q = 0  BY GeneratorPoint, ModOf
  <2>6. Msm(<<x>>, <<X>>)[v] = 0  BY <2>2, <2>3, <2>4, <2>5
  <2> QED BY <2>6 DEF x, X
<1> HIDE DEF Msm
<1> QED BY <1>2 DEF NoBlinding

(* The bases G and H have none.                                            *)
LEMMA BasesNoBlinding ==
  ASSUME NEW k \in Nat, k <= N
  PROVE  NoBlinding(BasesG(k), k) /\ NoBlinding(BasesH(k), k)
<1>1. <<"V", 0>> \in Generators  BY DEF Generators
<1> QED BY <1>1 DEF NoBlinding, BasesG, BasesH, Generator, Identity

(* Points with no part of V fold to such points.                           *)
LEMMA FoldedNoBlinding ==
  ASSUME NEW h \in Nat, NEW X, Points(X, h + h), NoBlinding(X, h + h), NEW l \in Int, NEW r \in Int
  PROVE  NoBlinding(FoldedPoints(X, h, l, r), h)
<1> DEFINE v == <<"V", 0>>
<1>1. v \in Generators  BY DEF Generators
<1>2. ASSUME NEW i \in 1 .. h PROVE FoldedPoints(X, h, l, r)[i][v] = 0
  <2>1. i \in 1 .. h + h /\ h + i \in 1 .. h + h  OBVIOUS
  <2> DEFINE A == X[i]
             B == X[h + i]
  <2>2. A \in Point /\ B \in Point  BY <2>1 DEF Points
  <2>3. A[v] = 0 /\ B[v] = 0  BY <2>1 DEF NoBlinding
  <2>4. FoldedPoints(X, h, l, r)[i] = Msm(<<l, r>>, <<A, B>>)  BY DEF FoldedPoints
  <2> HIDE DEF A, B, v
  <2>5. Msm(<<l, r>>, <<A, B>>)[v] = (l * A[v] + r * B[v]) % q  BY <1>1, <2>2, MsmTwo
  <2>6. l * 0 + r * 0 = 0  OBVIOUS
  <2>7. 0 % q = 0  BY GeneratorPoint, ModOf
  <2> QED BY <2>3, <2>4, <2>5, <2>6, <2>7
<1> QED BY <1>2 DEF NoBlinding

(* The vectors and the blinding of a call open its claim under the bases   *)
(* it defers.                                                              *)
LEMMA CallOpens ==
  ASSUME NEW x, IsCall(x)
  PROVE  LET k == Len(x.a)
             GB == DeferInit(x.gf, BasesG(k))
             HB == DeferInit(x.hf, BasesH(k))
         IN  /\ k \in Nat
             /\ FieldList(x.a, k) /\ FieldList(x.b, k) /\ x.alpha \in Fq
             /\ SymbolicBases(GB, k, 1) /\ SymbolicBases(HB, k, 1)
             /\ NoBlinding(Values(GB), k) /\ NoBlinding(Values(HB), k)
             /\ ClaimOf(x) \in Point
             /\ \A g \in Generators :
                  Cong(Opens(x.a, x.b, At(Values(GB), g, k), At(Values(HB), g, k), k, U[g])
                         + x.alpha * V[g],
                       ClaimOf(x)[g])
<1> DEFINE k == Len(x.a)
           aa == x.a
           bb == x.b
           gf == x.gf
           hf == x.hf
           al == x.alpha
           A == BasesG(k)
           B == BasesH(k)
           GB == DeferInit(gf, A)
           HB == DeferInit(hf, B)
           fA == [i \in 1 .. k |-> Msm(<<gf[i]>>, <<A[i]>>)]
           hB == [i \in 1 .. k |-> Msm(<<hf[i]>>, <<B[i]>>)]
<1>1. k \in Nat /\ k <= N  BY BasesAssumption DEF IsCall
<1>2. FieldList(aa, k) /\ FieldList(bb, k) /\ FieldList(gf, k) /\ FieldList(hf, k) /\ al \in Fq
  BY DEF IsCall
<1>3. ClaimOf(x) = Msm(ComponentWiseMul(aa, gf) \o ComponentWiseMul(bb, hf)
                         \o <<InnerProduct(aa, bb), al>>, A \o B \o <<U, V>>)
  BY DEF ClaimOf
<1> HIDE DEF k, aa, bb, gf, hf, al
<1>4. Points(A, k) /\ Points(B, k)  BY <1>1, BasesPoints
<1>9. NoBlinding(A, k) /\ NoBlinding(B, k)  BY <1>1, BasesNoBlinding
<1>5. NoBlinding(fA, k) /\ NoBlinding(hB, k)  BY <1>1, <1>2, <1>4, <1>9, ScaledNoBlinding
<1> HIDE DEF A, B
<1>6. /\ SymbolicBases(GB, k, 1) /\ SymbolicBases(HB, k, 1)
      /\ Values(GB) = fA /\ Values(HB) = hB
  BY <1>1, <1>2, <1>4, InitValues
<1> HIDE DEF GB, HB
<1>7. al \in Int  BY <1>2 DEF Fq
<1> DEFINE at(g) == Opens(aa, bb, At(fA, g, k), At(hB, g, k), k, U[g]) + al * V[g]
<1>8. /\ ClaimOf(x) \in Point
      /\ \A g \in Generators : at(g) \in Int /\ Cong(ClaimOf(x)[g], at(g))
  BY <1>1, <1>2, <1>3, <1>4, <1>7, BlindedClaimOpens
<1> HIDE DEF fA, hB, at
<1>10. \A g \in Generators : Cong(at(g), ClaimOf(x)[g])
  BY <1>8, CongSym, CoefficientInt
<1> QED BY <1>1, <1>2, <1>5, <1>6, <1>8, <1>10 DEF k, aa, bb, gf, hf, al, A, B, GB, HB, at

----------------------------------------------------------------------------
(* The state of a call, and the power of two that is left of its length.   *)
BlindShape ==
  /\ n \in Nat /\ FieldList(a, n) /\ FieldList(b, n) /\ alpha \in Fq
  /\ terms_per_base \in Nat \ {0}
  /\ SymbolicBases(G_bases, n, terms_per_base) /\ SymbolicBases(H_bases, n, terms_per_base)
  /\ Len(us) \in Nat /\ FieldList(us, Len(us))
  /\ \A i \in 1 .. Len(us) : us[i] \in Challenges
  /\ Points(L_vec, Len(us)) /\ Points(R_vec, Len(us))
  /\ n * Pow2[Len(us)] = Len(inst.a)
  /\ pc # "idle" => \E e \in 0 .. N : n = Pow2[e]

CallTyped ==
  /\ pc \in {"idle", "fold", "done", "panicked"}
  /\ IF pc = "idle" THEN inst = NoCall /\ us = <<>> /\ n = 0 /\ terms_per_base = 1
                    ELSE Callable(inst)
  /\ pc = "done" =>
       proof \in [A : Point, B : Point, r : Fq, s : Fq, delta : Fq, e : Challenges]

(* What the vectors and the blinding open is what the rounds moved the     *)
(* claim by.                                                               *)
BlindedOpensMoved ==
  \A g \in Generators :
    Cong(Opens(a, b, At(Values(G_bases), g, n), At(Values(H_bases), g, n), n, U[g]) + alpha * V[g],
         Moved(Claim, us, L_vec, R_vec, Len(us), g))

(* Until a round is made the bases are those of the call, and they never   *)
(* hold a part of V.                                                       *)
BasesOfCall ==
  /\ us = <<>> => /\ G_bases = DeferInit(inst.gf, BasesG(n))
                  /\ H_bases = DeferInit(inst.hf, BasesH(n))
  /\ NoBlinding(Values(G_bases), n) /\ NoBlinding(Values(H_bases), n)

DInv == CallTyped /\ BlindShape /\ BlindedOpensMoved /\ BasesOfCall

(* The claim is a point.                                                   *)
LEMMA ClaimPoint == CallTyped => Claim \in Point
<1> SUFFICES ASSUME CallTyped PROVE Claim \in Point  OBVIOUS
<1>1. IsCall(inst)  BY InstancesAreCalls DEF CallTyped
<1>2. Claim = ClaimOf(inst)  BY DEF Claim, ClaimOf
<1> QED BY <1>1, <1>2, CallOpens

----------------------------------------------------------------------------
(* The invariant, before the first round.                                  *)

(* The state of a call that has made no round.                             *)
Started(x) ==
  /\ IsCall(x) /\ n = Len(x.a) /\ a = x.a /\ b = x.b /\ alpha = x.alpha /\ inst = x
  /\ G_bases = DeferInit(x.gf, BasesG(Len(x.a))) /\ H_bases = DeferInit(x.hf, BasesH(Len(x.a)))
  /\ us = <<>> /\ L_vec = <<>> /\ R_vec = <<>> /\ terms_per_base = 1
  /\ pc # "idle" => \E e \in 0 .. N : n = Pow2[e]

(* Before the first round the claim has not moved and nothing is folded.   *)
LEMMA CallMoves == \A x : Started(x) => BlindShape /\ BlindedOpensMoved /\ BasesOfCall
<1> SUFFICES ASSUME NEW x, Started(x) PROVE BlindShape /\ BlindedOpensMoved /\ BasesOfCall
  OBVIOUS
<1> USE DEF Started
<1> DEFINE k == Len(x.a)
           GB == DeferInit(x.gf, BasesG(k))
           HB == DeferInit(x.hf, BasesH(k))
           at(g) == Opens(x.a, x.b, At(Values(GB), g, k), At(Values(HB), g, k), k, U[g])
                      + x.alpha * V[g]
<1>1. /\ k \in Nat
      /\ FieldList(x.a, k) /\ FieldList(x.b, k) /\ x.alpha \in Fq
      /\ SymbolicBases(GB, k, 1) /\ SymbolicBases(HB, k, 1)
      /\ NoBlinding(Values(GB), k) /\ NoBlinding(Values(HB), k)
      /\ ClaimOf(x) \in Point
      /\ \A g \in Generators : Cong(at(g), ClaimOf(x)[g])
  BY CallOpens
<1>2. n = k /\ G_bases = GB /\ H_bases = HB /\ Len(us) = 0  OBVIOUS
<1>3. FieldList(<<>>, 0) /\ Points(<<>>, 0)  BY DEF FieldList, Points, IsList
<1>4. k * Pow2[0] = k  BY <1>1, Pow2Law
<1>5. Claim = ClaimOf(x)  BY DEF Claim, ClaimOf
<1>6. BasesOfCall  BY <1>1, <1>2 DEF BasesOfCall
<1>7. BlindedOpensMoved
  <2>1. ASSUME NEW g \in Generators
        PROVE  Cong(Opens(a, b, At(Values(G_bases), g, n), At(Values(H_bases), g, n), n, U[g])
                      + alpha * V[g],
                    Moved(Claim, us, L_vec, R_vec, Len(us), g))
    <3>1. Moved(Claim, us, L_vec, R_vec, 0, g) = ClaimOf(x)[g]  BY <1>1, <1>5, MovedNone
    <3>2. at(g) = Opens(a, b, At(Values(G_bases), g, n), At(Values(H_bases), g, n), n, U[g])
                    + alpha * V[g]
      BY <1>2
    <3> HIDE DEF at
    <3> QED BY <1>1, <1>2, <3>1, <3>2
  <2> QED BY <2>1 DEF BlindedOpensMoved
<1> HIDE DEF k, GB, HB, at
<1>8. \A i \in 1 .. Len(us) : us[i] \in Challenges  BY <1>2
<1>9. n * Pow2[Len(us)] = Len(inst.a)  BY <1>2, <1>4 DEF k
<1>10. BlindShape
  BY <1>1, <1>2, <1>3, <1>8, <1>9 DEF BlindShape
<1> QED BY <1>6, <1>7, <1>10

(* The same of a next state.                                               *)
LEMMA CallMovesNext == (\A x : Started(x) => BlindShape /\ BlindedOpensMoved /\ BasesOfCall)'
BY CallMoves, PTL

(* The invariant holds before any call.                                    *)
LEMMA DInvInit == Init => DInv
<1> SUFFICES ASSUME Init PROVE DInv  OBVIOUS
<1>1. IsCall(NoCall)  BY InstancesAreCalls
<1>2. BasesG(0) = <<>> /\ BasesH(0) = <<>>  BY DEF BasesG, BasesH
<1>3. /\ NoCall.a = <<>> /\ NoCall.b = <<>> /\ NoCall.gf = <<>> /\ NoCall.hf = <<>>
      /\ NoCall.alpha = 0 /\ Len(NoCall.a) = 0
  BY DEF NoCall
<1>4. CallTyped  BY DEF Init, CallTyped
<1>5. BlindShape /\ BlindedOpensMoved /\ BasesOfCall
  <2>1. /\ n = Len(NoCall.a) /\ a = NoCall.a /\ b = NoCall.b /\ alpha = NoCall.alpha /\ inst = NoCall
        /\ G_bases = DeferInit(NoCall.gf, BasesG(Len(NoCall.a)))
        /\ H_bases = DeferInit(NoCall.hf, BasesH(Len(NoCall.a)))
        /\ us = <<>> /\ L_vec = <<>> /\ R_vec = <<>> /\ terms_per_base = 1
        /\ pc = "idle"
    BY <1>2, <1>3 DEF Init
  <2>2. Started(NoCall)  BY <1>1, <2>1 DEF Started
  <2> QED BY <2>2, CallMoves
<1> QED BY <1>4, <1>5 DEF DInv

(* A call starts at its claim.                                             *)
LEMMA DInvCall ==
  ASSUME DInv, NEW x, Callable(x), Call(x)
  PROVE  DInv'
<1>1. IsCall(x)  BY InstancesAreCalls
<1>2. /\ inst' = x /\ n' = Len(x.a) /\ a' = x.a /\ b' = x.b /\ alpha' = x.alpha /\ pc' = "fold"
      /\ G_bases' = DeferInit(x.gf, BasesG(Len(x.a))) /\ H_bases' = DeferInit(x.hf, BasesH(Len(x.a)))
      /\ us' = us /\ L_vec' = L_vec /\ R_vec' = R_vec /\ terms_per_base' = terms_per_base
      /\ proof' = proof
  BY DEF Call
<1>3. us = <<>> /\ terms_per_base = 1  BY DEF DInv, CallTyped, Call
<1>4. L_vec = <<>> /\ R_vec = <<>>
  <2>1. Points(L_vec, 0) /\ Points(R_vec, 0)  BY <1>3 DEF DInv, BlindShape
  <2> QED BY <2>1 DEF Points, IsList
<1>5. CallTyped'  BY <1>2 DEF CallTyped
<1>6. \E e \in 0 .. N : n' = Pow2[e]  BY <1>2 DEF Callable
<1>7. BlindShape' /\ BlindedOpensMoved' /\ BasesOfCall'
  <2>1. /\ n' = Len(x.a) /\ a' = x.a /\ b' = x.b /\ alpha' = x.alpha /\ inst' = x
        /\ G_bases' = DeferInit(x.gf, BasesG(Len(x.a))) /\ H_bases' = DeferInit(x.hf, BasesH(Len(x.a)))
        /\ us' = <<>> /\ L_vec' = <<>> /\ R_vec' = <<>> /\ terms_per_base' = 1
    BY <1>2, <1>3, <1>4
  <2>2. Started(x)'  BY <1>1, <1>6, <2>1 DEF Started
  <2> QED BY <2>2, CallMovesNext
<1> QED BY <1>5, <1>7 DEF DInv

----------------------------------------------------------------------------
(* A round.                                                                *)

(* The bases B1 of h points that B, of twice as many, are folded to.       *)
FoldsBases(B, B1, t1, h, kl, kr) ==
  /\ SymbolicBases(B1, h, t1) /\ t1 \in Nat \ {0}
  /\ Values(B1) = FoldedPoints(Values(B), h, kl, kr)
  /\ Points(Values(B), h + h) /\ Points(Values(B1), h)
  /\ \A g \in Generators :
       Folded(At(Values(B1), g, h), At(Values(B), g, h + h), h, kl, kr)

(* Deferred and, when that is due, collapsed: the folded points.           *)
LEMMA NextBases ==
  ASSUME NEW h \in Nat, NEW t \in Nat \ {0}, NEW B, SymbolicBases(B, h + h, t),
         NEW kl \in Int, NEW kr \in Int, NEW due \in BOOLEAN
  PROVE  LET D == Defer(SplitL(B, h), SplitR(B, h), h, kl, kr)
             B1 == IF due THEN Collapse(D) ELSE D
             t1 == IF due THEN 1 ELSE 2 * t
         IN  FoldsBases(B, B1, t1, h, kl, kr)
<1> DEFINE D == Defer(SplitL(B, h), SplitR(B, h), h, kl, kr)
           B1 == IF due THEN Collapse(D) ELSE D
           t1 == IF due THEN 1 ELSE 2 * t
           VB == Values(B)
<1>1. /\ SymbolicBases(D, h, 2 * t)
      /\ Values(D) = FoldedPoints(VB, h, kl, kr)
  <2>1. t \in Nat  OBVIOUS
  <2>2. DefersTo(D, B, h, t, kl, kr)  BY <2>1, DeferValues
  <2> QED BY <2>2 DEF DefersTo
<1>2. Points(VB, h + h)
  <2>1. h + h \in Nat  OBVIOUS
  <2>2. t \in Nat  OBVIOUS
  <2> QED BY <2>1, <2>2, ValuesStand
<1> HIDE DEF D, VB
<1>3. SymbolicBases(Collapse(D), h, 1) /\ Values(Collapse(D)) = Values(D)
  <2>1. 2 * t \in Nat  OBVIOUS
  <2> QED BY <1>1, <2>1, CollapseValues
<1>4. /\ SymbolicBases(B1, h, t1) /\ t1 \in Nat \ {0}
      /\ Values(B1) = FoldedPoints(VB, h, kl, kr)
  <2>1. CASE due  BY <1>1, <1>3, <2>1
  <2>2. CASE ~due  BY <1>1, <2>2
  <2> QED BY <2>1, <2>2
<1>5. /\ Points(FoldedPoints(VB, h, kl, kr), h)
      /\ \A g \in Generators :
           Folded(At(FoldedPoints(VB, h, kl, kr), g, h), At(VB, g, h + h), h, kl, kr)
  BY <1>2, FoldedBases DEF FoldedPoints
<1> HIDE DEF B1, t1
<1>6. FoldsBases(B, B1, t1, h, kl, kr)  BY <1>2, <1>4, <1>5 DEF FoldsBases, VB
<1> QED BY <1>6 DEF B1, t1, D

(* What a round makes of the state.                                        *)
Rounds(h, u, d_L, d_R) ==
  /\ h \in Nat \ {0} /\ n = h + h /\ u \in Fq /\ u # 0 /\ d_L \in Int /\ d_R \in Int
  /\ RoundFolds(a, b, Values(G_bases), Values(H_bases),
                a', b', Values(G_bases'), Values(H_bases'), h, u, Inv(u))
  /\ SymbolicBases(G_bases', h, terms_per_base') /\ SymbolicBases(H_bases', h, terms_per_base')
  /\ terms_per_base' \in Nat \ {0}
  /\ Values(G_bases') = FoldedPoints(Values(G_bases), h, Inv(u), u)
  /\ Values(H_bases') = FoldedPoints(Values(H_bases), h, u, Inv(u))
  /\ Appends(us', us, u, Len(us)) /\ Len(us') = Len(us) + 1 /\ us' # <<>>
  /\ L_vec' = Append(L_vec, CrossTerm(Left(a, h), Right(b, h), SplitR(G_bases, h), SplitL(H_bases, h), d_L))
  /\ R_vec' = Append(R_vec, CrossTerm(Right(a, h), Left(b, h), SplitL(G_bases, h), SplitR(H_bases, h), d_R))
  /\ n' = h /\ pc = "fold" /\ pc' = "fold" /\ inst' = inst /\ proof' = proof
  /\ h * Pow2[Len(us) + 1] = Len(inst.a)
  /\ \E d \in 0 .. N : h = Pow2[d]
  /\ alpha' \in Fq /\ Cong(alpha', alpha + u * u * d_L + Inv(u) * Inv(u) * d_R)

(* The code's round does.                                                  *)
LEMMA RoundShape ==
  ASSUME DInv, NEW d_L \in Blinds, NEW d_R \in Blinds, NEW u \in Challenges, Round(d_L, d_R, u)
  PROVE  Rounds(n \div 2, u, d_L, d_R)
<1> DEFINE h == n \div 2
           k == Len(us)
           t == terms_per_base
           due == CollapseDue(2 * t, h)
           GD == Defer(SplitL(G_bases, h), SplitR(G_bases, h), h, Inv(u), u)
           HD == Defer(SplitL(H_bases, h), SplitR(H_bases, h), h, u, Inv(u))
<1>1. /\ pc = "fold" /\ n # 1 /\ u # 0 /\ n' = h /\ pc' = pc /\ inst' = inst /\ proof' = proof
      /\ us' = Append(us, u)
      /\ a' = FoldVec(a, h, u, Inv(u)) /\ b' = FoldVec(b, h, Inv(u), u)
      /\ L_vec' = Append(L_vec, CrossTerm(Left(a, h), Right(b, h), SplitR(G_bases, h), SplitL(H_bases, h), d_L))
      /\ R_vec' = Append(R_vec, CrossTerm(Right(a, h), Left(b, h), SplitL(G_bases, h), SplitR(H_bases, h), d_R))
      /\ alpha' = FoldAlpha(d_L, d_R, u)
      /\ G_bases' = IF due THEN Collapse(GD) ELSE GD
      /\ H_bases' = IF due THEN Collapse(HD) ELSE HD
      /\ terms_per_base' = IF due THEN 1 ELSE 2 * t
  BY DEF Round
<1>2. u \in Fq /\ d_L \in Int /\ d_R \in Int  BY DrawsAssumption DEF Fq
<1>3. Inv(u) \in Int /\ u \in Int  BY <1>1, <1>2, InvLaw
<1>4. PICK e \in 0 .. N : n = Pow2[e]  BY <1>1 DEF DInv, BlindShape
<1>5. h \in Nat \ {0} /\ n = h + h /\ \E d \in 0 .. N : h = Pow2[d]
  <2>1. h \in Nat /\ n = h + h /\ \E d \in 0 .. N : h = Pow2[d]
    BY <1>1, <1>4, HalfPower
  <2>2. n # 0  BY <1>4, Pow2Law
  <2> QED BY <2>1, <2>2
<1>6. /\ k \in Nat /\ FieldList(us, k) /\ n * Pow2[k] = Len(inst.a)
      /\ FieldList(a, n) /\ FieldList(b, n) /\ alpha \in Int
      /\ t \in Nat \ {0} /\ SymbolicBases(G_bases, n, t) /\ SymbolicBases(H_bases, n, t)
  BY DEF DInv, BlindShape, Fq
<1>7. due \in BOOLEAN  BY DEF CollapseDue
<1> HIDE DEF h, k, due, t
<1>16. SymbolicBases(G_bases, h + h, t) /\ SymbolicBases(H_bases, h + h, t) /\ h \in Nat
  BY <1>5, <1>6
<1>8. FoldsBases(G_bases, G_bases', terms_per_base', h, Inv(u), u)
  BY <1>1, <1>3, <1>6, <1>7, <1>16, NextBases
<1>9. FoldsBases(H_bases, H_bases', terms_per_base', h, u, Inv(u))
  BY <1>1, <1>3, <1>6, <1>7, <1>16, NextBases
<1>10. FieldList(a', h) /\ Folded(a', a, h, u, Inv(u))
  BY <1>1, <1>3, <1>5, <1>6, FoldedVector DEF FoldVec
<1>11. FieldList(b', h) /\ Folded(b', b, h, Inv(u), u)
  BY <1>1, <1>3, <1>5, <1>6, FoldedVector DEF FoldVec
<1>12. RoundFolds(a, b, Values(G_bases), Values(H_bases),
                  a', b', Values(G_bases'), Values(H_bases'), h, u, Inv(u))
  <2>1. FieldList(a, h + h) /\ FieldList(b, h + h)  BY <1>5, <1>6
  <2> QED BY <1>8, <1>9, <1>10, <1>11, <2>1 DEF RoundFolds, FoldsBases
<1>13. Appends(us', us, u, k) /\ Len(us') = k + 1 /\ us' # <<>>
  <2>1. Appends(us', us, u, k)  BY <1>1, <1>6, ListAppend DEF FieldList
  <2>2. IsList(us', k + 1)  BY <2>1 DEF Appends
  <2> QED BY <1>6, <2>1, <2>2, NotEmpty
<1>14. h * Pow2[k + 1] = Len(inst.a)
  <2> DEFINE p == Pow2[k]
  <2>1. Pow2[k + 1] = 2 * p /\ p \in Nat  BY <1>6, Pow2Law
  <2>2. (h + h) * p = Len(inst.a)  BY <1>5, <1>6
  <2> HIDE DEF p
  <2>3. h * (2 * p) = (h + h) * p  BY <1>5, <2>1
  <2> QED BY <2>1, <2>2, <2>3
<1>15. alpha' \in Fq /\ Cong(alpha', alpha + u * u * d_L + Inv(u) * Inv(u) * d_R)
  <2> DEFINE w == Inv(u)
             s == alpha + u * u * d_L + w * w * d_R
  <2>1. alpha' = s % q  BY <1>1 DEF FoldAlpha
  <2>2. w \in Int  BY <1>3
  <2> HIDE DEF w
  <2>3. s \in Int
    <3>1. u * u * d_L \in Int /\ w * w * d_R \in Int  BY <1>2, <1>3, <2>2
    <3> QED BY <1>6, <3>1
  <2> HIDE DEF s
  <2> QED BY <2>1, <2>3, ModCong DEF s, w
<1> HIDE DEF GD, HD
<1> QED BY <1>1, <1>2, <1>5, <1>8, <1>9, <1>12, <1>13, <1>14, <1>15 DEF Rounds, FoldsBases, h, k

(* Each of the two is a point, and opens the halves and the blinding.      *)
Sends(X, x, y, A, B, h, d) ==
  /\ X \in Point
  /\ \A g \in Generators :
       LET o == Opens(x, y, At(A, g, h), At(B, g, h), h, U[g])
       IN  o \in Int /\ Cong(X[g], o + d * V[g])

(* The cross terms are such points.                                        *)
LEMMA RoundSends ==
  ASSUME NEW h \in Nat \ {0}, NEW t \in Nat, NEW x, NEW y, FieldList(x, h), FieldList(y, h),
         NEW d \in Int, NEW A, NEW B, SymbolicBases(A, h, t), SymbolicBases(B, h, t)
  PROVE  Sends(CrossTerm(x, y, A, B, d), x, y, Values(A), Values(B), h, d)
<1> DEFINE X == CrossTerm(x, y, A, B, d)
           VA == Values(A)
           VB == Values(B)
           o(g) == Opens(x, y, At(VA, g, h), At(VB, g, h), h, U[g])
<1>1. X \in Point /\ \A g \in Generators : o(g) + d * V[g] \in Int /\ Cong(X[g], o(g) + d * V[g])
  BY CrossTermOpens
<1>2. h \in Nat  OBVIOUS
<1>3. Points(VA, h) /\ Points(VB, h)  BY <1>2, ValuesStand
<1>4. Ints(x, h) /\ Ints(y, h)  BY <1>2, FieldScalars DEF Scalars
<1> HIDE DEF X, VA, VB
<1>5. ASSUME NEW g \in Generators PROVE o(g) \in Int
  <2>1. U[g] \in Int  BY GeneratorPoint, CoefficientInt
  <2>2. Ints(At(VA, g, h), h) /\ Ints(At(VB, g, h), h)  BY <1>2, <1>3, AtInts
  <2> QED BY <1>2, <1>4, <2>1, <2>2, OpensInt
<1>6. Sends(X, x, y, VA, VB, h, d)  BY <1>1, <1>5 DEF Sends
<1> QED BY <1>6 DEF X, VA, VB

(* What a round moves is what it sends.                                    *)
LEMMA DInvOpens ==
  ASSUME DInv, NEW h, NEW d_L, NEW d_R, NEW u, Rounds(h, u, d_L, d_R), Claim \in Point
  PROVE  /\ BlindedOpensMoved'
         /\ FieldList(us', Len(us) + 1)
         /\ Points(L_vec', Len(us) + 1) /\ Points(R_vec', Len(us) + 1)
<1> DEFINE k == Len(us)
           t == terms_per_base
           FG == Values(G_bases)
           FH == Values(H_bases)
           FG1 == Values(G_bases')
           FH1 == Values(H_bases')
           al == Left(a, h)
           ar == Right(a, h)
           bl == Left(b, h)
           br == Right(b, h)
           Gl == Left(FG, h)
           Gr == Right(FG, h)
           Hl == Left(FH, h)
           Hr == Right(FH, h)
           L == CrossTerm(al, br, SplitR(G_bases, h), SplitL(H_bases, h), d_L)
           R == CrossTerm(ar, bl, SplitL(G_bases, h), SplitR(H_bases, h), d_R)
           w == Inv(u)
<1>1. /\ h \in Nat \ {0} /\ h \in Nat /\ n = h + h /\ u \in Fq /\ u # 0 /\ d_L \in Int /\ d_R \in Int
      /\ RoundFolds(a, b, FG, FH, a', b', FG1, FH1, h, u, w)
      /\ Appends(us', us, u, k) /\ Len(us') = k + 1
      /\ L_vec' = Append(L_vec, L) /\ R_vec' = Append(R_vec, R)
      /\ n' = h /\ inst' = inst
      /\ alpha' \in Int /\ Cong(alpha', alpha + u * u * d_L + w * w * d_R)
  BY DEF Rounds, Fq
<1>2. /\ k \in Nat /\ FieldList(us, k) /\ Points(L_vec, k) /\ Points(R_vec, k)
      /\ t \in Nat /\ SymbolicBases(G_bases, n, t) /\ SymbolicBases(H_bases, n, t)
      /\ alpha \in Int
  BY DEF DInv, BlindShape, Fq
<1>3. /\ SymbolicBases(G_bases, h + h, t) /\ SymbolicBases(H_bases, h + h, t)
  BY <1>1, <1>2
<1> HIDE DEF k, t
<1>4. /\ SymbolicBases(SplitL(G_bases, h), h, t) /\ SymbolicBases(SplitR(G_bases, h), h, t)
      /\ Values(SplitL(G_bases, h)) = Gl /\ Values(SplitR(G_bases, h)) = Gr
  BY <1>1, <1>2, <1>3, SplitValues
<1>5. /\ SymbolicBases(SplitL(H_bases, h), h, t) /\ SymbolicBases(SplitR(H_bases, h), h, t)
      /\ Values(SplitL(H_bases, h)) = Hl /\ Values(SplitR(H_bases, h)) = Hr
  BY <1>1, <1>2, <1>3, SplitValues
<1> HIDE DEF FG, FH, FG1, FH1
<1>6. FieldList(a, h + h) /\ FieldList(b, h + h) /\ Points(FG, h + h) /\ Points(FH, h + h)
  BY <1>1 DEF RoundFolds
<1>7. /\ Halves(a, al, ar, h) /\ Halves(FG, Gl, Gr, h)
      /\ FieldList(al, h) /\ FieldList(ar, h)
  BY <1>1, <1>6, HalfLists
<1>8. /\ Halves(b, bl, br, h) /\ Halves(FH, Hl, Hr, h)
      /\ FieldList(bl, h) /\ FieldList(br, h)
  BY <1>1, <1>6, HalfLists
<1> HIDE DEF al, ar, bl, br, Gl, Gr, Hl, Hr
<1>9. Sends(L, al, br, Gr, Hl, h, d_L)
  BY <1>1, <1>2, <1>4, <1>5, <1>7, <1>8, RoundSends
<1>10. Sends(R, ar, bl, Gl, Hr, h, d_R)
  BY <1>1, <1>2, <1>4, <1>5, <1>7, <1>8, RoundSends
<1> HIDE DEF L, R
<1>11. L \in Point /\ R \in Point  BY <1>9, <1>10 DEF Sends
<1>12. Appends(L_vec', L_vec, L, k) /\ Appends(R_vec', R_vec, R, k)
  BY <1>1, <1>2, ListAppend DEF Points
<1>13. ASSUME NEW g \in Generators
       PROVE  /\ FieldList(us', k + 1) /\ Points(L_vec', k + 1) /\ Points(R_vec', k + 1)
              /\ Moved(Claim, us, L_vec, R_vec, k, g) \in Int
              /\ Moved(Claim, us', L_vec', R_vec', k + 1, g) \in Int
              /\ Cong(Moved(Claim, us', L_vec', R_vec', k + 1, g),
                      Moved(Claim, us, L_vec, R_vec, k, g) + (u * u * L[g] + w * w * R[g]))
  BY <1>1, <1>2, <1>11, <1>12, MovedNext
<1>14. Claim' = Claim  BY <1>1 DEF Claim
<1>15. FieldList(a', h) /\ FieldList(b', h) /\ Points(FG1, h) /\ Points(FH1, h)
  BY <1>1 DEF RoundFolds
<1>16. ASSUME NEW g \in Generators
       PROVE  Cong(Opens(a', b', At(FG1, g, h), At(FH1, g, h), h, U[g]) + alpha' * V[g],
                   Moved(Claim, us', L_vec', R_vec', k + 1, g))
  <2> DEFINE lo == Opens(al, br, At(Gr, g, h), At(Hl, g, h), h, U[g])
             ro == Opens(ar, bl, At(Gl, g, h), At(Hr, g, h), h, U[g])
             O == Opens(a, b, At(FG, g, h + h), At(FH, g, h + h), h + h, U[g])
             O1 == Opens(a', b', At(FG1, g, h), At(FH1, g, h), h, U[g])
             M == Moved(Claim, us, L_vec, R_vec, k, g)
             M1 == Moved(Claim, us', L_vec', R_vec', k + 1, g)
             v == V[g]
             l == L[g]
             r == R[g]
             P == O + alpha * v
             P1 == O1 + alpha' * v
             lp == lo + d_L * v
             rp == ro + d_R * v
  <2>1. lo \in Int /\ ro \in Int /\ Cong(O1, O + (u * u * lo + w * w * ro))
    BY <1>1, <1>7, <1>8, OpensRound
  <2>2. M \in Int /\ M1 \in Int /\ Cong(M1, M + (u * u * L[g] + w * w * R[g]))
    BY <1>13
  <2>3. Cong(P, M)  BY <1>1 DEF DInv, BlindedOpensMoved, FG, FH, k
  <2>4. Cong(l, lp) /\ Cong(r, rp) /\ l \in Int /\ r \in Int
    BY <1>9, <1>10, <1>11, CoefficientInt DEF Sends
  <2>5. u \in Int /\ w \in Int  BY <1>1, InvLaw
  <2>6. O \in Int /\ O1 \in Int
    <3>1. U[g] \in Int  BY GeneratorPoint, CoefficientInt
    <3>2. /\ Ints(a, h + h) /\ Ints(b, h + h) /\ Ints(a', h) /\ Ints(b', h)
          /\ h + h \in Nat
      BY <1>1, <1>6, <1>15, FieldScalars DEF Scalars
    <3>3. /\ Ints(At(FG, g, h + h), h + h) /\ Ints(At(FH, g, h + h), h + h)
          /\ Ints(At(FG1, g, h), h) /\ Ints(At(FH1, g, h), h)
      BY <1>1, <1>6, <1>15, <3>2, AtInts
    <3> QED BY <1>1, <3>1, <3>2, <3>3, OpensInt
  <2>7. v \in Int  BY GeneratorPoint, CoefficientInt
  <2> HIDE DEF lo, ro, O, O1, M, M1, w, v, l, r
  <2>8. Cong(P1, P + (u * u * lp + w * w * rp))
    BY ZenonT(60), <1>1, <1>2, <2>1, <2>5, <2>6, <2>7, BlindingTerms
  <2>9. P \in Int /\ P1 \in Int /\ lp \in Int /\ rp \in Int
    BY SMTT(60), <1>1, <1>2, <2>1, <2>6, <2>7
  <2>10. Cong(M1, M + (u * u * l + w * w * r))  BY <2>2 DEF l, r
  <2> HIDE DEF P, P1, lp, rp
  <2>11. Cong(P1, M1)  BY <2>2, <2>3, <2>4, <2>5, <2>8, <2>9, <2>10, KeepsUp
  <2> QED BY <2>11 DEF P1, O1, M1, v
<1>17. BlindedOpensMoved'
  BY <1>1, <1>14, <1>16 DEF BlindedOpensMoved, FG1, FH1
<1>18. FieldList(us', k + 1) /\ Points(L_vec', k + 1) /\ Points(R_vec', k + 1)
  <2>1. PICK g \in Generators : TRUE  BY DEF Generators
  <2> QED BY <1>13, <2>1
<1> QED BY <1>17, <1>18 DEF k

(* A round keeps the invariant.                                            *)
LEMMA DInvRound ==
  ASSUME DInv, NEW d_L \in Blinds, NEW d_R \in Blinds, NEW u \in Challenges, Round(d_L, d_R, u)
  PROVE  DInv'
<1> DEFINE h == n \div 2
           k == Len(us)
<1>1. Rounds(h, u, d_L, d_R)  BY RoundShape
<1>2. Claim \in Point  BY ClaimPoint DEF DInv
<1> HIDE DEF h
<1>3. /\ BlindedOpensMoved'
      /\ FieldList(us', k + 1) /\ Points(L_vec', k + 1) /\ Points(R_vec', k + 1)
  BY <1>1, <1>2, DInvOpens
<1>4. /\ k \in Nat /\ k + 1 \in Nat /\ \A i \in 1 .. k : us[i] \in Challenges
      /\ NoBlinding(Values(G_bases), n) /\ NoBlinding(Values(H_bases), n)
  BY DEF DInv, BlindShape, BasesOfCall
<1>5. /\ h \in Nat /\ n = h + h /\ u \in Fq /\ u # 0
      /\ RoundFolds(a, b, Values(G_bases), Values(H_bases),
                    a', b', Values(G_bases'), Values(H_bases'), h, u, Inv(u))
      /\ SymbolicBases(G_bases', h, terms_per_base') /\ SymbolicBases(H_bases', h, terms_per_base')
      /\ terms_per_base' \in Nat \ {0}
      /\ Values(G_bases') = FoldedPoints(Values(G_bases), h, Inv(u), u)
      /\ Values(H_bases') = FoldedPoints(Values(H_bases), h, u, Inv(u))
      /\ Appends(us', us, u, k) /\ Len(us') = k + 1 /\ us' # <<>>
      /\ n' = h /\ pc = "fold" /\ pc' = "fold" /\ inst' = inst /\ proof' = proof
      /\ h * Pow2[k + 1] = Len(inst.a)
      /\ \E d \in 0 .. N : h = Pow2[d]
      /\ alpha' \in Fq
  BY <1>1 DEF Rounds
<1> HIDE DEF k
<1>6. CallTyped'  BY <1>5 DEF DInv, CallTyped
<1>7. /\ FieldList(a', h) /\ FieldList(b', h)
      /\ Points(Values(G_bases), h + h) /\ Points(Values(H_bases), h + h)
  BY <1>5 DEF RoundFolds
<1>8. \A i \in 1 .. k + 1 : us'[i] \in Challenges
  <2>1. \A i \in 1 .. k + 1 : i \in 1 .. k \/ i = k + 1  BY <1>4
  <2> QED BY <1>4, <1>5, <2>1 DEF Appends
<1>9. BlindShape'
  BY <1>3, <1>4, <1>5, <1>7, <1>8 DEF BlindShape
<1>10. BasesOfCall'
  <2>1. NoBlinding(Values(G_bases), h + h) /\ NoBlinding(Values(H_bases), h + h)  BY <1>4, <1>5
  <2>2. u \in Int /\ Inv(u) \in Int  BY <1>5, InvLaw
  <2>3. NoBlinding(Values(G_bases'), h) /\ NoBlinding(Values(H_bases'), h)
    BY <1>5, <1>7, <2>1, <2>2, FoldedNoBlinding
  <2> QED BY <1>5, <2>3 DEF BasesOfCall
<1> QED BY <1>3, <1>6, <1>9, <1>10 DEF DInv

(* The last step's proof has its types.                                    *)
LEMMA LastTyped ==
  ASSUME DInv, NEW d \in FinalDraws, NEW e \in Challenges, LastStep(d[1], d[2], d[3], d[4], e)
  PROVE  proof' \in [A : Point, B : Point, r : Fq, s : Fq, delta : Fq, e : Challenges]
<1> DEFINE r == d[1]
           s == d[2]
           delta == d[3]
           eta == d[4]
           c == (r * b[1] + s * a[1]) % q
           t == terms_per_base
           gs == FlattenSeq([i \in 1 .. 1 |-> ScalarMul(G_bases.scalars[i], <<r>>[i])])
           hs == FlattenSeq([i \in 1 .. 1 |-> ScalarMul(H_bases.scalars[i], <<s>>[i])])
           gb == FlattenSeq(G_bases.bases)
           hb == FlattenSeq(H_bases.bases)
           A == Msm(gs \o hs \o <<c, delta>>, gb \o hb \o <<U, V>>)
           B == Msm(<<(r * s) % q, eta>>, <<U, V>>)
<1>1. n = 1  BY DEF LastStep
<1>2. /\ r \in Fq /\ s \in Fq /\ delta \in Fq /\ eta \in Fq /\ e \in Fq
      /\ r \in Int /\ s \in Int /\ delta \in Int /\ eta \in Int /\ e \in Int
  BY DrawsAssumption DEF Fq
<1>3. /\ FieldList(a, 1) /\ FieldList(b, 1) /\ alpha \in Int /\ t \in Nat
      /\ SymbolicBases(G_bases, 1, t) /\ SymbolicBases(H_bases, 1, t)
  BY <1>1 DEF DInv, BlindShape, Fq
<1>4. a[1] \in Int /\ b[1] \in Int  BY <1>3 DEF FieldList, Fq
<1>5. GetScalars(G_bases, <<r>>) = gs /\ GetScalars(H_bases, <<s>>) = hs
  BY DEF GetScalars
<1>6. proof' = [A |-> A, B |-> B, r |-> (r + a[1] * e) % q, s |-> (s + b[1] * e) % q,
                delta |-> (eta + delta * e + alpha * e * e) % q, e |-> e]
  <2> HIDE DEF r, s, delta, eta, gs, hs
  <2> QED BY <1>5 DEF LastStep, GetBases, r, s, delta, eta
<1>7. c \in Int /\ (r * s) % q \in Int
  <2>1. r * b[1] \in Int /\ s * a[1] \in Int /\ r * s \in Int  BY <1>2, <1>4
  <2>2. r * b[1] + s * a[1] \in Int  BY <2>1
  <2> HIDE DEF r, s
  <2> QED BY <2>1, <2>2, ModCong DEF Fq
<1>8. /\ (r + a[1] * e) % q \in Fq /\ (s + b[1] * e) % q \in Fq
      /\ (eta + delta * e + alpha * e * e) % q \in Fq
  <2>1. r + a[1] * e \in Int /\ s + b[1] * e \in Int  BY <1>2, <1>4
  <2>2. eta + delta * e + alpha * e * e \in Int
    <3>1. delta * e \in Int /\ alpha * e * e \in Int  BY <1>2, <1>3
    <3> QED BY <1>2, <3>1
  <2> QED BY <2>1, <2>2, ModCong
<1>9. FieldList(<<r>>, 1) /\ FieldList(<<s>>, 1)  BY <1>2 DEF FieldList, IsList
<1>10. 1 \in Nat \ {0} /\ 1 * t \in Nat  BY <1>3
<1> HIDE DEF r, s, t, delta, eta, c
<1>11. Scalars(gs, 1 * t) /\ Points(gb, 1 * t)
  BY <1>3, <1>9, <1>10, SymbolicDot DEF SymbolicBases
<1>12. Scalars(hs, 1 * t) /\ Points(hb, 1 * t)
  BY <1>3, <1>9, <1>10, SymbolicDot DEF SymbolicBases
<1> HIDE DEF gs, hs, gb, hb
<1>13. U \in Point /\ V \in Point  BY GeneratorPoint
<1>14. Scalars(<<c, delta>>, 2) /\ Points(<<U, V>>, 2)  BY <1>2, <1>7, <1>13, MsmTwo
<1>15. A \in Point  BY <1>10, <1>11, <1>12, <1>14, MsmThree
<1>16. B \in Point  BY <1>2, <1>7, <1>13, MsmTwo
<1> HIDE DEF A, B
<1> QED BY <1>6, <1>8, <1>15, <1>16

(* Every step keeps it.                                                    *)
LEMMA DInvNext == DInv /\ [Next]_vars => DInv'
<1> SUFFICES ASSUME DInv, [Next]_vars PROVE DInv'  OBVIOUS
<1>1. ASSUME NEW x \in Instances, Call(x) PROVE DInv'
  BY <1>1, InstancesAssumption, DInvCall
<1>2. ASSUME NEW d_L \in Blinds, NEW d_R \in Blinds, NEW u \in Challenges, Round(d_L, d_R, u)
      PROVE  DInv'
  BY <1>2, DInvRound
<1>3. ASSUME UNCHANGED <<inst, n, a, b, alpha, G_bases, H_bases, terms_per_base, L_vec, R_vec, us>>,
             pc' \in {"fold", "done", "panicked"}, pc # "idle",
             pc' = "done" =>
               proof' \in [A : Point, B : Point, r : Fq, s : Fq, delta : Fq, e : Challenges]
      PROVE  DInv'
  <2>1. CallTyped'  BY <1>3 DEF DInv, CallTyped
  <2>2. BlindShape'  BY <1>3 DEF DInv, BlindShape
  <2>3. BlindedOpensMoved'  BY <1>3 DEF DInv, BlindedOpensMoved, Claim
  <2>4. BasesOfCall'  BY <1>3 DEF DInv, BasesOfCall
  <2> QED BY <2>1, <2>2, <2>3, <2>4 DEF DInv
<1>4. CASE ZeroChallenge  BY <1>3, <1>4 DEF ZeroChallenge
<1>5. ASSUME NEW d \in FinalDraws, NEW e \in Challenges, LastStep(d[1], d[2], d[3], d[4], e)
      PROVE  DInv'
  <2>1. proof' \in [A : Point, B : Point, r : Fq, s : Fq, delta : Fq, e : Challenges]
    BY <1>5, LastTyped
  <2>2. /\ UNCHANGED <<inst, n, a, b, alpha, G_bases, H_bases, terms_per_base, L_vec, R_vec, us>>
        /\ pc' = "done" /\ pc # "idle"
    BY <1>5 DEF LastStep
  <2> QED BY <1>3, <2>1, <2>2
<1>6. CASE UNCHANGED vars
  <2>1. CallTyped'  BY <1>6 DEF vars, DInv, CallTyped
  <2>2. BlindShape'  BY <1>6 DEF vars, DInv, BlindShape
  <2>3. BlindedOpensMoved'  BY <1>6 DEF vars, DInv, BlindedOpensMoved, Claim
  <2>4. BasesOfCall'  BY <1>6 DEF vars, DInv, BasesOfCall
  <2> QED BY <2>1, <2>2, <2>3, <2>4 DEF DInv
<1> QED BY <1>1, <1>2, <1>4, <1>5, <1>6 DEF Next, Step

(* It holds in every state of every run.                                   *)
LEMMA DInvHolds == Spec => []DInv
BY DInvInit, DInvNext, PTL DEF Spec

(* Symbolic bases of n points have the type of TypeOK.                     *)
LEMMA SymbolicIsBases ==
  ASSUME NEW B, NEW t \in Nat, n \in Nat, SymbolicBases(B, n, t)
  PROVE  IsBases(B)
<1>1. DOMAIN B.scalars = 1 .. n /\ DOMAIN B.bases = 1 .. n
  BY DEF SymbolicBases, Symbolic, IsList
<1>2. ASSUME NEW i \in 1 .. n
      PROVE  /\ B.scalars[i] \in [1 .. Len(B.scalars[i]) -> Fq]
             /\ B.bases[i] \in [1 .. Len(B.scalars[i]) -> Point]
  <2>1. FieldList(B.scalars[i], t) /\ Points(B.bases[i], t)  BY DEF SymbolicBases, Symbolic
  <2>2. Len(B.scalars[i]) = t  BY <2>1, ListLength DEF FieldList
  <2> QED BY <2>1, <2>2, FieldListType, PointsType
<1> QED BY <1>1, <1>2 DEF IsBases

(* Only the arguments given are called with. *)
CalledOn == pc # "idle" => inst \in Instances

(* The vectors, symbolic bases, challenges and the proof keep their types  *)
(* and lengths.                                                            *)
THEOREM DeferredTypes == Spec => []TypeOK
<1>1. DInv /\ CalledOn => TypeOK
  <2> SUFFICES ASSUME DInv, CalledOn PROVE TypeOK  OBVIOUS
  <2>1. us \in [1 .. Len(us) -> Challenges]  BY DEF DInv, BlindShape, FieldList, IsList
  <2>2. a \in [1 .. n -> Fq] /\ b \in [1 .. n -> Fq]  BY FieldListType DEF DInv, BlindShape
  <2>3. L_vec \in [1 .. Len(us) -> Point] /\ R_vec \in [1 .. Len(us) -> Point]
    BY PointsType DEF DInv, BlindShape
  <2>4. IsBases(G_bases) /\ IsBases(H_bases)
    <3>1. n \in Nat /\ terms_per_base \in Nat  BY DEF DInv, BlindShape
    <3> QED BY <3>1, SymbolicIsBases DEF DInv, BlindShape
  <2>5. /\ IF pc = "idle" THEN inst = NoCall ELSE inst \in Instances
        /\ pc \in {"idle", "fold", "done", "panicked"}
        /\ pc = "done" =>
             proof \in [A : Point, B : Point, r : Fq, s : Fq, delta : Fq, e : Challenges]
    BY DEF DInv, CallTyped, CalledOn
  <2>6. n * Pow2[Len(us)] = Len(inst.a) /\ alpha \in Fq /\ terms_per_base \in Nat \ {0}
    BY DEF DInv, BlindShape
  <2> QED BY <2>1, <2>2, <2>3, <2>4, <2>5, <2>6 DEF TypeOK
<1>2. Init => CalledOn  BY DEF Init, CalledOn
<1>3. CalledOn /\ [Next]_vars => CalledOn'
  BY ZenonT(60) DEF CalledOn, Next, Step, Call, Round, ZeroChallenge, LastStep, vars
<1>4. Spec => []CalledOn  BY <1>2, <1>3, PTL DEF Spec
<1> QED BY <1>1, <1>4, DInvHolds, PTL

(* The blinded claim is kept: for every prime q, every length that is a    *)
(* power of two, all blindings, challenges and thresholds, what the prover *)
(* holds, bases deferred or collapsed, opens the claim with its blinding,  *)
(* moved by the L's and R's sent.                                          *)
THEOREM BlindedClaimIsPreserved == Spec => []BlindedClaimPreserved
<1>1. DInv => BlindedClaimPreserved
  <2> SUFFICES ASSUME DInv PROVE BlindedClaimPreserved  OBVIOUS
  <2> DEFINE FG == Values(G_bases)
             FH == Values(H_bases)
             k == Len(us)
             X == Msm(a \o b \o <<InnerProduct(a, b), alpha>>, FG \o FH \o <<U, V>>)
             Y == Msm(<<1>> \o Squares(us) \o Squares(BatchInvert(us)), <<Claim>> \o L_vec \o R_vec)
             x(g) == Opens(a, b, At(FG, g, n), At(FH, g, n), n, U[g]) + alpha * V[g]
             y(g) == Moved(Claim, us, L_vec, R_vec, k, g)
  <2>1. /\ n \in Nat /\ FieldList(a, n) /\ FieldList(b, n) /\ alpha \in Int
        /\ k \in Nat /\ FieldList(us, k) /\ Points(L_vec, k) /\ Points(R_vec, k)
        /\ terms_per_base \in Nat
    BY DEF DInv, BlindShape, Fq
  <2>2. Points(FG, n) /\ Points(FH, n)  BY <2>1, ValuesStand DEF DInv, BlindShape
  <2>3. Claim \in Point  BY ClaimPoint DEF DInv
  <2>4. \A g \in Generators : Cong(x(g), y(g))  BY DEF DInv, BlindedOpensMoved
  <2> HIDE DEF FG, FH, k
  <2>5. X \in Point /\ \A g \in Generators : x(g) \in Int /\ Cong(X[g], x(g))
    BY <2>1, <2>2, BlindedAt
  <2>6. Y \in Point /\ \A g \in Generators : y(g) \in Int /\ Cong(Y[g], y(g))
    BY <2>1, <2>3, MovedAt
  <2> HIDE DEF X, Y, x, y
  <2>7. \A g \in Generators : X[g] \in Int /\ Y[g] \in Int  BY <2>5, <2>6, CoefficientInt
  <2>8. ASSUME NEW g \in Generators PROVE Cong(X[g], Y[g])
    <3>1. Cong(X[g], x(g)) /\ Cong(x(g), y(g)) /\ Cong(y(g), Y[g])
      BY <2>4, <2>5, <2>6, <2>7, CongSym
    <3>2. Cong(X[g], y(g))  BY <2>5, <2>6, <2>7, <3>1, CongTrans
    <3> QED BY <2>5, <2>6, <2>7, <3>1, <3>2, CongTrans
  <2>9. X = Y  BY <2>5, <2>6, <2>8, PointsEqual
  <2> QED BY <2>9 DEF X, Y, FG, FH, BlindedClaimPreserved
<1> QED BY <1>1, DInvHolds, PTL

----------------------------------------------------------------------------
(* The steps of create_orig.                                               *)

(* The instance of IPAFold has the same field, bases and points.           *)
LEMMA EagerSets == Eager!Fq = Fq /\ Eager!Generators = Generators /\ Eager!Point = Point
BY DEF Eager!Fq, Fq, Eager!Generators, Generators, Eager!Point, Point

(* The same inverses.                                                      *)
LEMMA EagerInv == \A u : Eager!Inv(u) = Inv(u)
BY EagerSets DEF Eager!Inv, Inv

(* The same multi-scalar multiplication.                                   *)
LEMMA EagerMsm == \A s, bs : Eager!Msm(s, bs) = Msm(s, bs)
BY EagerSets DEF Eager!Msm, Msm, Eager!MapThenSumSet, MapThenSumSet, Eager!MapThenFoldSet, MapThenFoldSet

(* The same inner product.                                                 *)
LEMMA EagerInner == \A x, y : Eager!InnerProduct(x, y) = InnerProduct(x, y)
BY EagerSets DEF Eager!InnerProduct, InnerProduct, Eager!MapThenSumSet, MapThenSumSet, Eager!MapThenFoldSet, MapThenFoldSet

(* The same generators.                                                    *)
LEMMA EagerGenerators ==
  /\ \A g : Eager!Generator(g) = Generator(g)
  /\ Eager!U = U
  /\ \A k : Eager!BasesG(k) = BasesG(k) /\ Eager!BasesH(k) = BasesH(k)
BY EagerSets DEF Eager!Generator, Generator, Eager!Identity, Identity, Eager!U, U, Eager!BasesG, BasesG, Eager!BasesH, BasesH

(* The same halves.                                                        *)
LEMMA EagerHalves == \A s, h : Eager!Left(s, h) = Left(s, h) /\ Eager!Right(s, h) = Right(s, h)
BY DEF Eager!Left, Left, Eager!Right, Right

(* A vector times points with no part of V has none.                       *)
LEMMA DotOfZeros ==
  ASSUME NEW k \in Nat, NEW x, NEW y, Ints(x, k), Ints(y, k), \A i \in 1 .. k : y[i] = 0
  PROVE  Cong(Dot(x, y, k), 0) /\ Dot(x, y, k) \in Int
<1>1. Dot(x, y, k) \in Int /\ Dot(x, x, k) \in Int  BY DotInt
<1>2. \A i \in 1 .. k : Cong(y[i], 0 * x[i] + 0 * x[i])
  <2>1. ASSUME NEW i \in 1 .. k PROVE Cong(y[i], 0 * x[i] + 0 * x[i])
    <3>1. 0 * x[i] + 0 * x[i] = 0  BY DEF Ints
    <3>2. Cong(0, 0)  BY CongRefl
    <3> QED BY <3>1, <3>2
  <2> QED BY <2>1
<1>3. 0 \in Int  OBVIOUS
<1>4. Cong(Dot(y, x, k), 0 * Dot(x, x, k) + 0 * Dot(x, x, k))
  BY <1>2, <1>3, DotLinear
<1>5. 0 * Dot(x, x, k) + 0 * Dot(x, x, k) = 0  BY <1>1
<1>6. Dot(x, y, k) = Dot(y, x, k)  BY DotSym
<1> QED BY <1>1, <1>4, <1>5, <1>6

(* The part over V of what opens points that have none.                    *)
LEMMA OpensNoBlinding ==
  ASSUME NEW k \in Nat, NEW x, NEW y, FieldList(x, k), FieldList(y, k),
         NEW A, NEW B, Points(A, k), Points(B, k), NoBlinding(A, k), NoBlinding(B, k)
  PROVE  LET v == <<"V", 0>>
         IN  Cong(Opens(x, y, At(A, v, k), At(B, v, k), k, U[v]), 0)
<1> DEFINE v == <<"V", 0>>
           p == Dot(x, At(A, v, k), k)
           r == Dot(y, At(B, v, k), k)
           z == Dot(x, y, k)
<1>1. v \in Generators /\ U[v] = 0
  BY DEF Generators, U, Generator, Identity
<1>2. /\ \A i \in 1 .. k : At(A, v, k)[i] = 0
      /\ \A i \in 1 .. k : At(B, v, k)[i] = 0
  BY DEF NoBlinding, At
<1> HIDE DEF v
<1>3. Ints(x, k) /\ Ints(y, k) /\ Ints(At(A, v, k), k) /\ Ints(At(B, v, k), k)
  BY <1>1, FieldScalars, AtInts DEF Scalars
<1>4. Cong(p, 0) /\ p \in Int  BY <1>2, <1>3, DotOfZeros
<1>5. Cong(r, 0) /\ r \in Int  BY <1>2, <1>3, DotOfZeros
<1>6. z \in Int  BY <1>3, DotInt
<1> HIDE DEF p, r, z
<1>7. 0 \in Int /\ 0 + 0 = 0  OBVIOUS
<1>8. Cong(p + r, 0 + 0)  BY <1>4, <1>5, <1>7, CongAdd
<1>9. p + r + z * 0 = p + r  BY <1>4, <1>5, <1>6
<1>10. Opens(x, y, At(A, v, k), At(B, v, k), k, 0) = p + r + z * 0  BY DEF Opens, p, r, z
<1> QED BY <1>1, <1>7, <1>8, <1>9, <1>10 DEF v

(* What a round sends, its part over V removed, is what create_orig sends. *)
LEMMA UnblindedSends ==
  ASSUME NEW X, NEW h \in Nat, NEW x, NEW y, FieldList(x, h), FieldList(y, h),
         NEW A, NEW B, Points(A, h), Points(B, h), NoBlinding(A, h), NoBlinding(B, h),
         NEW d \in Int, Sends(X, x, y, A, B, h, d)
  PROVE  Unblind(X) = Eager!CrossTerm(x, y, A, B)
<1> DEFINE Y == Msm(x \o y \o <<InnerProduct(x, y)>>, A \o B \o <<U>>)
           v == <<"V", 0>>
           o(g) == Opens(x, y, At(A, g, h), At(B, g, h), h, U[g])
<1>1. Eager!CrossTerm(x, y, A, B) = Y
  BY EagerMsm, EagerInner, EagerGenerators DEF Eager!CrossTerm
<1>2. Y \in Point /\ \A g \in Generators : o(g) \in Int /\ Cong(Y[g], o(g))
  BY OpensAt
<1>3. X \in Point /\ \A g \in Generators : Cong(X[g], o(g) + d * V[g])
  BY DEF Sends
<1>4. Cong(o(v), 0)  BY OpensNoBlinding
<1>5. v \in Generators  BY DEF Generators
<1>6. \A g \in Generators : g # v => V[g] = 0
  BY DEF V, Generator, Identity
<1> HIDE DEF Y, v, o
<1>7. /\ Unblind(X) \in Point
      /\ Unblind(X)[v] = 0
      /\ \A g \in Generators : g # v => Unblind(X)[g] = X[g]
  BY <1>3, <1>5, GeneratorPoint DEF Unblind, Point, v
<1>8. ASSUME NEW g \in Generators PROVE Cong(Unblind(X)[g], Y[g])
  <2>1. Y[g] \in Int /\ X[g] \in Int /\ o(g) \in Int /\ Cong(Y[g], o(g)) /\ 0 \in Int
    BY <1>2, <1>3, CoefficientInt
  <2>2. Cong(o(g), Y[g])  BY <2>1, CongSym
  <2>3. CASE g = v
    <3>1. Cong(0, o(g))  BY <1>4, <2>1, <2>3, CongSym
    <3>2. Cong(0, Y[g])  BY <2>1, <2>2, <3>1, CongTrans
    <3> QED BY <1>7, <2>3, <3>2
  <2>4. CASE g # v
    <3>1. o(g) + d * 0 = o(g)  BY <2>1
    <3>2. Cong(X[g], o(g))  BY <1>3, <1>6, <2>4, <3>1
    <3>3. Cong(X[g], Y[g])  BY <2>1, <2>2, <3>2, CongTrans
    <3> QED BY <1>7, <2>4, <3>3
  <2> QED BY <2>3, <2>4
<1>9. Unblind(X) = Y  BY <1>2, <1>7, <1>8, PointsEqual
<1> QED BY <1>1, <1>9

(* The halves of points with no part of V have none.                       *)
LEMMA HalvesNoBlinding ==
  ASSUME NEW h \in Nat, NEW X, Points(X, h + h), NoBlinding(X, h + h)
  PROVE  /\ Points(Left(X, h), h) /\ Points(Right(X, h), h)
         /\ NoBlinding(Left(X, h), h) /\ NoBlinding(Right(X, h), h)
<1>1. Halves(X, Left(X, h), Right(X, h), h)  BY ListHalves DEF Points
<1> QED BY <1>1 DEF Halves, Points, NoBlinding

(* What IPAFold's state is in a state of this module.                      *)
EagerInst(x) == [f \in {"a", "b", "gf", "hf"} |-> x[f]]
EagerG == IF us = <<>> THEN BasesG(n) ELSE Values(G_bases)
EagerH == IF us = <<>> THEN BasesH(n) ELSE Values(H_bases)
Unblinded(s) == [i \in DOMAIN s |-> Unblind(s[i])]

(* The arguments of create_orig are those of create without the blinding.  *)
LEMMA EagerInstIs ==
  ASSUME NEW x
  PROVE  /\ EagerInst(x).a = x.a /\ EagerInst(x).b = x.b
         /\ EagerInst(x).gf = x.gf /\ EagerInst(x).hf = x.hf
BY DEF EagerInst

(* The eager bases with their factors are what the symbolic ones stand for.*)
LEMMA EagerFactored ==
  ASSUME DInv, pc # "idle"
  PROVE  /\ Eager!Factored(EagerG, inst.gf) = Values(G_bases)
         /\ Eager!Factored(EagerH, inst.hf) = Values(H_bases)
<1>1. CASE us # <<>>  BY <1>1 DEF Eager!Factored, EagerG, EagerH
<1>2. CASE us = <<>>
  <2> DEFINE A == BasesG(n)
             B == BasesH(n)
             gf == inst.gf
             hf == inst.hf
  <2>1. n \in Nat /\ n = Len(inst.a) /\ n <= N
    <3>1. Len(us) = 0  BY <1>2
    <3>2. n * 1 = Len(inst.a) /\ n \in Nat  BY <3>1, Pow2Law DEF DInv, BlindShape
    <3>3. Len(inst.a) \in 1 .. N  BY DEF DInv, CallTyped, Callable
    <3> QED BY <3>2, <3>3, BasesAssumption
  <2>2. FieldList(gf, n) /\ FieldList(hf, n)
    <3>1. IsCall(inst)  BY InstancesAreCalls DEF DInv, CallTyped
    <3> QED BY <2>1, <3>1 DEF IsCall
  <2>3. Points(A, n) /\ Points(B, n)  BY <2>1, BasesPoints
  <2>4. DOMAIN A = 1 .. n /\ DOMAIN B = 1 .. n  BY DEF BasesG, BasesH
  <2>5. G_bases = DeferInit(gf, A) /\ H_bases = DeferInit(hf, B)
    BY <1>2 DEF DInv, BasesOfCall
  <2>6. EagerG = A /\ EagerH = B  BY <1>2 DEF EagerG, EagerH
  <2> HIDE DEF A, B, gf, hf
  <2>7. /\ Values(G_bases) = [i \in 1 .. n |-> Msm(<<gf[i]>>, <<A[i]>>)]
        /\ Values(H_bases) = [i \in 1 .. n |-> Msm(<<hf[i]>>, <<B[i]>>)]
    BY <2>1, <2>2, <2>3, <2>5, InitValues
  <2>8. /\ Eager!Factored(A, gf) = [i \in 1 .. n |-> Msm(<<gf[i]>>, <<A[i]>>)]
        /\ Eager!Factored(B, hf) = [i \in 1 .. n |-> Msm(<<hf[i]>>, <<B[i]>>)]
    BY <1>2, <2>4, EagerMsm DEF Eager!Factored
  <2> QED BY <2>6, <2>7, <2>8 DEF gf, hf
<1> QED BY <1>1, <1>2

(* The initial state is one of create_orig.                                *)
LEMMA EagerInit == Init => Eager!Init
<1> SUFFICES ASSUME Init PROVE Eager!Init  OBVIOUS
<1>1. EagerInst(NoCall) = Eager!NoCall  BY DEF EagerInst, NoCall, Eager!NoCall
<1>2. BasesG(0) = <<>> /\ BasesH(0) = <<>>  BY DEF BasesG, BasesH
<1>3. EagerG = <<>> /\ EagerH = <<>>  BY <1>2 DEF Init, EagerG, EagerH
<1>4. Unblinded(L_vec) = <<>> /\ Unblinded(R_vec) = <<>>  BY DEF Init, Unblinded
<1>5. EagerInst(inst) = Eager!NoCall  BY <1>1 DEF Init
<1> QED BY <1>3, <1>4, <1>5 DEF Init, Eager!Init, EagerInst, EagerG, EagerH, Unblinded

(* A call is one of create_orig.                                           *)
LEMMA EagerCall ==
  ASSUME DInv, NEW x, Callable(x), Call(x)
  PROVE  Eager!Call(EagerInst(x))
<1>1. us = <<>> /\ us' = <<>>  BY DEF DInv, CallTyped, Call
<1>2. n' = Len(x.a)  BY DEF Call
<1>3. EagerG' = BasesG(Len(x.a)) /\ EagerH' = BasesH(Len(x.a))
  BY <1>1, <1>2 DEF EagerG, EagerH
<1>4. EagerInst(inst)' = EagerInst(x)  BY DEF EagerInst, Call
<1>5. Unblinded(L_vec)' = Unblinded(L_vec) /\ Unblinded(R_vec)' = Unblinded(R_vec)
  BY DEF Call, Unblinded
<1>6. /\ pc = "idle" /\ pc' = "fold" /\ n' = Len(EagerInst(x).a)
      /\ a' = EagerInst(x).a /\ b' = EagerInst(x).b
  BY EagerInstIs DEF Call
<1>7. /\ EagerG' = Eager!BasesG(Len(EagerInst(x).a))
      /\ EagerH' = Eager!BasesH(Len(EagerInst(x).a))
  BY <1>3, EagerInstIs, EagerGenerators
<1> DEFINE y == EagerInst(x)
<1> HIDE DEF y
<1>8. Eager!Call(y)
  BY <1>1, <1>4, <1>5, <1>6, <1>7 DEF Eager!Call, EagerG, EagerH, EagerInst, Unblinded, y
<1> QED BY <1>8 DEF y

(* Unblinding a list to which a point was appended.                        *)
LEMMA UnblindedAppend ==
  ASSUME NEW k \in Nat, NEW s, IsList(s, k), NEW X
  PROVE  Unblinded(Append(s, X)) = Append(Unblinded(s), Unblind(X))
<1> DEFINE r == Append(s, X)
           us1 == Unblinded(s)
           ur == Append(us1, Unblind(X))
<1>1. Appends(r, s, X, k)  BY ListAppend
<1>2. DOMAIN s = 1 .. k  BY DEF IsList
<1>3. IsList(us1, k) /\ \A i \in 1 .. k : us1[i] = Unblind(s[i])
  BY <1>2 DEF Unblinded, IsList
<1> HIDE DEF us1, r
<1>4. Appends(ur, us1, Unblind(X), k)  BY <1>3, ListAppend
<1>5. DOMAIN r = 1 .. k + 1  BY <1>1 DEF Appends, IsList
<1>6. /\ IsList(Unblinded(r), k + 1)
      /\ \A i \in 1 .. k + 1 : Unblinded(r)[i] = Unblind(r[i])
  BY <1>5 DEF Unblinded, IsList
<1> HIDE DEF ur
<1>7. \A i \in 1 .. k + 1 : Unblinded(r)[i] = ur[i]
  <2>1. ASSUME NEW i \in 1 .. k PROVE Unblinded(r)[i] = ur[i]
    <3>1. i \in 1 .. k + 1  OBVIOUS
    <3>2. Unblinded(r)[i] = Unblind(r[i])  BY <1>6, <3>1
    <3>3. r[i] = s[i] /\ ur[i] = us1[i]  BY <1>1, <1>4 DEF Appends
    <3>4. us1[i] = Unblind(s[i])  BY <1>3
    <3> QED BY <3>2, <3>3, <3>4
  <2>2. Unblinded(r)[k + 1] = ur[k + 1]
    <3>1. k + 1 \in 1 .. k + 1  OBVIOUS
    <3>2. Unblinded(r)[k + 1] = Unblind(r[k + 1])  BY <1>6, <3>1
    <3>3. r[k + 1] = X /\ ur[k + 1] = Unblind(X)  BY <1>1, <1>4 DEF Appends
    <3> QED BY <3>2, <3>3
  <2>3. \A i \in 1 .. k + 1 : i \in 1 .. k \/ i = k + 1  OBVIOUS
  <2> QED BY <2>1, <2>2, <2>3
<1>8. k + 1 \in Nat  OBVIOUS
<1>9. Unblinded(r) = ur  BY <1>4, <1>6, <1>7, <1>8, SameList DEF Appends
<1> QED BY <1>9 DEF r, ur, us1

(* create_orig folds its bases to these points.                            *)
LEMMA EagerFoldBases ==
  \A X, h, l, r : Eager!FoldBases(X, h, l, r) = FoldedPoints(X, h, l, r)
BY EagerMsm DEF Eager!FoldBases, FoldedPoints

(* And its vectors the same way.                                           *)
LEMMA EagerFoldVec ==
  \A v, h, l, r : Eager!FoldVec(v, h, l, r) = FoldVec(v, h, l, r)
BY DEF Eager!FoldVec, FoldVec

(* The L and R of a round, unblinded.                                      *)
LEMMA EagerSends ==
  ASSUME DInv, NEW h, NEW d_L, NEW d_R, NEW u, Rounds(h, u, d_L, d_R)
  PROVE  LET FG == Values(G_bases)
             FH == Values(H_bases)
         IN  /\ Unblinded(L_vec)' = Append(Unblinded(L_vec),
                   Eager!CrossTerm(Left(a, h), Right(b, h), Right(FG, h), Left(FH, h)))
             /\ Unblinded(R_vec)' = Append(Unblinded(R_vec),
                   Eager!CrossTerm(Right(a, h), Left(b, h), Left(FG, h), Right(FH, h)))
<1> DEFINE k == Len(us)
           t == terms_per_base
           FG == Values(G_bases)
           FH == Values(H_bases)
           al == Left(a, h)
           ar == Right(a, h)
           bl == Left(b, h)
           br == Right(b, h)
           Gl == Left(FG, h)
           Gr == Right(FG, h)
           Hl == Left(FH, h)
           Hr == Right(FH, h)
           L == CrossTerm(al, br, SplitR(G_bases, h), SplitL(H_bases, h), d_L)
           R == CrossTerm(ar, bl, SplitL(G_bases, h), SplitR(H_bases, h), d_R)
<1>1. /\ h \in Nat \ {0} /\ h \in Nat /\ n = h + h /\ d_L \in Int /\ d_R \in Int
      /\ RoundFolds(a, b, FG, FH, a', b', Values(G_bases'), Values(H_bases'), h, u, Inv(u))
      /\ L_vec' = Append(L_vec, L) /\ R_vec' = Append(R_vec, R)
  BY DEF Rounds
<1>2. /\ k \in Nat /\ IsList(L_vec, k) /\ IsList(R_vec, k)
      /\ t \in Nat /\ SymbolicBases(G_bases, n, t) /\ SymbolicBases(H_bases, n, t)
      /\ NoBlinding(FG, n) /\ NoBlinding(FH, n)
  BY DEF DInv, BlindShape, BasesOfCall, Points
<1>3. /\ SymbolicBases(G_bases, h + h, t) /\ SymbolicBases(H_bases, h + h, t)
      /\ NoBlinding(FG, h + h) /\ NoBlinding(FH, h + h)
  BY <1>1, <1>2
<1> HIDE DEF k, t
<1>4. /\ SymbolicBases(SplitL(G_bases, h), h, t) /\ SymbolicBases(SplitR(G_bases, h), h, t)
      /\ Values(SplitL(G_bases, h)) = Gl /\ Values(SplitR(G_bases, h)) = Gr
  BY <1>1, <1>2, <1>3, SplitValues
<1>5. /\ SymbolicBases(SplitL(H_bases, h), h, t) /\ SymbolicBases(SplitR(H_bases, h), h, t)
      /\ Values(SplitL(H_bases, h)) = Hl /\ Values(SplitR(H_bases, h)) = Hr
  BY <1>1, <1>2, <1>3, SplitValues
<1> HIDE DEF FG, FH
<1>6. FieldList(a, h + h) /\ FieldList(b, h + h) /\ Points(FG, h + h) /\ Points(FH, h + h)
  BY <1>1 DEF RoundFolds
<1>7. /\ FieldList(al, h) /\ FieldList(ar, h) /\ FieldList(bl, h) /\ FieldList(br, h)
  BY <1>1, <1>6, HalfLists
<1>8. /\ Points(Gl, h) /\ Points(Gr, h) /\ NoBlinding(Gl, h) /\ NoBlinding(Gr, h)
      /\ Points(Hl, h) /\ Points(Hr, h) /\ NoBlinding(Hl, h) /\ NoBlinding(Hr, h)
  BY <1>1, <1>3, <1>6, HalvesNoBlinding
<1> HIDE DEF al, ar, bl, br, Gl, Gr, Hl, Hr
<1>9. Sends(L, al, br, Gr, Hl, h, d_L)
  BY <1>1, <1>2, <1>4, <1>5, <1>7, RoundSends
<1>10. Sends(R, ar, bl, Gl, Hr, h, d_R)
  BY <1>1, <1>2, <1>4, <1>5, <1>7, RoundSends
<1> HIDE DEF L, R
<1>11. Unblind(L) = Eager!CrossTerm(al, br, Gr, Hl)
  BY <1>1, <1>7, <1>8, <1>9, UnblindedSends
<1>12. Unblind(R) = Eager!CrossTerm(ar, bl, Gl, Hr)
  BY <1>1, <1>7, <1>8, <1>10, UnblindedSends
<1>13. /\ Unblinded(L_vec') = Append(Unblinded(L_vec), Unblind(L))
       /\ Unblinded(R_vec') = Append(Unblinded(R_vec), Unblind(R))
  BY <1>1, <1>2, UnblindedAppend
<1>14. Unblinded(L_vec)' = Unblinded(L_vec') /\ Unblinded(R_vec)' = Unblinded(R_vec')
  BY DEF Unblinded
<1> QED BY <1>11, <1>12, <1>13, <1>14 DEF al, ar, bl, br, Gl, Gr, Hl, Hr, FG, FH

(* A round is one of create_orig's.                                        *)
LEMMA EagerRound ==
  ASSUME DInv, NEW d_L \in Blinds, NEW d_R \in Blinds, NEW u \in Challenges, Round(d_L, d_R, u)
  PROVE  Eager!Fold(u)
<1> DEFINE h == n \div 2
           FG == Values(G_bases)
           FH == Values(H_bases)
<1>1. Rounds(h, u, d_L, d_R)  BY RoundShape
<1>2. /\ pc = "fold" /\ n # 1 /\ u # 0 /\ n' = h /\ pc' = pc /\ inst' = inst
      /\ us' = Append(us, u)
      /\ a' = FoldVec(a, h, u, Inv(u)) /\ b' = FoldVec(b, h, Inv(u), u)
  BY DEF Round
<1>3. /\ Eager!Factored(EagerG, inst.gf) = FG /\ Eager!Factored(EagerH, inst.hf) = FH
  BY <1>2, EagerFactored
<1>4. EagerG' = Values(G_bases') /\ EagerH' = Values(H_bases')
  <2>1. us' # <<>>  BY <1>1 DEF Rounds
  <2> QED BY <2>1 DEF EagerG, EagerH
<1>5. /\ Values(G_bases') = FoldedPoints(FG, h, Inv(u), u)
      /\ Values(H_bases') = FoldedPoints(FH, h, u, Inv(u))
  BY <1>1 DEF Rounds
<1> HIDE DEF h
<1>6. /\ Unblinded(L_vec)' = Append(Unblinded(L_vec),
           Eager!CrossTerm(Left(a, h), Right(b, h), Right(FG, h), Left(FH, h)))
      /\ Unblinded(R_vec)' = Append(Unblinded(R_vec),
           Eager!CrossTerm(Right(a, h), Left(b, h), Left(FG, h), Right(FH, h)))
  BY <1>1, EagerSends
<1> HIDE DEF FG, FH
<1>7. /\ EagerG' = Eager!FoldBases(FG, h, Eager!Inv(u), u)
      /\ EagerH' = Eager!FoldBases(FH, h, u, Eager!Inv(u))
  BY <1>4, <1>5, EagerFoldBases, EagerInv
<1>8. /\ a' = Eager!FoldVec(a, h, u, Eager!Inv(u)) /\ b' = Eager!FoldVec(b, h, Eager!Inv(u), u)
  BY <1>2, EagerFoldVec, EagerInv
<1>9. /\ Unblinded(L_vec)' = Append(Unblinded(L_vec),
           Eager!CrossTerm(Eager!Left(a, h), Eager!Right(b, h), Eager!Right(FG, h), Eager!Left(FH, h)))
      /\ Unblinded(R_vec)' = Append(Unblinded(R_vec),
           Eager!CrossTerm(Eager!Right(a, h), Eager!Left(b, h), Eager!Left(FG, h), Eager!Right(FH, h)))
  BY <1>6, EagerHalves
<1>10. EagerInst(inst)' = EagerInst(inst)  BY <1>2 DEF EagerInst
<1>11. FG = Eager!Factored(EagerG, EagerInst(inst).gf) /\ FH = Eager!Factored(EagerH, EagerInst(inst).hf)
  BY <1>3, EagerInstIs
<1>12. n' = n \div 2  BY <1>2 DEF h
<1>13. Eager!Fold(u)
  BY <1>2, <1>7, <1>8, <1>9, <1>10, <1>11, <1>12
     DEF Eager!Fold, EagerG, EagerH, EagerInst, Unblinded, h
<1> QED BY <1>13

(* Every step is one of create_orig, or leaves its state alone.            *)
LEMMA EagerNext == DInv /\ [Next]_vars => [Eager!Next]_(Eager!vars)
<1> SUFFICES ASSUME DInv, [Next]_vars PROVE [Eager!Next]_(Eager!vars)  OBVIOUS
<1>1. ASSUME NEW x \in Instances, Call(x) PROVE Eager!Next
  <2>1. Eager!Call(EagerInst(x))  BY <1>1, InstancesAssumption, EagerCall
  <2> QED BY <2>1 DEF Eager!Next, EagerInst
<1>2. ASSUME NEW d_L \in Blinds, NEW d_R \in Blinds, NEW u \in Challenges, Round(d_L, d_R, u)
      PROVE  Eager!Next
  <2>1. Eager!Fold(u)  BY <1>2, EagerRound
  <2> QED BY <2>1 DEF Eager!Next
<1>3. CASE ZeroChallenge
  <2>1. Eager!ZeroChallenge  BY <1>3 DEF ZeroChallenge, Eager!ZeroChallenge
  <2> QED BY <2>1 DEF Eager!Next
<1>4. ASSUME NEW d \in FinalDraws, NEW e \in Challenges, LastStep(d[1], d[2], d[3], d[4], e)
      PROVE  Eager!Next
  <2>1. Eager!Finish  BY <1>4 DEF LastStep, Eager!Finish
  <2> QED BY <2>1 DEF Eager!Next
<1>5. CASE UNCHANGED vars  BY <1>5 DEF vars, Eager!vars
<1> QED BY <1>1, <1>2, <1>3, <1>4, <1>5 DEF Next, Step

(* Deferring and collapsing change nothing: for every prime q, every       *)
(* length and all thresholds, blindings and challenges, each run of create *)
(* is one of create_orig, in every base, L and R.                          *)
THEOREM DeferredFoldsEagerly == Spec => FoldsEagerly
BY DInvHolds, EagerInit, EagerNext, PTL DEF Spec, FoldsEagerly, Eager!Spec

----------------------------------------------------------------------------
(* What verify accepts.                                                    *)

(* Each base the prover has left stands for the combination of the         *)
(* original ones, with their factors, that the verifier computes from the  *)
(* challenges.                                                             *)
SpreadBases ==
  LET k == Len(inst.a)
      c == VerificationScalars(us)
      m == Pow2[Len(us)]
  IN  /\ Spreads(Values(G_bases), FactoredBases(BasesG(k), inst.gf, k), c, m, n)
      /\ Spreads(Values(H_bases), FactoredBases(BasesH(k), inst.hf, k), Reverse(c), m, n)

(* The last step's points and scalars, made from draws.                    *)
Answers(p, r, s, delta, eta, e) ==
  /\ p.e = e
  /\ p.r = (r + a[1] * e) % q /\ p.s = (s + b[1] * e) % q
  /\ p.delta = (eta + delta * e + alpha * e * e) % q
  /\ p.A \in Point /\ p.B \in Point
  /\ \A g \in Generators :
       /\ Cong(p.A[g], r * Values(G_bases)[1][g] + s * Values(H_bases)[1][g]
                         + (r * b[1] + s * a[1]) * U[g] + delta * V[g])
       /\ Cong(p.B[g], (r * s) * U[g] + eta * V[g])

Answered == \E r, s, delta, eta \in Fq : Answers(proof, r, s, delta, eta, proof.e)

PInv ==
  /\ DInv
  /\ pc # "idle" => SpreadBases
  /\ pc = "done" => n = 1 /\ Answered

(* The bases of a call with their factors.                                 *)
LEMMA CallBases ==
  ASSUME NEW x, IsCall(x)
  PROVE  LET k == Len(x.a)
             FG == FactoredBases(BasesG(k), x.gf, k)
             FH == FactoredBases(BasesH(k), x.hf, k)
         IN  /\ k \in Nat /\ FieldList(x.gf, k) /\ FieldList(x.hf, k)
             /\ Points(BasesG(k), k) /\ Points(BasesH(k), k)
             /\ Points(FG, k) /\ Points(FH, k)
             /\ Values(DeferInit(x.gf, BasesG(k))) = FG
             /\ Values(DeferInit(x.hf, BasesH(k))) = FH
<1> DEFINE k == Len(x.a)
           f == x.gf
           e == x.hf
<1>1. k \in Nat /\ k <= N  BY BasesAssumption DEF IsCall
<1>2. FieldList(f, k) /\ FieldList(e, k)  BY DEF IsCall
<1> HIDE DEF k, f, e
<1>3. Points(BasesG(k), k) /\ Points(BasesH(k), k)  BY <1>1, BasesPoints
<1>4. Points(FactoredBases(BasesG(k), f, k), k)
  BY <1>1, <1>2, <1>3, ScaledPoints DEF FactoredBases
<1>5. Points(FactoredBases(BasesH(k), e, k), k)
  BY <1>1, <1>2, <1>3, ScaledPoints DEF FactoredBases
<1>6. Values(DeferInit(f, BasesG(k))) = FactoredBases(BasesG(k), f, k)
  BY <1>1, <1>2, <1>3, InitValues DEF FactoredBases
<1>7. Values(DeferInit(e, BasesH(k))) = FactoredBases(BasesH(k), e, k)
  BY <1>1, <1>2, <1>3, InitValues DEF FactoredBases
<1> QED BY <1>1, <1>2, <1>3, <1>4, <1>5, <1>6, <1>7 DEF k, f, e

(* A call starts with the original bases.                                  *)
LEMMA PInvCall ==
  ASSUME PInv, NEW x, Callable(x), Call(x)
  PROVE  PInv'
<1> DEFINE k == Len(x.a)
           FG == FactoredBases(BasesG(k), x.gf, k)
           FH == FactoredBases(BasesH(k), x.hf, k)
<1>1. DInv'  BY DInvCall DEF PInv
<1>2. IsCall(x)  BY InstancesAreCalls
<1>3. /\ k \in Nat /\ Points(FG, k) /\ Points(FH, k)
      /\ Values(DeferInit(x.gf, BasesG(k))) = FG /\ Values(DeferInit(x.hf, BasesH(k))) = FH
  BY <1>2, CallBases
<1>4. /\ inst' = x /\ n' = k /\ pc' = "fold" /\ us' = us
      /\ G_bases' = DeferInit(x.gf, BasesG(k)) /\ H_bases' = DeferInit(x.hf, BasesH(k))
  BY DEF Call
<1>5. us = <<>> /\ Len(us) = 0  BY DEF PInv, DInv, CallTyped, Call
<1>6. Values(G_bases') = FG /\ Values(H_bases') = FH  BY <1>3, <1>4
<1>7. /\ FactoredBases(BasesG(Len(inst'.a)), inst'.gf, Len(inst'.a)) = FG
      /\ FactoredBases(BasesH(Len(inst'.a)), inst'.hf, Len(inst'.a)) = FH
  BY <1>4
<1>8. VerificationScalars(us') = <<1>> /\ Reverse(VerificationScalars(us')) = <<1>>
  <2>1. FieldList(us, 0)  BY <1>5 DEF PInv, DInv, BlindShape
  <2>2. VerificationScalars(us) = <<1>> /\ Reverse(<<1>>) = <<1>>  BY <2>1, ScalarsNone
  <2> QED BY <1>4, <2>2
<1>9. Pow2[Len(us')] = 1  BY <1>4, <1>5, Pow2Law
<1> HIDE DEF FG, FH, k
<1>10. Spreads(FG, FG, <<1>>, 1, k) /\ Spreads(FH, FH, <<1>>, 1, k)
  BY <1>3, SpreadsStart
<1>11. SpreadBases'  BY <1>4, <1>6, <1>7, <1>8, <1>9, <1>10 DEF SpreadBases
<1> QED BY <1>1, <1>4, <1>11 DEF PInv

(* A round combines them in pairs.                                         *)
LEMMA PInvRound ==
  ASSUME PInv, NEW d_L \in Blinds, NEW d_R \in Blinds, NEW u \in Challenges, Round(d_L, d_R, u)
  PROVE  PInv'
<1> DEFINE h == n \div 2
           k == Len(us)
           m == Pow2[k]
           len == Len(inst.a)
           X == Values(G_bases)
           Y == Values(H_bases)
           XX == Values(G_bases')
           YY == Values(H_bases')
           FG == FactoredBases(BasesG(len), inst.gf, len)
           FH == FactoredBases(BasesH(len), inst.hf, len)
           c == VerificationScalars(us)
           cc == VerificationScalars(us')
           d == Reverse(c)
           dd == Reverse(cc)
<1>1. DInv' /\ DInv  BY DInvRound DEF PInv
<1>2. Rounds(h, u, d_L, d_R)  BY <1>1, RoundShape
<1> HIDE DEF h
<1>3. /\ h \in Nat /\ n = h + h /\ u \in Fq /\ u # 0
      /\ RoundFolds(a, b, X, Y, a', b', XX, YY, h, u, Inv(u))
      /\ Appends(us', us, u, k) /\ Len(us') = k + 1
      /\ n' = h /\ pc = "fold" /\ pc' = "fold" /\ inst' = inst
  BY <1>2 DEF Rounds
<1>4. IsCall(inst)  BY <1>1, <1>3, InstancesAreCalls DEF DInv, CallTyped
<1>5. len \in Nat /\ Points(FG, len) /\ Points(FH, len)  BY <1>4, CallBases
<1>6. k \in Nat /\ FieldList(us, k) /\ n * m = len  BY <1>1 DEF DInv, BlindShape
<1>7. FieldList(us', k + 1)  BY <1>1, <1>3 DEF DInv, BlindShape
<1>8. m \in Nat /\ Pow2[k + 1] = 2 * m  BY <1>6, Pow2Law
<1>9. FieldList(c, m) /\ FieldList(cc, 2 * m) /\ Doubled(c, cc, Inv(u), u, m)
  BY <1>3, <1>6, <1>7, ScalarsDouble
<1>10. Spreads(X, FG, c, m, n) /\ Spreads(Y, FH, d, m, n)
  BY <1>3 DEF PInv, SpreadBases
<1>11. /\ FactoredBases(BasesG(Len(inst'.a)), inst'.gf, Len(inst'.a)) = FG
       /\ FactoredBases(BasesH(Len(inst'.a)), inst'.hf, Len(inst'.a)) = FH
  BY <1>3
<1>12. Pow2[Len(us')] = 2 * m  BY <1>3, <1>8
<1> HIDE DEF k, m, len, X, Y, XX, YY, FG, FH, c, cc
<1>13. FieldList(d, m) /\ FieldList(dd, 2 * m) /\ Doubled(d, dd, u, Inv(u), m)
  BY <1>8, <1>9, ReverseDouble
<1> HIDE DEF d, dd
<1>14. Inv(u) \in Int /\ u \in Int  BY <1>3, InvLaw
<1>15. Points(FG, m * (h + h)) /\ Points(FH, m * (h + h))
  <2>1. m * (h + h) = len  BY <1>3, <1>6, <1>8
  <2> QED BY <1>5, <2>1
<1>16. /\ Points(X, h + h) /\ Points(Y, h + h) /\ Points(XX, h) /\ Points(YY, h)
       /\ \A g \in Generators : Folded(At(XX, g, h), At(X, g, h + h), h, Inv(u), u)
       /\ \A g \in Generators : Folded(At(YY, g, h), At(Y, g, h + h), h, u, Inv(u))
  BY <1>3 DEF RoundFolds
<1>17. Spreads(XX, FG, cc, 2 * m, h)
  <2>1. Spreads(X, FG, c, m, h + h)  BY <1>3, <1>10
  <2> QED BY <1>3, <1>8, <1>9, <1>14, <1>15, <1>16, <2>1, SpreadsFold
<1>18. Spreads(YY, FH, dd, 2 * m, h)
  <2>1. Spreads(Y, FH, d, m, h + h)  BY <1>3, <1>10
  <2> QED BY <1>3, <1>8, <1>13, <1>14, <1>15, <1>16, <2>1, SpreadsFold
<1>19. SpreadBases'
  BY <1>3, <1>11, <1>12, <1>17, <1>18 DEF SpreadBases, XX, YY, cc, dd
<1> QED BY <1>1, <1>3, <1>19 DEF PInv

(* What the last step proves is what its draws and its bases make.         *)
LEMMA LastAnswers ==
  ASSUME DInv, NEW d \in FinalDraws, NEW e \in Challenges, LastStep(d[1], d[2], d[3], d[4], e)
  PROVE  Answers(proof', d[1], d[2], d[3], d[4], e)
<1> DEFINE r == d[1]
           s == d[2]
           delta == d[3]
           eta == d[4]
           c == (r * b[1] + s * a[1]) % q
           rs == (r * s) % q
           t == terms_per_base
           gs == FlattenSeq([i \in 1 .. 1 |-> ScalarMul(G_bases.scalars[i], <<r>>[i])])
           hs == FlattenSeq([i \in 1 .. 1 |-> ScalarMul(H_bases.scalars[i], <<s>>[i])])
           gb == FlattenSeq(G_bases.bases)
           hb == FlattenSeq(H_bases.bases)
           FG == Values(G_bases)
           FH == Values(H_bases)
           A == Msm(gs \o hs \o <<c, delta>>, gb \o hb \o <<U, V>>)
           B == Msm(<<rs, eta>>, <<U, V>>)
<1>1. n = 1  BY DEF LastStep
<1>2. /\ r \in Fq /\ s \in Fq /\ delta \in Fq /\ eta \in Fq /\ e \in Fq
      /\ r \in Int /\ s \in Int /\ delta \in Int /\ eta \in Int /\ e \in Int
  BY DrawsAssumption DEF Fq
<1>3. /\ FieldList(a, 1) /\ FieldList(b, 1) /\ alpha \in Int /\ t \in Nat
      /\ SymbolicBases(G_bases, 1, t) /\ SymbolicBases(H_bases, 1, t)
  BY <1>1 DEF DInv, BlindShape, Fq
<1>4. a[1] \in Int /\ b[1] \in Int  BY <1>3 DEF FieldList, Fq
<1>5. GetScalars(G_bases, <<r>>) = gs /\ GetScalars(H_bases, <<s>>) = hs
  BY DEF GetScalars
<1>6. proof' = [A |-> A, B |-> B, r |-> (r + a[1] * e) % q, s |-> (s + b[1] * e) % q,
                delta |-> (eta + delta * e + alpha * e * e) % q, e |-> e]
  <2> HIDE DEF r, s, delta, eta, gs, hs
  <2> QED BY <1>5 DEF LastStep, GetBases, r, s, delta, eta
<1>7. /\ c \in Int /\ Cong(c, r * b[1] + s * a[1]) /\ r * b[1] + s * a[1] \in Int
      /\ rs \in Int /\ Cong(rs, r * s) /\ r * s \in Int
  <2>1. r * b[1] \in Int /\ s * a[1] \in Int /\ r * s \in Int  BY <1>2, <1>4
  <2>2. r * b[1] + s * a[1] \in Int  BY <2>1
  <2> HIDE DEF r, s
  <2> QED BY <2>1, <2>2, ModCong DEF Fq
<1>8. FieldList(<<r>>, 1) /\ FieldList(<<s>>, 1)  BY <1>2 DEF FieldList, IsList
<1>9. 1 \in Nat \ {0} /\ 1 * t \in Nat /\ 1 \in Nat  BY <1>3
<1>10. /\ FG = Stand(G_bases.scalars, G_bases.bases, 1) /\ Points(FG, 1)
       /\ FH = Stand(H_bases.scalars, H_bases.bases, 1) /\ Points(FH, 1)
  BY <1>3, <1>9, ValuesStand
<1>11. <<r>>[1] = r /\ <<s>>[1] = s  OBVIOUS
<1> DEFINE lr == <<r>>
           ls == <<s>>
<1> HIDE DEF FG, FH
<1>12. /\ Scalars(gs, 1 * t) /\ Points(gb, 1 * t)
       /\ \A g \in Generators : Cong(MDot(gs, gb, g, 1 * t), Dot(lr, At(FG, g, 1), 1))
  <2> HIDE DEF r, s, t, delta, eta, c
  <2> QED BY <1>3, <1>8, <1>9, <1>10, SymbolicDot DEF SymbolicBases
<1>13. /\ Scalars(hs, 1 * t) /\ Points(hb, 1 * t)
       /\ \A g \in Generators : Cong(MDot(hs, hb, g, 1 * t), Dot(ls, At(FH, g, 1), 1))
  <2> HIDE DEF r, s, t, delta, eta, c
  <2> QED BY <1>3, <1>8, <1>9, <1>10, SymbolicDot DEF SymbolicBases
<1>14. U \in Point /\ V \in Point  BY GeneratorPoint
<1> HIDE DEF r, s, t, delta, eta, c, rs, gs, hs, gb, hb
<1>15. /\ Scalars(<<c, delta>>, 2) /\ Points(<<U, V>>, 2)
       /\ \A g \in Generators : MDot(<<c, delta>>, <<U, V>>, g, 2) = c * U[g] + delta * V[g]
  BY <1>2, <1>7, <1>14, MsmTwo
<1>16. /\ A \in Point
       /\ \A g \in Generators :
            LET at == MDot(gs, gb, g, 1 * t) + MDot(hs, hb, g, 1 * t)
                        + MDot(<<c, delta>>, <<U, V>>, g, 2)
            IN  at \in Int /\ Cong(A[g], at)
  <2> DEFINE cd == <<c, delta>>
             uv == <<U, V>>
             k == 1 * t
  <2>1. Scalars(gs, k) /\ Scalars(hs, k) /\ Scalars(cd, 2) /\ Points(gb, k) /\ Points(hb, k)
        /\ Points(uv, 2) /\ k \in Nat /\ 2 \in Nat
    BY <1>9, <1>12, <1>13, <1>15
  <2> HIDE DEF cd, uv, k
  <2>2. /\ Msm(gs \o hs \o cd, gb \o hb \o uv) \in Point
        /\ \A g \in Generators :
             LET at == MDot(gs, gb, g, k) + MDot(hs, hb, g, k) + MDot(cd, uv, g, 2)
             IN  at \in Int /\ Cong(Msm(gs \o hs \o cd, gb \o hb \o uv)[g], at)
    BY <2>1, MsmThree
  <2> QED BY <2>2 DEF cd, uv, k
<1>17. /\ B \in Point
       /\ \A g \in Generators : B[g] = (rs * U[g] + eta * V[g]) % q
  BY <1>2, <1>7, <1>14, MsmTwo
<1> HIDE DEF A, B
<1>18. ASSUME NEW g \in Generators
       PROVE  /\ Cong(A[g], r * FG[1][g] + s * FH[1][g] + (r * b[1] + s * a[1]) * U[g] + delta * V[g])
              /\ Cong(B[g], (r * s) * U[g] + eta * V[g])
  <2> DEFINE x == FG[1][g]
             y == FH[1][g]
             u == U[g]
             v == V[g]
             m1 == MDot(gs, gb, g, 1 * t)
             m2 == MDot(hs, hb, g, 1 * t)
             cc == r * b[1] + s * a[1]
             Ag == A[g]
             Bg == B[g]
  <2>1. x \in Int /\ y \in Int /\ u \in Int /\ v \in Int /\ Ag \in Int /\ Bg \in Int
    BY <1>10, <1>14, <1>16, <1>17, CoefficientInt DEF Points
  <2>2. At(FG, g, 1)[1] = x /\ At(FH, g, 1)[1] = y  BY DEF At
  <2>3. lr[1] = r /\ ls[1] = s  BY <1>11
  <2>4. Dot(lr, At(FG, g, 1), 1) = r * x /\ Dot(ls, At(FH, g, 1), 1) = s * y
    <3> HIDE DEF x, y, lr, ls
    <3> QED BY <1>2, <2>1, <2>2, <2>3, DotOne
  <2>5. Cong(m1, r * x) /\ Cong(m2, s * y)  BY <1>12, <1>13, <2>4
  <2>6. m1 \in Int /\ m2 \in Int
    <3>1. Ints(gs, 1 * t) /\ Ints(hs, 1 * t)  BY <1>12, <1>13 DEF Scalars
    <3>2. Ints(At(gb, g, 1 * t), 1 * t) /\ Ints(At(hb, g, 1 * t), 1 * t)
      BY <1>9, <1>12, <1>13, AtInts
    <3> QED BY <1>9, <3>1, <3>2, DotInt DEF MDot
  <2>7. MDot(<<c, delta>>, <<U, V>>, g, 2) = c * u + delta * v  BY <1>15
  <2>8. Cong(Ag, m1 + m2 + (c * u + delta * v))  BY <1>16, <2>7
  <2>9. cc \in Int /\ Cong(c, cc)  BY <1>7
  <2>10. Bg = (rs * u + eta * v) % q  BY <1>17
  <2> HIDE DEF x, y, u, v, m1, m2, Ag, Bg, cc
  <2>11. Both(m1, r * x) /\ Both(m2, s * y)  BY <1>2, <2>1, <2>5, <2>6 DEF Both
  <2>12. Both(c * u, cc * u) /\ Both(delta * v, delta * v)
    <3>1. delta * v \in Int  BY <1>2, <2>1
    <3>2. Cong(delta * v, delta * v)  BY <3>1, CongRefl
    <3> QED BY <1>7, <2>1, <2>9, <3>1, <3>2, CongScaled DEF Both
  <2>13. Both(m1 + m2, r * x + s * y)  BY <2>11, BothAdd
  <2>14. Both(c * u + delta * v, cc * u + delta * v)  BY <2>12, BothAdd
  <2> DEFINE p1 == r * x
             p2 == s * y
             p3 == cc * u
             p4 == delta * v
             p5 == c * u
  <2>15. Both((m1 + m2) + (p5 + p4), (p1 + p2) + (p3 + p4))  BY <2>13, <2>14, BothAdd
  <2>16. p1 \in Int /\ p2 \in Int /\ p3 \in Int /\ p4 \in Int  BY <1>2, <2>1, <2>9
  <2> HIDE DEF p1, p2, p3, p4, p5
  <2>17. (p1 + p2) + (p3 + p4) = p1 + p2 + p3 + p4  BY <2>16
  <2>18. Cong(Ag, m1 + m2 + (p5 + p4))  BY <2>8 DEF p4, p5
  <2>19. Cong(Ag, p1 + p2 + p3 + p4)
    <3> DEFINE z1 == m1 + m2 + (p5 + p4)
               z2 == p1 + p2 + p3 + p4
    <3>1. z1 \in Int /\ z2 \in Int /\ Cong(z1, z2) /\ Cong(Ag, z1)
      BY <2>15, <2>17, <2>18 DEF Both
    <3> HIDE DEF z1, z2
    <3>2. Cong(Ag, z2)  BY <2>1, <3>1, CongTrans
    <3> QED BY <3>2 DEF z2
  <2>20. Cong(Bg, (r * s) * u + eta * v)
    <3>1. Both(rs * u, (r * s) * u)  BY <1>7, <2>1, CongScaled DEF Both
    <3>2. eta * v \in Int  BY <1>2, <2>1
    <3>3. Both(eta * v, eta * v)  BY <3>2, CongRefl DEF Both
    <3>4. Both(rs * u + eta * v, (r * s) * u + eta * v)  BY <3>1, <3>3, BothAdd
    <3> DEFINE z1 == rs * u + eta * v
               z2 == (r * s) * u + eta * v
    <3>5. z1 \in Int /\ z2 \in Int /\ Cong(z1, z2) /\ Bg = z1 % q
      BY <2>10, <3>4 DEF Both
    <3> HIDE DEF z1, z2
    <3>6. Cong(Bg, z1)  BY <3>5, ModCong
    <3>7. Cong(Bg, z2)  BY <2>1, <3>5, <3>6, CongTrans
    <3> QED BY <3>7 DEF z2
  <2> QED BY <2>19, <2>20 DEF x, y, u, v, Ag, Bg, cc, p1, p2, p3, p4
<1>19. /\ proof'.e = e /\ proof'.A = A /\ proof'.B = B
       /\ proof'.r = (r + a[1] * e) % q /\ proof'.s = (s + b[1] * e) % q
       /\ proof'.delta = (eta + delta * e + alpha * e * e) % q
  BY <1>6
<1> QED BY <1>16, <1>17, <1>18, <1>19 DEF Answers, r, s, delta, eta, FG, FH

(* Every step keeps the invariant.                                         *)
LEMMA PInvNext == PInv /\ [Next]_vars => PInv'
<1> SUFFICES ASSUME PInv, [Next]_vars PROVE PInv'  OBVIOUS
<1>1. ASSUME NEW x \in Instances, Call(x) PROVE PInv'
  BY <1>1, InstancesAssumption, PInvCall
<1>2. ASSUME NEW d_L \in Blinds, NEW d_R \in Blinds, NEW u \in Challenges, Round(d_L, d_R, u)
      PROVE  PInv'
  BY <1>2, PInvRound
<1>3. DInv /\ DInv'  BY DInvNext DEF PInv
<1>4. ASSUME UNCHANGED <<inst, n, a, b, alpha, G_bases, H_bases, us>>
      PROVE  pc # "idle" => SpreadBases'
  <2>1. SpreadBases' <=> SpreadBases  BY <1>4 DEF SpreadBases
  <2> QED BY <2>1 DEF PInv
<1>5. CASE ZeroChallenge
  BY <1>3, <1>4, <1>5 DEF ZeroChallenge, PInv
<1>6. ASSUME NEW d \in FinalDraws, NEW e \in Challenges, LastStep(d[1], d[2], d[3], d[4], e)
      PROVE  PInv'
  <2>1. Answers(proof', d[1], d[2], d[3], d[4], e)  BY <1>3, <1>6, LastAnswers
  <2>2. d[1] \in Fq /\ d[2] \in Fq /\ d[3] \in Fq /\ d[4] \in Fq  BY DrawsAssumption
  <2>3. /\ UNCHANGED <<inst, n, a, b, alpha, G_bases, H_bases, us>>
        /\ pc' = "done" /\ pc # "idle" /\ n = 1
    BY <1>6 DEF LastStep
  <2>4. proof'.e = e  BY <2>1 DEF Answers
  <2>5. Answered'
    <3>1. \E r, s, delta, eta \in Fq : Answers(proof', r, s, delta, eta, proof'.e)
      BY <2>1, <2>2, <2>4
    <3> QED BY <2>3, <3>1 DEF Answered, Answers
  <2> QED BY <1>3, <1>4, <2>3, <2>5 DEF PInv
<1>7. CASE UNCHANGED vars
  <2>1. UNCHANGED <<inst, n, a, b, alpha, G_bases, H_bases, us>> /\ pc' = pc /\ proof' = proof
    BY <1>7 DEF vars
  <2>2. Answered' <=> Answered  BY <2>1 DEF Answered, Answers
  <2> QED BY <1>3, <1>4, <2>1, <2>2 DEF PInv
<1> QED BY <1>1, <1>2, <1>5, <1>6, <1>7 DEF Next, Step

(* It holds in every state of every run.                                   *)
LEMMA PInvHolds == Spec => []PInv
<1>1. Init => PInv  BY DInvInit DEF PInv, Init
<1> QED BY <1>1, PInvNext, PTL DEF Spec

(* The verifier's MSM of a completed proof, over any base.                 *)
Expects(P) ==
  /\ ExpectB(P) \in Point
  /\ \A g \in Generators :
       Cong(ExpectB(P)[g], proof.B[g] + (proof.e * proof.e) * (Claim[g] - P[g]))

(* At the end it is B, moved by what the point is away from the claim.     *)
LEMMA ExpectsB ==
  ASSUME PInv, pc = "done", NEW P \in Point
  PROVE  Expects(P)
<1> DEFINE k == Len(us)
           m == Pow2[k]
           c == VerificationScalars(us)
           d == Reverse(c)
           f == inst.gf
           h == inst.hf
           GA == BasesG(m)
           HA == BasesH(m)
           F == FactoredBases(GA, f, m)
           E == FactoredBases(HA, h, m)
           G1 == Values(G_bases)
           H1 == Values(H_bases)
           e == proof.e
           prs == (proof.r * proof.s) % q
           me == ((q - 1) * e) % q
           z == ((q - 1) * e * e) % q
           xe == (proof.r * e) % q
           ye == (proof.s * e) % q
           pd == proof.delta
           A == proof.A
           r4 == <<prs, me, pd, z>>
           b4 == <<U, A, V, P>>
           C == Claim
           X == Msm(r4 \o ScalarMul(ComponentWiseMul(c, f), xe)
                      \o ScalarMul(ComponentWiseMul(d, h), ye)
                      \o ScalarMul(Squares(us), z) \o ScalarMul(Squares(BatchInvert(us)), z),
                    b4 \o GA \o HA \o L_vec \o R_vec)
<1>1. /\ DInv /\ n = 1 /\ SpreadBases /\ Answered
      /\ CallTyped /\ BlindShape /\ BlindedOpensMoved
  BY DEF PInv, DInv
<1>2. /\ k \in Nat /\ FieldList(us, k) /\ Points(L_vec, k) /\ Points(R_vec, k)
      /\ n * m = Len(inst.a) /\ FieldList(a, 1) /\ FieldList(b, 1)
      /\ SymbolicBases(G_bases, 1, terms_per_base) /\ SymbolicBases(H_bases, 1, terms_per_base)
      /\ terms_per_base \in Nat /\ alpha \in Int
  BY <1>1 DEF BlindShape, Fq
<1>3. m \in Nat /\ Len(inst.a) = m
  <2>1. m \in Nat  BY <1>2, Pow2Law
  <2> HIDE DEF m
  <2> QED BY <1>1, <1>2, <2>1
<1>4. IsCall(inst)  BY <1>1, InstancesAreCalls DEF CallTyped
<1>5. FieldList(f, m) /\ FieldList(h, m) /\ Points(GA, m) /\ Points(HA, m)
  BY <1>3, <1>4, CallBases
<1>6. FieldList(c, m) /\ FieldList(d, m)  BY <1>2, ScalarsField
<1>7. Spreads(G1, F, c, m, 1) /\ Spreads(H1, E, d, m, 1)
  BY <1>1, <1>3 DEF SpreadBases
<1>8. Points(G1, 1) /\ Points(H1, 1)
  <2>1. 1 \in Nat  OBVIOUS
  <2> QED BY <1>2, <2>1, ValuesStand
<1>9. C \in Point  BY <1>1, ClaimPoint
<1>10. ExpectB(P) = X
  BY <1>3 DEF ExpectB
<1>11. \A g \in Generators :
         Cong(Opens(a, b, At(G1, g, 1), At(H1, g, 1), 1, U[g]) + alpha * V[g],
              Moved(C, us, L_vec, R_vec, k, g))
  BY <1>1 DEF BlindedOpensMoved
<1>12. /\ F = [i \in 1 .. m |-> Msm(<<f[i]>>, <<GA[i]>>)]
       /\ E = [i \in 1 .. m |-> Msm(<<h[i]>>, <<HA[i]>>)]
  BY DEF FactoredBases
<1>13. PICK r \in Fq, s \in Fq, delta \in Fq, eta \in Fq : Answers(proof, r, s, delta, eta, e)
  BY <1>1 DEF Answered
<1>22. proof \in [A : Point, B : Point, r : Fq, s : Fq, delta : Fq, e : Challenges]
  BY <1>1 DEF CallTyped
<1>23. proof.e \in Challenges /\ proof.r \in Fq /\ proof.s \in Fq /\ proof.delta \in Fq
       /\ proof.A \in Point /\ proof.B \in Point
  BY <1>22
<1>14. /\ proof.r \in Int /\ proof.s \in Int /\ pd \in Int /\ e \in Int /\ e \in Fq
       /\ A \in Point /\ proof.B \in Point
  <2>1. \A x \in Fq : x \in Int  BY DEF Fq
  <2>2. e \in Fq  BY <1>23, DrawsAssumption
  <2> QED BY <1>23, <2>1, <2>2
<1>15. /\ a[1] \in Int /\ b[1] \in Int /\ r \in Int /\ s \in Int /\ delta \in Int /\ eta \in Int
  BY <1>2 DEF FieldList, Fq
<1>16. /\ prs \in Int /\ Cong(prs, proof.r * proof.s)
       /\ me \in Int /\ Cong(me, -e)
       /\ xe \in Int /\ Cong(xe, proof.r * e)
       /\ ye \in Int /\ Cong(ye, proof.s * e)
  <2> DEFINE pr == proof.r
             ps == proof.s
  <2>1. pr \in Int /\ ps \in Int /\ e \in Int  BY <1>14
  <2> HIDE DEF pr, ps, e
  <2>2. pr * ps \in Int /\ pr * e \in Int /\ ps * e \in Int  BY <2>1
  <2> DEFINE p1 == pr * ps
             p2 == pr * e
             p3 == ps * e
  <2> HIDE DEF p1, p2, p3
  <2>3. /\ p1 % q \in Int /\ Cong(p1 % q, p1) /\ p2 % q \in Int /\ Cong(p2 % q, p2)
        /\ p3 % q \in Int /\ Cong(p3 % q, p3)
    BY <2>2, ModCong DEF Fq, p1, p2, p3
  <2>4. me \in Int /\ Cong(me, -e)  BY <2>1, CongMinus
  <2> QED BY <2>3, <2>4 DEF p1, p2, p3, pr, ps
<1>17. z \in Int /\ Cong(z, -(e * e))
  <2>1. e \in Int /\ q \in Int  BY <1>14, PrimeAssumption
  <2> DEFINE ee == e * e
  <2> HIDE DEF e
  <2>2. ee \in Int  BY <2>1
  <2>3. (q - 1) * e * e = (q - 1) * ee  BY <2>1
  <2> HIDE DEF ee
  <2>4. ((q - 1) * ee) % q \in Int /\ Cong(((q - 1) * ee) % q, -ee)  BY <2>2, CongMinus
  <2> QED BY <2>3, <2>4 DEF ee
<1>18. /\ Cong(proof.r, r + a[1] * e) /\ Cong(proof.s, s + b[1] * e)
       /\ Cong(pd, eta + delta * e + alpha * e * e)
  <2> DEFINE a1 == a[1]
             b1 == b[1]
  <2>1. proof.r = (r + a1 * e) % q /\ proof.s = (s + b1 * e) % q
        /\ pd = (eta + delta * e + alpha * e * e) % q
    BY <1>13 DEF Answers
  <2>2. e \in Int /\ a1 \in Int /\ b1 \in Int  BY <1>14, <1>15
  <2> HIDE DEF e, a1, b1
  <2>3. r + a1 * e \in Int /\ s + b1 * e \in Int  BY <1>15, <2>2
  <2>4. eta + delta * e + alpha * e * e \in Int
    <3>1. delta * e \in Int /\ alpha * e * e \in Int  BY <1>2, <1>15, <2>2
    <3> QED BY <1>15, <3>1
  <2> QED BY <2>1, <2>3, <2>4, ModCong DEF a1, b1
<1>19. /\ Scalars(r4, 4) /\ Points(b4, 4)
       /\ \A g \in Generators :
            MDot(r4, b4, g, 4) = prs * U[g] + me * A[g] + pd * V[g] + z * P[g]
  <2>1. U \in Point /\ V \in Point  BY GeneratorPoint
  <2>2. prs \in Int /\ me \in Int /\ pd \in Int /\ z \in Int /\ A \in Point
    BY <1>14, <1>16, <1>17
  <2> HIDE DEF prs, me, pd, z, A, e
  <2>3. FourTerms(prs, me, pd, z, U, A, V, P)  BY <2>1, <2>2, MsmFour
  <2> QED BY <2>3 DEF FourTerms
<1> HIDE DEF k, m, c, d, f, h, GA, HA, F, E, G1, H1, r4, b4, C, prs, me, z, xe, ye, pd, A, e
<1>20. /\ X \in Point
       /\ \A g \in Generators :
            Cong(X[g], MDot(r4, b4, g, 4) + xe * G1[1][g] + ye * H1[1][g]
                         + z * (Moved(C, us, L_vec, R_vec, k, g) - C[g]))
  <2>1. 4 \in Nat  OBVIOUS
  <2> HIDE DEF X
  <2>2. VerifierOpens(c, d, f, h, GA, HA, G1, H1, k, us, L_vec, R_vec, 4, r4, b4, xe, ye, z, C)
    BY <1>2, <1>3, <1>5, <1>6, <1>7, <1>8, <1>9, <1>12, <1>16, <1>17, <1>19, <2>1, VerifierMsm
  <2> QED BY <2>2 DEF VerifierOpens, X
<1> HIDE DEF X
<1>21. ASSUME NEW g \in Generators
       PROVE  Cong(X[g], proof.B[g] + (e * e) * (C[g] - P[g]))
  <2> DEFINE x == a[1]
             y == b[1]
             Fg == G1[1][g]
             Hg == H1[1][g]
             u == U[g]
             v == V[g]
             M == Moved(C, us, L_vec, R_vec, k, g)
             Xg == X[g]
             Cg == C[g]
             Pg == P[g]
             Ag == A[g]
             Bg == proof.B[g]
             pr == proof.r
             ps == proof.s
  <2>1. /\ Fg \in Int /\ Hg \in Int /\ u \in Int
        /\ Opens(a, b, At(G1, g, 1), At(H1, g, 1), 1, U[g]) = x * Fg + y * Hg + (x * y) * u
    BY <1>2, <1>8, OpensOne
  <2>2. /\ v \in Int /\ M \in Int /\ Xg \in Int /\ Cg \in Int /\ Pg \in Int /\ Ag \in Int /\ Bg \in Int
        /\ pr \in Int /\ ps \in Int /\ x \in Int /\ y \in Int
    BY <1>2, <1>9, <1>14, <1>15, <1>20, CoefficientInt, GeneratorPoint, MovedAt
  <2>3. Cong(x * Fg + y * Hg + (x * y) * u + alpha * v, M)  BY <1>11, <2>1
  <2>4. /\ Cong(Ag, r * Fg + s * Hg + (r * y + s * x) * u + delta * v)
        /\ Cong(Bg, (r * s) * u + eta * v)
    BY <1>13 DEF Answers, A, G1, H1
  <2>5. /\ Cong(pr, r + x * e) /\ Cong(ps, s + y * e) /\ Cong(prs, pr * ps)
        /\ Cong(xe, pr * e) /\ Cong(ye, ps * e)
    BY <1>16, <1>18
  <2>6. Cong(Xg, (prs * u + me * Ag + pd * v + z * Pg) + xe * Fg + ye * Hg + z * (M - Cg))
    BY <1>19, <1>20
  <2> HIDE DEF x, y, Fg, Hg, u, v, M, Xg, Cg, Pg, Ag, Bg, pr, ps
  <2>7. HonestTerms(r, s, x, y, e, delta, eta, alpha, Fg, Hg, u, v, M, Cg, Pg, Ag, Bg,
                    pr, ps, pd, prs, me, xe, ye, z, Xg)
    BY <1>2, <1>14, <1>15, <1>16, <1>17, <1>18, <2>1, <2>2, <2>3, <2>4, <2>5, <2>6 DEF HonestTerms
  <2>8. Cong(Xg, Bg + (e * e) * (Cg - Pg))  BY <2>7, LastVerifierSum
  <2> QED BY <2>8 DEF Xg, Bg, Cg, Pg
<1> QED BY <1>10, <1>20, <1>21 DEF Expects, C, e

(* A claim moved by one does not go unnoticed, unless e is zero.           *)
LEMMA MovedIsNoticed ==
  ASSUME NEW e \in Fq, e # 0, NEW B \in Int, NEW C \in Int, NEW P \in Int,
         Cong(P, C + 1), Cong(B, B + (e * e) * (C - P))
  PROVE  FALSE
<1> DEFINE i == Inv(e)
           ee == e * e
<1>1. i \in Int /\ e \in Int /\ Cong(e * i, 1)  BY InvLaw
<1>2. q \in Int  BY PrimeAssumption
<1>3. PICK c1 \in Int : P = (C + 1) + c1 * q  BY DEF Cong
<1>4. PICK c2 \in Int : B = (B + ee * (C - P)) + c2 * q  BY DEF Cong
<1> HIDE DEF i, ee
<1>5. ee \in Int  BY <1>1 DEF ee
<1>6. ee * (C - P) = -(c2 * q)
  <2> DEFINE t == ee * (C - P)
             w == c2 * q
  <2>1. t \in Int /\ w \in Int /\ B = (B + t) + w  BY <1>2, <1>4, <1>5
  <2> HIDE DEF t, w
  <2>2. t = -w  BY <2>1
  <2> QED BY <2>2 DEF t, w
<1>7. ee * (C - P) = -ee - ee * (c1 * q)
  <2> DEFINE w == c1 * q
  <2>1. w \in Int /\ P = (C + 1) + w  BY <1>2, <1>3
  <2> HIDE DEF w
  <2>2. C - P = -1 - w  BY <2>1
  <2>3. ee * (-1 - w) = -ee - ee * w  BY <1>5, <2>1
  <2> QED BY <2>2, <2>3 DEF w
<1>8. Cong(ee, 0)
  <2> DEFINE w == c1 * q
             t == c2 * q
             v == ee * w
  <2>1. w \in Int /\ t \in Int /\ v \in Int  BY <1>2, <1>5
  <2>2. -t = -ee - v  BY <1>6, <1>7
  <2> HIDE DEF t, v
  <2>3. ee = t - v  BY <1>5, <2>1, <2>2
  <2>4. t - v = 0 + (c2 - ee * c1) * q
    <3>1. v = (ee * c1) * q  BY <1>2, <1>5 DEF v
    <3>2. ee * c1 \in Int  BY <1>5
    <3> DEFINE p == ee * c1
    <3> HIDE DEF p
    <3>3. c2 * q - p * q = 0 + (c2 - p) * q  BY <1>2, <3>2 DEF p
    <3> QED BY <3>1, <3>3 DEF t, p
  <2>5. c2 - ee * c1 \in Int  BY <1>5
  <2> QED BY <2>3, <2>4, <2>5 DEF Cong
<1> DEFINE ei == e * i
<1>9. ei \in Int  BY <1>1
<1>10. Cong(ei * ei, 1 * 1)  BY <1>1, <1>9, CongMul
<1>11. ei * ei = ee * (i * i)  BY <1>1 DEF ee
<1>12. i * i \in Int  BY <1>1
<1>13. Cong(ee * (i * i), 0 * (i * i))
  <2> DEFINE ii == i * i
             o == 0
  <2>1. ii \in Int /\ o \in Int /\ Cong(ee, o)  BY <1>8, <1>12
  <2> HIDE DEF ii, o
  <2>2. Cong(ee * ii, o * ii)  BY <1>5, <2>1, CongScaled
  <2> QED BY <2>2 DEF ii, o
<1>14. 0 * (i * i) = 0 /\ 1 * 1 = 1  BY <1>12
<1>15. Cong(ei * ei, 0) /\ Cong(ei * ei, 1)  BY <1>10, <1>11, <1>13, <1>14
<1> HIDE DEF ei
<1>16. ei * ei \in Int  BY <1>9
<1>17. Cong(1, ei * ei)  BY <1>15, <1>16, CongSym
<1>18. Cong(1, 0)  BY <1>15, <1>16, <1>17, CongTrans
<1>19. 1 \in Fq /\ 0 \in Fq  BY GeneratorPoint
<1>20. 1 = 0  BY <1>18, <1>19, CongEqual
<1> QED BY <1>20

(* A completed proof opens its claim, and no claim next to it.             *)
LEMMA AnswersItsClaim ==
  ASSUME PInv, pc = "done"
  PROVE  /\ Verify(Claim) <=> ProofValid
         /\ proof.e # 0 =>
              \A g \in Generators : ~Verify(Msm(<<1, 1>>, <<Claim, Generator(g)>>))
<1>1. Claim \in Point  BY ClaimPoint DEF PInv, DInv
<1>2. proof.e \in Fq /\ proof.B \in Point /\ proof.e \in Int
  <2>1. proof \in [A : Point, B : Point, r : Fq, s : Fq, delta : Fq, e : Challenges]
    BY DEF PInv, DInv, CallTyped
  <2>2. proof.e \in Challenges /\ proof.B \in Point  BY <2>1
  <2>3. proof.e \in Fq  BY <2>2, DrawsAssumption
  <2> QED BY <2>2, <2>3 DEF Fq
<1> DEFINE C == Claim
           B == proof.B
           e == proof.e
           ee == e * e
<1>3. ee \in Int  BY <1>2
<1>4. ExpectB(C) = B
  <2> DEFINE X == ExpectB(C)
  <2>1. Expects(C)  BY <1>1, ExpectsB
  <2>2. X \in Point /\ \A g \in Generators : Cong(X[g], B[g] + ee * (C[g] - C[g]))
    BY <2>1 DEF Expects
  <2> HIDE DEF X, C, B, ee, e
  <2>3. ASSUME NEW g \in Generators PROVE Cong(X[g], B[g])
    <3>1. C[g] \in Int /\ B[g] \in Int  BY <1>1, <1>2, CoefficientInt DEF C, B
    <3>2. B[g] + ee * (C[g] - C[g]) = B[g]  BY <1>3, <3>1
    <3> QED BY <2>2, <3>2
  <2>4. X = B  BY <1>2, <2>2, <2>3, PointsEqual DEF B
  <2> QED BY <2>4 DEF X
<1>5. Verify(C) <=> ProofValid  BY <1>4 DEF Verify
<1>6. ASSUME e # 0, NEW g \in Generators, Verify(Msm(<<1, 1>>, <<Claim, Generator(g)>>))
      PROVE  FALSE
  <2> DEFINE E == Generator(g)
             P == Msm(<<1, 1>>, <<C, E>>)
  <2>1. E \in Point /\ 1 \in Int  BY GeneratorPoint
  <2>2. E[g] = 1  BY DEF Generator, Identity
  <2> HIDE DEF E
  <2>3. P \in Point /\ P[g] = (1 * C[g] + 1 * E[g]) % q  BY <1>1, <2>1, MsmTwo
  <2>4. ExpectB(P) = B  BY <1>6 DEF Verify, E
  <2> HIDE DEF P
  <2>5. Expects(P)  BY <2>3, ExpectsB
  <2>6. Cong(B[g], B[g] + ee * (C[g] - P[g]))  BY <2>4, <2>5 DEF Expects
  <2>7. C[g] \in Int /\ B[g] \in Int /\ P[g] \in Int  BY <1>1, <1>2, <2>3, CoefficientInt
  <2>8. Cong(P[g], C[g] + 1)
    <3>1. 1 * C[g] + 1 * E[g] = C[g] + 1 /\ C[g] + 1 \in Int  BY <2>2, <2>7
    <3> QED BY <2>3, <3>1, ModCong
  <2> HIDE DEF B, C
  <2> QED BY <1>2, <1>6, <2>6, <2>7, <2>8, MovedIsNoticed
<1> QED BY <1>5, <1>6

(* A completed proof is accepted for its claim, unless an identity is      *)
(* among its points, and refused for the claim moved by any base unless    *)
(* the last challenge is zero: for every prime q, every length that is a   *)
(* power of two, all vectors, factors, blindings, draws and thresholds.    *)
THEOREM ProofsAreForTheirClaims == Spec => []ProofIsForItsClaim
<1>1. PInv => ProofIsForItsClaim
  BY AnswersItsClaim DEF ProofIsForItsClaim
<1> QED BY <1>1, PInvHolds, PTL
============================================================================
