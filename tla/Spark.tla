-------------------------------- MODULE Spark --------------------------------
(***************************************************************************)
(* How Spartan's SNARK proves the values of committed sparse matrices:     *)
(* product circuits and the batched sumcheck over their layers             *)
(* (product_tree.rs), and the hashing of a memory's accesses whose grand   *)
(* products they compute (sparse_mlpoly.rs).                               *)
(***************************************************************************)
EXTENDS SpartanSigma

----------------------------------------------------------------------------
(* Product circuits: layer 1 is the input, the last is one pair.  A layer  *)
(* is the two halves of a table.                                           *)

Split(poly) == <<Half(poly), OtherHalf(poly)>>

ComputeLayer(layer) == Split([i \in DOMAIN layer[1] |-> (layer[1][i] * layer[2][i]) % p])

ProductCircuit(poly) ==
  FoldLeft(LAMBDA layers, i : Append(layers, ComputeLayer(Last(layers))),
           <<Split(poly)>>, [i \in 1 .. Log2(Len(poly)) - 1 |-> i])

CircuitValue(circuit) == (Last(circuit)[1][1] * Last(circuit)[2][1]) % p

(* comb_func_prod *)
Triple(v) == (((v[1] * v[2]) % p) * v[3]) % p

(* DotProductCircuit: <<left, right, weight>>. *)
DotpValue(d) == Sum([i \in DOMAIN d[1] |-> Triple(<<d[1][i], d[2][i], d[3][i]>>)])

DotpSplit(d) == <<[t \in 1 .. 3 |-> Half(d[t])], [t \in 1 .. 3 |-> OtherHalf(d[t])]>>

----------------------------------------------------------------------------
(* The sumcheck in the clear *)

(* A round of prove_cubic_batched. *)
CubicRound(st, coeffs) ==
  LET combined(k, e) == LET rows == EvalPoint(st.tables[k], e)
                        IN  Sum([i \in DOMAIN rows |-> Triple(rows[i])])
      at(e) == Sum([k \in DOMAIN coeffs |-> (coeffs[k] * combined(k, e)) % p])
      interpolated(e0) == FromEvals(<<e0, (st.claim + p - e0) % p, at(2), at(3)>>)
  IN  With(interpolated(at(0)), LAMBDA poly :
        Ask(AppendVec(st.s, "poly", poly), "round", LAMBDA u, r :
          [s |-> u, claim |-> EvalUni(poly, r),
           tables |-> [k \in DOMAIN coeffs |-> [t \in 1 .. 3 |-> BoundTop(st.tables[k][t], r)]],
           point |-> Append(st.point, r), polys |-> Append(st.polys, Compress(poly))]))

(* SumcheckInstanceProof::verify; a polynomial of another degree panics.   *)
SumcheckVerify(s, claim, polys, num_rounds) ==
  FoldLeft(LAMBDA st, i :
             With(Decompress(polys[i], st.claim), LAMBDA poly :
               Ask(AppendVec(st.s, "poly", poly), "round", LAMBDA u, r :
                 [s |-> u, claim |-> EvalUni(poly, r),
                  point |-> Append(st.point, r),
                  holds |-> st.holds /\ Len(poly) = 4
                              /\ (2 * poly[1] + Sum(Tail2(poly, 1))) % p = st.claim])),
           [s |-> s, claim |-> claim, point |-> <<>>, holds |-> Len(polys) = num_rounds],
           [i \in DOMAIN polys |-> i])

----------------------------------------------------------------------------
(* A layer of a batch of product circuits, with the dot products joined to *)
(* it when it is the input layer (ProductCircuitEvalProofBatched)          *)

(* What a layer's sumcheck ends in: a pair for a product, three values for *)
(* a dot product.                                                          *)
AppendClaims(s, finals) ==
  FoldLeft(LAMBDA u, c : FoldLeft(LAMBDA w, x : Append1(w, "claim", <<x>>), u, c), s, finals)

(* The next layer's claims condense the pairs at r_layer. *)
Condensed(finals, r_layer) ==
  [k \in DOMAIN finals |-> (finals[k][1] + r_layer * (finals[k][2] + p - finals[k][1])) % p]

(* Mutant of NextPoint: the challenge of the layer is put last. *)
NextPointLast(r_layer, rand_prod) == rand_prod \o <<r_layer>>

NextPoint(r_layer, rand_prod) == <<r_layer>> \o rand_prod

Products(finals) == SelectSeq(finals, LAMBDA f : Len(f) = 2)

(* The values the sumcheck st of a layer ends in: dotps after the pairs. *)
LayerProveEnds(st, numPairs) ==
  LET finals == [k \in DOMAIN st.tables |-> [t \in 1 .. (IF k <= numPairs THEN 2 ELSE 3) |->
                                               st.tables[k][t][1]]]
  IN  Ask(AppendClaims(st.s, finals), "layer", LAMBDA u, r_layer :
        [s |-> u, layer |-> [polys |-> st.polys, finals |-> finals],
         claims |-> Condensed(Products(finals), r_layer), rand |-> NextPoint(r_layer, st.point)])

LayerProve(s, pairs, dotps, claims, rand) ==
  LET all == claims \o [k \in DOMAIN dotps |-> DotpValue(dotps[k])]
      eq == EqEvals(rand)
  IN  AskVec(s, "coeffs", Len(all), LAMBDA u, coeffs :
        LayerProveEnds(
          FoldLeft(LAMBDA st, i : CubicRound(st, coeffs),
            [s |-> u, claim |-> Dot(all, coeffs),
             tables |-> [k \in DOMAIN pairs |-> Append(pairs[k], eq)] \o dotps,
             point |-> <<>>, polys |-> <<>>],
            [i \in 1 .. Len(rand) |-> i]),
          Len(pairs)))

(* What follows the verified sumcheck red.  On the input layer the dot     *)
(* products' values are condensed too, a matrix's two halves into three.   *)
LayerVerifyEnds(red, layer, coeffs, rand) ==
  LET eq == EqEvaluate(rand, red.point)
      expected == [k \in DOMAIN coeffs |->
                     LET f == layer.finals[k]
                     IN  Triple(IF Len(f) = 2 THEN Append(f, eq) ELSE f)]
      dotps == Tail2(layer.finals, Len(Products(layer.finals)))
      half(t) == [i \in 1 .. Len(dotps) \div 2 |-> <<dotps[2 * i - 1][t], dotps[2 * i][t]>>]
  IN  Ask(AppendClaims(red.s, layer.finals), "layer", LAMBDA u, r_layer :
        [s |-> u, holds |-> red.holds /\ Dot(coeffs, expected) = red.claim,
         claims |-> Condensed(Products(layer.finals), r_layer),
         dotp |-> [t \in 1 .. 3 |-> Condensed(half(t), r_layer)],
         rand |-> NextPoint(r_layer, red.point)])

(* claims holds the dot products' too on the input layer. *)
LayerVerify(s, layer, claims, rand) ==
  AskVec(s, "coeffs", Len(claims), LAMBDA u, coeffs :
    LayerVerifyEnds(SumcheckVerify(u, Dot(claims, coeffs), layer.polys, Len(rand)),
                    layer, coeffs, rand))

----------------------------------------------------------------------------
(* The matrices as accesses to two memories.  A side (rows or columns) is  *)
(* [addr, read, audit]: per matrix the addresses and the timestamps read,  *)
(* and the final timestamps.                                               *)

CombOps(dense) ==
  Merge(dense.row.addr \o dense.row.read \o dense.col.addr \o dense.col.read \o dense.val)

CombMem(dense) == dense.row.audit \o dense.col.audit

(* SparseMatPolyCommitmentGens::new, for a batch of three. *)
SparkGens(num_vars_x, num_vars_y, num_nz) ==
  [ops |-> PolyCommitmentGens(Log2(num_nz) + Log2(3 * 5)),
   mem |-> PolyCommitmentGens((IF num_vars_x > num_vars_y THEN num_vars_x ELSE num_vars_y) + 1),
   derefs |-> PolyCommitmentGens(Log2(num_nz) + Log2(3 * 2))]

(* AddrTimestamps::deref *)
Deref(side, mem_val) ==
  [i \in DOMAIN side.addr |-> [j \in DOMAIN side.addr[i] |-> mem_val[side.addr[i][j] + 1]]]

(* SparseMatPolyEvalProof::equalize *)
Equalize(r, n) == [i \in 1 .. n - Len(r) |-> 0] \o r

(* hash_func less r_multiset_check; rs is both challenges. *)
Hash(addr, val, ts, rs) ==
  (ts * ((rs[1] * rs[1]) % p) + val * rs[1] + addr + p - rs[2]) % p

(* build_hash_layer, and its product circuits (Layers::new). *)
Layers(table, side, derefs, rs) ==
  LET memory(ts) == ProductCircuit([i \in DOMAIN table |-> Hash(i - 1, table[i], ts[i], rs)])
      accesses(step) == [m \in DOMAIN derefs |->
        ProductCircuit([j \in DOMAIN derefs[m] |->
          Hash(side.addr[m][j], derefs[m][j], side.read[m][j] + step, rs)])]
  IN  [init |-> memory([i \in DOMAIN table |-> 0]), read |-> accesses(0),
       write |-> accesses(1), audit |-> memory(side.audit)]

(* The products the prover claims. *)
ProductClaims(layers) ==
  [init |-> CircuitValue(layers.init),
   read |-> [m \in DOMAIN layers.read |-> CircuitValue(layers.read[m])],
   write |-> [m \in DOMAIN layers.write |-> CircuitValue(layers.write[m])],
   audit |-> CircuitValue(layers.audit)]

(* The subset check of prover and verifier. *)
Balanced(c) == (c.init * Product(c.write)) % p = (Product(c.read) * c.audit) % p

AppendProducts(s, c) ==
  Append1(AppendVec(AppendVec(Append1(s, "product", <<c.init>>), "product", c.read),
                    "product", c.write), "product", <<c.audit>>)

----------------------------------------------------------------------------
(* Many polynomials merged into one are opened together at one point: the  *)
(* merged one, at challenges followed by the point (prove_single, and the  *)
(* same twice in HashLayerProof).                                          *)

JointEval(evals, challenges) ==
  FoldLeft(LAMBDA t, c : BoundBot(t, c), evals, Reverse(challenges))[1]

JointPoint(s, evals, r) ==
  LET all == PadTo(evals, NextPow2(Len(evals)))
  IN  AskVec(AppendVec(s, "evals", all), "combine", Log2(Len(all)), LAMBDA u, challenges :
        With(JointEval(all, challenges), LAMBDA joint :
          [s |-> Append1(u, "joint_eval", <<joint>>), r |-> challenges \o r, eval |-> joint]))

JointProve(s, gens, comb, evals, r) ==
  With(JointPoint(s, evals, r), LAMBDA j :
    PolyEvalProve(j.s, gens, comb, NoBlinds(comb), j.r, j.eval, 0))

JointVerify(s, gens, proof, comm, evals, r) ==
  With(JointPoint(s, evals, r), LAMBDA j :
    PolyEvalVerifyPlain(j.s, gens, proof, j.r, j.eval, comm))

----------------------------------------------------------------------------
(* HashLayerProof: the values at the ends of the product circuits, read    *)
(* off the committed polynomials.                                          *)

EvalAll(polys, r) == [i \in DOMAIN polys |-> Evaluate(polys[i], r)]

HashEvals(dense, derefs, rand_mem, rand_ops) ==
  LET side(d) == [addr |-> EvalAll(d.addr, rand_ops), read |-> EvalAll(d.read, rand_ops),
                  audit |-> Evaluate(d.audit, rand_mem)]
  IN  [derefs_row |-> EvalAll(derefs.row, rand_ops),
       derefs_col |-> EvalAll(derefs.col, rand_ops),
       row |-> side(dense.row), col |-> side(dense.col), val |-> EvalAll(dense.val, rand_ops)]

(* The values of the operations, in the order they are merged. *)
OpsEvals(e) == e.row.addr \o e.row.read \o e.col.addr \o e.col.read \o e.val

HashProve(s, gens, dense, derefs, rand_mem, rand_ops) ==
  With(HashEvals(dense, derefs, rand_mem, rand_ops), LAMBDA e :
  With(JointProve(Protocol(Protocol(s, "hash"), "derefs"), gens.derefs,
         Merge(derefs.row \o derefs.col), e.derefs_row \o e.derefs_col, rand_ops), LAMBDA d :
  With(JointProve(d.s, gens.ops, CombOps(dense), OpsEvals(e), rand_ops), LAMBDA o :
  With(JointProve(o.s, gens.mem, CombMem(dense), <<e.row.audit, e.col.audit>>, rand_mem), LAMBDA m :
    [s |-> m.s, panicked |-> d.panicked \/ o.panicked \/ m.panicked,
     proof |-> [evals |-> e, derefs |-> d.proof, ops |-> o.proof, mem |-> m.proof]]))))

(* verify_helper: the hashes of these values are the circuits' claims. *)
HashesHold(side, vals, claims, r, rand_mem, rs) ==
  LET addr == IdentityEvaluate(rand_mem)
      val == EqEvaluate(r, rand_mem)
  IN  /\ Hash(addr, val, 0, rs) = claims.init
      /\ \A i \in DOMAIN side.addr :
           /\ Hash(side.addr[i], vals[i], side.read[i], rs) = claims.read[i]
           /\ Hash(side.addr[i], vals[i], side.read[i] + 1, rs) = claims.write[i]
      /\ Hash(addr, val, side.audit, rs) = claims.audit

(* claims: row and col hold init, read, write and audit; dotp the values of *)
(* the matrices' three factors.  All but the openings are assertions.       *)
HashVerify(s, gens, proof, comm, comm_derefs, claims, r, rand_mem, rand_ops, rs) ==
  LET e == proof.evals IN
  With(JointVerify(Protocol(Protocol(s, "hash"), "derefs"), gens.derefs, proof.derefs,
         comm_derefs, e.derefs_row \o e.derefs_col, rand_ops), LAMBDA d :
  With(JointVerify(d.s, gens.ops, proof.ops, comm.ops, OpsEvals(e), rand_ops), LAMBDA o :
  With(JointVerify(o.s, gens.mem, proof.mem, comm.mem, <<e.row.audit, e.col.audit>>,
         rand_mem), LAMBDA m :
    [s |-> m.s,
     holds |-> /\ d.verdict = "ok" /\ o.verdict = "ok" /\ m.verdict = "ok"
               /\ claims.dotp = <<e.derefs_row, e.derefs_col, e.val>>
               /\ HashesHold(e.row, e.derefs_row, claims.row, r[1], rand_mem, rs)
               /\ HashesHold(e.col, e.derefs_col, claims.col, r[2], rand_mem, rs)])))
=============================================================================
