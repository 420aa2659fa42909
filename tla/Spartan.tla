------------------------------- MODULE Spartan -------------------------------
(***************************************************************************)
(* Spartan's two proof systems (lib.rs): NIZK, whose verifier evaluates    *)
(* the matrices itself, and SNARK, whose verifier holds a commitment to    *)
(* them (SNARK::encode) and a proof of their values at (rx, ry).  Both     *)
(* embed R1CSProof.                                                        *)
(*                                                                         *)
(* encode runs AddrTimestamps for the rows and again for the columns of    *)
(* the three matrices; what it leaves behind is what the prover's grand    *)
(* products hash.  In mode "encode" only that happens, on many batches.    *)
(***************************************************************************)
EXTENDS SpartanR1CS, Spark, AddrTimestamps

CONSTANTS
  Statements,     \* the statements proved: stmt with mode "nizk" or "snark"
  EncodeBatches,  \* the batches of mode "encode"
  Seeds           \* what the transcript may hold before

VARIABLES
  mode,      \* "nizk", "snark" or "encode"
  dense,     \* MultiSparseMatPolynomialAsDense, row before col
  comm,      \* the commitment to the matrices
  net,       \* the prover's: derefs, the challenges, the circuits, the batch at work
  vnet       \* the verifier's batch at work, and the claims kept

memVars == <<entries, inst, op, audit_ts, read_ts, read_ts_vec>>
r1csVars == <<stmt, seed, proverVars, verifierVars>>
snarkVars == <<mode, dense, comm, net, vnet>>
spartanVars == <<memVars, stage, r1csVars, snarkVars>>

Matrices == <<stmt.A, stmt.B, stmt.C>>

Addresses(k) == [m \in Inst |-> [j \in DOMAIN Matrices[m] |-> Matrices[m][j][k]]]

(* get_num_vars of the instance, and of the larger memory. *)
MemVars == IF RowVars > ColVars THEN RowVars ELSE ColVars

GensEval == SparkGens(RowVars, ColVars, stmt.nz)

----------------------------------------------------------------------------
(* SNARK::encode *)

MemoryStarts(e) ==
  /\ entries' = e
  /\ inst' = 1
  /\ op' = 0
  /\ audit_ts' = [a \in Cell |-> 0]
  /\ read_ts' = Zeros
  /\ read_ts_vec' = <<>>

EncodeAccess ==
  /\ stage \in {"rows", "cols"}
  /\ Access
  /\ UNCHANGED <<stage, r1csVars, snarkVars>>

EncodeNextInst ==
  /\ stage \in {"rows", "cols"}
  /\ NextInst
  /\ UNCHANGED <<stage, r1csVars, snarkVars>>

Side == [addr |-> [m \in Inst |-> [j \in Op |-> OpsAddr(m, j)]], read |-> read_ts_vec,
         audit |-> [c \in 1 .. NumCells |-> audit_ts[c - 1]]]

EncodeRowsEnd ==
  /\ mode = "snark" /\ stage = "rows" /\ inst > Batch
  /\ stage' = "cols"
  /\ dense' = [row |-> Side]
  /\ MemoryStarts(Addresses(2))
  /\ UNCHANGED <<r1csVars, mode, comm, net, vnet>>

(* The values, and multi_commit: its vectors must fit the generators, which *)
(* were made for nz entries.                                                *)
EncodeCommits ==
  /\ mode = "snark" /\ stage = "cols" /\ inst > Batch
  /\ LET val == [m \in Inst |-> PadTo([j \in DOMAIN Matrices[m] |-> Matrices[m][j][3]], NumOps)]
         d == [row |-> dense.row, col |-> Side, val |-> val]
     IN  /\ dense' = d
         /\ IF Committable(CombOps(d), GensEval.ops) /\ Committable(CombMem(d), GensEval.mem)
            THEN /\ stage' = "start"
                 /\ comm' = [ops |-> CommitPoly(CombOps(d), NoBlinds(CombOps(d)), GensEval.ops),
                             mem |-> CommitPoly(CombMem(d), NoBlinds(CombMem(d)), GensEval.mem)]
            ELSE stage' = "encode_panicked" /\ UNCHANGED comm
  /\ UNCHANGED <<memVars, r1csVars, mode, net, vnet>>

----------------------------------------------------------------------------
(* The embedded R1CSProof *)

(* What is appended before it: the digest of the instance or its commitment. *)
Begun ==
  LET s == [t |-> seed, k |-> 0]
  IN  IF mode = "nizk"
      THEN Append1(Protocol(s, "nizk"), "digest",
                   <<stmt.cons, stmt.vars>> \o FlattenSeq(stmt.A \o stmt.B \o stmt.C))
      ELSE LET named == Append1(Protocol(s, "snark"), "size",
                          <<stmt.cons, stmt.vars, Len(stmt.io), Batch, NumOps, NumCells>>)
           IN  AppendAll(AppendAll(named, "share", comm.ops), "share", comm.mem)

(* The point the second sumcheck bound, and the matrices there. *)
ProverRy == sc.point
ProverEvals == EvaluateMatrices(rx, ProverRy)

R1CSProve ==
  /\ mode # "encode"
  /\ ProveBegins(Begun) \/ ProveSumcheck \/ ProveClaims \/ ProveOpens
  /\ UNCHANGED <<memVars, snarkVars>>

R1CSVerify ==
  /\ mode # "encode"
  /\ \/ VerifyBegins(Begun)
     \/ VerifySumcheck("check1", proof.sc1, 3)
     \/ VerifySumcheck("check2", proof.sc2, 2)
     \/ VerifyClaims
     \/ VerifyOpens(IF mode = "nizk" THEN EvaluateMatrices(proof.r[1], proof.r[2])
                    ELSE proof.evals)
  /\ UNCHANGED <<memVars, snarkVars>>

(* The NIZK prover adds the point; the verifier compares it at the end. *)
NIZKReturns ==
  /\ mode = "nizk" /\ stage = "proved"
  /\ stage' = "verify"
  /\ proof' = proof @@ [r |-> <<rx, ProverRy>>]
  /\ UNCHANGED <<memVars, stmt, seed, ps, sc, rx, tau, mid, verifierVars, snarkVars>>

NIZKChecks ==
  /\ mode = "nizk" /\ stage = "satisfied"
  /\ stage' = IF <<vc.rx, vc.point>> = proof.r THEN "accepted" ELSE "panicked"
  /\ UNCHANGED <<memVars, r1csVars, snarkVars>>

----------------------------------------------------------------------------
(* SNARK::prove after the R1CSProof *)

MemPoint(r) == Equalize(r, MemVars)

AppendEvals(s, evals) ==
  FoldLeft(LAMBDA u, x : Append1(u, "matrix_claim", <<x>>), s, evals)

(* The batch of circuits a product proof is about, at its output layer. *)
Batched(circuits) ==
  [circuits |-> circuits, layer |-> Len(circuits[1]), claims |-> [k \in DOMAIN circuits |->
     CircuitValue(circuits[k])], rand |-> <<>>, layers |-> <<>>]

(* MultiSparseMatPolynomialAsDense::deref, and the network of the hashes. *)
Derefs == [row |-> Deref(dense.row, EqEvals(MemPoint(rx))),
           col |-> Deref(dense.col, EqEvals(MemPoint(ProverRy)))]

Network(derefs, rs) ==
  [row |-> Layers(EqEvals(MemPoint(rx)), dense.row, derefs.row, rs),
   col |-> Layers(EqEvals(MemPoint(ProverRy)), dense.col, derefs.col, rs)]

(* Both parties' sessions up to the challenges of the hash. *)
DerefsSent(s, evals, comm_derefs) ==
  AppendAll(Protocol(AppendEvals(s, evals), "sparse_eval"), "share", comm_derefs)

(* What ProductLayerProof is named and its products claim. *)
ProductsSent(sent, row, col, dotp) ==
  FoldLeft(LAMBDA u, x : Append1(u, "claim", <<x>>),
           AppendProducts(AppendProducts(Protocol(Protocol(AskedVec(sent, "r_hash", 2), "network"),
                                                  "product_layer"), row), col),
           dotp)

(* The two halves of every dot product make the matrix's value. *)
HalvesSum(dotp, evals) == \A m \in Inst : (dotp[2 * m - 1] + dotp[2 * m]) % p = evals[m]

(* Derefs, their commitment, the network, and ProductLayerProof up to the   *)
(* first batch.                                                             *)
ProveDerefs ==
  /\ mode = "snark" /\ stage = "proved"
  /\ LET derefs == Derefs
         comb == Merge(derefs.row \o derefs.col)
         comm_derefs == CommitPoly(comb, NoBlinds(comb), GensEval.derefs)
         sent == DerefsSent(ps, ProverEvals, comm_derefs)
         network == Network(derefs, AnswerVec(sent, "r_hash", 2))
         row == ProductClaims(network.row)
         col == ProductClaims(network.col)
         halves == FlattenSeq([m \in Inst |->
                     DotpSplit(<<derefs.row[m], derefs.col[m], dense.val[m]>>)])
         dotp == [k \in DOMAIN halves |-> DotpValue(halves[k])]
     IN  IF /\ Committable(comb, GensEval.derefs)
            /\ Balanced(row) /\ Balanced(col) /\ HalvesSum(dotp, ProverEvals)
         THEN /\ stage' = "ops"
              /\ ps' = ProductsSent(sent, row, col, dotp)
              /\ proof' = proof @@ [evals |-> ProverEvals, comm_derefs |-> comm_derefs,
                                    row |-> row, col |-> col, dotp |-> dotp]
              /\ net' = [derefs |-> derefs, halves |-> halves,
                         mem |-> <<network.row.init, network.row.audit,
                                   network.col.init, network.col.audit>>,
                         batch |-> Batched(network.row.read \o network.row.write
                                             \o network.col.read \o network.col.write)]
         ELSE stage' = "prover_panicked" /\ UNCHANGED <<ps, proof, net>>
  /\ UNCHANGED <<memVars, stmt, seed, sc, rx, tau, mid, verifierVars, mode, dense, comm, vnet>>

(* One layer of the batch at work; the dot products join on the input layer *)
(* of the operations.                                                       *)
ProveLayer ==
  /\ stage \in {"ops", "mem"} /\ net.batch.layer > 0
  /\ LET b == net.batch
         l == LayerProve(ps, [k \in DOMAIN b.circuits |-> b.circuits[k][b.layer]],
                IF stage = "ops" /\ b.layer = 1 THEN net.halves ELSE <<>>, b.claims, b.rand)
     IN  /\ ps' = l.s
         /\ net' = [net EXCEPT !.batch.layer = @ - 1, !.batch.claims = l.claims,
                               !.batch.rand = l.rand, !.batch.layers = Append(@, l.layer)]
  /\ UNCHANGED <<memVars, stage, stmt, seed, sc, rx, tau, mid, proof, verifierVars,
                 mode, dense, comm, vnet>>

ProveMemory ==
  /\ stage = "ops" /\ net.batch.layer = 0
  /\ stage' = "mem"
  /\ proof' = proof @@ [ops |-> net.batch.layers]
  /\ net' = [derefs |-> net.derefs, rand_ops |-> net.batch.rand, batch |-> Batched(net.mem)]
  /\ UNCHANGED <<memVars, stmt, seed, ps, sc, rx, tau, mid, verifierVars,
                 mode, dense, comm, vnet>>

ProveHashes ==
  /\ stage = "mem" /\ net.batch.layer = 0
  /\ \E h \in {HashProve(ps, GensEval, dense, net.derefs, net.batch.rand, net.rand_ops)} :
         IF h.panicked
         THEN stage' = "prover_panicked" /\ UNCHANGED <<ps, proof>>
         ELSE /\ stage' = "verify"
              /\ ps' = h.s
              /\ proof' = proof @@ [mem |-> net.batch.layers, hash |-> h.proof]
  /\ UNCHANGED <<memVars, stmt, seed, sc, rx, tau, mid, verifierVars, snarkVars>>

----------------------------------------------------------------------------
(* SNARK::verify after the R1CSProof; what the code asserts here panics     *)

Passes(holds, next) == stage' = IF holds THEN next ELSE "panicked"

VerifyDerefs ==
  /\ mode = "snark" /\ stage = "satisfied"
  /\ LET sent == DerefsSent(vs, proof.evals, proof.comm_derefs)
     IN  /\ Passes(/\ 2 ^ MemVars = NumCells
                   /\ Balanced(proof.row) /\ Balanced(proof.col)
                   /\ HalvesSum(proof.dotp, proof.evals), "vops")
         /\ vs' = ProductsSent(sent, proof.row, proof.col, proof.dotp)
         /\ vnet' = [rs |-> AnswerVec(sent, "r_hash", 2), rand |-> <<>>, done |-> 0,
                     claims |-> proof.row.read \o proof.row.write
                                  \o proof.col.read \o proof.col.write]
  /\ UNCHANGED <<memVars, stmt, seed, proverVars, vc, mode, dense, comm, net>>

VerifyLayer ==
  /\ stage \in {"vops", "vmem"}
  /\ LET layers == IF stage = "vops" THEN proof.ops ELSE proof.mem
         size == Log2(IF stage = "vops" THEN NumOps ELSE NumCells)
         input == vnet.done = size - 1
         l == LayerVerify(vs, layers[vnet.done + 1],
                vnet.claims \o (IF stage = "vops" /\ input THEN proof.dotp ELSE <<>>), vnet.rand)
     IN  /\ vnet.done < size
         /\ Passes(Len(layers) = size /\ l.holds, stage)
         /\ vs' = l.s
         /\ vnet' = [rand |-> l.rand, claims |-> l.claims, done |-> vnet.done + 1]
                      @@ (IF stage = "vops" THEN [dotp |-> l.dotp] ELSE <<>>) @@ vnet
  /\ UNCHANGED <<memVars, stmt, seed, proverVars, vc, mode, dense, comm, net>>

VerifyMemory ==
  /\ stage = "vops" /\ vnet.done = Log2(NumOps)
  /\ stage' = "vmem"
  /\ vnet' = [rs |-> vnet.rs, dotp |-> vnet.dotp, ops |-> vnet.claims, rand_ops |-> vnet.rand,
              rand |-> <<>>, done |-> 0,
              claims |-> <<proof.row.init, proof.row.audit, proof.col.init, proof.col.audit>>]
  /\ UNCHANGED <<memVars, r1csVars, mode, dense, comm, net>>

VerifyHashes ==
  /\ stage = "vmem" /\ vnet.done = Log2(NumCells)
  /\ LET part(k) == SubSeq(vnet.ops, Batch * (k - 1) + 1, Batch * k)
     IN  \E h \in {HashVerify(vs, GensEval, proof.hash, comm, proof.comm_derefs,
                [row |-> [init |-> vnet.claims[1], read |-> part(1), write |-> part(2),
                          audit |-> vnet.claims[2]],
                 col |-> [init |-> vnet.claims[3], read |-> part(3), write |-> part(4),
                          audit |-> vnet.claims[4]],
                 dotp |-> vnet.dotp],
                <<MemPoint(vc.rx), MemPoint(vc.point)>>, vnet.rand, vnet.rand_ops, vnet.rs)} :
         /\ Passes(h.holds, "accepted")
         /\ vs' = h.s
  /\ UNCHANGED <<memVars, stmt, seed, proverVars, vc, snarkVars>>

----------------------------------------------------------------------------
NoMemory == entries = [m \in Inst |-> <<>>]

SpartanInit ==
  /\ \/ /\ mode = "nizk"
        /\ \E st \in Statements : st.mode = mode /\ stmt = st
        /\ NoMemory
        /\ stage = "start"
        /\ seed \in Seeds
     \/ /\ mode = "snark"
        /\ \E st \in Statements : st.mode = mode /\ stmt = st
        /\ entries = Addresses(1)
        /\ stage = "rows"
        /\ seed \in Seeds
     \/ /\ mode = "encode"
        /\ stmt = <<>>
        /\ entries \in EncodeBatches
        /\ stage = "rows"
        /\ seed = 0
  /\ inst = 1 /\ op = 0 /\ audit_ts = [a \in Cell |-> 0] /\ read_ts = Zeros
  /\ read_ts_vec = <<>>
  /\ ps = [t |-> 0, k |-> 0] /\ vs = [t |-> 0, k |-> 0]
  /\ sc = NoSumcheck /\ rx = <<>> /\ tau = <<>> /\ mid = <<>> /\ proof = <<>> /\ vc = NoCheck
  /\ dense = <<>> /\ comm = <<>> /\ net = <<>> /\ vnet = <<>>

SpartanNext ==
  \/ EncodeAccess \/ EncodeNextInst \/ EncodeRowsEnd \/ EncodeCommits
  \/ R1CSProve \/ R1CSVerify \/ NIZKReturns \/ NIZKChecks
  \/ ProveDerefs \/ ProveLayer \/ ProveMemory \/ ProveHashes
  \/ VerifyDerefs \/ VerifyLayer \/ VerifyMemory \/ VerifyHashes

SpartanSpec == SpartanInit /\ [][SpartanNext]_spartanVars
----------------------------------------------------------------------------
Stages ==
  {"rows", "cols", "encode_panicked", "start", "sumcheck1", "sumcheck2", "prover_panicked",
   "proved", "ops", "mem", "verify", "check1", "check2", "satisfied", "vops", "vmem",
   "accepted", "rejected", "panicked"}

SpartanTypeOK ==
  /\ TypeOK
  /\ stage \in Stages
  /\ mode \in {"nizk", "snark", "encode"}
  /\ \A s \in {ps, vs} : s.t \in 0 .. DigestMod - 1 /\ s.k \in Nat
  /\ sc.point \in Seq(Fp) /\ rx \in Seq(Fp) /\ tau \in Seq(Fp) /\ vc.point \in Seq(Fp)
  /\ sc.claim \in Fp /\ sc.blind_claim \in Fp
  /\ \A P \in {sc.comm_claim, vc.comm_claim} : P \in [1 .. NumGens -> Fp]

(* The sum of f over the points of the hypercube that continue point.       *)
SumOver(f(_), point, n) ==
  LET bits(i) == [k \in 1 .. n |-> (i \div 2 ^ (n - k)) % 2]
  IN  Sum([i \in 1 .. 2 ^ n |-> f(point \o bits(i - 1))])

RowsTerm(x) ==
  CombCubic(<<EqEvaluate(tau, x), Evaluate(MultiplyVec(stmt.A, Z), x),
              Evaluate(MultiplyVec(stmt.B, Z), x), Evaluate(MultiplyVec(stmt.C, Z), x)>>)

ColumnsTerm(y) == (Evaluate(Z, y) * Dot(mid.joint, EvaluateMatrices(rx, y))) % p

(* How the value at 1, which the prover infers from the claim, carries an   *)
(* error on: the basis polynomial of 1 over the nodes 0, 1, 2 and 3.        *)
Carries(r) == (Inv[2] * ((r * (r + p - 2) * (r + p - 3)) % p)) % p

(* What the prover claims before every round is the sum it is about, taken  *)
(* from the polynomials' definitions at the challenges so far (halving the  *)
(* tables and the sparse evaluation tables included), plus the error the    *)
(* first claim, zero, was made with, multiplied by every challenge's        *)
(* Carries.  The second sumcheck starts without error.                      *)
ErrorIsCarried ==
  LET n == Len(sc.point) IN
  /\ stage = "sumcheck1" =>
       (p + sc.claim - SumOver(RowsTerm, sc.point, RowVars - n)) % p
         = (Product([j \in 1 .. n |-> Carries(sc.point[j])])
              * ((p - SumOver(RowsTerm, <<>>, RowVars)) % p)) % p
  /\ stage = "sumcheck2" => sc.claim = SumOver(ColumnsTerm, sc.point, ColVars - n)

(* A finished proof is accepted exactly when the first sumcheck ended       *)
(* without error, which it does for satisfied instances, or the verifier's  *)
(* own challenge makes its check of that void; then both parties have had   *)
(* the same conversation.                                                   *)
AcceptsExactly ==
  /\ stage \in {"verify", "accepted", "rejected", "panicked"} /\ IsSat => mid.gap = 0
  /\ stage = "accepted" => mid.gap = 0 \/ vc.c = 0
  /\ stage = "accepted" /\ mid.gap = 0 => vs.t = ps.t
  /\ stage \in {"rejected", "panicked"} => mid.gap # 0

(* What the prover claims after every layer of a product circuit are the    *)
(* values of the polynomials of that layer, both halves, at the point; the  *)
(* first claims are the products of the whole input.                        *)
LayerClaimsTrue ==
  stage \in {"ops", "mem"} =>
    \A k \in DOMAIN net.batch.circuits :
      LET circuit == net.batch.circuits[k]
          table(l) == circuit[l][1] \o circuit[l][2]
          done == net.batch.layer
      IN  net.batch.claims[k] = IF done = Len(circuit) THEN Product(table(1))
                                ELSE Evaluate(table(done + 1), net.batch.rand)

(* The assertions of encoding and of the network never fail when the        *)
(* generators were made for the padded number of entries: the products over *)
(* timestamps balance, the halves of the dot products make the matrices'    *)
(* values, and every merged vector has the generators' length.              *)
EndsForAReason ==
  \/ stage # "encode_panicked"
       /\ (stage = "prover_panicked" /\ "sc2" \in DOMAIN proof => "evals" \in DOMAIN proof)
  \/ NextPow2(stmt.nz) # NumOps
=============================================================================
