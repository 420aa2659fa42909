------------------------- MODULE BookkeepingProofs -------------------------
(***************************************************************************)
(* Two components that keep books and compute nothing: the timestamps of   *)
(* Spartan's memory checking, and the two sponges.                         *)
(*                                                                         *)
(* For every number of cells, operations and matrices, every batch of      *)
(* matrices and every memory: the write set is a set, the read set is a    *)
(* set, and the subset audit balances after every access.                  *)
(*                                                                         *)
(* None of the three is inductive.  What is: every access read a timestamp *)
(* below its cell's current one (Below), no two accesses of a cell read    *)
(* the same one (Distinct), and every timestamp below the current one has  *)
(* been read (Dense).                                                      *)
(*                                                                         *)
(* The two sponges agree for every modulus, width, bound and permutation:  *)
(* Hash and the sum of the bits are never expanded.                        *)
(***************************************************************************)
EXTENDS AddrTimestamps, Sponge, TLAPS

----------------------------------------------------------------------------
(* Timestamps. *)

Below == \A p \in Done : ReadTs(p) < audit_ts[Addr(p)]

Distinct == \A p, q \in Done : p # q /\ Addr(p) = Addr(q) => ReadTs(p) # ReadTs(q)

Dense == \A a \in Cell : \A t \in Nat : t < audit_ts[a] =>
           \E p \in Done : Addr(p) = a /\ ReadTs(p) = t

IInv == TypeOK /\ Below /\ Distinct /\ Dense

----------------------------------------------------------------------------
(* An operation, a padded one included, reads a cell of the memory. *)
LEMMA AddrType ==
  ASSUME TypeOK, NEW i \in Inst, NEW j \in Op
  PROVE  OpsAddr(i, j) \in Cell
<1>1. PICK n \in 0 .. NumOps : entries[i] \in [1 .. n -> Cell]
  <2>1. entries[i] \in UNION {[1 .. n -> Cell] : n \in 0 .. NumOps}
    BY DEF TypeOK, Batches
  <2> QED
    BY <2>1
<1>2. Len(entries[i]) = n
  BY <1>1
<1>3. 0 \in Cell
  BY SizeAssumption DEF Cell
<1> QED
  BY <1>1, <1>2, <1>3 DEF OpsAddr, Op

(* A processed operation is a pair, with a cell and a timestamp. *)
LEMMA DoneTypes ==
  ASSUME TypeOK, NEW p \in Done
  PROVE  /\ p[1] \in Inst /\ p[2] \in Op /\ p = <<p[1], p[2]>>
         /\ Addr(p) \in Cell
         /\ ReadTs(p) \in Nat
<1>1. p[1] \in Inst /\ p[2] \in Op /\ p = <<p[1], p[2]>>
  BY DEF Done
<1>2. Addr(p) \in Cell
  BY <1>1, AddrType DEF Addr
<1>3. CASE p[1] < inst
  <2>1. p[1] \in 1 .. Len(read_ts_vec)
    BY <1>1, <1>3, SizeAssumption DEF TypeOK, Inst
  <2>2. read_ts_vec[p[1]] \in [Op -> Nat]
    BY <2>1 DEF TypeOK
  <2> QED
    BY <1>1, <1>2, <1>3, <2>2 DEF ReadTs
<1>4. CASE ~(p[1] < inst)
  BY <1>1, <1>2, <1>4 DEF ReadTs, TypeOK
<1> QED
  BY <1>3, <1>4

----------------------------------------------------------------------------
(* Before the first access all timestamps are zero and nothing is done. *)
LEMMA InitInv == Init => IInv
<1> SUFFICES ASSUME Init PROVE IInv
  OBVIOUS
<1>1. TypeOK
  BY SizeAssumption DEF Init, TypeOK, Zeros, Op, Cell
<1>2. Done = {}
  BY SizeAssumption DEF Init, Done, Inst, Op
<1>3. Dense
  BY DEF Init, Dense
<1> QED
  BY <1>1, <1>2, <1>3 DEF IInv, Below, Distinct

(* An access adds one operation, which reads what its cell held. *)
LEMMA AccessAdds ==
  ASSUME TypeOK, Access
  PROVE  \E n \in Inst \X Op :
           /\ n \notin Done
           /\ Done' = Done \cup {n}
           /\ Addr(n) \in Cell
           /\ \A p \in Inst \X Op : Addr(p)' = Addr(p)
           /\ ReadTs(n)' = audit_ts[Addr(n)]
           /\ \A p \in Done : ReadTs(p)' = ReadTs(p)
           /\ audit_ts' = [audit_ts EXCEPT ![Addr(n)] = @ + 1]
<1>1. inst \in Inst /\ op + 1 \in Op /\ op \in Nat /\ inst \in Nat
  BY SizeAssumption DEF Access, TypeOK, Inst, Op
<1>2. PICK n \in Inst \X Op : n = <<inst, op + 1>> /\ n[1] = inst /\ n[2] = op + 1
  <2>1. <<inst, op + 1>> \in Inst \X Op
    BY <1>1
  <2> QED
    BY <2>1
<1>3. n \notin Done
  BY <1>1, <1>2 DEF Done
<1>4. Done' = Done \cup {n}
  <2>1. ASSUME NEW p \in Inst \X Op PROVE p \in Done' <=> p \in Done \/ p = n
    <3>1. p[1] \in Int /\ p[2] \in Int /\ p = <<p[1], p[2]>>
      BY DEF Inst, Op
    <3>2. inst' = inst /\ op' = op + 1
      BY DEF Access
    <3>3. p \in Done' <=> p[1] < inst \/ (p[1] = inst /\ p[2] <= op + 1)
      BY <3>2 DEF Done
    <3>4. p \in Done <=> p[1] < inst \/ (p[1] = inst /\ p[2] <= op)
      BY DEF Done
    <3>5. p = n <=> p[1] = inst /\ p[2] = op + 1
      BY <3>1, <1>2
    <3> QED
      BY <1>1, <3>1, <3>3, <3>4, <3>5
  <2>2. Done \subseteq Inst \X Op /\ Done' \subseteq Inst \X Op
    BY DEF Done
  <2> QED
    BY <1>2, <2>1, <2>2
<1>5. Addr(n) = OpsAddr(inst, op + 1) /\ Addr(n) \in Cell
  BY <1>1, <1>2, AddrType DEF Addr
<1>6. \A p \in Inst \X Op : Addr(p)' = Addr(p)
  BY DEF Access, Addr, OpsAddr
<1>7. ReadTs(n)' = audit_ts[Addr(n)]
  BY <1>1, <1>2, <1>5 DEF Access, ReadTs, TypeOK
<1>8. \A p \in Done : ReadTs(p)' = ReadTs(p)
  <2> SUFFICES ASSUME NEW p \in Done PROVE ReadTs(p)' = ReadTs(p)
    OBVIOUS
  <2>1. p[2] \in Op /\ (p[1] < inst \/ p[2] # op + 1)
    BY <1>1 DEF Done, Op
  <2> QED
    BY <1>1, <2>1 DEF Access, ReadTs, TypeOK
<1>9. audit_ts' = [audit_ts EXCEPT ![Addr(n)] = @ + 1]
  BY <1>5 DEF Access
<1> QED
  BY <1>2, <1>3, <1>4, <1>5, <1>6, <1>7, <1>8, <1>9

(* One iteration of the inner loop keeps the invariant. *)
LEMMA AccessInv == IInv /\ Access => IInv'
<1> SUFFICES ASSUME IInv, Access PROVE IInv'
  OBVIOUS
<1>1. TypeOK
  BY DEF IInv
<1>2. PICK n \in Inst \X Op, a0 \in Cell :
      /\ n \notin Done /\ Done' = Done \cup {n}
      /\ Addr(n) = a0
      /\ Addr(n)' = a0
      /\ \A p \in Done : Addr(p)' = Addr(p)
      /\ ReadTs(n)' = audit_ts[a0]
      /\ \A p \in Done : ReadTs(p)' = ReadTs(p)
      /\ audit_ts' = [audit_ts EXCEPT ![a0] = @ + 1]
  <2>1. Done \subseteq Inst \X Op
    BY DEF Done
  <2> QED
    BY <1>1, <2>1, AccessAdds
<1>3. /\ audit_ts \in [Cell -> Nat] /\ audit_ts' \in [Cell -> Nat]
      /\ audit_ts'[a0] = audit_ts[a0] + 1
      /\ \A a \in Cell : a # a0 => audit_ts'[a] = audit_ts[a]
  BY <1>1, <1>2 DEF TypeOK
<1>4. \A p \in Done : Addr(p) \in Cell /\ ReadTs(p) \in Nat
  BY <1>1, DoneTypes
<1>5. TypeOK'
  <2>1. entries' \in Batches
    BY <1>1 DEF Access, TypeOK, Batches, Inst, Cell
  <2>2. op' \in 0 .. NumOps /\ inst' \in 1 .. Batch + 1 /\ (inst' > Batch => op' = 0)
    BY <1>1, SizeAssumption DEF Access, TypeOK
  <2>3. read_ts' \in [Op -> Nat]
    <3>1. OpsAddr(inst, op + 1) \in Cell
      BY SMTT(60), <1>1, SizeAssumption, AddrType DEF Access, TypeOK, Inst, Op
    <3>2. audit_ts[OpsAddr(inst, op + 1)] \in Nat
      BY <1>3, <3>1
    <3> QED
      BY <1>1, <3>2 DEF Access, TypeOK
  <2>4. read_ts_vec' \in Seq([Op -> Nat]) /\ Len(read_ts_vec') = inst' - 1
    BY <1>1 DEF Access, TypeOK
  <2> QED
    BY <1>3, <2>1, <2>2, <2>3, <2>4 DEF TypeOK
<1>6. Below'
  <2>1. ASSUME NEW p \in Done' PROVE ReadTs(p)' < audit_ts'[Addr(p)']
    <3>1. CASE p = n
      BY <1>2, <1>3, <3>1
    <3>2. CASE p \in Done
      <4>1. ReadTs(p) < audit_ts[Addr(p)]
        BY <3>2 DEF IInv, Below
      <4>2. audit_ts[Addr(p)] <= audit_ts'[Addr(p)]
        BY <1>3, <1>4, <3>2
      <4> QED
        BY <1>2, <1>3, <1>4, <3>2, <4>1, <4>2
    <3> QED
      BY <1>2, <2>1, <3>1, <3>2
  <2> QED
    BY <2>1 DEF Below
<1>7. Distinct'
  <2>1. ASSUME NEW p \in Done', NEW q \in Done', p # q, Addr(p)' = Addr(q)'
        PROVE  ReadTs(p)' # ReadTs(q)'
    <3>1. CASE p \in Done /\ q \in Done
      BY <1>2, <2>1, <3>1 DEF IInv, Distinct
    <3>2. CASE p \in Done /\ q = n
      <4>1. ReadTs(p) < audit_ts[a0]
        BY <1>2, <2>1, <3>2 DEF IInv, Below
      <4> QED
        BY <1>2, <1>3, <1>4, <3>2, <4>1
    <3>3. CASE p = n /\ q \in Done
      <4>1. ReadTs(q) < audit_ts[a0]
        BY <1>2, <2>1, <3>3 DEF IInv, Below
      <4> QED
        BY <1>2, <1>3, <1>4, <3>3, <4>1
    <3> QED
      BY <1>2, <2>1, <3>1, <3>2, <3>3
  <2> QED
    BY <2>1 DEF Distinct
<1>8. Dense'
  <2>1. ASSUME NEW a \in Cell, NEW t \in Nat, t < audit_ts'[a]
        PROVE  \E p \in Done' : Addr(p)' = a /\ ReadTs(p)' = t
    <3>1. CASE a = a0 /\ t = audit_ts[a0]
      BY <1>2, <3>1
    <3>2. CASE ~(a = a0 /\ t = audit_ts[a0])
      <4>1. t < audit_ts[a]
        BY <1>2, <1>3, <2>1, <3>2
      <4>2. PICK p \in Done : Addr(p) = a /\ ReadTs(p) = t
        BY <4>1 DEF IInv, Dense
      <4> QED
        BY <1>2, <4>2
    <3> QED
      BY <3>1, <3>2
  <2> QED
    BY <2>1 DEF Dense
<1> QED
  BY <1>5, <1>6, <1>7, <1>8 DEF IInv

(* Passing to the next matrix changes neither what was done nor what was read. *)
LEMMA NextInstInv == IInv /\ NextInst => IInv'
<1> SUFFICES ASSUME IInv, NextInst PROVE IInv'
  OBVIOUS
<1>1. TypeOK
  BY DEF IInv
<1>2. /\ inst \in Inst /\ inst \in Nat /\ op = NumOps
      /\ inst' = inst + 1 /\ op' = 0 /\ Len(read_ts_vec) = inst - 1
      /\ read_ts_vec' = Append(read_ts_vec, read_ts)
      /\ UNCHANGED <<entries, audit_ts>>
  BY <1>1, SizeAssumption DEF NextInst, TypeOK, Inst
<1>3. TypeOK'
  <2>1. read_ts_vec' \in Seq([Op -> Nat]) /\ Len(read_ts_vec') = inst' - 1
    BY <1>1, <1>2 DEF TypeOK
  <2>2. read_ts' \in [Op -> Nat]
    BY DEF NextInst, Zeros
  <2>3. entries' \in Batches /\ audit_ts' \in [Cell -> Nat]
    BY <1>1, <1>2 DEF TypeOK, Batches, Inst, Cell
  <2> QED
    BY <1>2, <2>1, <2>2, <2>3, SizeAssumption DEF TypeOK, Inst
<1>4. Done' = Done
  <2>1. ASSUME NEW p \in Inst \X Op PROVE p \in Done' <=> p \in Done
    <3>1. p[1] \in Int /\ p[2] \in Int /\ 1 <= p[2] /\ p[2] <= NumOps
      BY SizeAssumption DEF Inst, Op
    <3>2. p \in Done' <=> p[1] < inst + 1 \/ (p[1] = inst + 1 /\ p[2] <= 0)
      BY <1>2 DEF Done
    <3>3. p \in Done <=> p[1] < inst \/ (p[1] = inst /\ p[2] <= NumOps)
      BY <1>2 DEF Done
    <3> QED
      BY <1>2, <3>1, <3>2, <3>3
  <2>2. Done \subseteq Inst \X Op /\ Done' \subseteq Inst \X Op
    BY DEF Done
  <2> QED
    BY <2>1, <2>2
<1>5. \A p \in Done : Addr(p)' = Addr(p)
  BY <1>2 DEF Addr, OpsAddr
<1>6. \A p \in Done : ReadTs(p)' = ReadTs(p)
  <2> SUFFICES ASSUME NEW p \in Done PROVE ReadTs(p)' = ReadTs(p)
    OBVIOUS
  <2>1. p[1] \in 1 .. inst
    BY <1>2 DEF Done, Inst
  <2>2. ReadTs(p)' = read_ts_vec'[p[1]][p[2]]
    BY <1>2, <2>1 DEF ReadTs
  <2>3. CASE p[1] = inst
    <3>1. read_ts_vec'[inst] = read_ts
      BY <1>1, <1>2 DEF TypeOK
    <3> QED
      BY <1>2, <2>2, <2>3, <3>1 DEF ReadTs
  <2>4. CASE p[1] < inst
    <3>1. read_ts_vec'[p[1]] = read_ts_vec[p[1]]
      BY <1>1, <1>2, <2>1, <2>4 DEF TypeOK
    <3> QED
      BY <2>2, <2>4, <3>1 DEF ReadTs
  <2> QED
    BY <1>2, <2>1, <2>3, <2>4
<1>7. Below' /\ Distinct' /\ Dense'
  BY <1>2, <1>4, <1>5, <1>6 DEF IInv, Below, Distinct, Dense
<1> QED
  BY <1>3, <1>7 DEF IInv

(* So does the step to the next matrix. *)
LEMMA StepInv == IInv /\ [Next]_vars => IInv'
<1> SUFFICES ASSUME IInv, [Next]_vars PROVE IInv'
  OBVIOUS
<1>1. CASE Access
  BY <1>1, AccessInv
<1>2. CASE NextInst
  BY <1>2, NextInstInv
<1>3. CASE UNCHANGED vars
  BY <1>3 DEF vars, IInv, TypeOK, Below, Distinct, Dense, Done, ReadTs, Addr, OpsAddr
<1> QED
  BY <1>1, <1>2, <1>3 DEF Next

(* The strengthened invariant holds in every reachable state. *)
THEOREM TimestampInvariance == Spec => []IInv
<1>1. Init => IInv
  BY InitInv
<1>2. IInv /\ [Next]_vars => IInv'
  BY StepInv
<1> QED
  BY <1>1, <1>2, PTL DEF Spec

(* AddrTimestamps::new: the write set is a set, for every batch and size. *)
THEOREM WriteSetIsASet == Spec => []WritesAreASet
<1>1. IInv => WritesAreASet
  <2> SUFFICES ASSUME IInv PROVE WritesAreASet
    OBVIOUS
  <2>1. \A p \in Done : Addr(p) \in Cell /\ ReadTs(p) \in Nat
    BY DoneTypes DEF IInv
  <2>2. ASSUME NEW p \in Done, NEW q \in Done, p # q PROVE WriteTuple(p) # WriteTuple(q)
    <3>1. Addr(p) # Addr(q) \/ ReadTs(p) + 1 # ReadTs(q) + 1
      BY <2>1, <2>2 DEF IInv, Distinct
    <3> QED
      BY <3>1 DEF WriteTuple
  <2>3. ASSUME NEW p \in Done, NEW a \in Cell PROVE WriteTuple(p) # InitTuple(a)
    <3>1. ReadTs(p) + 1 # 0
      BY <2>1
    <3> QED
      BY <3>1 DEF WriteTuple, InitTuple
  <2> QED
    BY <2>2, <2>3 DEF WritesAreASet
<1> QED
  BY <1>1, TimestampInvariance, PTL

(* No read is made twice, and the audit finds nothing that was read. *)
LEMMA ReadSetIsASet == IInv => ReadsAreASet
<1> SUFFICES ASSUME IInv PROVE ReadsAreASet
  OBVIOUS
<1>1. \A p \in Done : Addr(p) \in Cell /\ ReadTs(p) \in Nat
  BY DoneTypes DEF IInv
<1>2. ASSUME NEW p \in Done, NEW q \in Done, p # q PROVE ReadTuple(p) # ReadTuple(q)
  <2>1. Addr(p) # Addr(q) \/ ReadTs(p) # ReadTs(q)
    BY <1>2 DEF IInv, Distinct
  <2> QED
    BY <2>1 DEF ReadTuple
<1>3. ASSUME NEW p \in Done, NEW a \in Cell PROVE ReadTuple(p) # AuditTuple(a)
  <2>1. Addr(p) = a => ReadTs(p) < audit_ts[a]
    BY DEF IInv, Below
  <2>2. Addr(p) # a \/ ReadTs(p) # audit_ts[a]
    BY <1>1, <2>1
  <2> QED
    BY <2>2 DEF ReadTuple, AuditTuple
<1> QED
  BY <1>2, <1>3 DEF ReadsAreASet

(* Layers::new: reads and final memory are all distinct, and are the initial *)
(* memory and the writes: for every batch, of any size. *)
THEOREM SubsetAudit == Spec => []AuditBalances
<1>1. IInv => AuditBalances
  <2> SUFFICES ASSUME IInv PROVE AuditBalances
    OBVIOUS
  <2> DEFINE T(a, t) == <<a, MemVal(a), t>>
             All == {T(e[1], e[2]) : e \in {f \in Cell \X Nat : f[2] <= audit_ts[f[1]]}}
  <2>1. \A p \in Done : Addr(p) \in Cell /\ ReadTs(p) \in Nat /\ ReadTs(p) < audit_ts[Addr(p)]
    BY DoneTypes DEF IInv, Below
  <2>2. audit_ts \in [Cell -> Nat]
    BY DEF IInv, TypeOK
  <2>3. \A a \in Cell, t \in Nat : t < audit_ts[a] => \E p \in Done : Addr(p) = a /\ ReadTs(p) = t
    BY DEF IInv, Dense
  <2>4. {InitTuple(a) : a \in Cell} \cup {WriteTuple(p) : p \in Done} = All
    <3>1. ASSUME NEW a \in Cell PROVE InitTuple(a) \in All
      <4>1. <<a, 0>> \in {f \in Cell \X Nat : f[2] <= audit_ts[f[1]]}
        BY <2>2
      <4> QED
        BY <4>1 DEF InitTuple
    <3>2. ASSUME NEW p \in Done PROVE WriteTuple(p) \in All
      <4>1. <<Addr(p), ReadTs(p) + 1>> \in {f \in Cell \X Nat : f[2] <= audit_ts[f[1]]}
        BY <2>1, <2>2
      <4> QED
        BY <4>1 DEF WriteTuple
    <3>3. ASSUME NEW a \in Cell, NEW t \in Nat, t <= audit_ts[a]
          PROVE  T(a, t) = InitTuple(a) \/ \E p \in Done : T(a, t) = WriteTuple(p)
      <4>1. CASE t = 0
        BY <4>1 DEF InitTuple
      <4>2. CASE t # 0
        <5>1. t - 1 \in Nat /\ t - 1 < audit_ts[a]
          BY <2>2, <3>3, <4>2
        <5>2. PICK p \in Done : Addr(p) = a /\ ReadTs(p) = t - 1
          BY <2>3, <5>1
        <5>3. T(a, t) = WriteTuple(p)
          BY <5>2 DEF WriteTuple
        <5> QED
          BY <5>3
      <4> QED
        BY <4>1, <4>2
    <3> QED
      BY SMTT(60), <3>1, <3>2, <3>3
  <2>5. {ReadTuple(p) : p \in Done} \cup {AuditTuple(a) : a \in Cell} = All
    <3>1. ASSUME NEW a \in Cell PROVE AuditTuple(a) \in All
      <4>1. <<a, audit_ts[a]>> \in {f \in Cell \X Nat : f[2] <= audit_ts[f[1]]}
        BY <2>2
      <4> QED
        BY <4>1 DEF AuditTuple
    <3>2. ASSUME NEW p \in Done PROVE ReadTuple(p) \in All
      <4>1. <<Addr(p), ReadTs(p)>> \in {f \in Cell \X Nat : f[2] <= audit_ts[f[1]]}
        BY <2>1, <2>2
      <4> QED
        BY <4>1 DEF ReadTuple
    <3>3. ASSUME NEW a \in Cell, NEW t \in Nat, t <= audit_ts[a]
          PROVE  T(a, t) = AuditTuple(a) \/ \E p \in Done : T(a, t) = ReadTuple(p)
      <4>1. CASE t = audit_ts[a]
        BY <4>1 DEF AuditTuple
      <4>2. CASE t # audit_ts[a]
        <5>1. t < audit_ts[a]
          BY <2>2, <3>3, <4>2
        <5>2. PICK p \in Done : Addr(p) = a /\ ReadTs(p) = t
          BY <2>3, <5>1
        <5>3. T(a, t) = ReadTuple(p)
          BY <5>2 DEF ReadTuple
        <5> QED
          BY <5>3
      <4> QED
        BY <4>1, <4>2
    <3> QED
      BY SMTT(60), <3>1, <3>2, <3>3
  <2> QED
    BY <2>4, <2>5, ReadSetIsASet DEF AuditBalances
<1> QED
  BY <1>1, TimestampInvariance, PTL

----------------------------------------------------------------------------
(* Sponges. *)

(* A sponge is a record of these fields, whatever their values. *)
IsSponge(s) ==
  s = [state |-> s.state, numAbsorbs |-> s.numAbsorbs, squeezed |-> s.squeezed,
       fate |-> s.fate, digest |-> s.digest, bits |-> s.bits]

(* Both were declared and have absorbed the same, and are squeezed together. *)
SInv ==
  /\ IsSponge(native) /\ IsSponge(gadget)
  /\ native.squeezed \in BOOLEAN
  /\ native.state = gadget.state
  /\ native.numAbsorbs = gadget.numAbsorbs
  /\ native.squeezed = gadget.squeezed
  /\ ~native.squeezed => native.fate = gadget.fate
  /\ SpongesAgree

(* The low bits of a number are the same in any representation that has them. *)
LEMMA LowBits ==
  ASSUME NEW v, NEW m \in Nat, NEW n \in Nat, NEW k \in Nat, k <= m, k <= n
  PROVE  SubSeq(BitsOf(v, m), 1, k) = SubSeq(BitsOf(v, n), 1, k)
<1> DEFINE b(i) == (v \div 2^(i - 1)) % 2
<1>1. BitsOf(v, m) = [i \in 1 .. m |-> b(i)] /\ BitsOf(v, n) = [i \in 1 .. n |-> b(i)]
  BY DEF BitsOf
<1> HIDE DEF b
<1>2. /\ SubSeq(BitsOf(v, m), 1, k) = [i \in 1 .. k |-> b(i)]
      /\ SubSeq(BitsOf(v, n), 1, k) = [i \in 1 .. k |-> b(i)]
  BY <1>1
<1> QED
  BY <1>2

(* Two new sponges agree. *)
LEMMA InitSponges == SpongeInit => SInv
  BY DEF SpongeInit, NewSponge, SInv, IsSponge, SpongesAgree

(* Absorbing and squeezing keep the two sponges in agreement. *)
LEMMA StepSponges == SInv /\ [SpongeNext]_<<native, gadget>> => SInv'
<1> SUFFICES ASSUME SInv, [SpongeNext]_<<native, gadget>> PROVE SInv'
  OBVIOUS
<1>1. ASSUME NEW e \in Inputs, Absorbs(e) PROVE SInv'
  BY <1>1 DEF Absorbs, AbsorbInto, Panics, SInv, IsSponge, SpongesAgree
<1>2. CASE SqueezesElement
  BY <1>2 DEF SqueezesElement, Squeezed, Panics, SInv, IsSponge, SpongesAgree
<1>3. ASSUME NEW bits \in 0 .. ReprBits + 1, SqueezesBits(bits) PROVE SInv'
  <2> DEFINE h == Hash(native.numAbsorbs, native.state)
             Digest(available) == <<FromBits(SubSeq(BitsOf(h, available), 1, bits))>>
  <2>1. CASE native.squeezed \/ Len(native.state) # native.numAbsorbs
    BY ZenonT(60), <1>3, <2>1 DEF SqueezesBits, Squeezed, Low, Panics, SInv, IsSponge, SpongesAgree
  <2>2. CASE ~(native.squeezed \/ Len(native.state) # native.numAbsorbs)
    <3>1. bits \in Nat /\ FieldBits \in Nat /\ ReprBits \in Nat /\ FieldBits <= ReprBits
      BY SpongeAssumption
    <3>2. native.fate = "ok" /\ gadget.fate = "ok"
      BY <1>3, <2>2 DEF SqueezesBits, SInv
    <3>4. /\ native' = IF bits > ReprBits
                         THEN [native EXCEPT !.squeezed = TRUE, !.digest = <<h>>, !.bits = bits,
                                             !.fate = "panic"]
                         ELSE [native EXCEPT !.squeezed = TRUE, !.bits = bits,
                                             !.digest = Digest(ReprBits)]
          /\ gadget' = IF bits > FieldBits
                         THEN [gadget EXCEPT !.squeezed = TRUE, !.digest = <<h>>, !.bits = bits,
                                             !.fate = "panic"]
                         ELSE [gadget EXCEPT !.squeezed = TRUE, !.bits = bits,
                                             !.digest = Digest(FieldBits)]
      BY <1>3, <2>2, <3>2 DEF SqueezesBits, Squeezed, Low, Panics, SInv, IsSponge
    <3>3. bits <= FieldBits => Digest(ReprBits) = Digest(FieldBits)
      <4> HIDE DEF h
      <4>1. bits <= FieldBits => SubSeq(BitsOf(h, ReprBits), 1, bits) = SubSeq(BitsOf(h, FieldBits), 1, bits)
        BY <3>1, LowBits
      <4> QED
        BY <4>1
    <3> HIDE DEF h, Digest
    <3>5. /\ IsSponge(native') /\ IsSponge(gadget')
          /\ native'.state = native.state /\ gadget'.state = gadget.state
          /\ native'.numAbsorbs = native.numAbsorbs /\ gadget'.numAbsorbs = gadget.numAbsorbs
          /\ native'.squeezed = TRUE /\ gadget'.squeezed = TRUE
      BY <3>4 DEF SInv, IsSponge
    <3>6. /\ native'.bits = bits
          /\ native'.fate = IF bits > ReprBits THEN "panic" ELSE "ok"
          /\ gadget'.fate = IF bits > FieldBits THEN "panic" ELSE "ok"
          /\ bits <= FieldBits => native'.digest = Digest(ReprBits) /\ gadget'.digest = Digest(FieldBits)
      BY <3>1, <3>2, <3>4 DEF SInv, IsSponge
    <3>7. SpongesAgree'
      BY <3>1, <3>3, <3>6 DEF SpongesAgree
    <3> QED
      BY <3>5, <3>7 DEF SInv
  <2> QED
    BY <2>1, <2>2
<1>4. CASE UNCHANGED <<native, gadget>>
  BY <1>4 DEF SInv, IsSponge, SpongesAgree
<1> QED
  BY <1>1, <1>2, <1>3, <1>4 DEF SpongeNext

(* However the sponges are used, in or out of turn, the digest in the circuit is
   the prover's own. *)
THEOREM SpongesMatch == SpongeSpec => []SpongesAgree
<1>1. SInv => SpongesAgree
  BY DEF SInv
<1> QED
  BY <1>1, InitSponges, StepSponges, PTL DEF SpongeSpec
=============================================================================
