--------------------------- MODULE AddrTimestamps ---------------------------
(***************************************************************************)
(* The offline memory checking behind Spartan's sparse polynomials: the    *)
(* entries of a batch of sparse matrices are padded to one length and      *)
(* become reads of a memory (the table of eq evaluations), and every read  *)
(* is followed by a write that raises its cell's timestamp by one.  The    *)
(* verifier is later convinced by the products of two multisets of         *)
(* (address, value, timestamp) being equal.                                *)
(*                                                                         *)
(* One action is one iteration of a loop of AddrTimestamps::new; the       *)
(* multisets are those Layers::build_hash_layer hashes.  Indices start at  *)
(* 1; addresses, as in the code, at 0.                                     *)
(***************************************************************************)
EXTENDS Integers, Sequences, FiniteSets

CONSTANTS
  NumCells,    \* num_mem_cells: the larger of 2^num_vars_x and 2^num_vars_y
  NumOps,      \* N: the largest padded number of entries in the batch
  Batch,       \* number of matrices (A, B and C)
  MemVal(_)    \* eval_table[a], the value of memory cell a

ASSUME SizeAssumption ==
  /\ NumCells \in Nat \ {0}
  /\ NumOps \in Nat \ {0}
  /\ Batch \in Nat

VARIABLES
  entries,      \* entries[i]: the row (or column) of each entry of matrix i
  inst,         \* the matrix whose accesses are processed
  op,           \* how many of them are
  audit_ts,     \* the cells' current timestamps
  read_ts,      \* the timestamps read by the operations of matrix inst
  read_ts_vec   \* those of the matrices before it

vars == <<entries, inst, op, audit_ts, read_ts, read_ts_vec>>

Cell == 0 .. NumCells - 1
Inst == 1 .. Batch
Op == 1 .. NumOps

NextPowerOfTwo(n) == CHOOSE p \in 1 .. 2 * n + 1 :
                       /\ \E e \in 0 .. n : p = 2 ^ e
                       /\ n <= p /\ (p = 1 \/ p \div 2 < n)

(* sparse_to_dense_vecs: entries beyond the matrix's own read address 0. *)
OpsAddr(i, j) == IF j <= Len(entries[i]) THEN entries[i][j] ELSE 0

Zeros == [j \in Op |-> 0]

----------------------------------------------------------------------------
Batches == [Inst -> UNION {[1 .. n -> Cell] : n \in 0 .. NumOps}]

Init ==
  /\ entries \in Batches
  /\ \A i \in Inst : NextPowerOfTwo(Len(entries[i])) <= NumOps
  /\ \E i \in Inst : NextPowerOfTwo(Len(entries[i])) = NumOps
  /\ inst = 1
  /\ op = 0
  /\ audit_ts = [a \in Cell |-> 0]
  /\ read_ts = Zeros
  /\ read_ts_vec = <<>>

(* Faulty variants of an access: the timestamp is read after the write;      *)
(* padding reads are not followed by a write.                                *)
AccessReadsAfterWrite ==
  /\ inst <= Batch
  /\ op < NumOps
  /\ LET addr == OpsAddr(inst, op + 1)
     IN  /\ read_ts' = [read_ts EXCEPT ![op + 1] = audit_ts[addr] + 1]
         /\ audit_ts' = [audit_ts EXCEPT ![addr] = @ + 1]
  /\ op' = op + 1
  /\ UNCHANGED <<entries, inst, read_ts_vec>>
AccessSkipsPadding ==
  /\ inst <= Batch
  /\ op < NumOps
  /\ LET addr == OpsAddr(inst, op + 1)
     IN  /\ read_ts' = [read_ts EXCEPT ![op + 1] = audit_ts[addr]]
         /\ audit_ts' = IF op < Len(entries[inst]) THEN [audit_ts EXCEPT ![addr] = @ + 1]
                        ELSE audit_ts
  /\ op' = op + 1
  /\ UNCHANGED <<entries, inst, read_ts_vec>>

(* One read of the inner loop, and the write that follows it. *)
Access ==
  /\ inst <= Batch
  /\ op < NumOps
  /\ LET addr == OpsAddr(inst, op + 1)
         r_ts == audit_ts[addr]
     IN  /\ read_ts' = [read_ts EXCEPT ![op + 1] = r_ts]
         /\ audit_ts' = [audit_ts EXCEPT ![addr] = r_ts + 1]
  /\ op' = op + 1
  /\ UNCHANGED <<entries, inst, read_ts_vec>>

(* Faulty variants of the outer loop: op is not reset; audit_ts is. *)
NextInstKeepsOp ==
  /\ inst <= Batch
  /\ op = NumOps
  /\ read_ts_vec' = Append(read_ts_vec, read_ts)
  /\ read_ts' = Zeros
  /\ inst' = inst + 1
  /\ UNCHANGED <<entries, op, audit_ts>>
NextInstFreshAudit ==
  /\ inst <= Batch
  /\ op = NumOps
  /\ read_ts_vec' = Append(read_ts_vec, read_ts)
  /\ read_ts' = Zeros
  /\ inst' = inst + 1
  /\ op' = 0
  /\ audit_ts' = [a \in Cell |-> 0]
  /\ UNCHANGED entries

(* The end of the outer loop's body: the next matrix goes on with audit_ts. *)
NextInst ==
  /\ inst <= Batch
  /\ op = NumOps
  /\ read_ts_vec' = Append(read_ts_vec, read_ts)
  /\ read_ts' = Zeros
  /\ inst' = inst + 1
  /\ op' = 0
  /\ UNCHANGED <<entries, audit_ts>>

Next == Access \/ NextInst

Spec == Init /\ [][Next]_vars

----------------------------------------------------------------------------
(* The operations processed so far, and what each of them read. *)
Done == {p \in Inst \X Op : p[1] < inst \/ (p[1] = inst /\ p[2] <= op)}
Addr(p) == OpsAddr(p[1], p[2])
ReadTs(p) == IF p[1] < inst THEN read_ts_vec[p[1]][p[2]] ELSE read_ts[p[2]]

(* The tuples build_hash_layer hashes: initial and final memory, reads, writes. *)
InitTuple(a) == <<a, MemVal(a), 0>>
AuditTuple(a) == <<a, MemVal(a), audit_ts[a]>>
ReadTuple(p) == <<Addr(p), MemVal(Addr(p)), ReadTs(p)>>
WriteTuple(p) == <<Addr(p), MemVal(Addr(p)), ReadTs(p) + 1>>

TypeOK ==
  /\ entries \in Batches
  /\ inst \in 1 .. Batch + 1
  /\ op \in 0 .. NumOps
  /\ inst > Batch => op = 0
  /\ audit_ts \in [Cell -> Nat]
  /\ read_ts \in [Op -> Nat]
  /\ read_ts_vec \in Seq([Op -> Nat])
  /\ Len(read_ts_vec) = inst - 1

(* "this is sufficient to ensure that the write-set, consisting of (addr,    *)
(* val, ts) tuples, is a set": no two writes of the whole batch, padding     *)
(* included, are the same tuple, and none is a cell's initial tuple.         *)
WritesAreASet ==
  /\ \A p, q \in Done : p # q => WriteTuple(p) # WriteTuple(q)
  /\ \A p \in Done, a \in Cell : WriteTuple(p) # InitTuple(a)

(* No read consumes what another read consumed or what the audit will find.  *)
ReadsAreASet ==
  /\ \A p, q \in Done : p # q => ReadTuple(p) # ReadTuple(q)
  /\ \A p \in Done, a \in Cell : ReadTuple(p) # AuditTuple(a)

(* The subset audit of Layers::new (hashed_read_set = hashed_write_set): the *)
(* reads and the final memory are all distinct, and together they are the    *)
(* initial memory with all writes, which are distinct by WritesAreASet: the  *)
(* multisets are equal, whatever r_mem_check.                                *)
AuditBalances ==
  /\ ReadsAreASet
  /\ {InitTuple(a) : a \in Cell} \cup {WriteTuple(p) : p \in Done}
       = {ReadTuple(p) : p \in Done} \cup {AuditTuple(a) : a \in Cell}

============================================================================
