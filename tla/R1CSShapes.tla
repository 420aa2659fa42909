----------------------------- MODULE R1CSShapes -----------------------------
(***************************************************************************)
(* From a circuit to the R1CS instances the two SNARKs prove.  A circuit   *)
(* is synthesised twice: by the verifier into ShapeCS, which keeps the     *)
(* constraints, and by the prover into SatisfyingAssignment, which keeps   *)
(* the values.  Matrices are made from the constraints only at the end,    *)
(* padded by R1CSShape::pad (Spartan) or R1CSInstance::new_from_shape      *)
(* (R1CS-IPA), and padded again by Instance::new_from_shape when Spartan's *)
(* verifier rebuilds the instance.                                         *)
(*                                                                         *)
(* A state is a circuit synthesised so far, so every circuit within the    *)
(* bounds is checked.  Rows and columns count from 0, as in the code; the  *)
(* field is the one the inner product argument commits over (IPABase).     *)
(***************************************************************************)
EXTENDS IPABase

CONSTANTS
  Values,      \* the field elements circuits assign
  LCsA(_), LCsB(_), LCsC(_), \* the linear combinations over given variables
  MaxInputs, MaxAux, MaxCons \* bounds on the circuits

(* Index::Input(i) and Index::Aux(i), given how many there are of each. *)
VariablesOf(inputs, auxs) ==
  [kind : {"input"}, idx : 0 .. inputs - 1] \cup [kind : {"aux"}, idx : 0 .. auxs - 1]

LCsOf(vs) == Seq([var : vs, coeff : Fq])

(* Circuits assign field elements and combine variables they allocated.    *)
ASSUME CircuitsAssumption ==
  /\ Values \subseteq Fq
  /\ MaxInputs \in Nat /\ MaxAux \in Nat /\ MaxCons \in Nat
  /\ \A i \in 1 .. MaxInputs + 1, k \in 0 .. MaxAux :
       LET vs == VariablesOf(i, k)
       IN  LCsA(vs) \cup LCsB(vs) \cup LCsC(vs) \subseteq LCsOf(vs)

VARIABLES
  constraints,       \* ShapeCS: the constraints, [A, B, C] of linear combinations
  input_assignment,  \* SatisfyingAssignment: 1, then the public inputs
  aux_assignment     \* SatisfyingAssignment: the witness

vars == <<constraints, input_assignment, aux_assignment>>

LargerOf(a, b) == IF a >= b THEN a ELSE b

(* The variables allocated so far. *)
Variables == VariablesOf(Len(input_assignment), Len(aux_assignment))

----------------------------------------------------------------------------
(* Faulty variant: the prover's inputs do not start with ONE. *)
InitWithoutOne ==
  /\ constraints = <<>>
  /\ input_assignment = <<>>
  /\ aux_assignment = <<>>

Init ==
  /\ constraints = <<>>
  /\ input_assignment = <<1>>
  /\ aux_assignment = <<>>

Alloc(v) ==
  /\ Len(aux_assignment) < MaxAux
  /\ aux_assignment' = Append(aux_assignment, v)
  /\ UNCHANGED <<constraints, input_assignment>>

AllocInput(v) ==
  /\ Len(input_assignment) <= MaxInputs
  /\ input_assignment' = Append(input_assignment, v)
  /\ UNCHANGED <<constraints, aux_assignment>>

Enforce(a, b, c) ==
  /\ Len(constraints) < MaxCons
  /\ constraints' = Append(constraints, [A |-> a, B |-> b, C |-> c])
  /\ UNCHANGED <<input_assignment, aux_assignment>>

Next ==
  \/ \E v \in Values : Alloc(v) \/ AllocInput(v)
  \/ \E a \in LCsA(Variables), b \in LCsB(Variables), c \in LCsC(Variables) : Enforce(a, b, c)

Spec == Init /\ [][Next]_vars

----------------------------------------------------------------------------
(* add_constraint: inputs come last, after every witness column. *)
Column(x, num_vars) == IF x.kind = "aux" THEN x.idx ELSE x.idx + num_vars

Entries(side, num_vars) ==
  FlattenSeq([n \in 1 .. Len(constraints) |->
    [k \in 1 .. Len(constraints[n][side]) |->
       LET term == constraints[n][side][k]
       IN  <<n - 1, Column(term.var, num_vars), term.coeff>>]])

(* r1cs_shape_unpadded; ONE is not counted among the inputs. *)
Unpadded ==
  LET num_vars == Len(aux_assignment)
  IN  [num_cons |-> Len(constraints), num_vars |-> num_vars,
       num_io |-> Len(input_assignment) - 1,
       M |-> [side \in {"A", "B", "C"} |-> Entries(side, num_vars)]]

(* Faulty variant: the column of ONE stays behind. *)
ShiftAfterOne(M, from, by) ==
  [k \in DOMAIN M |-> IF M[k][2] > from THEN <<M[k][1], M[k][2] + by, M[k][3]>> ELSE M[k]]

(* Columns from num_vars on move to make room for padding variables. *)
Shift(M, from, by) ==
  [k \in DOMAIN M |-> IF M[k][2] >= from THEN <<M[k][1], M[k][2] + by, M[k][3]>> ELSE M[k]]

(* R1CSShape::pad: as many variables as constraints, a power of two. *)
Pad(shape) ==
  LET m == NextPowerOfTwo(LargerOf(shape.num_vars, shape.num_cons))
  IN  [num_cons |-> m, num_vars |-> m, num_io |-> shape.num_io,
       M |-> [side \in {"A", "B", "C"} |->
                Shift(shape.M[side], shape.num_vars, m - shape.num_vars)]]

----------------------------------------------------------------------------
(* Az, Bz or Cz in one row of a sparse matrix; z counts from 0. *)
RowTimes(M, z, row) ==
  MapThenSumSet(LAMBDA k : IF M[k][1] = row THEN M[k][3] * z[M[k][2] + 1] ELSE 0,
                DOMAIN M) % q

RowsHold(M, z, rows) ==
  \A row \in 0 .. rows - 1 :
    (RowTimes(M["A"], z, row) * RowTimes(M["B"], z, row)) % q = RowTimes(M["C"], z, row)

PadTo(w, n) == w \o [k \in 1 .. n - Len(w) |-> 0]

(* R1CS-IPA, new_from_shape: rows are added until rows + cols is a power of two. *)
IpaInstance(shape) ==
  LET cols == shape.num_vars + shape.num_io + 1
      total == shape.num_cons + cols
  IN  [rows |-> shape.num_cons + NextPowerOfTwo(total) - total, cols |-> cols, M |-> shape.M]

(* R1CSInstance::check on the witness r1cs_witness_and_inputs returns. *)
IpaCheck(shape) ==
  LET r1cs == IpaInstance(shape)
  IN  RowsHold(r1cs.M, PadTo(aux_assignment, shape.num_vars) \o input_assignment, r1cs.rows)

(* Spartan, R1CSInstance::new with its assertions. *)
R1CSInstance(num_cons, num_vars, num_inputs, M) ==
  [num_cons |-> num_cons, num_vars |-> num_vars, num_inputs |-> num_inputs, M |-> M,
   panics |-> \/ NextPowerOfTwo(num_cons) # num_cons
              \/ NextPowerOfTwo(num_vars) # num_vars
              \/ num_inputs >= num_vars]

(* Faulty variant: no room for the inputs. *)
VarsPaddedNoInputs(shape) == NextPowerOfTwo(shape.num_vars)

(* Instance::new and new_from_shape: what they pad to... *)
VarsPadded(shape) == NextPowerOfTwo(LargerOf(shape.num_vars, shape.num_io + 1))

ConsPadded(shape) ==
  LET n == shape.num_cons
  IN  IF NextPowerOfTwo(n) # n THEN NextPowerOfTwo(n) ELSE IF n <= 1 THEN 2 ELSE n

(* ...and the instance: columns renumbered, dummy rows when there were 0 or 1. *)
NewInstance(shape) ==
  LET vp == VarsPadded(shape)
      cp == ConsPadded(shape)
      Scalars(M) ==
        LET dummies == IF shape.num_cons <= 1 THEN cp - Len(M) ELSE 0
        IN  Shift(M, shape.num_vars, vp - shape.num_vars)
              \o [k \in 1 .. dummies |-> <<Len(M) + k - 1, shape.num_vars, 0>>]
  IN  R1CSInstance(cp, vp, shape.num_io, [side \in {"A", "B", "C"} |-> Scalars(shape.M[side])])

(* is_sat: the padded witness, then 1, then the inputs. *)
IsSat(inst) ==
  RowsHold(inst.M, PadTo(aux_assignment, inst.num_vars) \o input_assignment, inst.num_cons)

(* What the Spartan prover proves (r1cs_instance_and_witness) and what its   *)
(* verifier verifies, both from the padded shape.                            *)
Padded == Pad(Unpadded)
ProverInstance == R1CSInstance(Padded.num_cons, Padded.num_vars, Padded.num_io, Padded.M)
VerifierInstance == NewInstance(Padded)

----------------------------------------------------------------------------
TypeOK ==
  /\ constraints \in Seq([A : LCsOf(Variables), B : LCsOf(Variables), C : LCsOf(Variables)])
  /\ input_assignment \in Seq(Fq) /\ input_assignment # <<>>
  /\ aux_assignment \in Seq(Fq)

(* The circuit's own meaning, without matrices. *)
ValueOf(x) ==
  IF x.kind = "aux" THEN aux_assignment[x.idx + 1] ELSE input_assignment[x.idx + 1]
ValueOfLC(lc) ==
  MapThenSumSet(LAMBDA k : lc[k].coeff * ValueOf(lc[k].var), DOMAIN lc) % q
CircuitHolds ==
  \A n \in 1 .. Len(constraints) :
    (ValueOfLC(constraints[n].A) * ValueOfLC(constraints[n].B)) % q
      = ValueOfLC(constraints[n].C)

(* Shapes, witnesses and paddings fit together: the instance of R1CS-IPA is  *)
(* satisfied exactly when the circuit is, and so are Spartan's, whichever    *)
(* way they came about: padded once, padded twice, or by Instance::new from  *)
(* the unpadded shape.                                                       *)
MeaningKept ==
  /\ IpaCheck(Unpadded) <=> CircuitHolds
  /\ \A inst \in {ProverInstance, VerifierInstance, NewInstance(Unpadded)} :
       ~inst.panics => (IsSat(inst) <=> CircuitHolds)

(* Prover and verifier work on the same instance, and so put the same digest *)
(* in the transcript, unless the circuit has at most one constraint and one  *)
(* witness variable, or so many inputs that the prover's assertion fails;    *)
(* the verifier's Instance::new never fails those of R1CSInstance::new.      *)
InstancesAgree ==
  /\ ~ProverInstance.panics /\ Padded.num_cons > 1 => ProverInstance = VerifierInstance
  /\ ~VerifierInstance.panics /\ ~NewInstance(Unpadded).panics

(* "ensure that num_cons_padded is at least 2"                               *)
AtLeastTwoRows == ConsPadded(Unpadded) >= 2
============================================================================
