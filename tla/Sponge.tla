------------------------------- MODULE Sponge -------------------------------
(***************************************************************************)
(* The Poseidon sponge wrappers (nr-blind-sig/src/poseidon.rs): one for    *)
(* the prover outside, one inside a circuit, driven in step, as the show   *)
(* proof drives them.  The sponge of neptune is external: Hash stands for  *)
(* it, a function of the declared number and the list of what is absorbed. *)
(* Both panic when used out of turn.                                       *)
(***************************************************************************)
EXTENDS Integers, SequencesExt

CONSTANTS
  SpongeP,       \* the modulus of the circuit's field
  FieldBits,     \* its bits
  ReprBits,      \* the bits of its byte representation, which may be more
  Inputs,        \* elements to absorb
  MaxAbsorbs     \* bound on the elements absorbed

VARIABLES
  native,   \* Poseidon
  gadget    \* PoseidonCircuit, over numbers of an honest synthesis

ASSUME SpongeAssumption ==
  /\ {SpongeP, FieldBits, ReprBits, MaxAbsorbs} \subseteq Nat
  /\ SpongeP < 2^FieldBits /\ FieldBits <= ReprBits
  /\ Inputs \subseteq 0 .. SpongeP - 1

Hash(declared, list) ==
  FoldLeft(LAMBDA h, e : (h * 7 + e * e + 3) % SpongeP, declared % SpongeP, list)

NewSponge(n) ==
  [state |-> <<>>, numAbsorbs |-> n, squeezed |-> FALSE, fate |-> "ok", digest |-> <<>>,
   bits |-> 0]

Panics(s) == [s EXCEPT !.fate = "panic"]

AbsorbInto(s, e) ==
  IF s.squeezed THEN Panics(s) ELSE [s EXCEPT !.state = Append(@, e)]

(* Marked as squeezed before the count is asserted. *)
Squeezed(s) ==
  IF s.squeezed THEN Panics(s)
  ELSE IF Len(s.state) # s.numAbsorbs THEN Panics([s EXCEPT !.squeezed = TRUE])
  ELSE [s EXCEPT !.squeezed = TRUE, !.digest = <<Hash(s.numAbsorbs, s.state)>>]

BitsOf(v, n) == [i \in 1 .. n |-> (v \div 2^(i - 1)) % 2]

(* le_bits_to_num, and the sum of the native squeeze. *)
FromBits(bits) == FoldRight(LAMBDA b, v : (2 * v + b) % SpongeP, bits, 0)

(* The low bits of the representation; a slice past its end panics. *)
Low(s, available, bits) ==
  IF s.fate = "panic" THEN s
  ELSE IF bits > available THEN Panics([s EXCEPT !.bits = bits])
  ELSE [s EXCEPT !.bits = bits, !.digest = <<FromBits(SubSeq(BitsOf(s.digest[1], available), 1, bits))>>]

SpongeInit ==
  /\ \E n \in 0 .. MaxAbsorbs : native = NewSponge(n)
  /\ gadget = native

Absorbs(e) ==
  /\ native.fate = "ok" /\ Len(native.state) <= MaxAbsorbs
  /\ native' = AbsorbInto(native, e)
  /\ gadget' = AbsorbInto(gadget, e)

SqueezesElement ==
  /\ native.fate = "ok"
  /\ native' = Squeezed(native)
  /\ gadget' = Squeezed(gadget)

(* to_le_bits gives the bits of the representation, to_bits_le of the field. *)
SqueezesBits(bits) ==
  /\ native.fate = "ok"
  /\ native' = Low(Squeezed(native), ReprBits, bits)
  /\ gadget' = Low(Squeezed(gadget), FieldBits, bits)

SpongeNext ==
  \/ \E e \in Inputs : Absorbs(e)
  \/ SqueezesElement
  \/ \E bits \in 0 .. ReprBits + 1 : SqueezesBits(bits)

SpongeSpec == SpongeInit /\ [][SpongeNext]_<<native, gadget>>

(* Driven in step, the two sponges panic together, but for more bits than the field
   has, and where they do not panic their digests are the same. *)
SpongesAgree ==
  /\ native.fate = gadget.fate \/ (native.fate = "ok" /\ native.bits \in FieldBits + 1 .. ReprBits)
  /\ gadget.fate = "ok" => native.digest = gadget.digest
=============================================================================
