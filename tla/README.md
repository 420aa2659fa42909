# Blind Nyberg-Rueppel signatures: a TLA+ development

The repository implements blind signatures of Nyberg-Rueppel type. A user has
a message signed blindly by an issuer (`nr-blind-sig/src/nrsig.rs`) and later
shows a zero-knowledge proof of the signature (`nrproof.rs`). The proof joins a
Schnorr proof with an R1CS SNARK about the part of the relation that is not
linear. Two SNARKs are offered: R1CS-IPA (`r1csipa/`) and Spartan
(`Spartan-t256/`). Both compute over `halo2curves/`, a fork of an external crate.

The protocol modules model the `t256` build: signing curve P-256, proving curve
T-256. There the scalar field is the smaller one (q < p), so an x-coordinate may
fail to convert to a scalar; this is what `to_Fq` unwraps. The circuit modules
take the curve as a variable: a = -3 as on P-256 and a = 0 as in the `vesta` build.

## 1. Inventory

| Component | State | Operations | Correct when |
|---|---|---|---|
| NR signatures (`nrsig.rs`) | key pair | generate, sign, sign2, verify, verify2 | what sign makes verifies; R is the point verification rebuilds |
| Blind issuance (`nrsig.rs`) | `UserState` per session, messages in transit; the issuer has none | user1_msg, issuer_sign_msg, user2_finalize, two schemes | complete under any delivery; implements direct signing |
| Issuance proof (`issuance_proof.rs`) | none | prove, verify | binds R0 to a hashed message |
| Show protocol (`nrproof.rs`) | transcript during a call | prove, verify, create_snark, verify_snark | complete for exact signatures; bound to message and SNARK |
| R1CS building (`bellpepper/*`) | constraints, inputs, witness | alloc, alloc_input, enforce, r1cs_shape, pad | every instance derived from a circuit means the circuit |
| R1CS instances (`r1cs.rs`, `lib.rs`, `r1csinstance.rs`) | sparse matrices, digest | new, new_from_shape, is_sat, check | prover's and verifier's instance are equal |
| R1CS-IPA (`r1csipa/src/r1cs.rs`) | transcript | create, verify, r1cs2ipa | the inner product equals the claim iff R1CS holds |
| Inner product argument (`ipa.rs`, `ipa_no_zk.rs`, `ipa_bases.rs`) | folded vectors, bases, pending challenges | prove, verify, collapse | lazily folded bases are the folded bases |
| Spartan (`lib.rs`, `r1csproof.rs`) | proof under construction, random tape | encode, prove, verify for NIZK and SNARK | a proof is accepted exactly when the statement holds; prover and verifier have the same conversation |
| Sumcheck (`sumcheck.rs`, `unipoly.rs`) | tables halved per round, claim, its commitment | prove_quad, prove_cubic_with_additive_term, prove_cubic_batched, verify | the claim stays the sum it is about |
| Product trees (`product_tree.rs`) | layers, claims, point | new, evaluate, prove, verify | each layer's claims are values of its polynomials |
| Memory checking (`sparse_mlpoly.rs`) | timestamps, derefs, hashed multisets | encode, deref, prove, verify | accesses are sets and balance; hashes match the claims |
| Dense polynomials, sigma proofs, commitments (`dense_mlpoly.rs`, `nizk/`, `commitments.rs`, `group.rs`, `transcript.rs`, `random.rs`) | transcript, folded vectors | commit, bind, evaluate, open; five proofs and the reduction | complete; both sides absorb the same |
| Curve gadgets (`ecc.rs`, `utils.rs`) | constraint system | alloc, add, double, scalar_mul, select | constraints admit the right witness for all inputs |
| Emulated arithmetic (`emulated/`) | limbs and overflow of each element | add, sub, mul, div, inverse, reduce, checks | values kept modulo P; no limb wraps; checks say what is true |
| Sponge (`poseidon.rs`) | absorbed elements, declared number | new, absorb, squeeze, native and in the circuit | both panic together and return the same |
| Native curves (`halo2curves/src/derive/curve.rs`, `serde.rs`) | none | add, double, mul, convert, encode, decode | the group law, whatever the representatives |
| MSM (`halo2curves/src/msm.rs`) | buckets, schedule, a slot per thread | serial, parallel, best, with a scheduler | the sum of the products in every order of threads |
| FFT, pairings, extension fields, hash to curve (`halo2curves`) | none | | laws of field and group |

Interaction: `nrsig` calls `nrproof` and `issuance_proof`; these synthesise a
circuit twice (shape for the verifier, witness for the prover) and call one of
the SNARKs with the transcript they have written so far. The SNARKs pad the
shape independently; NIZK and SNARK both embed `R1CSProof`, and the SNARK adds a
proof of the values of the committed matrices. The issuance and show circuits are
made of the curve gadgets, the sponge and emulated arithmetic; every commitment is
an MSM of halo2curves.

No threads share mutable state: those of an MSM fill one slot each, in any order.
What is concurrent beside them is the library's use, several sessions and one
issuer joined by a transport that belongs to the application.

What is hard here: messages of several sessions in any order, twice or never;
panics (`unwrap`, `assert!`) halfway through a session; two parties deriving the
same object by different code (padding, transcripts, public inputs); numeric
edges (x >= q, points with equal x, the identity, no constraints at all, limbs that
outgrow their bookkeeping); long loops carrying state (timestamps, folded bases,
halved tables). `PROJECT.json` lists the
hazards with their lines.

## 2. Modules

| Module | Models |
|---|---|
| `NRGroup` | the algebra as constants, with the ring, group and module laws as named assumptions; the partial conversion `to_Fq` |
| `NRSig` | the operators of `NRKeyPair`, `PiSLProof` and `IssuanceProof` |
| `IssueSpec` | abstract: a user asks, the issuer signs the message directly |
| `BlindNR` | the issuance protocol: sessions, issuer, messages in transit |
| `NRShow` | showing a signature and checking the proof |
| `AddrTimestamps` | `AddrTimestamps::new` and the four multisets of `Layers` |
| `R1CSShapes` | circuit synthesis, shapes, padding, instances of both SNARKs |
| `IPABase` | vectors, group elements, MSM, the verifier's scalars, shared by the next three |
| `IPAFold` | the inner product argument with bases folded at once (`create_orig`, `verify` of `ipa_no_zk.rs`): also the abstract specification of the next |
| `IPADeferred` | the zero-knowledge argument with symbolic bases (`ipa.rs`, `ipa_bases.rs`) |
| `R1CSArgument` | R1CS to one inner product (`r1cs.rs`), composed with `IPADeferred` |
| `Emulated` | arithmetic modulo P in limbs over another field, with overflows and automatic reduction |
| `CurveBase` | tiny curves, points, and the group law as textbooks define it |
| `CurveGadgets` | points and scalar multiplication in a circuit; the issuance and show circuits on top |
| `CurveFormulas` | the same group natively: projective formulas, normalisation, encodings |
| `Msm` | multi-scalar multiplication by its four routes |
| `Sponge` | the two Poseidon wrappers side by side |
| `Circuits` | composes the last six |
| `SpartanBase` | scalars, commitments, transcript and tape, polynomials |
| `SpartanSigma` | the proofs of `nizk/` and the opening of a polynomial, as operators |
| `SpartanR1CS` | `R1CSProof`, prover and verifier, round by round |
| `Spark` | product circuits, layers, hashing and joint openings, as operators |
| `Spartan` | NIZK and SNARK: composes the last four with `AddrTimestamps` |
| `NRProofs` | theorems about `NRSig`, `BlindNR` and `NRShow` |
| `R1CSShapesProofs`, `IPABaseProofs`, `IPAFoldProofs`, `IPADeferredProofs`, `R1CSArgumentProofs` | theorems about the module each is named for |
| `BookkeepingProofs` | theorems about `AddrTimestamps` and `Sponge` |
| `CircuitsProofs` | theorems about `Emulated`, `CurveBase` and `CurveGadgets`, as properties of `Circuits` |
| `MCCurve` | a curve for TLC: y^2 = x^3 + 3 over F_19, order 13, q < p; logarithms 2 and 11 have x = 14, which is no scalar |
| `MC*` | constants of the runs |

### BlindNR

`ustate[s]` is the session's `UserState` (or `Crashed` after a panic), `wallet[s]`
what `user2_finalize` returned, `requests` and `replies` the `User1Msg` and
`IssuerSignMsg` values ever sent. They never leave these sets: an action may take
any of them at any time, so late, repeated, reordered and lost messages need no
actions of their own. A reply carries the R0 it answers, as a tag of the model:
the code's `IssuerSignMsg` has no such field and `UserFinalize` does not read it.
Only `Matched` does, to say which replies are a session's own.

`IssuerSigns`, `IssuerRejects` and `IssuerPanics` are the three ways
`issuer_sign_msg` can end. `UserFinalize` is `user2_finalize` with its three
outcomes; it borrows the state, so it can be repeated. `Damage` attaches another
request's proof: an external action standing for a faulty application.

`NextCorrelated` hands replies to the session that asked; `Next` to any.

### NRShow

`held` is any message with any signature that verifies. A signature that has -R
in place of R verifies too, because only x-coordinates are compared; `Exact`
tells the two apart. `UserShow` and `UserShowPanics` are the ends of
`user_show_scheme1/2`: the assertion of `nrproof.rs:250`, then the SNARK, which
asserts its own proof in a debug build and, for Spartan, in every build. A signature
whose R is the identity panics in every build: the circuit allocates R as a finite
point, and doubling (0, 0) inverts zero.
The SNARK itself is an ideal functionality: a proof carries its public inputs
and whether the witness satisfied the circuit. Responses and challenge are
computed in full.

### AddrTimestamps

One `Access` is one iteration of the inner loop, one `NextInst` the end of the
outer one. `OpsAddr` is the padding of `sparse_to_dense_vecs`: an entry beyond
the matrix's own reads address 0. `Done`, `ReadTuple` and `WriteTuple` name the
operations processed and what `build_hash_layer` would hash for them.

The module has no run of its own: `Spartan` embeds it, so that what it leaves
behind is what the grand products hash.

### R1CSShapes

A state is a circuit synthesised so far. `constraints` belongs to `ShapeCS`,
`input_assignment` and `aux_assignment` to `SatisfyingAssignment`: the code runs
the same circuit over both. Everything else (shape, padding, instances, witness)
is an operator of the state, so every circuit within the bounds is a case.
`R1CSInstance` gives a record with a field `panics`, for the assertions of
`R1CSInstance::new`. The field is the one `IPABase` commits over.

### IPAFold, IPADeferred

A state is the prover between two iterations of its loop; `Fold` (`Round`) is an
iteration, with the challenge as a parameter because the transcript may return any
scalar. A group element is its vector of coefficients over the bases
`IPAParams::generate` hashes to, so two are equal only when they are the same
combination: no accident of a small group hides or makes an error. The verifier
has no state: `Verify(P)` is an operator, evaluated when the prover is done. Prover
and verifier absorb the same messages, so its challenges are `us`.

`IPADeferred` holds what `IPABases` holds, a list of scalars and one of points for
every base, and `terms_per_base` beside them. `FoldsEagerly` maps it to `IPAFold`:
a list stands for its MSM, and L and R lose their multiple of V. The code's clamp
of 8 to 32 and divisor 256 are constants, scaled in the run so that a vector of 4
collapses after its first round and one of 8 after its second.

### R1CSArgument

`Commit` is `create` up to the challenges, `Reduce` is `r1cs2ipa` and the call of
the argument, `Prove` a step of the argument, whose module this one extends and whose
variables it shares. `VerifierP` is what the verifier computes from T, S0, its inputs and
the challenges. The verifier has the prover's instance. `EscapingGammas` is the set of
values of gamma for which a given witness has the public inner product under *some*
alpha, beta and delta: few of them, whatever the other three are, is what makes the
reduction catch a bad witness.

### Emulated

A state is a synthesis: the elements made so far and, in `wants`, the number modulo P
each stands for, computed on the side. Each action is a public operation with
everything it calls: `Fit` is the loop that reduces the operand of larger overflow
until the result's overflow is allowed, `FoldLimbs` the folding of a pseudo-Mersenne
product, `MultipleEnds` the quotient, the packing of limbs and the carries of the
equality check. The witness is honest; an operation ends `ok`, `unsat` (the witness
breaks a constraint), `error`, `panic` or `loops`. `internal` is never cleared in the
code, so the conditional width checks do nothing.

The modulus may be any prime that fits its limbs. Only one that is 2^e - c
(`PseudoMersenne`) may be declared so, which `Init` says of `pseudo`; the modulus of the
show circuit (`FqEmulatedParams`, 16 limbs of 16 bits) is not declared so. That
e is no more than the limbs is an assertion of `fold_limbs` and a panic of the model.
What the membership check relies on besides, a c smaller than a limb and no limb to
spare, nothing asserts: `AnswersAreRight` says it as a condition (`MembershipFits`), nothing
else needs it. It is needed there: the check (line 583) adds c to the lowest limb only if
all others are at their maximum, and where c is not below a limb the modulus has another
limb below its maximum and passes, as 59 = 2^6 - 5 does in limbs of 2 bits. The only modulus
of the form in the repository, in the tests, has c = 19 and limbs of 51 bits.

`NativeRoom` is an assumption no line of the code asserts: the native modulus is at least
one and a half times the power of two below it. The field of the default build
(P-256's base field) and that of the tests have it, Vesta's scalar field, the native
one of the feature `vesta`, barely above 2^254, has not. It is needed: `sub` allows a
minuend of `max_overflow` beside padding of a quarter of that, and over such a field
a limb of the difference wraps around although every overflow is right.

### Circuits

The composed modules share no state; `job` says which one a behaviour uses.
`sum` adds two points, in the circuit and by all native formulas on several
representatives. `multiple` goes through `scalar_mul` bit by bit (the action
`MulsIncomplete` is one iteration) and then either into the issuance circuit
(R0 = H + kG) or the show circuit (B = R + zV and the x-coordinate). `synth.holds`
says whether the constraints so far hold for the honest witness, `synth.fate`
whether the synthesis panicked. `msm` fills the slots of its threads in any order,
`sponge` drives both wrappers in step, in and out of turn.

What the gadgets do wrong is stated, not excluded: infinity is allocated with the
coordinates (0, 0), so beside a finite point with x = 0 the complete addition takes
the pair for opposites (`TakenForOpposites`); multiples of infinity satisfy their
constraints only if a = 0; with a flag for the identity a compressed finite point
with x = 0 does not decode. Whether a multiplication meets such a point depends on
the scalar, and `MeetsThePair` says when.

### SpartanBase, SpartanSigma

A group element is its vector of coefficients over the stream of generators, as in
`IPABase`. The transcript is a digest to which every label and element is absorbed
in order, and every challenge is a function of it: two parties get the same
challenges exactly when they absorbed the same, up to collisions of the digest.
The random tape is a counter into a fixed sequence. A proof of `nizk/` is a pair of
operators on a party's session; the reduction's bases are combined at once, since
postponing it is what `IPADeferred` is about.

### SpartanR1CS, Spark, Spartan

An action is a round of a sumcheck, a layer of a product circuit, or what lies
between two loops. `stage` says where the parties are, `ps` and `vs` are their
sessions, `sc` the prover's sumcheck, `vc` what the verifier knows, `net` and `vnet`
the two sides of the evaluation network. Prover and verifier run one after the other
on one proof, as `prove` and `verify` do. `mid.gap` is the error left at the end of the
first sumcheck, kept only for the properties.

## 3. Runs

| Run | Shows | Bounds |
|---|---|---|
| `BlindNR` | both rounds complete for a session's own reply; the rebuilt point is R itself | 2 sessions, 2 scalar and 3 string messages (one misses the curve, one has the wrong length), 3 nonces on each side with one that makes the issuer's R unconvertible, 2 replies to one R0, 1 damaged request |
| `BlindNRCorrelated` | with correlated replies: implements direct signing, and every session with a live state gets a signature | as above, 2 nonces a side |
| `NRShow` | completeness, no panic for exact signatures, inexact ones never shown, acceptance bound to message and SNARK | all signatures over the 13-point group that verify, 3 draws, 2 SNARKs |
| `R1CSShapes` | all padding ways keep the circuit's meaning; prover and verifier of Spartan share an instance | F_3, 2 inputs, 3 witness variables, 2 constraints |
| `IPAFold` | each round preserves the claim; proofs verify, save those with an identity in them | F_7, lengths 1, 2, 4, 8, 13 sets of arguments, challenges 0, 1, 2, 3, 6 |
| `IPADeferred` | symbolic bases implement folded ones; counter and blindings keep up; a proof is for its claim only | the same arguments, challenges 0, 2, 3, two blindings a round, three draws of the last step |
| `R1CSArgument` | prover's and verifier's halves of the reduction meet; a bad witness escapes fewer values of gamma than there are rows; a proof is accepted exactly when the inner product is w | F_7, three circuits (one with padded rows and several constraints) with good and bad witnesses, 36 tuples of invertible challenges |
| `Circuits` | emulated values are kept, checks say what is true, syntheses end for a reason the code names; the circuit's sum of two points is the group's, and gadgets, native formulas and the group law agree on multiples, but for the cases stated; MSM in any order of threads; the sponges agree | below |
| `Spartan` | timestamps: the code's claim that the write set is a set, and the audit balances; the sumcheck carries exactly the error it starts with; layers' claims are true; acceptance exactly when the statement or a challenge allows it | below |
| `IPAIdentity` | a divergence: proofs the provers make and `verify` refuses | as `IPAFold` |
| `R1CSRows` | a divergence: an empty circuit is padded to one row | as `R1CSShapes` |
| `EmulatedSub` | a divergence: an equality that holds cannot be proved after a chain of subtractions | P = 1021 in 5 limbs of 2 bits over F_2039, up to 12 elements |

Two sessions are enough for replies to be crossed, a second reply for a retry to
meet another nonce. Three matrices are what Spartan batches (A, B, C). In
`R1CSShapes` the sizes 0, 1, 2, 3 lie on both sides of the powers of two where
padding changes, and two inputs are enough to exceed the witness.

Length 8 is the least at which a collapse is followed by two rounds or preceded by
two. Over F_7 the squares of the challenges differ from their inverses' (2^2 = 4,
1/4 = 2), so swapping them shows. One of the bad witnesses breaks two rows by
errors that add up to 0, which only distinct powers of the challenges catch.

`Circuits`. Emulated: P = 61 = 2^6 - 3 in 3 limbs of 2 bits over F_131071, up to 4
elements from {60, 61, 63}, constants {3, 1000, 5000}, with and without folding;
`max_overflow` is 14, so products and constants reach it within four elements and
reductions happen on their own. Curves over F_19: two with a = -3 and 19 points, one
of them with points of x = 0, and one with a = 0 and 13 points; all pairs, all
scalars of the width. The widths of msm.rs are scaled: bytes of 2 bits (`ByteBits`),
batches of 2 (`BatchSize`), the scheduler from 4 bases (`SmallLen`), 2 threads,
windows of 2 and of at least 2 (`MinWindow`); `PippengerC` keeps the code's own
thresholds for fewer than 32 bases. Six bases with repeated, opposite and infinite
ones are enough for a batch to be filled, for two additions to one bucket in a batch
and for a sum of opposites. Sponges: up to 2 declared and one more absorbed, bits
past both widths.

`Spartan`. F_31, two instances (2 rows by 4 columns, 4 rows by 8 columns with a
repeated entry and a row of constants), satisfied and violated, both proof systems,
the 8 transcript seeds, generators for 1, 2, 4 and 8 entries where 4 are right. The
field is small on purpose: zero challenges occur, and with them the prover's panic
and the acceptance of a violated instance (`vc.c = 0` or all of the error lost in a
round), which the properties name exactly. Mode `encode` adds all batches of three
address lists with at least one long one.

Deadlock checking is off where the system may stop: sessions end, loops finish,
circuits are complete.

### Fairness

`FairSpec` takes weak fairness of finalising a reply of one's own and of each
nonce being drawn for a signable request. The first is the application calling
`user2_finalize` on the reply it received, the second that `Fq::random` does not
avoid a value for ever and requests keep being delivered. Nothing is assumed of
user requests, of damage or of crossed replies. The liveness property holds
although a nonce may panic the issuer, because the issuer keeps no state.

### Divergences

`IPAIdentity` checks what `ipa_no_zk.rs:618` says of `verify`, that it works for
proofs of any of the provers above. If half of a and the opposite half of b are
zero, L or R is the identity: the provers send it, `validate_and_append_point`
refuses it. With zero knowledge a random multiple of V makes this negligible.

`R1CSRows` checks what `Spartan-t256/src/lib.rs:150` says, that the number of rows
is at least 2. For no constraints at all the code computes 2 and then overwrites
it with `0.next_power_of_two()`, which is 1. `MeaningKept` shows that the
instance is still right.

`EmulatedSub` checks what `field_ops.rs:229` says of `assert_is_equal`, that it asserts
equality modulo the modulus. `sub_precondition` (line 414) gives a difference the
overflow max(a, b + 2), while its limbs may be as large as a's plus the padding: a
chain of subtractions from one element never raises the overflow, the carries of the
next equality get too few bits, and an honest witness is refused. `ValuesKept`,
`AnswersAreRight` therefore suppose limbs as wide as their overflow says (`Fits`); that
every operation but the difference keeps them so is part of `ValuesKept`. The show
circuit subtracts once and is not affected.

One more thing has no run of its own because no line denies it:
`Spartan-t256/src/lib.rs:408` takes a number of non-zero entries, and the generators
made from it must fit the padded maximum over the matrices exactly. Any other number,
larger ones included, panics in `encode`. `EndsForAReason` says that nothing else does.

## 4. Proofs

All theorems hold for every value of the constants, from the named assumptions
of the modules. `NRGroup` assumes that Fq is a commutative ring (no inverses are
used), that the points form an abelian group and that multiplication by scalars
is linear: what the curve crates promise. Nothing is assumed of coordinates
except their range, and nothing of hash functions except theirs.

* `NRProofs`, signatures: the algebra (cancellation, distribution of negation, the
  rebuilt point of a signature, completeness of the sigma proof).
* `NRProofs`, issuance: the inductive invariant is `TypeOK`, `RequestsVerify`,
  that a live session's R0 is the commitment to its message with its k0, and that
  every reply is `IssuerReply` for some nonce that converts. The last two are the
  strengthening: they say where the values came from, and `OwnReplyGives` turns them
  into the equation -s*G - r*pk + Hm = R. Type correctness, completeness of both
  rounds, exactness, and the refinement `SpecCorrelated => Direct!Spec` follow.
* `NRProofs`, showing: the invariant says every shown proof is `Prove` of the held
  signature under some draw and passed the assertion, and every verdict is that of
  `VerifyShow`; the assertion is equivalent to exactness by cancellation of V*z.
  `AcceptanceBinds` needs only that the verifier rebuilds the public inputs.
* `R1CSShapesProofs`: the invariant is only that of the types, with the bounds they need;
  the rest says what the operators do with a well-typed circuit. Joined entries of one
  row each sum, row by row, to the circuit's linear combinations (`StackRows`,
  `EntriesRepresent`); moving the columns from the end of the witness on keeps a matrix's
  products when the witness grows as much (`ShiftRepresents`), whether once or twice, and
  rows of zeros, added by padding or as dummies, hold (`DummiesRepresent`,
  `RowsHoldAsCircuit`). Powers of two are rounded up to themselves (`PowerStays`), which
  is why padding the padded shape again moves nothing: `SameInstance`.
* `IPABaseProofs`: the laws the arguments need, from `q` being prime and nothing else
  (existence of inverses included). Sums over vectors are folds; their laws are proved
  by well-foundedness of the natural numbers applied to the set of lengths at which a
  law fails (`Induction`, a lemma about a set instead of a predicate), and the functions
  a recursive definition chooses are shown to exist the same way (`FoldExists`,
  `Pow2Exists`, `CoefficientsExist`). From these: linearity and joining of inner
  products and MSMs, what a round does to both sides of the claim (`OpensRound`,
  `MovedNext`), the product of inverses (`AllInvIs`), the highest bit (`FloorLog2Law`),
  and the verification scalars: for one more challenge they are the old ones doubled,
  times the challenge and its inverse (`ScalarsDouble`), and read backwards they are
  their inverses' (`ReverseDouble`, the list H is verified with).
* `IPAFoldProofs`: the inductive invariant is `FoldInv`, shapes and that the folded
  vectors open the claim moved by the L's and R's, together with `SpreadBases`: each
  remaining base is the combination of the original ones, with their factors, whose
  coefficients are the verifier's scalars for the challenges so far. The first gives
  `ClaimPreserved`; at one base the two turn the verifier's MSM into the claim, which
  is `HonestProofVerifies`. Neither part mentions the verifier before the end: that it
  computes by bits what the prover computed by rounds is what the invariant carries.
* `IPADeferredProofs`: `LInv` says that `terms_per_base` is the length of every list, below
  the threshold while rounds remain. `DInv` adds the shapes, that the values of the
  symbolic bases open the blinded claim with the alpha folded apart, and that no base
  holds a part of V; splitting, deferring and collapsing are shown to be what they
  are to the values. From it: types, `BlindedClaimPreserved` and the
  refinement `FoldsEagerly`, step by step (a last step is a stutter of `create_orig`'s
  loop followed by its end; a collapse is invisible). `PInv` adds `SpreadBases` over the
  values and that a finished proof's A, B and openings were made from some draws
  (`Answered`). At the end the verifier's MSM is B moved by e squared times what the given
  point is away from the claim (`ExpectsB`); so the claim is accepted, and
  another is refused because e has an inverse. That is `ProofIsForItsClaim`.
* `R1CSArgumentProofs`: `RInv` says that the argument was called with what the reduction
  computes and that T and S0 are the commitments to the statement, beside `PInv`. The two
  halves of `r1cs2ipa` are compared entry by entry: each coefficient of the verifier's P
  over a base G, H or V is the prover's (`ReductionIsComplete`). What is left is the
  coefficient over U, w - <u,v>. By exchanging the sums of a matrix over rows and
  columns it is, up to sign, the sum over the rows of gamma^i (Az o Bz - Cz)_i:
  alpha, beta and delta have cancelled. A satisfied instance makes it zero at every gamma;
  for a violated one it is a polynomial in gamma with a non-zero coefficient, and
  `RootsBound` (division by a root, induction on the degree as in `IPABaseProofs`) allows it
  fewer roots than it has coefficients, one per row: `BadWitnessesAreCaught`. `ArgumentsDecide`
  joins this with `IPADeferredProofs`, whose verdict is about any point and claim.
* `CircuitsProofs`, curves: for every curve over every prime field of the assumption (a = 0 or
  -3, no point of order two, as on curves of prime order), the circuit's complete addition
  is the group law but for the pair `TakenForOpposites`. The order enters through one
  fact: no point has y = 0 (`NoOrderTwo`), so the tangent's denominator is invertible and
  the synthesis cannot panic.
  Primality gives inverses (`InverseExists`), hence what `NumEquals` and the select
  gadgets return (`NumEqualsIs`, `Selections`), and that two points of one x are equal or
  opposite (`SameX`). `ThirdPoint` shows by the line through two roots of the cubic that
  chord and tangent meet the curve again: sums stay on it. `CircuitInv` says that a
  finished sum is the addition of its own operands.
* `CircuitsProofs`, emulated arithmetic: for every native field and every prime modulus of
  the assumptions, of the form 2^e - c or not, limbs of any width and number and syntheses of any length. The
  inductive invariant is `SynthesisInv`: `ValuesKept`, and that every element has an
  overflow in range and no fewer limbs than the modulus (`IsElem`, `Full`); the second is
  needed because the padding of a difference is cut to the longer operand. It also says
  that a modulus is folded as 2^e - c only if it is that: for any other `pseudo` is false
  and nothing is folded. What a list of
  limbs stands for is a fold, shown equal to a sum of limbs times weights (`NumIs`); the
  sum is linear (`LinearLimbs`), splits at a limb (`ChunksAre`), and the columns of a
  product rearrange it (`MulOpIs`). Limbs as wide as their overflow says leave the native
  field unreduced: `Narrow` for sums, `DifferenceLimb` for differences (only here
  is `NativeRoom` needed in full), `ProductFits` for columns, whose width `mul_precondition` bounds by the
  number of limbs. So an operation acts on integers, and whatever else it adds is
  a multiple of P: padding (`PaddingIs`), the quotient of a reduction (`ReduceKeeps`), a
  folded chunk (`ScaleAlike`). `EmulatedSub` is why the property says what it does of
  differences.
* `BookkeepingProofs`, timestamps: the invariant has three parts besides types. `Below`: what
  an operation read is below its cell's present timestamp. `Distinct`: two
  operations on one cell read different timestamps. `Dense`: every value below a
  cell's timestamp was read by one. Sets and balance follow.
* `BookkeepingProofs`, sponges: the wrapper inside the circuit and the one outside agree
  (`SpongesAgree`) for every modulus, width and use: same digest, same panic, save for
  a request of more bits than the field has, where only the circuit panics.

The properties about timestamps are those the run `Spartan` checks.

Model-checked only:

* the liveness property, which is beyond this prover;
* of `Emulated`, the answers of the checks and the reasons to stop: the carries of
  `SlowEqualFate` and the packing of limbs would need the same laws for a second radix;
* of `Circuits`, scalar multiplication, the native formulas and `Msm`. They need the group
  law to be associative, an identity of rational functions far beyond the
  degree the solver handles; addition alone does not;
* Spartan beyond its timestamps: sums of polynomials in many variables over hypercubes,
  and `Circuits` and `Spartan` as a whole keep their types in records that change shape from
  stage to stage, checked on every state but not stated as theorems.

## 5. Plan

Done: issuance and show; R1CS building, the argument and its reduction; circuits
and what they agree with; Spartan from encoding to acceptance. Proved: issuance, show,
timestamps, the sponge, shapes and padding, and the inner product argument in both
forms, the reduction of R1CS to it, emulated arithmetic, and point addition in the circuit.

Left:

1. Equality of `Emulated` as a theorem: packed limbs and their carries.
2. A verifier whose inputs or instance differ from the prover's.
3. The order of the show circuit's public inputs.

## 6. Not modelled

* Field arithmetic in limbs of 64 bits, the endomorphism of scalar multiplication,
  hash to curve, pairings, extension fields and FFT of halo2curves: nothing here is
  about their inside.
* Byte formats, serialisation, timers, printing, the benchmarks.
* SHA-256 in the issuance circuit (a gadget of an external crate) and the order of its
  bits; the order of `inputs_vector` (`nrproof.rs:579`), a fixed list.
* The unbatched product proof, which only its own code uses, and `nizk/ipa_bases.rs`,
  whose twin in r1csipa is `IPADeferred`.
* Proofs no prover made. In `NRShow` and `BlindNR` the SNARKs are ideal: a proof of a
  false statement does not exist there. Nothing is claimed about soundness against
  other provers or about zero knowledge.
* A Poseidon permutation: `Hash` is some function of what was absorbed.
