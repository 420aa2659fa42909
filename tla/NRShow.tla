------------------------------- MODULE NRShow -------------------------------
(***************************************************************************)
(* Showing a signature: user_show_scheme1/2 (NRProof::prove) and           *)
(* verify_show_scheme1/2 (NRProof::verify).  The Schnorr part is computed  *)
(* in full; the SNARK (R1CS-IPA or Spartan) is ideal: its proof carries    *)
(* the public inputs it was made for and whether the witness satisfied the *)
(* circuit, and verifies for those inputs and that SNARK type only.        *)
(***************************************************************************)
EXTENDS NRSig

CONSTANTS
  Poseidon(_, _),  \* the digest of (r, alpha_r)
  ChNR(_),         \* the NRProof transcript's challenge for R1 (pk, H, V are fixed)
  SnarkType,       \* {"R1csIpa", "Spartan"}
  Draws,           \* the <<z, alpha_s, alpha_r, alpha_z>> Fq::random gives
  DebugBuild       \* cfg!(debug_assertions)

ASSUME ShowAssumption ==
  /\ \A P \in Group : ChNR(P) \in Fq
  /\ \A r \in Fp, a \in Fq : Poseidon(r, a) \in Fp
  /\ Draws \subseteq Fq \X Fq \X Fq \X Fq
  /\ DebugBuild \in BOOLEAN

VARIABLES
  held,     \* the message and the signature the user wants to show
  shown,    \* proofs handed to verifiers
  outcome,   \* how the user's last call ended
  verdict   \* what the last verifier concluded: [proof, msg, type, ok]

showVars == <<held, shown, outcome, verdict>>

----------------------------------------------------------------------------
(* B0 = -s*G - r*pk + z*V, the part of B the verifier receives. *)
Blinded(sig, z) ==
  Gadd(Gadd(Times(G, Neg(sig.s)), Times(PK, Neg(FpToFq(sig.r)))), Times(V, z))

(* Faulty variant: the response for s with the wrong sign. *)
RespondWrongSign(sig, d) ==
  LET R1 == Gadd(Gadd(Times(G, d[2]), Times(PK, d[3])), Times(V, d[4]))
      c == ChNR(R1)
  IN  [challenge |-> c,
       s |-> Add(d[2], Mul(c, sig.s)),
       r |-> Add(d[3], Mul(c, Neg(FpToFq(sig.r)))),
       z |-> Add(d[4], Mul(c, d[1]))]

Respond(sig, d) ==
  LET R1 == Gadd(Gadd(Times(G, d[2]), Times(PK, d[3])), Times(V, d[4]))
      c == ChNR(R1)
  IN  [challenge |-> c,
       s |-> Add(d[2], Mul(c, Neg(sig.s))),
       r |-> Add(d[3], Mul(c, Neg(FpToFq(sig.r)))),
       z |-> Add(d[4], Mul(c, d[1]))]

(* Faulty variant: two of the public inputs in each other's place. *)
PublicInputsSwapped(B, h, t_r, c) == [V |-> V, B |-> B, pk |-> PK, h |-> t_r, t_r |-> h, c |-> c]

PublicInputs(B, h, t_r, c) == [V |-> V, B |-> B, pk |-> PK, h |-> h, t_r |-> t_r, c |-> c]

(* Faulty variant: the circuit expects the response t_r = c*r + alpha_r. *)
CircuitSatWrongSign(pub, sig, d) ==
  /\ pub.t_r = Add(Mul(pub.c, FpToFq(sig.r)), d[3])
  /\ pub.h = Poseidon(sig.r, d[3])
  /\ X(Gadd(sig.R, Times(V, d[1]))) = X(pub.B)
  /\ X(sig.R) = sig.r

(***************************************************************************)
(* NRProofCircuit on the prover's values: the response is consistent, the  *)
(* digest is right, (R + V*z).x = B.x and R.x = r.                         *)
(***************************************************************************)
CircuitSat(pub, sig, d) ==
  /\ pub.t_r = Add(Mul(Neg(pub.c), FpToFq(sig.r)), d[3])
  /\ pub.h = Poseidon(sig.r, d[3])
  /\ X(Gadd(sig.R, Times(V, d[1]))) = X(pub.B)
  /\ X(sig.R) = sig.r

Prove(msg, sig, d, type) ==
  LET B0 == Blinded(sig, d[1])
      resp == Respond(sig, d)
      h == Poseidon(sig.r, d[3])
      pub == PublicInputs(Gadd(B0, MsgPoint(msg)), h, resp.r, resp.challenge)
  IN  [B0 |-> B0, digest |-> h, resp |-> resp,
       snark |-> [type |-> type, pub |-> pub, sat |-> CircuitSat(pub, sig, d)]]

(* Faulty variant: the assertion compares x-coordinates, as verification does. *)
ProveAssertsX(msg, sig, z) ==
  X(Gadd(Blinded(sig, z), MsgPoint(msg))) = X(Gadd(sig.R, Times(V, z)))

(* The assertion B = R + V*z that prove makes before it calls the SNARK. *)
ProveAsserts(msg, sig, z) ==
  Gadd(Blinded(sig, z), MsgPoint(msg)) = Gadd(sig.R, Times(V, z))

(* R is allocated as a finite point, also the identity, (0, 0) in affine     *)
(* form.  The addition gadget doubles it too, and inverts a zero: in every   *)
(* build the synthesis panics.                                               *)
SynthesisPanics(sig) == sig.R = O

(* A debug build, and the Spartan prover in any build, asserts its own proof. *)
SelfChecked(type) == DebugBuild \/ type = "Spartan"

(* Faulty variant: the SNARK's public inputs are taken from the proof. *)
VerifyShowOwnInputs(p, msg, type) ==
  LET resp == p.resp
      R1 == Gadd(Gadd(Gadd(Times(G, resp.s), Times(PK, resp.r)), Times(V, resp.z)),
                 Times(p.B0, Neg(resp.challenge)))
  IN  /\ p.B0 # O
      /\ resp.challenge = ChNR(R1)
      /\ p.snark.type = type
      /\ p.snark.sat

VerifyShow(p, msg, type) ==
  LET resp == p.resp
      R1 == Gadd(Gadd(Gadd(Times(G, resp.s), Times(PK, resp.r)), Times(V, resp.z)),
                 Times(p.B0, Neg(resp.challenge)))
      pub == PublicInputs(Gadd(p.B0, MsgPoint(msg)), p.digest, resp.r, resp.challenge)
  IN  /\ p.B0 # O
      /\ resp.challenge = ChNR(R1)
      /\ p.snark.type = type
      /\ p.snark.pub = pub
      /\ p.snark.sat

NoVerdict == [ok |-> "none"]

----------------------------------------------------------------------------
(* Any signature that verifies may be shown, however the user came by it. *)
Held == {h \in [msg : Message, sig : Signature] :
           Verify(PK, MsgPoint(h.msg), h.sig) = "valid"}

ShowInit ==
  /\ held \in Held
  /\ shown = {}
  /\ outcome = "none"
  /\ verdict = NoVerdict

(* user_show_scheme1, user_show_scheme2. *)
UserShow(d, type) ==
  LET p == Prove(held.msg, held.sig, d, type)
  IN  /\ ProveAsserts(held.msg, held.sig, d[1])
      /\ ~SynthesisPanics(held.sig)
      /\ SelfChecked(type) => p.snark.sat
      /\ shown' = shown \cup {p}
      /\ outcome' = "ok"
      /\ UNCHANGED <<held, verdict>>

UserShowPanics(d, type) ==
  LET p == Prove(held.msg, held.sig, d, type)
  IN  /\ \/ ~ProveAsserts(held.msg, held.sig, d[1])
         \/ SynthesisPanics(held.sig)
         \/ SelfChecked(type) /\ ~p.snark.sat
      /\ outcome' = Panic
      /\ UNCHANGED <<held, shown, verdict>>

(* verify_show_scheme1, verify_show_scheme2; the unwrap of hashes_to_curve   *)
(* panics in the verifier for a byte string that misses the curve.           *)
VerifierChecks(p, msg, type) ==
  LET ok == IF MsgPoint(msg) = NoPoint THEN Panic
            ELSE IF VerifyShow(p, msg, type) THEN "accept" ELSE "reject"
  IN  /\ verdict' = [proof |-> p, msg |-> msg, type |-> type, ok |-> ok]
      /\ UNCHANGED <<held, shown, outcome>>

ShowNext ==
  \/ \E d \in Draws, type \in SnarkType : UserShow(d, type) \/ UserShowPanics(d, type)
  \/ \E p \in shown, msg \in Message, type \in SnarkType : VerifierChecks(p, msg, type)

ShowSpec == ShowInit /\ [][ShowNext]_showVars

----------------------------------------------------------------------------
Proof == [B0 : Group, digest : Fp, resp : [challenge : Fq, s : Fq, r : Fq, z : Fq],
          snark : [type : SnarkType, sat : BOOLEAN,
                   pub : [V : {V}, B : Group, pk : {PK}, h : Fp, t_r : Fq, c : Fq]]]

ShowTypeOK ==
  /\ held \in Held
  /\ shown \subseteq Proof
  /\ outcome \in {"none", "ok", Panic}
  /\ verdict \in {NoVerdict} \cup [proof : shown, msg : Message, type : SnarkType,
                                   ok : {"accept", "reject", Panic}]

(* The point verification rebuilds is R, and not only a point with R's x. *)
Exact == Rebuilt(PK, MsgPoint(held.msg), held.sig) = held.sig.R

(* Completeness of the show protocol: a proof made from an exact signature   *)
(* is accepted by every verifier with the same message and SNARK, whatever   *)
(* was drawn, unless R or the blinded point B0 happens to be the identity.   *)
ExactShowVerifies ==
  (/\ verdict # NoVerdict
   /\ Exact /\ held.sig.R # O /\ verdict.proof.B0 # O
   /\ verdict.msg = held.msg
   /\ verdict.type = verdict.proof.snark.type) => verdict.ok = "accept"

(* user_show never panics for an exact signature with R not the identity.    *)
ExactShowReturns == Exact /\ held.sig.R # O => outcome # Panic

(* Verification compares x-coordinates only, so a signature with -R in place *)
(* of R verifies; no proof ever leaves the prover for one.                   *)
OnlyExactIsShown == shown # {} => Exact

(* A proof is accepted for no other message point and under no other SNARK   *)
(* than those it was made for.                                               *)
AcceptedAsShown ==
  verdict.ok = "accept" =>
    /\ MsgPoint(verdict.msg) = MsgPoint(held.msg)
    /\ verdict.type = verdict.proof.snark.type
============================================================================
