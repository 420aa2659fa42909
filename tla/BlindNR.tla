------------------------------ MODULE BlindNR ------------------------------
(***************************************************************************)
(* Blind issuance of Nyberg-Rueppel signatures: user1_msg,                 *)
(* issuer_sign_msg and user2_finalize of both schemes, run by any number   *)
(* of user sessions against one issuer that keeps no state between calls.  *)
(*                                                                         *)
(* The library hands messages back to its caller, so the transport is the  *)
(* application's.  Messages stay in the sets requests and replies: they    *)
(* may be delivered late, in any order, many times or never, a reply may   *)
(* reach the wrong session, and a request may arrive with another one's    *)
(* proof attached.                                                         *)
(***************************************************************************)
EXTENDS NRSig, Naturals, FiniteSets

CONSTANTS
  Session,      \* user sessions
  K0, K1,       \* the values Fq::random draws for k0 and for k1
  Blinds,       \* the pairs <<r_k, r_m>> it draws in PiSLProof::prove
  MaxReplies,   \* bound: replies made to requests that carry one R0
  MaxDamaged    \* bound: requests that arrive with another one's proof

ASSUME IssuanceAssumption ==
  /\ K0 \subseteq Fq
  /\ K1 \subseteq Fq
  /\ Blinds \subseteq Fq \X Fq
  /\ MaxReplies \in Nat
  /\ MaxDamaged \in Nat

VARIABLES
  ustate,     \* ustate[s]: NoState, the UserState of user1_msg, or Crashed
  requests,   \* User1Msg and User1MsgScheme2 values sent
  damaged,    \* those of them whose proof is another request's
  replies,    \* IssuerSignMsg values sent, each with the R0 it answers
  wallet,     \* wallet[s]: the signatures user2_finalize returned
  result      \* how the last call ended

vars == <<ustate, requests, damaged, replies, wallet, result>>

NoState == [msg |-> "none"]
Crashed == [msg |-> "crashed"]

UserState == [msg : Message, k0 : Fq, R0 : Group]
Live(s) == ustate[s] \notin {NoState, Crashed}

Proofs1 == [c : Fq, t_k : Fq, t_m : Fq]
Proofs2 == [pub : Group, sat : BOOLEAN]
Request == [scheme : {1}, R0 : Group, pi : Proofs1]
             \cup [scheme : {2}, R0 : Group, pi : Proofs2]
Reply == [R0 : Group, s1 : Fq, R1 : Group]
Results == {"none", "ok", "UserIssuanceProofInvalid", "InvalidSignature", Panic}

----------------------------------------------------------------------------
(* Both user1_msg: R0 = Hm - k0*G. *)
Commit(Hm, k0) == Gadd(Hm, Times(G, Neg(k0)))

(* Faulty variant: the proof of a scheme 2 request is never accepted. *)
ProofOKSchemeOneOnly(req) == req.scheme = 1 /\ PiSLVerify(req.pi, req.R0)

(* issuer_sign_msg dispatches on the scheme's proof. *)
ProofOK(req) ==
  IF req.scheme = 1 THEN PiSLVerify(req.pi, req.R0) ELSE IssuanceVerify(req.pi, req.R0)

(* Faulty variant: the issuer derives r from R0 + k1*G. *)
IssuerRPlus(R0, k1) == Gadd(R0, Times(G, k1))

(* The issuer's R = R0 - k1*G, and its reply when r = R.x converts to Fq. *)
IssuerR(R0, k1) == Gadd(R0, Times(G, Neg(k1)))
IssuerReply(R0, k1) ==
  [R0 |-> R0,
   s1 |-> Add(Mul(Neg(SK), FpToFq(X(IssuerR(R0, k1)))), k1),
   R1 |-> Times(G, Neg(k1))]

(* Faulty variants: k0 is forgotten; r is taken from the user's own R0. *)
FinalSigWithoutK0(us, rep) ==
  LET R == Gadd(us.R0, rep.R1)
  IN  [r |-> X(R), s |-> rep.s1, R |-> R]
FinalSigOwnR(us, rep) ==
  [r |-> X(us.R0), s |-> Add(rep.s1, us.k0), R |-> Gadd(us.R0, rep.R1)]

(* user2_finalize: R = R0 + R1, s = s1 + k0. *)
FinalSig(us, rep) ==
  LET R == Gadd(us.R0, rep.R1)
  IN  [r |-> X(R), s |-> Add(rep.s1, us.k0), R |-> R]

(* The reply answers a request for the R0 this session committed to. *)
Matched(s, rep) == Live(s) /\ rep.R0 = ustate[s].R0

----------------------------------------------------------------------------
Init ==
  /\ ustate = [s \in Session |-> NoState]
  /\ requests = {}
  /\ damaged = {}
  /\ replies = {}
  /\ wallet = [s \in Session |-> {}]
  /\ result = "none"

(* Faulty variant: the user state keeps no R0. *)
UserRequest1WithoutR0(s, msg, k0, b) ==
  LET R0 == Commit(MsgPoint(msg), k0)
  IN  /\ ustate[s] = NoState
      /\ msg.scheme = 1
      /\ ustate' = [ustate EXCEPT ![s] = [msg |-> msg, k0 |-> k0]]
      /\ requests' = requests \cup
           {[scheme |-> 1, R0 |-> R0, pi |-> PiSLProve(R0, k0, msg.m, b[1], b[2])]}
      /\ result' = "ok"
      /\ UNCHANGED <<damaged, replies, wallet>>

(* BlindNrProtocols::user1_msg. *)
UserRequest1(s, msg, k0, b) ==
  LET R0 == Commit(MsgPoint(msg), k0)
  IN  /\ ustate[s] = NoState
      /\ msg.scheme = 1
      /\ ustate' = [ustate EXCEPT ![s] = [msg |-> msg, k0 |-> k0, R0 |-> R0]]
      /\ requests' = requests \cup
           {[scheme |-> 1, R0 |-> R0, pi |-> PiSLProve(R0, k0, msg.m, b[1], b[2])]}
      /\ result' = "ok"
      /\ UNCHANGED <<damaged, replies, wallet>>

(* BlindNrProtocolsScheme2::user1_msg, for a message it can be called with. *)
UserRequest2(s, msg, k0) ==
  LET R0 == Commit(MsgPoint(msg), k0)
  IN  /\ ustate[s] = NoState
      /\ msg.scheme = 2
      /\ MsgPoint(msg) # NoPoint
      /\ IsMsgLen(msg.m)
      /\ ustate' = [ustate EXCEPT ![s] = [msg |-> msg, k0 |-> k0, R0 |-> R0]]
      /\ requests' = requests \cup
           {[scheme |-> 2, R0 |-> R0, pi |-> IssuanceProve(R0, Neg(k0), msg.m)]}
      /\ result' = "ok"
      /\ UNCHANGED <<damaged, replies, wallet>>

(* The unwrap of hashes_to_curve, or the circuit's assertion on the length. *)
UserRequest2Panics(s, msg) ==
  /\ ustate[s] = NoState
  /\ msg.scheme = 2
  /\ MsgPoint(msg) = NoPoint \/ ~IsMsgLen(msg.m)
  /\ ustate' = [ustate EXCEPT ![s] = Crashed]
  /\ result' = Panic
  /\ UNCHANGED <<requests, damaged, replies, wallet>>

(* issuer_sign_msg rejects a request whose proof does not verify. *)
IssuerRejects(req) ==
  /\ ~ProofOK(req)
  /\ result' = "UserIssuanceProofInvalid"
  /\ UNCHANGED <<ustate, requests, damaged, replies, wallet>>

(* issuer_sign_msg draws k1 and answers, however often the request arrives. *)
IssuerSigns(req, k1) ==
  /\ ProofOK(req)
  /\ FpToFq(X(IssuerR(req.R0, k1))) # NoScalar
  /\ Cardinality({rep \in replies : rep.R0 = req.R0}) < MaxReplies
  /\ replies' = replies \cup {IssuerReply(req.R0, k1)}
  /\ result' = "ok"
  /\ UNCHANGED <<ustate, requests, damaged, wallet>>

(* to_Fq panics in the issuer when R.x >= q: no reply, and no state to lose. *)
IssuerPanics(req, k1) ==
  /\ ProofOK(req)
  /\ FpToFq(X(IssuerR(req.R0, k1))) = NoScalar
  /\ result' = Panic
  /\ UNCHANGED <<ustate, requests, damaged, replies, wallet>>

(* user2_finalize returns Ok only for a signature that verifies; the user   *)
(* state is borrowed, so the call can be repeated; a panic ends the session. *)
UserFinalize(s, rep) ==
  LET sig == FinalSig(ustate[s], rep)
      v == Verify(PK, MsgPoint(ustate[s].msg), sig)
  IN  /\ Live(s)
      /\ wallet' = IF v = "valid" THEN [wallet EXCEPT ![s] = @ \cup {sig}] ELSE wallet
      /\ ustate' = IF v = Panic THEN [ustate EXCEPT ![s] = Crashed] ELSE ustate
      /\ result' = CASE v = "valid" -> "ok"
                     [] v = "invalid" -> "InvalidSignature"
                     [] OTHER -> Panic
      /\ UNCHANGED <<requests, damaged, replies>>

(* A request reaches the issuer with the proof of another of its scheme. *)
Damage(req, other) ==
  /\ Cardinality(damaged) < MaxDamaged
  /\ req.scheme = other.scheme
  /\ req.R0 # other.R0
  /\ LET d == [req EXCEPT !.pi = other.pi]
     IN  /\ d \notin requests
         /\ damaged' = damaged \cup {d}
         /\ requests' = requests \cup {d}
  /\ UNCHANGED <<ustate, replies, wallet, result>>

----------------------------------------------------------------------------
UserCalls(s) ==
  \/ \E msg \in Message, k0 \in K0, b \in Blinds : UserRequest1(s, msg, k0, b)
  \/ \E msg \in Message, k0 \in K0 : UserRequest2(s, msg, k0)
  \/ \E msg \in Message : UserRequest2Panics(s, msg)

IssuerCalls ==
  \E req \in requests :
    \/ IssuerRejects(req)
    \/ \E k1 \in K1 : IssuerSigns(req, k1) \/ IssuerPanics(req, k1)

FinalizesOwn(s) == \E rep \in replies : Matched(s, rep) /\ UserFinalize(s, rep)

(* Replies reach the session that asked for them. *)
NextCorrelated ==
  \/ \E s \in Session : UserCalls(s) \/ FinalizesOwn(s)
  \/ IssuerCalls
  \/ \E req, other \in requests : Damage(req, other)

(* Replies reach any session. *)
Next ==
  \/ NextCorrelated
  \/ \E s \in Session, rep \in replies : UserFinalize(s, rep)

Spec == Init /\ [][Next]_vars

SpecCorrelated == Init /\ [][NextCorrelated]_vars

(* Each nonce keeps being drawn, and each message keeps being delivered. *)
Fairness ==
  /\ \A s \in Session : WF_vars(FinalizesOwn(s))
  /\ \A k1 \in K1 : WF_vars(\E req \in requests : IssuerSigns(req, k1))

FairSpec == SpecCorrelated /\ Fairness

----------------------------------------------------------------------------
TypeOK ==
  /\ ustate \in [Session -> UserState \cup {NoState, Crashed}]
  /\ requests \subseteq Request
  /\ damaged \subseteq requests
  /\ replies \subseteq Reply
  /\ wallet \in [Session -> SUBSET Signature]
  /\ result \in Results

(* Completeness of the first round, for PiSLProof and IssuanceProof: every  *)
(* request user1_msg made passes issuer_sign_msg's check, whatever nonces   *)
(* were drawn; UserIssuanceProofInvalid only meets damaged requests.        *)
RequestsVerify == \A req \in requests \ damaged : ProofOK(req)

(* Completeness of the second round: whatever reply was made to a session's *)
(* own R0, on whichever delivery, after however many failed calls, the      *)
(* signature user2_finalize assembles from it verifies and no conversion    *)
(* panics.                                                                  *)
OwnReplyFinalizes ==
  \A s \in Session, rep \in replies :
    Matched(s, rep) =>
      Verify(PK, MsgPoint(ustate[s].msg), FinalSig(ustate[s], rep)) = "valid"

(* The point verification rebuilds from a session's own reply is R itself,  *)
(* not -R, which shares its x-coordinate: what NRProof::prove asserts       *)
(* (B = R + V*z) when such a signature is shown.                            *)
OwnReplyIsExact ==
  \A s \in Session, rep \in replies :
    Matched(s, rep) =>
      LET sig == FinalSig(ustate[s], rep)
      IN  Rebuilt(PK, MsgPoint(ustate[s].msg), sig) = sig.R

(* A session whose message could be requested at all ends, when replies go  *)
(* to the sessions that asked, with a signature.                            *)
EverySessionIsSigned == \A s \in Session : Live(s) ~> (wallet[s] # {})

(* With replies correlated, blind issuance implements direct signing.       *)
Direct == INSTANCE IssueSpec WITH
  wanted <- [s \in Session |-> IF Live(s) THEN ustate[s].msg ELSE [scheme |-> 0]]

IssuesDirectSignatures == Direct!Spec
============================================================================
