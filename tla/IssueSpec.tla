----------------------------- MODULE IssueSpec -----------------------------
(***************************************************************************)
(* What blind issuance promises a user, with the protocol left out: every  *)
(* signature that enters a user's wallet is one the issuer could have made *)
(* itself with NRKeyPair::sign (or sign2) on the user's own message, for   *)
(* some nonce.  Nothing leaves a wallet.                                   *)
(***************************************************************************)
EXTENDS NRSig

CONSTANT Session
VARIABLES
  wanted,   \* wanted[s]: the message session s asked to have signed, or NoMessage
  wallet    \* wallet[s]: the signatures session s holds

NoMessage == [scheme |-> 0]

Init ==
  /\ wanted = [s \in Session |-> NoMessage]
  /\ wallet = [s \in Session |-> {}]

Ask(s, msg) ==
  /\ wanted[s] = NoMessage
  /\ wanted' = [wanted EXCEPT ![s] = msg]
  /\ UNCHANGED wallet

Sign(s, k) ==
  /\ wanted[s] # NoMessage
  /\ SignDefined(MsgPoint(wanted[s]), k)
  /\ wallet' = [wallet EXCEPT ![s] = @ \cup {SignWith(MsgPoint(wanted[s]), k)}]
  /\ UNCHANGED wanted

Next == \E s \in Session :
          \/ \E msg \in Message : Ask(s, msg)
          \/ \E k \in Fq : Sign(s, k)

Spec == Init /\ [][Next]_<<wanted, wallet>>
============================================================================
