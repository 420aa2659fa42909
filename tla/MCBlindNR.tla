----------------------------- MODULE MCBlindNR -----------------------------
(* BlindNR on the tiny curve, with a few values for each random draw. *)
EXTENDS BlindNR, MCCurve

(* The blinding factors of the sigma proof. *)
MCBlinds == {<<1, 6>>}
============================================================================
