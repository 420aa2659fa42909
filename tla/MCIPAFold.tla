----------------------------- MODULE MCIPAFold -----------------------------
(* IPAFold on the arguments of MCIPAVectors. *)
EXTENDS IPAFold, MCIPAVectors
============================================================================
