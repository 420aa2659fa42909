------------------------------ MODULE MCNRShow ------------------------------
(* NRShow on the tiny curve. *)
EXTENDS NRShow, MCCurve

MCChNR(R1) == (R1 * R1 + 4 * R1 + 3) % MCq
MCPoseidon(r, alpha) == (r + 7 * alpha) % 19
MCDraws == {<<0, 1, 2, 3>>, <<4, 6, 0, 11>>, <<9, 12, 5, 8>>}
MCSnarkType == {"R1csIpa", "Spartan"}
============================================================================
