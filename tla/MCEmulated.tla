----------------------------- MODULE MCEmulated -----------------------------
(***************************************************************************)
(* Long syntheses of one kind: one element is subtracted from another over *)
(* and over, then compared with a third.  (All short ones: MCCircuits.)    *)
(***************************************************************************)
EXTENDS Emulated

Chain ==
  \/ \E v \in Values : Len(elems) < 2 /\ Allocate(v)
  \/ Len(elems) = 2 /\ Subtracts(2, 2)
  \/ Len(elems) > 2 /\ Subtracts(Len(elems), 1)
  \/ Len(elems) > 2 /\ ChecksEqual(Len(elems), 2)

ChainSpec == Init /\ [][Chain]_vars
=============================================================================
