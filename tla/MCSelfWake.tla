----------------------------- MODULE MCSelfWake -----------------------------
(* Small instances of SelfWake for TLC. *)
EXTENDS SelfWake, TLC

CONSTANTS w1, w2, c1, c2

TwoWakes == {w1, w2}
OneWake == {w1}
TwoConvs == {c1, c2}
OneConv == {c1}

(* Rows are created by name only: exchanging two ids changes nothing. *)
TwoSymmetry == Permutations(TwoWakes)
=============================================================================
