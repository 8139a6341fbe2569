------------------------- MODULE MC_BluetoothPairing -------------------------
(* Two flows pair one radio through two controllers.                        *)
EXTENDS BluetoothPairing, TLC

CONSTANTS f1, f2, c1, c2, p1, p2

Symmetry == Permutations({f1, f2}) \cup Permutations({c1, c2}) \cup Permutations({p1, p2})
=============================================================================
