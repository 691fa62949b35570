------------------------- MODULE MCExternalDispatch -------------------------
(* Small instances of ExternalDispatch for TLC. *)
EXTENDS ExternalDispatch, TLC

Symmetry == Permutations(Runs) \cup Permutations(Dispatchers)
=============================================================================
