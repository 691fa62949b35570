--------------------------- MODULE MCDurableQueue ---------------------------
(* Small instances of DurableQueue for TLC. *)
EXTENDS DurableQueue, TLC

WorkerSymmetry == Permutations(Workers)
=============================================================================
