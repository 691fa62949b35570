------------------------ MODULE MCSharedComputation ------------------------
(* Small instance of SharedComputation for TLC. *)
EXTENDS SharedComputation, TLC


Symmetric ==
    Permutations(Callers) \cup Permutations(Signalled) \cup Permutations(Sockets)
      \cup Permutations(Keys)
=============================================================================
