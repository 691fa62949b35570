--------------------------- MODULE ComputeBounds ---------------------------
(* The settings of RustComputeScheduler, shared by its promise and the list. *)
EXTENDS Integers, Sequences, FiniteSets

CONSTANTS
    Ops,
    Capacity, \* capacity
    MaxQueued \* maxQueued

ASSUME ComputeBoundsAssumption ==
    /\ Capacity \in Nat \ {0}
    /\ MaxQueued \in Nat
=============================================================================
