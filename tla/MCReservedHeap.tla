---------------------------- MODULE MCReservedHeap ----------------------------
(***************************************************************************)
(* Instances of ReservedHeap for TLC.                                      *)
(***************************************************************************)
EXTENDS ReservedHeap, TLC

Threads == Permutations(Thread)

\* Nothing is in the range, or something is in its first step.
NoneOrOne == {{}, {1}}

=============================================================================
