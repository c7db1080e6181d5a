----------------------------- MODULE MCGenerators ------------------------------
(***************************************************************************)
(* The guided generators for TLC, on all ranges, numbers of pairs and      *)
(* grain sizes of small integers.                                          *)
(***************************************************************************)
EXTENDS Generators

AllRanges    == {r \in UInt \X UInt : r[1] <= r[2]}
AllProcesses == UInt \ {0}

=============================================================================
