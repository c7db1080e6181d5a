--------------------------- MODULE MCParallelRegion ---------------------------
(***************************************************************************)
(* Instances of ParallelRegion for TLC.                                    *)
(***************************************************************************)
EXTENDS ParallelRegion

\* A program with a plain region.
PlainOnly == {"plain"}

\* Everything that may throw.
Anything == Checks \union Throwing

\* Nothing is checked at startup that could fail.
NoChecks == {}

=============================================================================
