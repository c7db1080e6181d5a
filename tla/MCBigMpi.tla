------------------------------- MODULE MCBigMpi -------------------------------
(***************************************************************************)
(* Instances of BigMpi for TLC.                                            *)
(***************************************************************************)
EXTENDS BigMpi

\* One area of several calls; several areas, one of them empty; no area.
Lists == {<<5>>, <<1, 0, 3, 1>>, <<2, 0, 1>>, << >>}

=============================================================================
