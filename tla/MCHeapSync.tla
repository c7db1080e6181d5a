------------------------------ MODULE MCHeapSync ------------------------------
(***************************************************************************)
(* Instances of HeapSync for TLC.                                          *)
(***************************************************************************)
EXTENDS HeapSync

\* With two cells to a page: one cell of the first page, and all of the second.
Areas == {1..3}

=============================================================================
