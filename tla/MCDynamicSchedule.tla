-------------------------- MODULE MCDynamicSchedule --------------------------
(***************************************************************************)
(* Instances of DynamicSchedule for TLC.  The set-valued constants are     *)
(* given here so that the configurations can name them.                    *)
(***************************************************************************)
EXTENDS DynamicSchedule

\* A client without buffer, one with the smallest and one with a larger one.
BufferSizes01  == {0, 1}
BufferSizes12  == {1, 2}
BufferSizes012 == {0, 1, 2}

\* The empty range, ranges that end within the first round, ranges that
\* outlast it.
TaskCounts03  == {0, 3}
TaskCounts034 == {0, 3, 4}

=============================================================================
