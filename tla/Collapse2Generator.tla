-------------------------- MODULE Collapse2Generator --------------------------
(***************************************************************************)
(* s_p_collapse_2_gss_generator: the pairs (i, j) of two nested loops are  *)
(* shared like a range.  Only the user's gen_func knows which pairs there  *)
(* are; it is the one of example/c_example.c.                              *)
(*                                                                         *)
(* A point is the number of pairs before it.  A point whose i is end.i is  *)
(* behind all pairs, but a point behind all pairs may be in a row before   *)
(* end.i when the rows that follow are empty.                              *)
(***************************************************************************)
EXTENDS GuidedChunk, Sequences

CONSTANTS Counts,          \* numbers of pairs, the user's all_index_count
          GrainSizes,
          ProcessCounts

ConstantsAssumption ==
    Counts \subseteq UInt /\ GrainSizes \subseteq UInt /\ ProcessCounts \subseteq UInt \ {0}

VARIABLES count,      \* how many pairs there are, and all_index_count
          grain,      \* grain_size
          processes,  \* all_rank_process_count
          current,    \* the point current
          inLastRow,  \* current.i = end.i
          remaining,  \* remaining_index
          chunks,     \* the tasks produced so far: pairs <<ij_begin, ij_end>>
          st          \* "running", "done" or "failed" (an assertion)

inputs == <<count, grain, processes>>
vars   == <<inputs, current, inLastRow, remaining, chunks, st>>

TypeOK ==
    /\ count \in Counts /\ grain \in GrainSizes /\ processes \in ProcessCounts
    /\ current \in 0..count
    /\ inLastRow \in BOOLEAN
    /\ remaining \in 0..count
    /\ chunks \in Seq(UInt \X UInt)
    /\ st \in {"running", "done", "failed"}

\* s_p_new_collapse_2_gss_state.  Without a pair there may be rows or none.
Init ==
    /\ count \in Counts /\ grain \in GrainSizes /\ processes \in ProcessCounts
    /\ current = 0
    /\ inLastRow \in (IF count = 0 THEN BOOLEAN ELSE {FALSE})
    /\ remaining = count
    /\ chunks = << >>
    /\ st = "running"

\* Slip: the rows after the last pair asked for are not skipped.
GenFuncStopsInRow(expected) ==
    LET n == AtMost(expected, count - current)
    IN  [end |-> current + n, last |-> FALSE, count |-> n]

\* my_gen_func: it counts the pairs it passes, stops at the pair after the last
\* one expected, and runs to end.i when there is none.
GenFunc(expected) ==
    LET n == AtMost(expected, count - current)
    IN  [end |-> current + n, last |-> current + n = count, count |-> n]

\* Slip: what was asked for is subtracted, not what was passed.
GenerateSubtractExpected ==
    /\ st = "running"
    /\ ~inLastRow
    /\ LET next == AtLeast(Share(remaining, processes), grain)
           res  == GenFunc(next)
       IN  IF res.count = 0
           THEN st' = "failed" /\ UNCHANGED <<current, inLastRow, remaining, chunks>>
           ELSE /\ chunks' = Append(chunks, <<current, res.end>>)
                /\ current' = res.end
                /\ inLastRow' = res.last
                /\ remaining' = Minus(remaining, next)
                /\ UNCHANGED st
    /\ UNCHANGED inputs

\* A call that writes a task and returns false, unless the assertion
\* gen_res.count != 0 fails.
Generate ==
    /\ st = "running"
    /\ ~inLastRow
    /\ LET res == GenFunc(NextCount(remaining, grain, processes))
       IN  IF res.count = 0
           THEN st' = "failed" /\ UNCHANGED <<current, inLastRow, remaining, chunks>>
           ELSE /\ chunks' = Append(chunks, <<current, res.end>>)
                /\ current' = res.end
                /\ inLastRow' = res.last
                /\ remaining' = Minus(remaining, res.count)
                /\ UNCHANGED st
    /\ UNCHANGED inputs

\* The call that returns true, unless the assertion remaining_index == 0 fails.
Finish ==
    /\ st = "running"
    /\ inLastRow
    /\ st' = (IF remaining = 0 THEN "done" ELSE "failed")
    /\ UNCHANGED <<inputs, current, inLastRow, remaining, chunks>>

Stopped == st # "running" /\ UNCHANGED vars

Next == Generate \/ Finish \/ Stopped

Spec == Init /\ [][Next]_vars

-----------------------------------------------------------------------------
BeginOf(i) == IF i = 1 THEN 0 ELSE chunks[i - 1][2]

\* The chunks are all the pairs, each once, and remaining_index is what the
\* generator has not produced yet.
PairsTile ==
    /\ \A i \in 1..Len(chunks) :
          chunks[i][1] = BeginOf(i) /\ chunks[i][1] < chunks[i][2]
    /\ current = BeginOf(Len(chunks) + 1)
    /\ remaining = count - current
    /\ st = "done" => current = count

\* As long as there is a pair, a correct all_index_count trips neither
\* assertion of the generator.
PairsDoNotFail == count > 0 => st # "failed"

=============================================================================
