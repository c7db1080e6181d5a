----------------------------- MODULE GssGenerator -----------------------------
(***************************************************************************)
(* s_p_gss_generator: the range begin..end-1 is cut into chunks that get   *)
(* smaller as less remains.                                                *)
(***************************************************************************)
EXTENDS GuidedChunk, Sequences

CONSTANTS Ranges,          \* pairs <<begin, end>> of ranges to share
          GrainSizes,      \* the grain sizes the user may ask for
          ProcessCounts    \* sums of current_rank_process_count

ASSUME RangesAssumption        == Ranges \subseteq {r \in UInt \X UInt : r[1] <= r[2]}
ASSUME GrainSizesAssumption    == GrainSizes \subseteq UInt
ASSUME ProcessCountsAssumption == ProcessCounts \subseteq UInt \ {0}

VARIABLES range,      \* <<begin, end>>
          grain,      \* grain_size
          processes,  \* all_rank_process_count
          current,
          chunks,     \* the tasks produced so far: pairs <<begin, end>>
          done        \* the generator has returned true

vars == <<range, grain, processes, current, chunks, done>>

TypeOK ==
    /\ range \in Ranges /\ grain \in GrainSizes /\ processes \in ProcessCounts
    /\ current \in range[1]..range[2]
    /\ chunks \in Seq(UInt \X UInt)
    /\ done \in BOOLEAN

\* s_p_new_gss_state.  It checks nothing: that the range does not end before it begins
\* and that there is a process is left to the caller, and assumed of the constants.
Init ==
    /\ range \in Ranges /\ grain \in GrainSizes /\ processes \in ProcessCounts
    /\ current = range[1]
    /\ chunks = << >>
    /\ done = FALSE

Remaining == Minus(range[2], current)

\* A call of the generator that writes a task and returns false.
Generate ==
    /\ ~done
    /\ Remaining # 0
    /\ LET next == NextCount(Remaining, grain, processes)
       IN  /\ chunks' = Append(chunks, <<current, Plus(current, next)>>)
           /\ current' = Plus(current, next)
    /\ UNCHANGED <<range, grain, processes, done>>

\* The call that returns true.
Finish ==
    /\ ~done
    /\ Remaining = 0
    /\ done' = TRUE
    /\ UNCHANGED <<range, grain, processes, current, chunks>>

Stopped == done /\ UNCHANGED vars

Next == Generate \/ Finish \/ Stopped

Spec == Init /\ [][Next]_vars

-----------------------------------------------------------------------------
\* Where chunk i has to begin.
BeginOf(i) == IF i = 1 THEN range[1] ELSE chunks[i - 1][2]

\* The chunks are the range: each is not empty and begins where the one before
\* it ended, also at the end of the unsigned integers.
ChunksTile ==
    /\ \A i \in 1..Len(chunks) :
          chunks[i][1] = BeginOf(i) /\ chunks[i][1] < chunks[i][2]
    /\ current = BeginOf(Len(chunks) + 1)
    /\ current <= range[2]
    /\ done => current = range[2]

Length(i) == chunks[i][2] - chunks[i][1]

\* Guided self-scheduling: no chunk is longer than one before it, only the last
\* is shorter than the grain size, and there is one chunk for every process
\* when the range and the grain size allow it.
Guided ==
    /\ \A i, j \in 1..Len(chunks) : i < j => Length(j) <= Length(i)
    /\ \A i \in 1..(Len(chunks) - 1) : Length(i) >= grain
    /\ done /\ range[2] - range[1] >= processes * AtLeast(grain, 1)
          => Len(chunks) >= processes

=============================================================================
