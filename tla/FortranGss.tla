------------------------------ MODULE FortranGss ------------------------------
(***************************************************************************)
(* gss_scheduler, the generator behind gss_dynamic_schedule_begin.h: the   *)
(* indices begin..end of a Fortran do loop, end included, in chunks that   *)
(* get smaller.  As in any do loop there may be no index at all.           *)
(***************************************************************************)
EXTENDS Integers, Sequences

CONSTANTS DoLoops,       \* pairs <<begin, end>>
          GrainSizes,
          ThreadCounts   \* sums of the threads of all ranks, times 40

ConstantsAssumption ==
    DoLoops \subseteq Int \X Int /\ GrainSizes \subseteq Nat /\ ThreadCounts \subseteq Nat \ {0}

VARIABLES bounds,        \* <<begin, end>>
          grainsize, threadCount,
          current,
          chunks,        \* the chunks produced so far: <<first, last>>
          done           \* the generator has had no value

inputs == <<bounds, grainsize, threadCount>>
vars   == <<inputs, current, chunks, done>>

\* gss_init
Init ==
    /\ bounds \in DoLoops /\ grainsize \in GrainSizes /\ threadCount \in ThreadCounts
    /\ current = bounds[1]
    /\ chunks = << >>
    /\ done = FALSE

Remaining == bounds[2] - current + 1

AtLeast(n, least) == IF n < least THEN least ELSE n
AtMost(n, most)   == IF n > most THEN most ELSE n

\* Slip: the end is not part of the loop.
GssNextEndExcluded ==
    /\ ~done
    /\ IF Remaining = 1 \/ Remaining = 0
       THEN done' = TRUE /\ UNCHANGED <<current, chunks>>
       ELSE LET n == AtMost(AtLeast((Remaining - 2) \div threadCount + 1, grainsize),
                            Remaining - 1)
            IN  /\ chunks' = Append(chunks, <<current, current + n - 1>>)
                /\ current' = current + n
                /\ UNCHANGED done
    /\ UNCHANGED inputs

\* gss_next.  (When there is less than no index, the division's rounding does
\* not matter: the quotient is not less than the dividend.)
GssNext ==
    /\ ~done
    /\ IF Remaining = 0
       THEN done' = TRUE /\ UNCHANGED <<current, chunks>>
       ELSE LET n == AtMost(AtLeast((Remaining - 1) \div threadCount + 1, grainsize),
                            Remaining)
            IN  /\ chunks' = Append(chunks, <<current, current + n - 1>>)
                /\ current' = current + n
                /\ UNCHANGED done
    /\ UNCHANGED inputs

Next == GssNext \/ (done /\ UNCHANGED vars)

Spec == Init /\ [][Next]_vars

-----------------------------------------------------------------------------
Indices(c) == c[1]..c[2]

\* The chunks of a do loop have its indices, each once; a loop without an index
\* ends too, after at most one chunk, which is empty.
IndicesOnce ==
    /\ \A i, j \in 1..Len(chunks) :
          i # j => Indices(chunks[i]) \intersect Indices(chunks[j]) = {}
    /\ UNION {Indices(chunks[i]) : i \in 1..Len(chunks)} \subseteq Indices(bounds)
    /\ done => UNION {Indices(chunks[i]) : i \in 1..Len(chunks)} = Indices(bounds)
    /\ Indices(bounds) = {} => Len(chunks) <= 1

=============================================================================
