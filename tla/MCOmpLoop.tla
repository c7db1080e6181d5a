------------------------------ MODULE MCOmpLoop -------------------------------
(***************************************************************************)
(* Instances of OmpLoop for TLC.                                           *)
(***************************************************************************)
EXTENDS OmpLoop, TLC

Threads == Permutations(Thread)

\* Programs in which the counter of a loop that has been left is still there
\* when the loop's last thread looks at it.
CounterKept ==
    {p \in Program : p.lang = "c" /\ ~p.barrier => ~p.sameFrame}

\* Loops in C without a barrier between them, in separate blocks or in one.
NoBarrier   == {[lang |-> "c", barrier |-> FALSE, sameFrame |-> FALSE]}
LoopRepeats == {[lang |-> "c", barrier |-> FALSE, sameFrame |-> TRUE]}

=============================================================================
