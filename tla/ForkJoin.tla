------------------------------- MODULE ForkJoin -------------------------------
(***************************************************************************)
(* What parallel regions promise to the program: the leader opens regions  *)
(* one after the other; the body of a forked one is run by every rank,     *)
(* once, in the order of the program, and none is skipped; the body of     *)
(* another is run by the leader alone, or not at all.  The leader leaves a *)
(* region that reduces when every rank has ended its body.  Nothing is     *)
(* said of calls, of tags or of what is sent.                              *)
(***************************************************************************)
EXTENDS Integers

CONSTANTS Leader, Workers   \* the rank that runs main, and the others

VARIABLES opened,     \* how many regions the leader has opened
          forked,     \* those all ranks run
          reducing,   \* those of them that end with a reduction
          begun,      \* begun[r]: the regions whose body rank r has begun
          ended,      \* ended[r]: the regions whose body rank r has ended
          left        \* the regions the leader has left

vars == <<opened, forked, reducing, begun, ended, left>>

Init ==
    /\ opened = 0
    /\ forked = {} /\ reducing = {}
    /\ begun = [r \in Workers \union {Leader} |-> {}]
    /\ ended = [r \in Workers \union {Leader} |-> {}]
    /\ left = {}

\* The leader, in no region, opens one: forked with a reduction or without, or
\* not forked.
Open ==
    /\ begun[Leader] = left
    /\ opened' = opened + 1
    /\ \/ forked' = forked \union {opened'} /\ reducing' = reducing \union {opened'}
       \/ forked' = forked \union {opened'} /\ UNCHANGED reducing
       \/ UNCHANGED <<forked, reducing>>
    /\ UNCHANGED <<begun, ended, left>>

\* Rank r begins the body of region k.
Begin(r, k) ==
    /\ k \in forked \ begun[r]
    /\ begun[r] = ended[r]
    /\ begun' = [begun EXCEPT ![r] = @ \union {k}]
    /\ UNCHANGED <<opened, forked, reducing, ended, left>>

\* The leader begins the region it has opened last.
LeaderBegins == begun[Leader] = left /\ Begin(Leader, opened)

\* A worker begins the first region that it has not run.
WorkerBegins(w) == \E k \in forked : Begin(w, k) /\ \A j \in forked : j < k => j \in ended[w]

\* Rank r ends the body it is in.
End(r) ==
    /\ \E k \in begun[r] \ ended[r] :
          /\ ended' = [ended EXCEPT ![r] = @ \union {k}]
          /\ left' = IF r = Leader /\ k \notin reducing THEN left \union {k} ELSE left
    /\ UNCHANGED <<opened, forked, reducing, begun>>

\* The leader leaves a region that reduces.
Join ==
    /\ \E k \in ended[Leader] \ left :
          /\ \A w \in Workers : k \in ended[w]
          /\ left' = left \union {k}
    /\ UNCHANGED <<opened, forked, reducing, begun, ended>>

\* The leader runs a region that is not forked.
RunAlone ==
    /\ begun[Leader] = left /\ opened > 0
    /\ opened \notin begun[Leader] \union forked
    /\ begun' = [begun EXCEPT ![Leader] = @ \union {opened}]
    /\ ended' = [ended EXCEPT ![Leader] = @ \union {opened}]
    /\ left' = left \union {opened}
    /\ UNCHANGED <<opened, forked, reducing>>

Next ==
    \/ Open \/ LeaderBegins \/ Join \/ RunAlone
    \/ \E r \in Workers \union {Leader} : End(r)
    \/ \E w \in Workers : WorkerBegins(w)

Spec == Init /\ [][Next]_vars

=============================================================================
