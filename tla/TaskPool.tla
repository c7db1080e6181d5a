------------------------------- MODULE TaskPool -------------------------------
(***************************************************************************)
(* What a loop over dynamic_schedule promises to the ranks that run it:    *)
(* every task of the range is given to one rank, runs there once, and the  *)
(* leader leaves the loop only when every task has run.  Nothing is said   *)
(* of requests, buffers or messages.                                       *)
(***************************************************************************)
EXTENDS Integers

CONSTANTS Rank,        \* the ranks that take part
          TaskCounts   \* the lengths a range may have

VARIABLES todo,        \* tasks not given to a rank yet
          given,       \* given[r]: tasks given to r that have not run
          ran,         \* tasks that have run
          open         \* the leader is inside the loop

vars == <<todo, given, ran, open>>

Init ==
    /\ todo = {}
    /\ given = [r \in Rank |-> {}]
    /\ ran = {}
    /\ open = FALSE

\* A loop over a new range is entered.
Open ==
    /\ ~open
    /\ open' = TRUE
    /\ \E n \in TaskCounts : todo' = 1..n
    /\ ran' = {}
    /\ UNCHANGED given

\* Tasks leave the range in order.
Give(r) ==
    /\ open
    /\ \E t \in todo :
          /\ \A u \in todo : t <= u
          /\ todo' = todo \ {t}
          /\ given' = [given EXCEPT ![r] = @ \union {t}]
    /\ UNCHANGED <<ran, open>>

\* A rank runs its oldest task.
Run(r) ==
    /\ open
    /\ \E t \in given[r] :
          /\ \A u \in given[r] : t <= u
          /\ given' = [given EXCEPT ![r] = @ \ {t}]
          /\ ran' = ran \union {t}
    /\ UNCHANGED <<todo, open>>

\* The leader leaves the loop.
Close ==
    /\ open
    /\ todo = {}
    /\ \A r \in Rank : given[r] = {}
    /\ open' = FALSE
    /\ UNCHANGED <<todo, given, ran>>

Next ==
    \/ Open
    \/ \E r \in Rank : Give(r) \/ Run(r)
    \/ Close

Spec == Init /\ [][Next]_vars

=============================================================================
