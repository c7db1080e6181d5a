-------------------------------- MODULE BigMpi --------------------------------
(***************************************************************************)
(* Memory areas larger than an MPI call can count: Bcast, Reduce,          *)
(* AllReduce and sync_areas of bigmpi, and the transfer of the Fortran     *)
(* globals, cut the areas into calls of at most IntMax elements.           *)
(* sync_areas and the globals keep up to Capacity calls open in a ring of  *)
(* requests, the others make one call after the other.                     *)
(***************************************************************************)
EXTENDS Integers, Sequences

CONSTANTS
    NumRanks,
    IntMax,      \* the largest count of a call
    Capacity,    \* the places of the ring
    AreaLists    \* sequences of the sizes of areas

ASSUME SizesAssumption ==
    NumRanks \in Nat \ {0} /\ IntMax \in Nat \ {0} /\ Capacity \in Nat \ {0}
ASSUME AreaListsAssumption == AreaLists \subseteq Seq(Nat)

Rank == 0..(NumRanks - 1)
Root == 0

VARIABLES
    function,   \* what all ranks call
    areas,
    pc,         \* "loop", "wait" (for a place in the ring), "call", "done"
    area,       \* the area each rank is at
    sent,       \* sent
    calls,      \* the MPI calls each rank has made: the elements of each
    complete,   \* the calls that are complete on each rank
    ring        \* the open requests of each rank: numbers of calls

vars == <<function, areas, pc, area, sent, calls, complete, ring>>

Async == {"sync_areas", "globals"}

\* Elements a..b-1 of area i.
Chunk == [area : Nat, from : Nat, count : Nat]

TypeOK ==
    /\ function \in Async \union {"Bcast", "Reduce", "AllReduce"}
    /\ areas \in AreaLists
    /\ pc \in [Rank -> {"loop", "wait", "call", "done"}]
    /\ area \in [Rank -> 1..(Len(areas) + 1)]
    /\ sent \in [Rank -> Nat]
    /\ calls \in [Rank -> Seq(Chunk)]
    /\ complete \in [Rank -> SUBSET Nat] /\ ring \in [Rank -> Seq(Nat)]
    /\ \A r \in Rank : /\ complete[r] \subseteq 1..Len(calls[r])
                       /\ ring[r] \in Seq(1..Len(calls[r])) /\ Len(ring[r]) <= Capacity

\* bigmpi's blocking functions have one area, and a global variable is not
\* larger than one call.
Init ==
    /\ areas \in AreaLists
    /\ function \in Async \union {"Bcast", "Reduce", "AllReduce"}
    /\ function \notin Async => Len(areas) = 1
    /\ function = "globals" => \A i \in 1..Len(areas) : areas[i] <= IntMax
    /\ pc = [r \in Rank |-> "loop"]
    /\ area = [r \in Rank |-> 1]
    /\ sent = [r \in Rank |-> 0]
    /\ calls = [r \in Rank |-> << >>]
    /\ complete = [r \in Rank |-> {}]
    /\ ring = [r \in Rank |-> << >>]

GoTo(r, to) == pc' = [pc EXCEPT ![r] = to]

\* The area is behind the rank.  A global variable is one call, however small.
Passed(r) ==
    IF function = "globals" THEN sent[r] > 0 ELSE sent[r] >= areas[area[r]]

NextArea(r) ==
    /\ pc[r] = "loop" /\ area[r] <= Len(areas) /\ Passed(r)
    /\ area' = [area EXCEPT ![r] = @ + 1]
    /\ sent' = [sent EXCEPT ![r] = 0]
    /\ UNCHANGED <<function, areas, pc, calls, complete, ring>>

\* this_iter_count
ThisIterCount(r) ==
    LET left == areas[area[r]] - sent[r] IN IF left < IntMax THEN left ELSE IntMax

\* Slip: one more than there are places.
AsyncWaitRequestOneMore(r) ==
    IF Len(ring[r]) > Capacity
    THEN GoTo(r, "wait") /\ UNCHANGED ring
    ELSE /\ ring' = [ring EXCEPT ![r] = Append(@, Len(calls[r]) + 1)]
         /\ GoTo(r, "loop")

\* async_wait_rquest: a place for the request, or a wait for one.
AsyncWaitRequest(r) ==
    IF Len(ring[r]) = Capacity
    THEN GoTo(r, "wait") /\ UNCHANGED ring
    ELSE /\ ring' = [ring EXCEPT ![r] = Append(@, Len(calls[r]) + 1)]
         /\ GoTo(r, "loop")

\* Slip: the place of the last element is where the next call begins.
MpiCallOverlaps(r) ==
    /\ pc[r] = "loop" /\ area[r] <= Len(areas) /\ ~Passed(r)
    /\ calls' = [calls EXCEPT ![r] =
                   Append(@, [area |-> area[r], from |-> IF sent[r] = 0 THEN 0 ELSE sent[r] - 1,
                              count |-> ThisIterCount(r)])]
    /\ sent' = [sent EXCEPT ![r] = @ + IntMax]
    /\ IF function \in Async THEN AsyncWaitRequest(r)
                             ELSE GoTo(r, "call") /\ UNCHANGED ring
    /\ UNCHANGED <<function, areas, area, complete>>

\* One call of MPI_Ibcast, MPI_Bcast, MPI_Reduce or MPI_Allreduce.
MpiCall(r) ==
    /\ pc[r] = "loop" /\ area[r] <= Len(areas) /\ ~Passed(r)
    /\ calls' = [calls EXCEPT ![r] =
                   Append(@, [area |-> area[r], from |-> sent[r], count |-> ThisIterCount(r)])]
    /\ sent' = [sent EXCEPT ![r] = @ + IntMax]
    /\ IF function \in Async THEN AsyncWaitRequest(r)
                             ELSE GoTo(r, "call") /\ UNCHANGED ring
    /\ UNCHANGED <<function, areas, area, complete>>

\* The k-th collective call of rank r is complete: a broadcast when the root
\* has called it, on the root at any time; a reduction on the root when all
\* ranks have, on the others at any time; an all-reduction when all have.
Complete(r, k) ==
    /\ k \in 1..Len(calls[r]) \ complete[r]
    /\ \/ function \in Async \union {"Bcast"} /\ k <= Len(calls[Root])
       \/ function = "Reduce" /\ r # Root
       \/ \A q \in Rank : k <= Len(calls[q])
    /\ complete' = [complete EXCEPT ![r] = @ \union {k}]
    /\ UNCHANGED <<function, areas, pc, area, sent, calls, ring>>

\* A blocking call returns.
Return(r) ==
    /\ pc[r] = "call" /\ Len(calls[r]) \in complete[r]
    /\ GoTo(r, "loop")
    /\ UNCHANGED <<function, areas, area, sent, calls, complete, ring>>

\* Slip: the new request takes a place whether its request is complete or not.
WaitAnyOldest(r) ==
    /\ pc[r] = "wait"
    /\ ring' = [ring EXCEPT ![r][1] = Len(calls[r])]
    /\ GoTo(r, "loop")
    /\ UNCHANGED <<function, areas, area, sent, calls, complete>>

\* MPI_Waitany: the new request takes the place of one that is complete.
WaitAny(r) ==
    /\ pc[r] = "wait"
    /\ \E i \in 1..Len(ring[r]) :
          ring[r][i] \in complete[r] /\ ring' = [ring EXCEPT ![r][i] = Len(calls[r])]
    /\ GoTo(r, "loop")
    /\ UNCHANGED <<function, areas, area, sent, calls, complete>>

\* The loops are over: MPI_Waitall for what is in the ring.
WaitAll(r) ==
    /\ pc[r] = "loop" /\ area[r] > Len(areas)
    /\ \A i \in 1..Len(ring[r]) : ring[r][i] \in complete[r]
    /\ GoTo(r, "done")
    /\ UNCHANGED <<function, areas, area, sent, calls, complete, ring>>

Next ==
    \/ \E r \in Rank :
          \/ NextArea(r) \/ MpiCall(r) \/ Return(r) \/ WaitAny(r) \/ WaitAll(r)
          \/ \E k \in 1..Len(calls[r]) : Complete(r, k)
    \/ (\A r \in Rank : pc[r] = "done") /\ UNCHANGED vars

Spec == Init /\ [][Next]_vars

-----------------------------------------------------------------------------
(***************************************************************************)
(* Correctness.                                                            *)
(***************************************************************************)

Elements(c) == {<<c.area, e>> : e \in c.from..(c.from + c.count - 1)}

\* The calls of a rank are the areas, each element once, and no call is larger
\* than MPI can count; calls of two ranks that meet are about the same elements.
CallsTile ==
    \A r \in Rank :
        /\ \A k \in 1..Len(calls[r]) :
              /\ calls[r][k].count <= IntMax
              /\ k <= Len(calls[Root]) => calls[r][k] = calls[Root][k]
              /\ \A j \in 1..(k - 1) :
                    Elements(calls[r][j]) \intersect Elements(calls[r][k]) = {}
        /\ pc[r] = "done" =>
              UNION {Elements(calls[r][k]) : k \in 1..Len(calls[r])}
                = UNION {{<<i, e>> : e \in 0..(areas[i] - 1)} : i \in 1..Len(areas)}

\* When a rank returns from the transfer none of its calls is open: the memory
\* holds what it should and may be written, though at most Capacity requests
\* were remembered.
CompleteOnReturn ==
    \A r \in Rank : pc[r] = "done" => complete[r] = 1..Len(calls[r])

\* A request that is open is in the ring, or about to be: none is forgotten when
\* another takes its place.
OpenIsRemembered ==
    function \in Async =>
        \A r \in Rank : \A k \in 1..Len(calls[r]) \ complete[r] :
            \/ \E i \in 1..Len(ring[r]) : ring[r][i] = k
            \/ pc[r] = "wait" /\ k = Len(calls[r])

=============================================================================
