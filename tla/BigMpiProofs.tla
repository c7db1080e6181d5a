----------------------------- MODULE BigMpiProofs ------------------------------
(***************************************************************************)
(* For any number of ranks, places in the ring, largest count and areas:   *)
(* no call of the transfer is open when a rank returns from it, and the    *)
(* calls the ranks have made are the areas, each element once.             *)
(***************************************************************************)
EXTENDS BigMpi, TLAPS

\* A rank that is behind a call has made one.
CallMade == \A r \in Rank : pc[r] \in {"wait", "call"} => Len(calls[r]) > 0

\* The functions that block have one open call at most, the one they are in.
BlockingOpen ==
    function \notin Async =>
        \A r \in Rank : \A k \in 1..Len(calls[r]) \ complete[r] :
            pc[r] = "call" /\ k = Len(calls[r])

IInv == TypeOK /\ CallMade /\ BlockingOpen /\ OpenIsRemembered /\ CompleteOnReturn

-----------------------------------------------------------------------------
\* What a rank sends next is a piece of an area.
LEMMA NextChunk ==
    ASSUME TypeOK, NEW r \in Rank, pc[r] = "loop", area[r] <= Len(areas), ~Passed(r)
    PROVE  [area |-> area[r], from |-> sent[r], count |-> ThisIterCount(r)] \in Chunk
<1>1. areas \in Seq(Nat) /\ area[r] \in 1..Len(areas) /\ sent[r] \in Nat
  BY AreaListsAssumption DEF TypeOK
<1>2. areas[area[r]] \in Nat
  BY <1>1
<1>3. function = "globals" => sent[r] = 0
  BY <1>1 DEF Passed
<1>4. function # "globals" => sent[r] < areas[area[r]]
  BY <1>1, <1>2 DEF Passed
<1>5. ThisIterCount(r) \in Nat
  BY <1>1, <1>2, <1>3, <1>4, SizesAssumption DEF ThisIterCount
<1> QED
  BY <1>1, <1>5 DEF Chunk

\* No call has been made in an initial state.
LEMMA InitInv == Init => IInv
<1> SUFFICES ASSUME Init PROVE IInv
  OBVIOUS
<1>1. TypeOK
  BY AreaListsAssumption, SizesAssumption DEF Init, TypeOK, Async
<1>2. CallMade /\ BlockingOpen /\ OpenIsRemembered /\ CompleteOnReturn
  BY DEF Init, CallMade, BlockingOpen, OpenIsRemembered, CompleteOnReturn
<1> QED
  BY <1>1, <1>2 DEF IInv

\* The next area changes nothing about calls.
LEMMA NextAreaInv == ASSUME IInv, NEW r \in Rank, NextArea(r) PROVE IInv'
<1> USE DEF NextArea
<1>1. TypeOK'
  <2>1. area' \in [Rank -> 1..(Len(areas) + 1)]
    BY AreaListsAssumption DEF IInv, TypeOK
  <2> QED
    BY <2>1 DEF IInv, TypeOK
<1>2. CallMade' /\ BlockingOpen' /\ OpenIsRemembered' /\ CompleteOnReturn'
  BY DEF IInv, CallMade, BlockingOpen, OpenIsRemembered, CompleteOnReturn
<1> QED
  BY <1>1, <1>2 DEF IInv

\* A new call is the one the function blocks in, or it is put in the ring, or
\* the rank waits for a place.
LEMMA MpiCallInv == ASSUME IInv, NEW r \in Rank, MpiCall(r) PROVE IInv'
<1> DEFINE c == [area |-> area[r], from |-> sent[r], count |-> ThisIterCount(r)]
<1>1. c \in Chunk
  BY NextChunk DEF MpiCall, IInv
<1>2. /\ calls[r] \in Seq(Chunk) /\ calls' = [calls EXCEPT ![r] = Append(@, c)]
      /\ complete' = complete /\ function' = function /\ areas' = areas /\ area' = area
  BY DEF MpiCall, IInv, TypeOK
<1>3. /\ calls'[r] = Append(calls[r], c) /\ Len(calls'[r]) = Len(calls[r]) + 1
      /\ Len(calls'[r]) > 0 /\ calls'[r] \in Seq(Chunk) /\ Len(calls[r]) \in Nat
  BY <1>1, <1>2 DEF IInv, TypeOK
<1>4. \A q \in Rank \ {r} : calls'[q] = calls[q] /\ pc'[q] = pc[q] /\ ring'[q] = ring[q]
  BY <1>2 DEF MpiCall, AsyncWaitRequest, GoTo, IInv, TypeOK
<1> DEFINE T(q) == /\ complete'[q] \subseteq 1..Len(calls'[q])
                   /\ ring'[q] \in Seq(1..Len(calls'[q])) /\ Len(ring'[q]) <= Capacity
<1>a. /\ calls' \in [Rank -> Seq(Chunk)] /\ pc' \in [Rank -> {"loop", "wait", "call", "done"}]
      /\ sent' \in [Rank -> Nat]
  <2>1. calls' \in [Rank -> Seq(Chunk)]
    BY <1>2, <1>3 DEF IInv, TypeOK
  <2>2. pc' \in [Rank -> {"loop", "wait", "call", "done"}]
    BY DEF MpiCall, AsyncWaitRequest, GoTo, IInv, TypeOK
  <2>3. sent' \in [Rank -> Nat]
    BY SizesAssumption DEF MpiCall, IInv, TypeOK
  <2> QED
    BY <2>1, <2>2, <2>3
<1>b. \A q \in Rank \ {r} : T(q)
  BY <1>2, <1>4 DEF IInv, TypeOK
<1>c. ASSUME ring' \in [Rank -> Seq(Nat)], ring'[r] \in Seq(1..Len(calls'[r])),
             Len(ring'[r]) <= Capacity
      PROVE  TypeOK'
  <2>1. T(r)
    BY <1>2, <1>3, <1>c DEF IInv, TypeOK
  <2>2. \A q \in Rank : T(q)
    BY <1>b, <2>1
  <2> QED
    BY <1>2, <1>a, <1>c, <2>2 DEF IInv, TypeOK
<1>d. /\ ring \in [Rank -> Seq(Nat)] /\ ring[r] \in Seq(1..Len(calls'[r]))
      /\ Len(ring[r]) <= Capacity
  BY <1>3 DEF IInv, TypeOK
<1>5. CASE function \notin Async
  <2>1. pc'[r] = "call" /\ ring' = ring /\ pc[r] = "loop"
    BY <1>5 DEF MpiCall, GoTo, IInv, TypeOK
  <2>2. TypeOK'
    BY <1>c, <1>d, <2>1
  <2>3. CallMade' /\ OpenIsRemembered' /\ CompleteOnReturn'
    BY <1>2, <1>3, <1>4, <1>5, <2>1 DEF IInv, CallMade, OpenIsRemembered, CompleteOnReturn
  <2>4. BlockingOpen'
    BY <1>2, <1>3, <1>4, <1>5, <2>1 DEF IInv, BlockingOpen
  <2> QED
    BY <2>2, <2>3, <2>4 DEF IInv
<1>6. CASE function \in Async /\ Len(ring[r]) = Capacity
  <2>1. pc'[r] = "wait" /\ ring' = ring /\ pc[r] = "loop"
    BY <1>6 DEF MpiCall, AsyncWaitRequest, GoTo, IInv, TypeOK
  <2>2. TypeOK'
    BY <1>c, <1>d, <2>1
  <2>3. CallMade' /\ BlockingOpen' /\ CompleteOnReturn'
    BY <1>2, <1>3, <1>4, <1>6, <2>1 DEF IInv, CallMade, BlockingOpen, CompleteOnReturn
  <2>4. OpenIsRemembered'
    BY <1>2, <1>3, <1>4, <1>6, <2>1 DEF IInv, OpenIsRemembered
  <2> QED
    BY <2>2, <2>3, <2>4 DEF IInv
<1>7. CASE function \in Async /\ Len(ring[r]) # Capacity
  <2>1. /\ pc'[r] = "loop" /\ pc[r] = "loop"
        /\ ring' = [ring EXCEPT ![r] = Append(@, Len(calls[r]) + 1)]
    BY <1>7 DEF MpiCall, AsyncWaitRequest, GoTo, IInv, TypeOK
  <2>2. /\ ring[r] \in Seq(Nat) /\ ring'[r] = Append(ring[r], Len(calls[r]) + 1)
        /\ Len(ring'[r]) = Len(ring[r]) + 1 /\ Len(ring[r]) <= Capacity
        /\ ring' \in [Rank -> Seq(Nat)]
        /\ \A i \in 1..Len(ring[r]) : ring'[r][i] = ring[r][i]
        /\ ring'[r][Len(ring[r]) + 1] = Len(calls[r]) + 1
    BY <1>3, <2>1 DEF IInv, TypeOK
  <2>3. Len(ring'[r]) <= Capacity
    BY <1>7, <2>2, SizesAssumption
  <2>4. ring'[r] \in Seq(1..Len(calls'[r]))
    BY <1>3, <2>2 DEF IInv, TypeOK
  <2>5. TypeOK'
    BY <1>c, <2>2, <2>3, <2>4
  <2>6. CallMade' /\ BlockingOpen' /\ CompleteOnReturn'
    BY <1>2, <1>3, <1>4, <1>7, <2>1 DEF IInv, CallMade, BlockingOpen, CompleteOnReturn
  <2>7. OpenIsRemembered'
    <3> SUFFICES ASSUME NEW q \in Rank, NEW k \in 1..Len(calls'[q]) \ complete[q]
                 PROVE  \/ \E j \in 1..Len(ring'[q]) : ring'[q][j] = k
                        \/ pc'[q] = "wait" /\ k = Len(calls'[q])
      BY <1>2 DEF OpenIsRemembered
    <3>1. CASE q # r
      BY <1>4, <1>7, <3>1 DEF IInv, OpenIsRemembered
    <3>2. CASE q = r /\ k = Len(calls[r]) + 1
      <4>1. Len(ring[r]) + 1 \in 1..Len(ring'[r])
        BY <2>2
      <4> QED
        BY <2>2, <3>2, <4>1
    <3>3. CASE q = r /\ k # Len(calls[r]) + 1
      <4>1. k \in 1..Len(calls[r]) \ complete[r]
        BY <1>3, <3>3
      <4> PICK j \in 1..Len(ring[r]) : ring[r][j] = k
        BY <1>7, <2>1, <4>1 DEF IInv, OpenIsRemembered
      <4>2. j \in 1..Len(ring'[r])
        BY <2>2
      <4> QED
        BY <2>2, <3>3, <4>2
    <3> QED
      BY <3>1, <3>2, <3>3
  <2> QED
    BY <2>5, <2>6, <2>7 DEF IInv
<1> QED
  BY <1>5, <1>6, <1>7

\* A call that completes is no longer open.
LEMMA CompleteInv ==
    ASSUME IInv, NEW r \in Rank, NEW k \in 1..Len(calls[r]), Complete(r, k) PROVE IInv'
<1> USE DEF Complete
<1>1. \A q \in Rank : complete[q] \subseteq complete'[q]
  BY DEF IInv, TypeOK
<1>2. TypeOK'
  BY SMTT(30) DEF IInv, TypeOK
<1>3. CallMade' /\ BlockingOpen' /\ OpenIsRemembered'
  BY <1>1 DEF IInv, CallMade, BlockingOpen, OpenIsRemembered
<1>4. CompleteOnReturn'
  BY DEF IInv, TypeOK, CompleteOnReturn
<1> QED
  BY <1>2, <1>3, <1>4 DEF IInv

\* A blocking call returns when it is complete, so that none is open.
LEMMA ReturnInv == ASSUME IInv, NEW r \in Rank, Return(r) PROVE IInv'
<1> USE DEF Return, GoTo
<1>1. TypeOK'
  BY DEF IInv, TypeOK
<1>2. CallMade' /\ BlockingOpen' /\ OpenIsRemembered' /\ CompleteOnReturn'
  BY DEF IInv, TypeOK, CallMade, BlockingOpen, OpenIsRemembered, CompleteOnReturn
<1> QED
  BY <1>1, <1>2 DEF IInv

\* The request whose place is taken is complete.
LEMMA WaitAnyInv == ASSUME IInv, NEW r \in Rank, WaitAny(r) PROVE IInv'
<1> PICK i \in 1..Len(ring[r]) :
           ring[r][i] \in complete[r] /\ ring' = [ring EXCEPT ![r][i] = Len(calls[r])]
  BY DEF WaitAny
<1>1. /\ pc[r] = "wait" /\ pc' = [pc EXCEPT ![r] = "loop"]
      /\ UNCHANGED <<function, areas, area, sent, calls, complete>>
  BY DEF WaitAny, GoTo
<1>2. calls[r] \in Seq(Chunk) /\ Len(calls[r]) \in 1..Len(calls[r])
  BY <1>1 DEF IInv, TypeOK, CallMade
<1>3. /\ ring'[r] = [ring[r] EXCEPT ![i] = Len(calls[r])]
      /\ ring[r] \in Seq(1..Len(calls[r])) /\ ring \in [Rank -> Seq(Nat)]
  BY DEF IInv, TypeOK
<1>4. /\ ring'[r] \in Seq(1..Len(calls[r])) /\ ring'[r] \in Seq(Nat)
      /\ Len(ring'[r]) = Len(ring[r]) /\ ring'[r][i] = Len(calls[r])
      /\ \A j \in 1..Len(ring[r]) : j # i => ring'[r][j] = ring[r][j]
  BY <1>2, <1>3
<1>5. ring' \in [Rank -> Seq(Nat)] /\ \A q \in Rank \ {r} : ring'[q] = ring[q]
  BY <1>3, <1>4
<1>6. TypeOK'
  <2>1. \A q \in Rank : /\ complete[q] \subseteq 1..Len(calls[q])
                         /\ ring'[q] \in Seq(1..Len(calls[q])) /\ Len(ring'[q]) <= Capacity
    BY <1>3, <1>4, <1>5 DEF IInv, TypeOK
  <2>2. pc' \in [Rank -> {"loop", "wait", "call", "done"}]
    BY <1>1 DEF IInv, TypeOK
  <2> QED
    BY <1>1, <1>5, <2>1, <2>2 DEF IInv, TypeOK
<1>7. CallMade' /\ BlockingOpen' /\ CompleteOnReturn'
  BY <1>1 DEF IInv, TypeOK, CallMade, BlockingOpen, CompleteOnReturn
<1>8. OpenIsRemembered'
  <2> SUFFICES ASSUME function \in Async, NEW q \in Rank,
                      NEW k \in 1..Len(calls[q]) \ complete[q]
               PROVE  \/ \E j \in 1..Len(ring'[q]) : ring'[q][j] = k
                      \/ pc'[q] = "wait" /\ k = Len(calls[q])
    BY <1>1 DEF OpenIsRemembered
  <2>1. \/ \E j \in 1..Len(ring[q]) : ring[q][j] = k
        \/ pc[q] = "wait" /\ k = Len(calls[q])
    BY DEF IInv, OpenIsRemembered
  <2>2. CASE q # r
    BY <1>1, <1>5, <2>1, <2>2 DEF IInv, TypeOK
  <2>3. CASE q = r
    <3>1. CASE k = Len(calls[r])
      BY <1>4, <2>3, <3>1
    <3>2. CASE k # Len(calls[r])
      <4> PICK j \in 1..Len(ring[r]) : ring[r][j] = k
        BY <2>1, <2>3, <3>2
      <4>1. j # i
        BY <2>3
      <4> QED
        BY <1>4, <2>3, <4>1
    <3> QED
      BY <3>1, <3>2
  <2> QED
    BY <2>2, <2>3
<1> QED
  BY <1>6, <1>7, <1>8 DEF IInv

\* When all that is remembered is complete, everything is.
LEMMA WaitAllInv == ASSUME IInv, NEW r \in Rank, WaitAll(r) PROVE IInv'
<1> USE DEF WaitAll, GoTo
<1>1. TypeOK'
  BY DEF IInv, TypeOK
<1>2. complete[r] = 1..Len(calls[r])
  <2>1. pc[r] = "loop" /\ complete[r] \subseteq 1..Len(calls[r])
    BY DEF IInv, TypeOK
  <2>2. \A k \in 1..Len(calls[r]) : k \in complete[r]
    BY <2>1 DEF IInv, BlockingOpen, OpenIsRemembered
  <2> QED
    BY <2>1, <2>2
<1>3. CallMade' /\ BlockingOpen' /\ OpenIsRemembered'
  BY <1>2 DEF IInv, TypeOK, CallMade, BlockingOpen, OpenIsRemembered
<1>4. CompleteOnReturn'
  BY <1>2 DEF IInv, TypeOK, CompleteOnReturn
<1> QED
  BY <1>1, <1>3, <1>4 DEF IInv

\* Every step keeps the invariant.
LEMMA StepInv == IInv /\ [Next]_vars => IInv'
<1> SUFFICES ASSUME IInv, [Next]_vars PROVE IInv'
  OBVIOUS
<1>1. CASE UNCHANGED vars
  BY <1>1
  DEF vars, IInv, TypeOK, CallMade, BlockingOpen, OpenIsRemembered, CompleteOnReturn
<1>2. CASE Next
  BY <1>1, <1>2, NextAreaInv, MpiCallInv, CompleteInv, ReturnInv, WaitAnyInv, WaitAllInv
  DEF Next
<1> QED
  BY <1>1, <1>2

\* The invariant holds in every behaviour.
LEMMA Invariance == Spec => []IInv
  BY InitInv, StepInv, PTL DEF Spec

-----------------------------------------------------------------------------
\* The state of the transfers in bigmpi.cc has its types; the ring of requests
\* is never fuller than its capacity.
THEOREM TypeCorrect == Spec => []TypeOK
<1>1. IInv => TypeOK
  BY DEF IInv
<1> QED
  BY <1>1, Invariance, PTL

\* async_wait_rquest forgets no open request, however many areas there are.
THEOREM NoRequestForgotten == Spec => []OpenIsRemembered
<1>1. IInv => OpenIsRemembered
  BY DEF IInv
<1> QED
  BY <1>1, Invariance, PTL

\* When Bcast, Reduce, AllReduce, sync_areas or the transfer of the Fortran
\* globals returns on a rank, all calls it has made are complete.
THEOREM TransfersComplete == Spec => []CompleteOnReturn
<1>1. IInv => CompleteOnReturn
  BY DEF IInv
<1> QED
  BY <1>1, Invariance, PTL

-----------------------------------------------------------------------------
(***************************************************************************)
(* The calls of a rank, one after the other.                               *)
(***************************************************************************)

\* Area i is over when its first n elements have been sent.
Over(i, n) == IF function = "globals" THEN n > 0 ELSE n >= areas[i]

\* The call for area i from element n on.
Count(i, n) == IF areas[i] - n < IntMax THEN areas[i] - n ELSE IntMax

Cut(c) == /\ c.area \in 1..Len(areas)
          /\ c.count = Count(c.area, c.from) /\ c.count <= IntMax
          /\ c.from + c.count <= areas[c.area]

\* Only areas without a call are between i and j.
NoneBetween(i, j) == \A a \in 1..Len(areas) : i < a /\ a < j => Over(a, 0)

\* Call d is the first one, or the one after call c.
IsFirst(d) == d.from = 0 /\ ~Over(d.area, 0) /\ NoneBetween(0, d.area)

Follows(c, d) ==
    \/ d.area = c.area /\ d.from = c.from + IntMax /\ ~Over(c.area, c.from + IntMax)
    \/ /\ d.area > c.area /\ d.from = 0 /\ ~Over(d.area, 0)
       /\ Over(c.area, c.from + IntMax) /\ NoneBetween(c.area, d.area)

\* Call c is behind element n of area i.
Behind(c, i, n) == c.area < i \/ (c.area = i /\ c.from + c.count <= n)

Last(r) == calls[r][Len(calls[r])]

\* The place of a rank is behind its last call, with no call left out.
PlaceInv(r) ==
    /\ sent[r] > 0 => sent[r] >= IntMax
    /\ calls[r] = << >> => sent[r] = 0 /\ NoneBetween(0, area[r])
    /\ calls[r] # << >> =>
          \/ area[r] = Last(r).area /\ sent[r] = Last(r).from + IntMax
          \/ /\ area[r] > Last(r).area /\ sent[r] = 0
             /\ Over(Last(r).area, Last(r).from + IntMax)
             /\ NoneBetween(Last(r).area, area[r])
    /\ pc[r] = "done" => area[r] = Len(areas) + 1

\* The calls are cut from the areas, in order.
OrderInv(r) ==
    \A k \in 1..Len(calls[r]) :
        /\ Cut(calls[r][k])
        /\ k = 1 => IsFirst(calls[r][k])
        /\ k > 1 => Follows(calls[r][k - 1], calls[r][k])
        /\ Behind(calls[r][k], area[r], sent[r])
        /\ \A j \in 1..(k - 1) : Behind(calls[r][j], calls[r][k].area, calls[r][k].from)

\* What is before the place of the rank has been sent.
SentInv(r) ==
    \A i \in 1..Len(areas), e \in Nat :
        e < areas[i] /\ (i < area[r] \/ (i = area[r] /\ e < sent[r])) =>
            \E k \in 1..Len(calls[r]) : <<i, e>> \in Elements(calls[r][k])

\* A global variable is one call.
GlobalsInv == function = "globals" => \A i \in 1..Len(areas) : areas[i] <= IntMax

\* The k-th calls of two ranks are the same.
SameInv ==
    \A q, r \in Rank : \A k \in 1..Len(calls[r]) :
        k <= Len(calls[q]) => calls[r][k] = calls[q][k]

TileInv ==
    /\ GlobalsInv /\ SameInv
    /\ \A r \in Rank : PlaceInv(r) /\ OrderInv(r) /\ SentInv(r)

-----------------------------------------------------------------------------
\* A rank has passed its area when the area is over at its place.
LEMMA PassedOver ==
    ASSUME NEW r \in Rank PROVE Passed(r) <=> Over(area[r], sent[r])
BY DEF Passed, Over

\* A call that has been cut has the size that its place gives it.
LEMMA CutTypes ==
    ASSUME TypeOK, NEW c \in Chunk, Cut(c)
    PROVE  /\ c.area \in Int /\ c.from \in Nat /\ c.count \in Nat
           /\ areas \in Seq(Nat) /\ areas[c.area] \in Nat
BY AreaListsAssumption DEF TypeOK, Chunk, Cut

\* What a rank sends next is cut from its area, and follows its last call.
LEMMA NewCall ==
    ASSUME TypeOK, NEW r \in Rank, PlaceInv(r),
           pc[r] = "loop", area[r] <= Len(areas), ~Passed(r),
           NEW d, d = [area |-> area[r], from |-> sent[r], count |-> ThisIterCount(r)]
    PROVE  /\ d \in Chunk /\ Cut(d)
           /\ calls[r] = << >> => IsFirst(d)
           /\ calls[r] # << >> => Follows(Last(r), d)
<1>1. d \in Chunk
  BY NextChunk
<1>2. /\ areas \in Seq(Nat) /\ area[r] \in 1..Len(areas) /\ sent[r] \in Nat
      /\ IntMax \in Nat \ {0}
  BY AreaListsAssumption, SizesAssumption DEF TypeOK
<1>3. areas[area[r]] \in Nat
  BY <1>2
<1>4. d.area = area[r] /\ d.from = sent[r] /\ d.count = ThisIterCount(r)
  OBVIOUS
<1>5. ~Over(area[r], sent[r])
  BY PassedOver
<1>6. sent[r] <= areas[area[r]]
  BY <1>2, <1>3, <1>5 DEF Over
<1>7. d.count = Count(d.area, d.from)
  BY <1>4 DEF Count, ThisIterCount
<1>8. Cut(d)
  <2>1. d.count <= IntMax /\ sent[r] + d.count <= areas[area[r]]
    <3> DEFINE all == areas[area[r]]  s == sent[r]
    <3>1. all \in Nat /\ s \in Nat /\ s <= all /\ IntMax \in Nat
      BY <1>2, <1>3, <1>6
    <3>2. d.count = IF all - s < IntMax THEN all - s ELSE IntMax
      BY <1>4 DEF ThisIterCount
    <3>3. d.count <= IntMax /\ s + d.count <= all
      <4> HIDE DEF all, s
      <4>1. CASE all - s < IntMax
        BY <3>1, <3>2, <4>1
      <4>2. CASE ~(all - s < IntMax)
        BY <3>1, <3>2, <4>2
      <4> QED
        BY <4>1, <4>2
    <3> QED
      BY <3>3
  <2> QED
    BY <1>2, <1>4, <1>7, <2>1 DEF Cut
<1>9. ASSUME calls[r] = << >> PROVE IsFirst(d)
  BY <1>4, <1>5, <1>9 DEF PlaceInv, IsFirst
<1>10. ASSUME calls[r] # << >> PROVE Follows(Last(r), d)
  <2>1. CASE area[r] = Last(r).area /\ sent[r] = Last(r).from + IntMax
    BY <1>4, <1>5, <2>1 DEF Follows
  <2>2. CASE /\ area[r] > Last(r).area /\ sent[r] = 0
             /\ Over(Last(r).area, Last(r).from + IntMax)
             /\ NoneBetween(Last(r).area, area[r])
    BY <1>4, <1>5, <2>2 DEF Follows
  <2> QED
    BY <1>10, <2>1, <2>2 DEF PlaceInv
<1> QED
  BY <1>1, <1>8, <1>9, <1>10

\* Two calls from the same place are the same.
LEMMA SamePlace ==
    ASSUME NEW c \in Chunk, NEW d \in Chunk, Cut(c), Cut(d),
           c.area = d.area, c.from = d.from
    PROVE  c = d
BY DEF Chunk, Cut

\* The areas without a call before one that has a call are the same for all.
LEMMA NextIsOne ==
    ASSUME TypeOK, NEW i \in Nat, NEW j \in 1..Len(areas), NEW k \in 1..Len(areas), i < j, i < k,
           NoneBetween(i, j), NoneBetween(i, k), ~Over(j, 0), ~Over(k, 0)
    PROVE  j = k
<1>1. Len(areas) \in Nat
  BY AreaListsAssumption DEF TypeOK
<1>2. ~(j < k) /\ ~(k < j)
  BY DEF NoneBetween
<1> QED
  BY <1>1, <1>2

\* The first call is determined.
LEMMA FirstIsOne ==
    ASSUME TypeOK, NEW c \in Chunk, NEW d \in Chunk, Cut(c), Cut(d), IsFirst(c), IsFirst(d)
    PROVE  c = d
<1>1. c.area \in 1..Len(areas) /\ d.area \in 1..Len(areas)
  BY DEF Cut
<1>a. 0 < c.area /\ 0 < d.area
  BY <1>1
<1>2. c.area = d.area
  BY <1>1, <1>a, NextIsOne DEF IsFirst
<1> QED
  BY <1>2, SamePlace DEF IsFirst

\* A call determines the next one.
LEMMA NextCallIsOne ==
    ASSUME TypeOK, NEW b \in Chunk, NEW c \in Chunk, NEW d \in Chunk, Cut(c), Cut(d),
           Follows(b, c), Follows(b, d)
    PROVE  c = d
<1>1. b.area \in Nat /\ c.area \in 1..Len(areas) /\ d.area \in 1..Len(areas)
  BY DEF Chunk, Cut
<1>2. CASE Over(b.area, b.from + IntMax)
  <2>1. /\ c.area > b.area /\ c.from = 0 /\ ~Over(c.area, 0) /\ NoneBetween(b.area, c.area)
        /\ d.area > b.area /\ d.from = 0 /\ ~Over(d.area, 0) /\ NoneBetween(b.area, d.area)
    BY <1>2 DEF Follows
  <2>2. b.area < c.area /\ b.area < d.area
    BY <1>1, <2>1 DEF Chunk, Cut
  <2>3. c.area = d.area
    BY <1>1, <2>1, <2>2, NextIsOne
  <2> QED
    BY <2>1, <2>3, SamePlace
<1>3. CASE ~Over(b.area, b.from + IntMax)
  <2>1. c.area = b.area /\ c.from = b.from + IntMax /\ d.area = b.area /\ d.from = b.from + IntMax
    BY <1>3 DEF Follows
  <2> QED
    BY <2>1, SamePlace
<1> QED
  BY <1>2, <1>3

\* Nothing has been sent in an initial state.
LEMMA InitTile == Init => TileInv
<1> SUFFICES ASSUME Init PROVE TileInv
  OBVIOUS
<1>1. /\ areas \in Seq(Nat)
      /\ \A r \in Rank : /\ calls[r] = << >> /\ Len(calls[r]) = 0
                         /\ area[r] = 1 /\ sent[r] = 0 /\ pc[r] = "loop"
  BY AreaListsAssumption DEF Init
<1>2. GlobalsInv /\ SameInv
  BY <1>1 DEF Init, GlobalsInv, SameInv
<1>3. ASSUME NEW r \in Rank PROVE PlaceInv(r) /\ OrderInv(r) /\ SentInv(r)
  <2>1. NoneBetween(0, 1)
    BY <1>1 DEF NoneBetween
  <2>2. PlaceInv(r)
    BY <1>1, <2>1 DEF PlaceInv
  <2>3. OrderInv(r)
    BY <1>1 DEF OrderInv
  <2>4. SentInv(r)
    BY <1>1 DEF SentInv
  <2> QED
    BY <2>2, <2>3, <2>4
<1> QED
  BY <1>2, <1>3 DEF TileInv

\* A call that has been made is a piece of an area.
LEMMA CallType ==
    ASSUME TypeOK, NEW r \in Rank, NEW k \in 1..Len(calls[r]) PROVE calls[r][k] \in Chunk
<1>1. calls[r] \in Seq(Chunk)
  BY DEF TypeOK
<1> QED
  BY <1>1

LEMMA LastType ==
    ASSUME TypeOK, NEW r \in Rank, calls[r] # << >>
    PROVE  Last(r) \in Chunk /\ Len(calls[r]) \in 1..Len(calls[r])
<1>1. calls[r] \in Seq(Chunk)
  BY DEF TypeOK
<1>2. Len(calls[r]) \in 1..Len(calls[r])
  BY <1>1
<1> QED
  BY <1>2, CallType DEF Last

\* The order of the calls a rank has made is about them only.
LEMMA OrderStays ==
    ASSUME NEW r \in Rank, OrderInv(r), UNCHANGED <<function, areas>>, calls'[r] = calls[r],
           \A k \in 1..Len(calls[r]) : Behind(calls[r][k], area'[r], sent'[r])
    PROVE  OrderInv(r)'
<1> SUFFICES ASSUME NEW k \in 1..Len(calls[r])
             PROVE  (/\ Cut(calls[r][k])
                     /\ k = 1 => IsFirst(calls[r][k])
                     /\ k > 1 => Follows(calls[r][k - 1], calls[r][k])
                     /\ Behind(calls[r][k], area[r], sent[r])
                     /\ \A j \in 1..(k - 1) :
                           Behind(calls[r][j], calls[r][k].area, calls[r][k].from))'
  BY DEF OrderInv
<1>1. Cut(calls[r][k])'
  BY DEF OrderInv, Cut, Count
<1>2. (k = 1 => IsFirst(calls[r][k]))'
  BY DEF OrderInv, IsFirst, NoneBetween, Over
<1>3. (k > 1 => Follows(calls[r][k - 1], calls[r][k]))'
  BY DEF OrderInv, Follows, NoneBetween, Over
<1>4. (/\ Behind(calls[r][k], area[r], sent[r])
       /\ \A j \in 1..(k - 1) : Behind(calls[r][j], calls[r][k].area, calls[r][k].from))'
  BY DEF OrderInv, Behind
<1> QED
  BY <1>1, <1>2, <1>3, <1>4

\* A step that makes no call and moves no rank keeps the places.
LEMMA IdleTile ==
    ASSUME TileInv, UNCHANGED <<function, areas, area, sent, calls>>,
           \A r \in Rank : pc'[r] = "done" => area[r] = Len(areas) + 1
    PROVE  TileInv'
<1>1. GlobalsInv' /\ SameInv'
  BY DEF TileInv, GlobalsInv, SameInv
<1>2. ASSUME NEW r \in Rank PROVE PlaceInv(r)' /\ OrderInv(r)' /\ SentInv(r)'
  <2> USE DEF TileInv
  <2>1. PlaceInv(r)'
    BY DEF PlaceInv, NoneBetween, Over, Last
  <2>2. OrderInv(r)'
    <3>1. \A k \in 1..Len(calls[r]) : Behind(calls[r][k], area'[r], sent'[r])
      BY DEF OrderInv
    <3> QED
      BY <3>1, OrderStays
  <2>3. SentInv(r)'
    BY DEF SentInv
  <2> QED
    BY <2>1, <2>2, <2>3
<1> QED
  BY <1>1, <1>2 DEF TileInv

\* A rank goes on when its area is over, and all of the area has been sent.
LEMMA NextAreaTile ==
    ASSUME TypeOK, TileInv, NEW r \in Rank, NextArea(r) PROVE TileInv'
<1>1. /\ area' = [area EXCEPT ![r] = @ + 1] /\ sent' = [sent EXCEPT ![r] = 0]
      /\ UNCHANGED <<function, areas, pc, calls>>
      /\ pc[r] = "loop" /\ area[r] <= Len(areas) /\ Over(area[r], sent[r])
  BY PassedOver DEF NextArea
<1>2. /\ areas \in Seq(Nat) /\ Len(areas) \in Nat /\ area[r] \in 1..Len(areas)
      /\ sent[r] \in Nat /\ IntMax \in Nat \ {0} /\ areas[area[r]] \in Nat
  BY <1>1, AreaListsAssumption, SizesAssumption DEF TypeOK
<1>3. area'[r] = area[r] + 1 /\ sent'[r] = 0
  BY <1>1 DEF TypeOK
<1>4. GlobalsInv' /\ SameInv'
  BY <1>1 DEF TileInv, GlobalsInv, SameInv
<1>5. ASSUME NEW q \in Rank, q # r PROVE PlaceInv(q)' /\ OrderInv(q)' /\ SentInv(q)'
  <2>1. area'[q] = area[q] /\ sent'[q] = sent[q] /\ calls'[q] = calls[q] /\ pc'[q] = pc[q]
    BY <1>1, <1>5 DEF TypeOK
  <2>2. PlaceInv(q)'
    BY <1>1, <2>1 DEF TileInv, PlaceInv, NoneBetween, Over, Last
  <2>3. OrderInv(q)'
    <3>1. \A k \in 1..Len(calls[q]) : Behind(calls[q][k], area'[q], sent'[q])
      BY <2>1 DEF TileInv, OrderInv
    <3>2. OrderInv(q)
      BY DEF TileInv
    <3> QED
      BY <1>1, <2>1, <3>1, <3>2, OrderStays
  <2>4. SentInv(q)'
    BY <1>1, <2>1 DEF TileInv, SentInv
  <2> QED
    BY <2>2, <2>3, <2>4
<1>6. PlaceInv(r) /\ OrderInv(r) /\ SentInv(r)
  BY DEF TileInv
<1>7. ASSUME NEW i \in Nat, i = area[r] \/ (NoneBetween(i, area[r]) /\ Over(area[r], 0))
      PROVE  NoneBetween(i, area[r] + 1)
  <2> SUFFICES ASSUME NEW a \in 1..Len(areas), i < a, a < area[r] + 1 PROVE Over(a, 0)
    BY DEF NoneBetween
  <2>1. a = area[r] \/ a < area[r]
    BY <1>2
  <2> QED
    BY <1>2, <1>7, <2>1 DEF NoneBetween
<1>8. PlaceInv(r)'
  <2>1. ASSUME calls[r] = << >> PROVE NoneBetween(0, area[r] + 1)
    BY <1>1, <1>2, <1>6, <1>7, <2>1 DEF PlaceInv
  <2>2. ASSUME calls[r] # << >>
        PROVE  /\ area[r] + 1 > Last(r).area
               /\ Over(Last(r).area, Last(r).from + IntMax)
               /\ NoneBetween(Last(r).area, area[r] + 1)
    <3>1. Last(r).area \in Nat
      BY <2>2, LastType DEF Chunk
    <3>2. CASE area[r] = Last(r).area /\ sent[r] = Last(r).from + IntMax
      BY <1>1, <1>2, <1>7, <3>1, <3>2
    <3>3. CASE /\ area[r] > Last(r).area /\ sent[r] = 0
               /\ Over(Last(r).area, Last(r).from + IntMax)
               /\ NoneBetween(Last(r).area, area[r])
      BY <1>1, <1>2, <1>7, <3>1, <3>3
    <3> QED
      BY <1>6, <2>2, <3>2, <3>3 DEF PlaceInv
  <2> QED
    BY <1>1, <1>2, <1>3, <2>1, <2>2 DEF PlaceInv, NoneBetween, Over, Last
<1>9. OrderInv(r)'
  <2>1. ASSUME NEW k \in 1..Len(calls[r]) PROVE Behind(calls[r][k], area'[r], sent'[r])
    <3>1. calls[r][k].area \in Nat
      BY CallType DEF Chunk
    <3>2. Behind(calls[r][k], area[r], sent[r])
      BY <1>6 DEF OrderInv
    <3>3. calls[r][k].area < area[r] + 1
      BY <1>2, <3>1, <3>2 DEF Behind
    <3> QED
      BY <1>3, <3>3 DEF Behind
  <2> QED
    BY <1>1, <1>6, <2>1, OrderStays
<1>10. SentInv(r)'
  <2> SUFFICES ASSUME NEW i \in 1..Len(areas), NEW e \in Nat, e < areas[i],
                      i < area'[r] \/ (i = area'[r] /\ e < sent'[r])
               PROVE  \E k \in 1..Len(calls[r]) : <<i, e>> \in Elements(calls[r][k])
    BY <1>1 DEF SentInv, Elements
  <2>1. areas[i] \in Nat
    BY <1>2
  <2>2. i < area[r] \/ (i = area[r] /\ e < sent[r])
    <3>1. i <= area[r]
      BY <1>2, <1>3
    <3>2. CASE i = area[r] /\ function = "globals"
      <4>1. sent[r] >= IntMax /\ areas[i] <= IntMax
        BY <1>1, <1>2, <1>6, <3>2 DEF Over, PlaceInv, TileInv, GlobalsInv
      <4> QED
        BY <1>2, <2>1, <3>2, <4>1
    <3>3. CASE i = area[r] /\ function # "globals"
      BY <1>1, <1>2, <2>1, <3>3 DEF Over
    <3> QED
      BY <1>2, <3>1, <3>2, <3>3
  <2> QED
    BY <1>6, <2>2 DEF SentInv
<1> QED
  BY <1>4, <1>5, <1>8, <1>9, <1>10 DEF TileInv

\* A call begins at the place of the rank, behind all others, and the place
\* moves behind it.
LEMMA MpiCallTile ==
    ASSUME TypeOK, TileInv, NEW r \in Rank, MpiCall(r),
           NEW d, d = [area |-> area[r], from |-> sent[r], count |-> ThisIterCount(r)]
    PROVE  TileInv'
<1> DEFINE n == Len(calls[r])
<1>1. /\ calls' = [calls EXCEPT ![r] = Append(@, d)]
      /\ sent' = [sent EXCEPT ![r] = @ + IntMax]
      /\ UNCHANGED <<function, areas, area>>
      /\ pc[r] = "loop" /\ area[r] <= Len(areas) /\ ~Passed(r)
  BY DEF MpiCall
<1>2. \A q \in Rank : pc'[q] = "done" => q # r /\ pc[q] = "done"
  BY DEF MpiCall, AsyncWaitRequest, GoTo, TypeOK
<1>3. PlaceInv(r) /\ OrderInv(r) /\ SentInv(r)
  BY DEF TileInv
<1>4. /\ d \in Chunk /\ Cut(d)
      /\ calls[r] = << >> => IsFirst(d)
      /\ calls[r] # << >> => Follows(Last(r), d)
  BY <1>1, <1>3, NewCall
<1>5. /\ d.area = area[r] /\ d.from = sent[r]
      /\ d.count = Count(area[r], sent[r]) /\ d.count <= IntMax
  BY <1>4 DEF Cut
<1>6. /\ areas \in Seq(Nat) /\ area[r] \in 1..Len(areas) /\ sent[r] \in Nat
      /\ IntMax \in Nat \ {0} /\ areas[area[r]] \in Nat /\ d.count \in Nat
  <2>1. areas \in Seq(Nat) /\ area[r] \in 1..Len(areas) /\ IntMax \in Nat \ {0}
    BY <1>1, AreaListsAssumption, SizesAssumption DEF TypeOK
  <2>2. sent[r] \in Nat
    BY DEF TypeOK
  <2>3. d.count \in Nat
    BY <1>4 DEF Chunk
  <2> QED
    BY <2>1, <2>2, <2>3
<1>u. UNCHANGED <<function, areas>>
  BY <1>1
<1>7. /\ calls[r] \in Seq(Chunk) /\ n \in Nat /\ calls'[r] = Append(calls[r], d)
      /\ Len(calls'[r]) = n + 1 /\ calls'[r][n + 1] = d
      /\ \A k \in 1..n : calls'[r][k] = calls[r][k]
      /\ \A q \in Rank : q # r => calls'[q] = calls[q]
  BY <1>1, <1>4 DEF TypeOK
<1>8. /\ sent'[r] = sent[r] + IntMax /\ area'[r] = area[r]
      /\ \A q \in Rank : q # r => sent'[q] = sent[q] /\ area'[q] = area[q]
  BY <1>1 DEF TypeOK
<1>9. calls[r] # << >> => n \in 1..n /\ Last(r) = calls[r][n]
  BY <1>7 DEF Last
<1>10. calls[r] = << >> <=> n = 0
  BY <1>7
<1> HIDE DEF n
<1>11. GlobalsInv'
  BY <1>1 DEF TileInv, GlobalsInv
<1>12. SameInv'
  <2>1. ASSUME NEW q \in Rank, n + 1 <= Len(calls[q]) PROVE calls[q][n + 1] = d
    <3>1. Len(calls[q]) \in Nat
      BY DEF TypeOK
    <3>2. n + 1 \in 1..Len(calls[q])
      BY <1>7, <2>1, <3>1
    <3>3. calls[q][n + 1] \in Chunk /\ Cut(calls[q][n + 1])
      BY <3>2, CallType DEF TileInv, OrderInv
    <3>4. CASE n = 0
      <4>1. IsFirst(calls[q][n + 1])
        BY <3>2, <3>4 DEF TileInv, OrderInv
      <4> QED
        BY <1>4, <1>10, <3>3, <3>4, <4>1, FirstIsOne
    <3>5. CASE n # 0
      <4>1. n \in 1..n /\ n \in 1..Len(calls[q]) /\ n + 1 > 1 /\ (n + 1) - 1 = n
        BY <1>7, <2>1, <3>1, <3>5
      <4>2. Follows(calls[q][n], calls[q][n + 1])
        BY <3>2, <4>1 DEF TileInv, OrderInv
      <4>3. calls[q][n] = Last(r)
        BY <1>9, <1>10, <3>5, <4>1, n <= Len(calls[r]) DEF TileInv, SameInv, n
      <4>4. Last(r) \in Chunk
        BY <1>10, <3>5, LastType
      <4> QED
        BY <1>4, <1>10, <3>3, <3>5, <4>2, <4>3, <4>4, NextCallIsOne
    <3> QED
      BY <3>4, <3>5
  <2> SUFFICES ASSUME NEW p \in Rank, NEW q \in Rank, NEW k \in 1..Len(calls'[q]),
                      k <= Len(calls'[p])
               PROVE  calls'[q][k] = calls'[p][k]
    BY DEF SameInv
  <2>2. Len(calls[p]) \in Nat /\ Len(calls[q]) \in Nat
    BY SMTT(30) DEF TypeOK
  <2>3. CASE p # r /\ q # r
    BY <1>7, <2>3 DEF TileInv, SameInv
  <2>4. CASE p = r /\ q = r
    BY <2>4
  <2>5. CASE p = r /\ q # r
    <3>1. CASE k = n + 1
      BY <1>7, <2>1, <2>5, <3>1
    <3>2. CASE k # n + 1
      <4>1. k \in 1..n /\ k \in 1..Len(calls[q]) /\ k <= Len(calls[r])
        BY <1>7, <2>2, <2>5, <3>2 DEF n
      <4> QED
        BY SMTT(30), <1>7, <2>5, <4>1 DEF TileInv, SameInv
    <3> QED
      BY <3>1, <3>2
  <2>6. CASE p # r /\ q = r
    <3>1. CASE k = n + 1
      BY <1>7, <2>1, <2>6, <3>1
    <3>2. CASE k # n + 1
      <4>1. k \in 1..n /\ k \in 1..Len(calls[r]) /\ k <= Len(calls[p])
        BY <1>7, <2>2, <2>6, <3>2 DEF n
      <4> QED
        BY SMTT(30), <1>7, <2>6, <4>1 DEF TileInv, SameInv
    <3> QED
      BY <3>1, <3>2
  <2> QED
    BY <2>3, <2>4, <2>5, <2>6
<1>13. ASSUME NEW q \in Rank, q # r PROVE PlaceInv(q)' /\ OrderInv(q)' /\ SentInv(q)'
  <2>1. /\ area'[q] = area[q] /\ sent'[q] = sent[q] /\ calls'[q] = calls[q]
        /\ pc'[q] = "done" => pc[q] = "done"
    BY <1>2, <1>7, <1>8, <1>13
  <2>2. PlaceInv(q)'
    BY <1>1, <2>1 DEF TileInv, PlaceInv, NoneBetween, Over, Last
  <2>3. OrderInv(q)'
    <3>1. \A k \in 1..Len(calls[q]) : Behind(calls[q][k], area'[q], sent'[q])
      BY <2>1 DEF TileInv, OrderInv
    <3>2. OrderInv(q)
      BY DEF TileInv
    <3> QED
      BY <1>1, <2>1, <3>1, <3>2, OrderStays
  <2>4. SentInv(q)'
    BY <1>1, <2>1 DEF TileInv, SentInv
  <2> QED
    BY <2>2, <2>3, <2>4
<1>14. PlaceInv(r)'
  <2>1. Last(r)' = d /\ calls'[r] # << >>
    BY <1>7 DEF Last
  <2>2. sent'[r] >= IntMax
    BY <1>6, <1>8
  <2> QED
    BY <1>2, <1>5, <1>8, <2>1, <2>2 DEF PlaceInv
<1>15. OrderInv(r)'
  <2> SUFFICES ASSUME NEW k \in 1..(n + 1)
               PROVE  (/\ Cut(calls[r][k])
                       /\ k = 1 => IsFirst(calls[r][k])
                       /\ k > 1 => Follows(calls[r][k - 1], calls[r][k])
                       /\ Behind(calls[r][k], area[r], sent[r])
                       /\ \A j \in 1..(k - 1) :
                             Behind(calls[r][j], calls[r][k].area, calls[r][k].from))'
    BY <1>7 DEF OrderInv
  <2>1. CASE k \in 1..n
    <3>1. /\ calls'[r][k] = calls[r][k]
          /\ k > 1 => calls'[r][k - 1] = calls[r][k - 1]
          /\ \A j \in 1..(k - 1) : calls'[r][j] = calls[r][j]
      BY <1>7, <2>1
    <3>2. /\ Cut(calls[r][k])
          /\ k = 1 => IsFirst(calls[r][k])
          /\ k > 1 => Follows(calls[r][k - 1], calls[r][k])
          /\ Behind(calls[r][k], area[r], sent[r])
          /\ \A j \in 1..(k - 1) : Behind(calls[r][j], calls[r][k].area, calls[r][k].from)
      BY <1>3, <2>1 DEF OrderInv, n
    <3>3. Cut(calls[r][k])'
      BY <1>u, <3>1, <3>2 DEF Cut, Count
    <3>4. (k = 1 => IsFirst(calls[r][k]))'
      BY <1>u, <3>1, <3>2 DEF IsFirst, NoneBetween, Over
    <3>5. (k > 1 => Follows(calls[r][k - 1], calls[r][k]))'
      BY <1>u, <3>1, <3>2 DEF Follows, NoneBetween, Over
    <3>6. (\A j \in 1..(k - 1) : Behind(calls[r][j], calls[r][k].area, calls[r][k].from))'
      BY <3>1, <3>2 DEF Behind
    <3>7. Behind(calls[r][k], area[r], sent[r])'
      <4>1. calls[r][k].from \in Nat /\ calls[r][k].count \in Nat
        BY <2>1, CallType DEF Chunk, n
      <4>2. Behind(calls[r][k], area[r], sent[r])
        BY <3>2
      <4>3. ASSUME calls[r][k].from + calls[r][k].count <= sent[r]
            PROVE  calls[r][k].from + calls[r][k].count <= sent[r] + IntMax
        <5> DEFINE f == calls[r][k].from  m == calls[r][k].count  s == sent[r]
        <5>1. f \in Nat /\ m \in Nat /\ f + m <= s
          BY <4>1, <4>3
        <5>2. s \in Nat /\ IntMax \in Nat
          BY <1>6
        <5> HIDE DEF f, m, s
        <5>3. f + m <= s + IntMax
          BY <5>1, <5>2
        <5> QED
          BY <5>3 DEF f, m, s
      <4>4. Behind(calls[r][k], area[r], sent[r] + IntMax)
        BY <4>2, <4>3 DEF Behind
      <4>5. sent'[r] = sent[r] + IntMax /\ area'[r] = area[r] /\ calls'[r][k] = calls[r][k]
        BY <1>8, <3>1
      <4> QED
        BY <4>4, <4>5 DEF Behind
    <3> QED
      BY <3>3, <3>4, <3>5, <3>6, <3>7
  <2>2. CASE k = n + 1
    <3>1. calls'[r][k] = d
      BY <1>7, <2>2
    <3>2. Cut(d)'
      BY <1>u, <1>4 DEF Cut, Count
    <3>3. k = 1 => (d.from = 0 /\ ~Over(d.area, 0) /\ NoneBetween(0, d.area))'
      BY <1>u, <1>4, <1>7, <1>10, <2>2 DEF IsFirst, NoneBetween, Over
    <3>4. ASSUME k > 1 PROVE Follows(calls[r][k - 1], calls[r][k])'
      <4>1. n # 0 /\ k - 1 = n /\ n \in 1..n
        BY <1>7, <2>2, <3>4
      <4>2. calls'[r][k - 1] = Last(r) /\ Follows(Last(r), d)
        BY <1>4, <1>7, <1>9, <1>10, <4>1
      <4> QED
        BY <1>u, <3>1, <4>2 DEF Follows, NoneBetween, Over
    <3>5. Behind(calls[r][k], area[r], sent[r])'
      BY <1>5, <1>6, <1>8, <3>1 DEF Behind
    <3>6. ASSUME NEW j \in 1..(k - 1) PROVE Behind(calls[r][j], calls[r][k].area, calls[r][k].from)'
      <4>1. j \in 1..n
        BY <1>7, <2>2
      <4>2. Behind(calls[r][j], area[r], sent[r])
        BY <1>3, <4>1 DEF OrderInv, n
      <4> QED
        BY <1>5, <1>7, <3>1, <4>1, <4>2 DEF Behind
    <3>7. (k = 1 => IsFirst(calls[r][k]))'
      BY <3>1, <3>3 DEF IsFirst
    <3>8. Cut(calls[r][k])'
      BY <3>1, <3>2 DEF Cut, Count
    <3> QED
      BY <3>4, <3>5, <3>6, <3>7, <3>8
  <2> QED
    BY <1>7, <2>1, <2>2
<1>16. SentInv(r)'
  <2> SUFFICES ASSUME NEW i \in 1..Len(areas), NEW e \in Nat, e < areas[i],
                      i < area[r] \/ (i = area[r] /\ e < sent[r] + IntMax)
               PROVE  \E k \in 1..(n + 1) : <<i, e>> \in Elements(calls'[r][k])
    BY <1>1, <1>7, <1>8 DEF SentInv, Elements
  <2>1. CASE i < area[r] \/ (i = area[r] /\ e < sent[r])
    <3> PICK k \in 1..n : <<i, e>> \in Elements(calls[r][k])
      BY <1>3, <2>1 DEF SentInv, n
    <3>1. k \in 1..(n + 1) /\ calls'[r][k] = calls[r][k]
      BY <1>7
    <3> QED
      BY <3>1
  <2>2. CASE i = area[r] /\ ~(e < sent[r])
    <3>1. e \in d.from..(d.from + d.count - 1)
      <4>1. CASE areas[area[r]] - sent[r] < IntMax
        <5>1. d.count = areas[area[r]] - sent[r] /\ e < areas[area[r]]
          BY <1>5, <2>2, <4>1 DEF Count
        <5>2. e < sent[r] + (areas[area[r]] - sent[r])
          BY SMTT(30), <1>6, <5>1
        <5> QED
          BY <1>5, <1>6, <2>2, <5>1, <5>2
      <4>2. CASE ~(areas[area[r]] - sent[r] < IntMax)
        <5>1. d.count = IntMax
          BY <1>5, <4>2 DEF Count
        <5> QED
          BY <1>5, <1>6, <2>2, <5>1
      <4> QED
        BY <4>1, <4>2
    <3>2. <<i, e>> \in Elements(d)
      BY <1>5, <2>2, <3>1 DEF Elements
    <3>3. n + 1 \in 1..(n + 1)
      BY <1>7
    <3> QED
      BY <1>7, <3>2, <3>3
  <2> QED
    BY <2>1, <2>2
<1> QED
  BY <1>11, <1>12, <1>13, <1>14, <1>15, <1>16 DEF TileInv

\* Every step keeps the calls of the ranks in order.
LEMMA StepTile == TypeOK /\ TileInv /\ [Next]_vars => TileInv'
<1> SUFFICES ASSUME TypeOK, TileInv, [Next]_vars PROVE TileInv'
  OBVIOUS
<1> DEFINE AtEnd == \A r \in Rank : pc'[r] = "done" => area[r] = Len(areas) + 1
<1>1. \A r \in Rank : /\ pc[r] = "done" => area[r] = Len(areas) + 1
                      /\ area[r] > Len(areas) => area[r] = Len(areas) + 1
  BY AreaListsAssumption DEF TypeOK, TileInv, PlaceInv
<1>2. CASE UNCHANGED vars
  BY <1>1, <1>2, IdleTile DEF vars
<1>3. ASSUME NEW r \in Rank, Return(r) \/ WaitAny(r) PROVE TileInv'
  <2>1. AtEnd
    BY <1>1, <1>3 DEF Return, WaitAny, GoTo, TypeOK
  <2> QED
    BY <1>3, <2>1, IdleTile DEF Return, WaitAny
<1>4. ASSUME NEW r \in Rank, WaitAll(r) PROVE TileInv'
  <2>1. AtEnd
    BY <1>1, <1>4 DEF WaitAll, GoTo, TypeOK
  <2> QED
    BY <1>4, <2>1, IdleTile DEF WaitAll
<1>5. ASSUME NEW r \in Rank, NEW k \in 1..Len(calls[r]), Complete(r, k) PROVE TileInv'
  BY <1>1, <1>5, IdleTile DEF Complete
<1> QED
  BY <1>2, <1>3, <1>4, <1>5, NextAreaTile, MpiCallTile DEF Next

\* What has been cut in order does not overlap, and what is before the end of
\* the last area is everything.
LEMMA TileInvTiles == TypeOK /\ TileInv => CallsTile
<1> SUFFICES ASSUME TypeOK, TileInv, NEW r \in Rank
             PROVE  /\ \A k \in 1..Len(calls[r]) :
                          /\ calls[r][k].count <= IntMax
                          /\ k <= Len(calls[Root]) => calls[r][k] = calls[Root][k]
                          /\ \A j \in 1..(k - 1) :
                                Elements(calls[r][j]) \intersect Elements(calls[r][k]) = {}
                    /\ pc[r] = "done" =>
                          UNION {Elements(calls[r][k]) : k \in 1..Len(calls[r])}
                            = UNION {{<<i, e>> : e \in 0..(areas[i] - 1)} : i \in 1..Len(areas)}
  BY DEF CallsTile
<1>1. Root \in Rank
  BY SizesAssumption DEF Root, Rank
<1>2. PlaceInv(r) /\ OrderInv(r) /\ SentInv(r) /\ SameInv
  BY DEF TileInv
<1>3. areas \in Seq(Nat) /\ Len(calls[r]) \in Nat
  BY AreaListsAssumption DEF TypeOK
<1>4. ASSUME NEW k \in 1..Len(calls[r])
      PROVE  /\ calls[r][k].count <= IntMax
             /\ k <= Len(calls[Root]) => calls[r][k] = calls[Root][k]
  BY <1>1, <1>2 DEF OrderInv, Cut, SameInv
<1>5. ASSUME NEW k \in 1..Len(calls[r]), NEW j \in 1..(k - 1)
      PROVE  Elements(calls[r][j]) \intersect Elements(calls[r][k]) = {}
  <2> DEFINE b == calls[r][j]  c == calls[r][k]
  <2>1. j \in 1..Len(calls[r])
    BY <1>3
  <2>2. b \in Chunk /\ c \in Chunk
    BY <2>1, CallType
  <2>3. Behind(b, c.area, c.from)
    BY <1>2 DEF OrderInv
  <2> HIDE DEF b, c
  <2>4. b.area \in Nat /\ b.from \in Nat /\ b.count \in Nat /\ c.area \in Nat /\ c.from \in Nat /\ c.count \in Nat
    BY <2>2 DEF Chunk
  <2>5. ASSUME NEW x, x \in Elements(b), x \in Elements(c) PROVE FALSE
    <3>1. PICK e \in b.from..(b.from + b.count - 1) : x = <<b.area, e>>
      BY <2>5 DEF Elements
    <3>2. PICK f \in c.from..(c.from + c.count - 1) : x = <<c.area, f>>
      BY <2>5 DEF Elements
    <3>3. b.area = c.area /\ e = f
      BY <3>1, <3>2
    <3> QED
      BY <2>3, <2>4, <3>3 DEF Behind
  <2>6. Elements(b) \intersect Elements(c) = {}
    BY <2>5
  <2> QED
    BY <2>6 DEF b, c
<1>6. ASSUME pc[r] = "done"
      PROVE  UNION {Elements(calls[r][k]) : k \in 1..Len(calls[r])}
               = UNION {{<<i, e>> : e \in 0..(areas[i] - 1)} : i \in 1..Len(areas)}
  <2>1. area[r] = Len(areas) + 1
    BY <1>2, <1>6 DEF PlaceInv
  <2>2. ASSUME NEW i \in 1..Len(areas), NEW e \in 0..(areas[i] - 1)
        PROVE  \E k \in 1..Len(calls[r]) : <<i, e>> \in Elements(calls[r][k])
    <3>1. areas[i] \in Nat
      BY <1>3
    <3>2. e \in Nat /\ e < areas[i] /\ i < area[r]
      BY <1>3, <2>1, <3>1
    <3> QED
      BY <1>2, <3>2 DEF SentInv
  <2>3. ASSUME NEW k \in 1..Len(calls[r]), NEW x \in Elements(calls[r][k])
        PROVE  \E i \in 1..Len(areas) : x \in {<<i, e>> : e \in 0..(areas[i] - 1)}
    <3> DEFINE c == calls[r][k]
    <3>1. c \in Chunk /\ Cut(c)
      BY <1>2, CallType DEF OrderInv
    <3>2. PICK e \in c.from..(c.from + c.count - 1) : x = <<c.area, e>>
      BY DEF Elements
    <3> HIDE DEF c
    <3>3. /\ c.area \in 1..Len(areas) /\ c.from + c.count <= areas[c.area]
          /\ c.from \in Nat /\ c.count \in Nat /\ areas[c.area] \in Nat
      BY SMTT(30), <1>3, <3>1 DEF Cut, Chunk
    <3>4. e \in 0..(areas[c.area] - 1)
      BY SMTT(30), <3>3
    <3> QED
      BY <3>2, <3>3, <3>4
  <2> DEFINE U == UNION {Elements(calls[r][k]) : k \in 1..Len(calls[r])}
             V == UNION {{<<i, e>> : e \in 0..(areas[i] - 1)} : i \in 1..Len(areas)}
  <2>4. U \subseteq V
    BY <2>3
  <2>5. V \subseteq U
    <3> SUFFICES ASSUME NEW i \in 1..Len(areas), NEW e \in 0..(areas[i] - 1)
                 PROVE  <<i, e>> \in U
      OBVIOUS
    <3> QED
      BY <2>2
  <2> QED
    BY <2>4, <2>5
<1> QED
  BY <1>4, <1>5, <1>6

\* Bcast, Reduce, AllReduce, sync_areas and the transfer of the Fortran globals
\* cut the areas into calls MPI can count, each element is sent once, the calls
\* of the ranks match, and a rank that returns has sent all.
THEOREM AreasAreTiled == Spec => []CallsTile
<1>1. Init => TileInv
  BY InitTile
<1>2. IInv /\ TileInv /\ [Next]_vars => TileInv'
  BY StepTile DEF IInv
<1>3. IInv /\ TileInv => CallsTile
  BY TileInvTiles DEF IInv
<1> QED
  BY <1>1, <1>2, <1>3, Invariance, PTL DEF Spec

=============================================================================
