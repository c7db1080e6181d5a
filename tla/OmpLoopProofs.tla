---------------------------- MODULE OmpLoopProofs -----------------------------
(***************************************************************************)
(* Theorems about OmpLoop, for any team of threads, any number of loops    *)
(* and tasks, in C and in Fortran.  They are about programs in which the   *)
(* count of threads is not overwritten while it is used (KeepsCounter):    *)
(* of the others DeletedByLast does not hold.                              *)
(***************************************************************************)
EXTENDS OmpLoop, FiniteSetTheorems, TLAPS

\* When the threads of a C program enter the same block again they have waited
\* for each other.
KeepsCounter(p) == p.lang = "c" /\ p.sameFrame => p.barrier

Kept == \A p \in Programs : KeepsCounter(p)

\* The places of a loop in their order: those from which on ...
FromMake   == {"make", "made", "draw", "advance", "work",
               "leave", "looped", "delete", "deleted", "out"}
FromMade   == FromMake \ {"make"}
FromDraw   == FromMade \ {"made"}
FromLeave  == FromDraw \ {"draw", "advance", "work"}
FromLooped == FromLeave \ {"leave"}
FromDelete == FromLooped \ {"looped"}
FromDeleted == FromDelete \ {"delete"}

PC == FromMake \union {"enter"}

\* Thread t has been in loop k at one of the places S, from which on it stays
\* in S until the loop is over.
Past(t, k, S) == loop[t] > k \/ (loop[t] = k /\ pc[t] \in S)

-----------------------------------------------------------------------------
(***************************************************************************)
(* The inductive invariant.                                                *)
(***************************************************************************)

\* One thread makes the schedule, and nobody draws before all have come.
TeamInv ==
    \A k \in Loop :
        /\ executor[k] = NoThread => \A t \in Thread : ~Past(t, k, FromMake)
        /\ \A t \in Thread :
              /\ executor[k] = t => Past(t, k, FromMake)
              /\ t \in arrived[k]["made"] <=> Past(t, k, FromMade)
              /\ Past(t, k, FromDraw) => arrived[k]["made"] = Thread
              /\ loop[t] = k /\ pc[t] = "make" => executor[k] = t

\* The iterator: one thread at a time advances it, past the task it has copied.
PositionInv ==
    /\ position \in [Loop -> Nat]
    /\ \A t, u \in Thread : pc[t] = "advance" /\ pc[u] = "advance" => t = u
    /\ \A t \in Thread : pc[t] = "advance" =>
          /\ task[t] = position[loop[t]] + 1
          /\ position[loop[t]] < tasks[loop[t]]
    /\ \A k \in Loop :
          /\ arrived[k]["made"] # Thread => position[k] = 0
          /\ \A t \in Thread : Past(t, k, FromLeave) => position[k] = tasks[k]

\* Tasks in loop k: those behind the iterator have been run, by one thread, or
\* are in the hands of one.
RunInv ==
    \A k \in Loop :
        /\ \A t \in Thread : loop[t] = k /\ pc[t] = "work" =>
              /\ task[t] \in 1..position[k]
              /\ \A x \in ran[k] : x[1] # task[t]
              /\ \A u \in Thread :
                    loop[u] = k /\ pc[u] = "work" /\ task[u] = task[t] => t = u
        /\ \A x \in ran[k] : x[1] \in 1..position[k]
        /\ \A x, y \in ran[k] : x[1] = y[1] => x = y
        /\ \A i \in 1..position[k] :
              \/ \E x \in ran[k] : x[1] = i
              \/ \E t \in Thread : loop[t] = k /\ pc[t] = "work" /\ task[t] = i

\* Threads that are still counted in loop k.
Counted(k) == {t \in Thread : ~Past(t, k, FromDelete)}

\* C: the count is right as long as somebody is counted, and the last one
\* deletes.  With a barrier between the loops nobody is behind.
CountInv ==
    C => /\ KeepsCounter(program)
         /\ \A t \in Thread : pc[t] \notin {"looped", "deleted"}
         /\ \A k \in Loop :
               /\ \A t \in arrived[k]["looped"] : Past(t, k, {"out"})
               /\ \A t \in Thread : loop[t] > k /\ program.barrier =>
                     arrived[k]["looped"] = Thread
               /\ executor[k] # NoThread /\ Counted(k) # {} =>
                     counter[Frame(k)][executor[k]] = Cardinality(Counted(k))
               /\ \A t, u \in Thread :
                     loop[t] = k /\ pc[t] = "delete" /\ loop[u] = k /\ pc[u] = "delete" => t = u
               /\ \A t \in Thread : loop[t] = k /\ pc[t] = "delete" =>
                     Counted(k) = {} /\ deletes[k] = 0
               /\ Counted(k) # {} => deletes[k] = 0
               /\ Counted(k) = {} /\ (\A t \in Thread : ~(loop[t] = k /\ pc[t] = "delete")) =>
                     deletes[k] = 1

\* Fortran: one thread deletes, when all have left the loop, and nobody goes on
\* before.
FortranInv ==
    ~C => \A k \in Loop :
        /\ deleter[k] = NoThread => \A t \in Thread : ~Past(t, k, FromDelete)
        /\ \A t \in Thread :
              /\ deleter[k] = t => Past(t, k, FromDelete)
              /\ t \in arrived[k]["looped"] <=> Past(t, k, FromLooped)
              /\ t \in arrived[k]["deleted"] <=> Past(t, k, FromDeleted)
              /\ Past(t, k, FromDelete) => arrived[k]["looped"] = Thread
              /\ Past(t, k, {"out"}) => arrived[k]["deleted"] = Thread
              /\ loop[t] = k /\ pc[t] = "delete" => deleter[k] = t
        /\ deletes[k] = IF deleter[k] \in arrived[k]["deleted"] THEN 1 ELSE 0

IInv == TypeOK /\ TeamInv /\ PositionInv /\ RunInv /\ CountInv /\ FortranInv

-----------------------------------------------------------------------------
(***************************************************************************)
(* What a step leaves as it is.                                            *)
(***************************************************************************)

\* A thread that moves within a loop.
Moves(t, to) == t \in Thread /\ to \in PC /\ GoTo(t, to) /\ loop' = loop

LEMMA MovePast ==
    ASSUME TypeOK, NEW t, NEW to, Moves(t, to), NEW S,
           NEW u \in Thread, NEW k \in Loop
    PROVE  Past(u, k, S)' <=> IF u = t /\ k = loop[t] THEN to \in S ELSE Past(u, k, S)
<1>1. pc \in [Thread -> PC] /\ loop \in [Thread -> Loop] /\ Loop \subseteq Nat
  BY DEF TypeOK, PC, FromMake, InMPI, Loop
<1>2. pc' = [pc EXCEPT ![t] = to] /\ t \in Thread /\ loop' = loop
  BY DEF Moves, GoTo
<1> QED
  BY <1>1, <1>2, SMT DEF Past

\* A move within S, or outside.
LEMMA StayPast ==
    ASSUME TypeOK, NEW t, NEW to, Moves(t, to), NEW S, to \in S <=> pc[t] \in S
    PROVE  \A u \in Thread, k \in Loop : Past(u, k, S)' <=> Past(u, k, S)
<1> TAKE u \in Thread, k \in Loop
<1>1. u = t /\ k = loop[t] => (Past(t, k, S) <=> pc[t] \in S)
  BY DEF Past, TypeOK, Loop
<1> QED
  BY <1>1, MovePast

\* Where the threads are after such a move.
LEMMA MovePlaces ==
    ASSUME TypeOK, NEW t, NEW to, Moves(t, to), NEW u \in Thread
    PROVE  /\ loop'[u] = loop[u] /\ loop[u] \in Loop /\ loop[t] \in Loop
           /\ pc'[u] = IF u = t THEN to ELSE pc[u]
           /\ t \in Thread
<1>1. pc \in [Thread -> PC] /\ loop \in [Thread -> Loop]
  BY DEF TypeOK, PC, FromMake, InMPI, Loop
<1> QED
  BY <1>1 DEF Moves, GoTo

LEMMA TeamKept ==
    ASSUME TypeOK, TeamInv, NEW t, NEW to, Moves(t, to), executor' = executor,
           \A k \in Loop : arrived'[k]["made"] = arrived[k]["made"],
           pc[t] \in FromDraw, to \in FromDraw
    PROVE  TeamInv'
<1>1. \A u \in Thread, k \in Loop :
        /\ Past(u, k, FromMake)' <=> Past(u, k, FromMake)
        /\ Past(u, k, FromMade)' <=> Past(u, k, FromMade)
        /\ Past(u, k, FromDraw)' <=> Past(u, k, FromDraw)
  <2> TAKE u \in Thread, k \in Loop
  <2>1. to \in FromMake /\ to \in FromMade /\ pc[t] \in FromMake /\ pc[t] \in FromMade
    BY DEF FromMake, FromMade, FromDraw
  <2>2. loop[t] = k => Past(t, k, FromMake) /\ Past(t, k, FromMade) /\ Past(t, k, FromDraw)
    BY <2>1 DEF Past
  <2> QED
    BY <2>1, <2>2, MovePast
<1>2. \A u \in Thread : pc'[u] = "make" => pc[u] = "make" /\ loop'[u] = loop[u]
  BY MovePlaces DEF FromDraw, FromMade
<1>3. \A k \in Loop : executor[k] # NoThread => executor[k] \in Thread
  BY DEF TypeOK
<1> QED
  BY <1>1, <1>2, <1>3 DEF TeamInv

LEMMA PositionKept ==
    ASSUME TypeOK, PositionInv, NEW t, NEW to, Moves(t, to),
           position' = position, tasks' = tasks, task' = task,
           \A k \in Loop : arrived'[k]["made"] # Thread => arrived[k]["made"] # Thread,
           to # "advance",
           to \in FromLeave => pc[t] \in FromLeave
    PROVE  PositionInv'
<1>1. \A u \in Thread, k \in Loop : Past(u, k, FromLeave)' => Past(u, k, FromLeave)
  <2> TAKE u \in Thread, k \in Loop
  <2>1. loop[t] = k /\ to \in FromLeave => Past(t, k, FromLeave)
    BY DEF Past
  <2> QED
    BY <2>1, MovePast
<1>2. \A u \in Thread : pc'[u] = "advance" => pc[u] = "advance" /\ loop'[u] = loop[u]
  BY MovePlaces
<1> QED
  BY <1>1, <1>2 DEF PositionInv

LEMMA RunKept ==
    ASSUME TypeOK, RunInv, NEW t, NEW to, Moves(t, to),
           position' = position, ran' = ran,
           \A u \in Thread : pc[u] = "work" => task'[u] = task[u],
           to # "work", pc[t] # "work"
    PROVE  RunInv'
<1>1. \A u \in Thread : /\ pc'[u] = "work" <=> pc[u] = "work"
                        /\ loop'[u] = loop[u]
  BY MovePlaces
<1> QED
  BY <1>1 DEF RunInv

\* The threads that are counted, and those that delete, stay the same.
LEMMA CountKept ==
    ASSUME TypeOK, CountInv, NEW t, NEW to, Moves(t, to), program' = program,
           deletes' = deletes,
           C => \A k \in Loop :
                   /\ arrived'[k]["looped"] = arrived[k]["looped"]
                   /\ executor'[k] # NoThread /\ Counted(k) # {} =>
                         counter'[Frame(k)][executor'[k]] = Cardinality(Counted(k)),
           to \notin FromLooped, pc[t] \notin FromLooped
    PROVE  CountInv'
<1> SUFFICES ASSUME C PROVE CountInv'
  BY DEF CountInv, C
<1>1. to \notin FromDelete /\ pc[t] \notin FromDelete /\ to # "delete" /\ pc[t] # "delete"
      /\ to \notin {"looped", "deleted"} /\ to # "out" /\ pc[t] # "out"
  BY DEF FromDelete, FromLooped, FromLeave, FromDraw, FromMade, FromMake
<1>2. \A u \in Thread, k \in Loop :
        /\ Past(u, k, FromDelete)' <=> Past(u, k, FromDelete)
        /\ Past(u, k, {"out"})' <=> Past(u, k, {"out"})
  BY <1>1, StayPast
<1>3. \A k \in Loop : Counted(k)' = Counted(k)
  <2> TAKE k \in Loop
  <2>1. Counted(k)' = {u \in Thread : ~(Past(u, k, FromDelete)')}
    BY DEF Counted
  <2>2. \A u \in Thread : Past(u, k, FromDelete)' <=> Past(u, k, FromDelete)
    BY <1>2
  <2> QED
    BY <2>1, <2>2 DEF Counted
<1>4. \A u \in Thread : /\ pc'[u] = "delete" <=> pc[u] = "delete"
                        /\ pc'[u] \notin {"looped", "deleted"}
                        /\ loop'[u] = loop[u]
  BY <1>1, MovePlaces DEF CountInv
<1>5. \A k \in Loop : arrived'[k]["looped"] = arrived[k]["looped"] /\ arrived[k]["looped"] \subseteq Thread
  BY DEF TypeOK, Barrier
<1>6. \A k \in Loop : Frame(k)' = Frame(k)
  BY DEF Frame
<1> QED
  BY <1>2, <1>3, <1>4, <1>5, <1>6 DEF CountInv, KeepsCounter

LEMMA FortranKept ==
    ASSUME TypeOK, FortranInv, NEW t, NEW to, Moves(t, to), program' = program,
           deleter' = deleter, deletes' = deletes,
           ~C => \A k \in Loop : /\ arrived'[k]["looped"] = arrived[k]["looped"]
                                 /\ arrived'[k]["deleted"] = arrived[k]["deleted"],
           to \notin FromLooped, pc[t] \notin FromLooped
    PROVE  FortranInv'
<1> SUFFICES ASSUME ~C PROVE FortranInv'
  BY DEF FortranInv, C
<1>1. /\ to \notin FromDelete /\ pc[t] \notin FromDelete /\ to # "delete" /\ pc[t] # "delete"
      /\ to \notin FromDeleted /\ pc[t] \notin FromDeleted /\ to # "out" /\ pc[t] # "out"
  BY DEF FromDeleted, FromDelete, FromLooped, FromLeave, FromDraw, FromMade, FromMake
<1>2. \A u \in Thread, k \in Loop :
        /\ Past(u, k, FromLooped)' <=> Past(u, k, FromLooped)
        /\ Past(u, k, FromDelete)' <=> Past(u, k, FromDelete)
        /\ Past(u, k, FromDeleted)' <=> Past(u, k, FromDeleted)
        /\ Past(u, k, {"out"})' <=> Past(u, k, {"out"})
  BY <1>1, StayPast
<1>3. \A u \in Thread : (pc'[u] = "delete" <=> pc[u] = "delete") /\ loop'[u] = loop[u]
  BY <1>1, MovePlaces
<1>4. \A k \in Loop : deleter[k] # NoThread => deleter[k] \in Thread
  BY DEF TypeOK
<1> QED
  BY <1>2, <1>3, <1>4 DEF FortranInv

\* Thread t has come to barrier b of its loop.
Comes(t, b) ==
    /\ arrived' \in [Loop -> [Barrier -> SUBSET Thread]]
    /\ \A k \in Loop, c \in Barrier :
          arrived'[k][c] = IF k = loop[t] /\ c = b THEN arrived[k][c] \union {t}
                                                   ELSE arrived[k][c]

LEMMA ArriveFacts ==
    ASSUME TypeOK, NEW t, NEW b, t \in Thread, b \in Barrier, Arrive(t, b)
    PROVE  Comes(t, b)
<1>1. arrived \in [Loop -> [Barrier -> SUBSET Thread]] /\ loop[t] \in Loop
  BY DEF TypeOK
<1> DEFINE row == [arrived[loop[t]] EXCEPT ![b] = @ \union {t}]
<1>2. arrived' = [arrived EXCEPT ![loop[t]] = row]
  BY DEF Arrive
<1>3. /\ row \in [Barrier -> SUBSET Thread]
      /\ \A c \in Barrier :
            row[c] = IF c = b THEN arrived[loop[t]][c] \union {t} ELSE arrived[loop[t]][c]
  <2>1. arrived[loop[t]] \in [Barrier -> SUBSET Thread]
    BY <1>1
  <2> QED
    BY <2>1
<1> HIDE DEF row
<1> QED
  BY <1>1, <1>2, <1>3 DEF Comes

\* The blocks of two loops are the same only if the threads wait in between.
LEMMA SameFrame ==
    ASSUME TypeOK, TeamInv, CountInv, C, NEW j \in Loop, NEW k \in Loop, j # k,
           Frame(j) = Frame(k), NEW t \in Thread, loop[t] = j, pc[t] # "out",
           executor[k] # NoThread
    PROVE  Counted(k) = {}
<1>1. program.barrier
  <2>1. program.sameFrame
    BY DEF Frame
  <2> QED
    BY <2>1 DEF CountInv, KeepsCounter, C
<1>2. \A i \in Loop, u \in Thread : loop[u] > i => \A v \in Thread : Past(v, i, {"out"})
  BY <1>1 DEF CountInv
<1>3. loop \in [Thread -> Loop] /\ Loop \subseteq Nat /\ Loop \subseteq Int
  BY DEF TypeOK, Loop
<1>4. CASE k < j
  <2>1. \A v \in Thread : Past(v, k, {"out"})
    BY <1>2, <1>3, <1>4
  <2>2. \A v \in Thread : Past(v, k, FromDelete)
    BY <2>1 DEF Past, FromDelete, FromLooped, FromLeave, FromDraw, FromMade, FromMake
  <2> QED
    BY <2>2 DEF Counted
<1>5. CASE k > j
  <2>1. executor[k] \in Thread /\ Past(executor[k], k, FromMake)
    BY DEF TeamInv, TypeOK
  <2>2. loop[executor[k]] > j
    <3>1. loop[executor[k]] > k \/ loop[executor[k]] = k
      BY <2>1 DEF Past
    <3>2. loop[executor[k]] \in Int /\ k \in Int /\ j \in Int
      BY <1>3, <2>1
    <3> QED
      BY <1>5, <3>1, <3>2
  <2>3. Past(t, j, {"out"})
    BY <1>2, <2>1, <2>2
  <2> QED
    BY <1>3, <2>3 DEF Past
<1> QED
  BY <1>3, <1>4, <1>5

-----------------------------------------------------------------------------
(***************************************************************************)
(* The steps.                                                              *)
(***************************************************************************)

LEMMA EnterInv == ASSUME IInv, NEW t \in Thread, Enter(t) PROVE IInv'
<1> USE DEF IInv
<1> DEFINE k0 == loop[t]
           to == IF executor[k0] = NoThread THEN "make" ELSE "made"
<1>1. Moves(t, to) /\ pc[t] = "enter" /\ k0 \in Loop
  BY DEF Enter, Moves, TypeOK, PC, FromMake
<1>2. \A k \in Loop :
        executor'[k] = IF k = k0 /\ executor[k] = NoThread THEN t ELSE executor[k]
  BY DEF Enter, TypeOK
<1>3. /\ executor[k0] = NoThread => arrived' = arrived
      /\ executor[k0] # NoThread => Arrive(t, "made")
  BY DEF Enter
<1>4. /\ arrived' \in [Loop -> [Barrier -> SUBSET Thread]]
      /\ \A k \in Loop, b \in Barrier :
            arrived'[k][b] = IF k = k0 /\ b = "made" /\ executor[k0] # NoThread
                             THEN arrived[k][b] \union {t} ELSE arrived[k][b]
  <2>1. CASE executor[k0] = NoThread
    BY <1>3, <2>1 DEF TypeOK
  <2>2. CASE executor[k0] # NoThread
    <3>1. Arrive(t, "made") /\ "made" \in Barrier
      BY <1>3, <2>2 DEF Barrier
    <3>2. \A k \in Loop, b \in Barrier :
            arrived'[k][b] = IF k = loop[t] /\ b = "made" THEN arrived[k][b] \union {t}
                                                          ELSE arrived[k][b]
      BY SMTT(30), <3>1, ArriveFacts DEF Comes
    <3>3. arrived' \in [Loop -> [Barrier -> SUBSET Thread]]
      BY <3>1, ArriveFacts DEF Comes
    <3> QED
      BY <2>2, <3>2, <3>3
  <2> QED
    BY <2>1, <2>2
<1>5. IsFiniteSet(Thread) /\ Cardinality(Thread) \in Nat
  BY ThreadAssumption, FS_CardinalityType
<1>6. C => /\ counter' = [counter EXCEPT ![Frame(k0)][t] = Cardinality(Thread)]
           /\ Frame(k0) \in Loop
  BY <1>1, BoundsAssumption DEF Enter, Frame, Loop
<1>7. /\ counter' \in [Loop -> [Thread -> 0..Cardinality(Thread)]]
      /\ C => \A i \in Loop, u \in Thread :
                 counter'[i][u] = IF i = Frame(k0) /\ u = t THEN Cardinality(Thread)
                                                            ELSE counter[i][u]
  <2>1. CASE ~C
    BY <2>1 DEF Enter, TypeOK
  <2>2. CASE C
    <3> DEFINE row == [counter[Frame(k0)] EXCEPT ![t] = Cardinality(Thread)]
    <3>1. counter[Frame(k0)] \in [Thread -> 0..Cardinality(Thread)]
      BY <1>6, <2>2 DEF TypeOK
    <3>2. /\ row \in [Thread -> 0..Cardinality(Thread)]
          /\ \A u \in Thread : row[u] = IF u = t THEN Cardinality(Thread)
                                                 ELSE counter[Frame(k0)][u]
      BY <1>5, <3>1
    <3>3. counter' = [counter EXCEPT ![Frame(k0)] = row]
      BY <1>6, <2>2
    <3>4. counter \in [Loop -> [Thread -> 0..Cardinality(Thread)]]
      BY DEF TypeOK
    <3> HIDE DEF row
    <3> QED
      BY <1>6, <2>2, <3>2, <3>3, <3>4
  <2> QED
    BY <2>1, <2>2
<1>8. UNCHANGED <<program, loop, deleter, task, ran, tasks, position, deletes>>
  BY DEF Enter, scheduleVars
<1>9. TypeOK'
  <2>1. pc' \in [Thread -> PC] /\ executor' \in [Loop -> Thread \union {NoThread}]
    BY <1>1 DEF Enter, Moves, GoTo, TypeOK, PC, FromMake, InMPI
  <2> QED
    BY <1>4, <1>7, <1>8, <2>1 DEF TypeOK, PC, FromMake, InMPI
<1>10. /\ ~Past(t, k0, FromMake) /\ ~Past(t, k0, FromMade) /\ ~Past(t, k0, FromDraw)
       /\ pc[t] \notin FromLooped /\ to \notin FromLooped /\ to \notin FromLeave
       /\ to \notin FromDraw /\ to \in FromMake
  BY <1>1 DEF Past, FromLooped, FromLeave, FromDraw, FromMade, FromMake, Loop
<1>11. TeamInv'
  <2>1. \A u \in Thread, k \in Loop :
          /\ Past(u, k, FromMake)' <=> Past(u, k, FromMake) \/ (u = t /\ k = k0)
          /\ Past(u, k, FromMade)' <=>
                Past(u, k, FromMade) \/ (u = t /\ k = k0 /\ executor[k0] # NoThread)
          /\ Past(u, k, FromDraw)' <=> Past(u, k, FromDraw)
    <3> TAKE u \in Thread, k \in Loop
    <3>1. to \in FromMade <=> executor[k0] # NoThread
      BY DEF FromMade, FromMake
    <3> HIDE DEF to
    <3> QED
      BY <1>1, <1>10, <3>1, MovePast
  <2>2. \A u \in Thread : /\ loop'[u] = loop[u]
                          /\ pc'[u] = IF u = t THEN to ELSE pc[u]
    BY <1>1, MovePlaces
  <2>3. \A k \in Loop : arrived'[k]["made"] =
            IF k = k0 /\ executor[k0] # NoThread THEN arrived[k]["made"] \union {t}
                                                 ELSE arrived[k]["made"]
    BY <1>4 DEF Barrier
  <2>4. \A k \in Loop : executor[k] # NoThread => executor[k] \in Thread
    BY DEF TypeOK
  <2>5. \A k \in Loop : arrived'[k]["made"] \subseteq Thread
    BY <1>4 DEF Barrier
  <2>6. t # NoThread
    BY ThreadAssumption
  <2>7. ASSUME NEW k \in Loop, NEW u \in Thread
        PROVE  /\ executor'[k] = NoThread => ~(Past(u, k, FromMake)')
               /\ executor'[k] = u => Past(u, k, FromMake)'
    BY <1>2, <2>1, <2>6, ThreadAssumption DEF TeamInv
  <2>8. ASSUME NEW k \in Loop, NEW u \in Thread
        PROVE  /\ u \in arrived'[k]["made"] <=> Past(u, k, FromMade)'
               /\ Past(u, k, FromDraw)' => arrived'[k]["made"] = Thread
    <3>1. u \in arrived[k]["made"] <=> Past(u, k, FromMade)
      BY DEF TeamInv
    <3>2. Past(u, k, FromDraw) => arrived[k]["made"] = Thread
      BY DEF TeamInv
    <3>3. arrived[k]["made"] = Thread => arrived'[k]["made"] = Thread
      BY <2>3
    <3>4. u \in arrived'[k]["made"] <=> Past(u, k, FromMade)'
      BY <2>1, <2>3, <3>1
    <3> QED
      BY <2>1, <3>2, <3>3, <3>4
  <2>9. ASSUME NEW k \in Loop, NEW u \in Thread, loop'[u] = k, pc'[u] = "make"
        PROVE  executor'[k] = u
    <3>1. TypeOK
      OBVIOUS
    <3>2. TeamInv
      OBVIOUS
    <3>3. loop[u] = k /\ pc[u] = "make" => executor[k] = u
      BY <3>2 DEF TeamInv
    <3>4. u # t => pc[u] = "make" /\ loop[u] = k
      BY <2>2, <2>9
    <3>5. u = t => executor[k0] = NoThread /\ k = k0
      BY <2>2, <2>9
    <3>6. executor[k] # NoThread \/ u = t
      BY <3>3, <3>4, ThreadAssumption
    <3> QED
      BY <1>2, <3>3, <3>4, <3>5, <3>6
  <2> QED
    BY <2>7, <2>8, <2>9 DEF TeamInv
<1>12. PositionInv'
  <2>1. \A k \in Loop : arrived'[k]["made"] # Thread => arrived[k]["made"] # Thread
    <3>1. \A k \in Loop : \/ arrived'[k]["made"] = arrived[k]["made"]
                          \/ arrived'[k]["made"] = arrived[k]["made"] \union {t}
      BY <1>4 DEF Barrier
    <3> QED
      BY <3>1
  <2> QED
    BY <1>1, <1>8, <1>10, <2>1, PositionKept
<1>13. RunInv'
  BY <1>1, <1>8, RunKept
<1>14. CountInv'
  <2> SUFFICES ASSUME C PROVE CountInv'
    BY <1>8 DEF CountInv, C
  <2>1. ASSUME NEW k \in Loop, executor'[k] # NoThread, Counted(k) # {}
        PROVE  counter'[Frame(k)][executor'[k]] = Cardinality(Counted(k))
    <3>1. CASE k = k0 /\ executor[k] = NoThread
      <4>1. \A u \in Thread : ~Past(u, k, FromDelete)
        BY <3>1 DEF TeamInv, Past, FromDelete, FromLooped, FromLeave, FromDraw, FromMade
      <4>2. Counted(k) = Thread
        BY <4>1 DEF Counted
      <4> QED
        BY <1>2, <1>6, <1>7, <3>1, <4>2
    <3>2. CASE ~(k = k0 /\ executor[k] = NoThread)
      <4>1. executor'[k] = executor[k] /\ executor[k] \in Thread /\ Past(executor[k], k, FromMake)
        BY <1>2, <2>1, <3>2 DEF TypeOK, TeamInv
      <4>2. counter[Frame(k)][executor[k]] = Cardinality(Counted(k))
        BY <2>1, <4>1 DEF CountInv
      <4>3. ~(Frame(k) = Frame(k0) /\ executor[k] = t)
        <5> SUFFICES ASSUME Frame(k) = Frame(k0), executor[k] = t PROVE FALSE
          OBVIOUS
        <5>1. k # k0
          BY <1>10, <4>1
        <5> QED
          BY <1>1, <2>1, <4>1, <5>1, SameFrame
      <4>4. Frame(k) \in Loop
        BY BoundsAssumption DEF Frame, Loop
      <4> QED
        BY <1>7, <4>1, <4>2, <4>3, <4>4
    <3> QED
      BY <3>1, <3>2
  <2>2. \A k \in Loop : arrived'[k]["looped"] = arrived[k]["looped"]
    BY <1>4 DEF Barrier
  <2> QED
    BY <1>1, <1>8, <1>10, <2>1, <2>2, CountKept
<1>15. FortranInv'
  <2>1. \A k \in Loop : /\ arrived'[k]["looped"] = arrived[k]["looped"]
                        /\ arrived'[k]["deleted"] = arrived[k]["deleted"]
    BY <1>4 DEF Barrier
  <2> QED
    BY <1>1, <1>8, <1>10, <2>1, FortranKept
<1> QED
  BY <1>9, <1>11, <1>12, <1>13, <1>14, <1>15

LEMMA MakeInv == ASSUME IInv, NEW t \in Thread, Make(t) PROVE IInv'
<1> USE DEF IInv
<1> DEFINE k0 == loop[t]
<1>1. Moves(t, "made") /\ pc[t] = "make" /\ k0 \in Loop
  BY DEF Make, Moves, TypeOK, PC, FromMake
<1>2. Arrive(t, "made") /\ "made" \in Barrier
  BY DEF Make, Barrier
<1>3. arrived' \in [Loop -> [Barrier -> SUBSET Thread]]
  BY <1>2, ArriveFacts DEF Comes
<1>4. \A k \in Loop, b \in Barrier :
        arrived'[k][b] = IF k = loop[t] /\ b = "made" THEN arrived[k][b] \union {t}
                                                      ELSE arrived[k][b]
  BY SMTT(30), <1>2, ArriveFacts DEF Comes
<1>5. UNCHANGED <<program, loop, executor, deleter, task, counter, position, deletes, ran>>
  BY DEF Make
<1>6. PICK n \in 0..MaxTasks : tasks' = [tasks EXCEPT ![k0] = n]
  BY DEF Make
<1>7. ~Past(t, k0, FromMade)
  BY <1>1 DEF Past, FromMade, Loop
<1>8. t \notin arrived[k0]["made"]
  BY <1>1, <1>7 DEF TeamInv
<1>9. position[k0] = 0
  BY <1>1, <1>8 DEF PositionInv
<1>10. \A u \in Thread : ~Past(u, k0, FromDraw)
  BY <1>1, <1>8 DEF TeamInv
<1>11. /\ tasks' \in [Loop -> 0..MaxTasks]
       /\ \A k \in Loop : k # k0 => tasks'[k] = tasks[k]
  BY <1>1, <1>6 DEF TypeOK
<1>12. TypeOK'
  <2>1. pc' \in [Thread -> PC]
    BY <1>1 DEF Moves, GoTo, TypeOK, PC, FromMake, InMPI
  <2>2. \A k \in Loop : position[k] \in 0..tasks'[k]
    <3>1. \A k \in Loop : position[k] \in 0..tasks[k]
      BY DEF TypeOK
    <3>2. tasks'[k0] \in Nat
      BY <1>1, <1>11, BoundsAssumption
    <3> QED
      BY <1>1, <1>9, <1>11, <3>1, <3>2
  <2> QED
    BY <1>3, <1>5, <1>11, <2>1, <2>2 DEF TypeOK, PC, FromMake, InMPI
<1>13. TeamInv'
  <2>1. \A u \in Thread, k \in Loop :
          /\ Past(u, k, FromMake)' <=> Past(u, k, FromMake)
          /\ Past(u, k, FromDraw)' <=> Past(u, k, FromDraw)
          /\ Past(u, k, FromMade)' <=> Past(u, k, FromMade) \/ (u = t /\ k = k0)
    <3>1. "made" \in FromMake /\ pc[t] \in FromMake /\ "made" \notin FromDraw
          /\ pc[t] \notin FromDraw /\ "made" \in FromMade
      BY <1>1 DEF FromMake, FromMade, FromDraw
    <3>2. \A u \in Thread, k \in Loop :
            /\ Past(u, k, FromMake)' <=> Past(u, k, FromMake)
            /\ Past(u, k, FromDraw)' <=> Past(u, k, FromDraw)
      BY <1>1, <3>1, StayPast
    <3>3. \A u \in Thread, k \in Loop :
            Past(u, k, FromMade)' <=> Past(u, k, FromMade) \/ (u = t /\ k = k0)
      BY <1>1, <3>1, MovePast
    <3> QED
      BY <3>2, <3>3
  <2>2. \A u \in Thread : pc'[u] = "make" => pc[u] = "make" /\ loop'[u] = loop[u]
    BY <1>1, MovePlaces
  <2>3. \A k \in Loop : /\ arrived'[k]["made"] = IF k = k0 THEN arrived[k]["made"] \union {t}
                                                           ELSE arrived[k]["made"]
                        /\ arrived[k]["made"] \subseteq Thread
    <3>1. \A k \in Loop : arrived[k]["made"] \subseteq Thread
      BY DEF TypeOK, Barrier
    <3> QED
      BY <1>2, <1>4, <3>1
  <2>4. ASSUME NEW k \in Loop, NEW u \in Thread
        PROVE  /\ u \in arrived'[k]["made"] <=> Past(u, k, FromMade)'
               /\ Past(u, k, FromDraw)' => arrived'[k]["made"] = Thread
    <3>1. u \in arrived[k]["made"] <=> Past(u, k, FromMade)
      BY DEF TeamInv
    <3>2. u \in arrived'[k]["made"] <=> Past(u, k, FromMade)'
      BY <2>1, <2>3, <3>1
    <3>3. Past(u, k, FromDraw)' => k # k0 /\ arrived[k]["made"] = Thread
      BY <1>10, <2>1 DEF TeamInv
    <3> QED
      BY <2>3, <3>2, <3>3
  <2> QED
    BY <1>5, <2>1, <2>2, <2>4 DEF TeamInv
<1>14. PositionInv'
  <2>1. \A k \in Loop : arrived'[k]["made"] # Thread => k = k0 \/ arrived[k]["made"] # Thread
    BY <1>2, <1>4
  <2>2. \A u \in Thread, k \in Loop : Past(u, k, FromLeave)' => k # k0 /\ Past(u, k, FromLeave)
    <3>1. "made" \notin FromLeave /\ pc[t] \notin FromLeave
      BY <1>1 DEF FromMake, FromMade, FromDraw, FromLeave
    <3>2. \A u \in Thread, k \in Loop : Past(u, k, FromLeave)' <=> Past(u, k, FromLeave)
      BY <1>1, <3>1, StayPast
    <3>3. \A u \in Thread, k \in Loop : Past(u, k, FromLeave) => Past(u, k, FromDraw)
      BY DEF Past, FromLeave
    <3> QED
      BY <1>10, <3>2, <3>3
  <2>3. \A u \in Thread : pc'[u] = "advance" =>
          pc[u] = "advance" /\ loop'[u] = loop[u] /\ loop[u] # k0 /\ loop[u] \in Loop
    <3>1. \A u \in Thread : pc[u] = "advance" /\ loop[u] = k0 => Past(u, k0, FromDraw)
      BY DEF Past, FromDraw, FromMade, FromMake
    <3> QED
      BY <1>1, <1>10, <3>1, MovePlaces
  <2> QED
    BY <1>5, <1>9, <1>11, <2>1, <2>2, <2>3 DEF PositionInv
<1>15. RunInv'
  BY <1>1, <1>5, RunKept
<1>16. pc[t] \notin FromLooped /\ "made" \notin FromLooped
  BY <1>1 DEF FromMake, FromMade, FromDraw, FromLeave, FromLooped
<1>17. \A k \in Loop : /\ arrived'[k]["looped"] = arrived[k]["looped"]
                       /\ arrived'[k]["deleted"] = arrived[k]["deleted"]
  BY <1>4 DEF Barrier
<1>18. CountInv'
  <2>1. C => \A k \in Loop : executor[k] # NoThread /\ Counted(k) # {} =>
                counter[Frame(k)][executor[k]] = Cardinality(Counted(k))
    BY DEF CountInv
  <2> QED
    BY <1>1, <1>5, <1>16, <1>17, <2>1, CountKept
<1>19. FortranInv'
  BY <1>1, <1>5, <1>16, <1>17, FortranKept
<1> QED
  BY <1>12, <1>13, <1>14, <1>15, <1>18, <1>19

LEMMA MadeInv == ASSUME IInv, NEW t \in Thread, Made(t) PROVE IInv'
<1> USE DEF IInv
<1> DEFINE k0 == loop[t]
<1>1. Moves(t, "draw") /\ pc[t] = "made" /\ k0 \in Loop /\ arrived[k0]["made"] = Thread
  BY DEF Made, Moves, TypeOK, PC, FromMake
<1>2. UNCHANGED <<program, loop, task, counter, ran, tasks, position, deletes,
                  executor, deleter, arrived>>
  BY DEF Made, scheduleVars, teamVars
<1>3. TypeOK'
  <2>1. pc' \in [Thread -> PC]
    BY <1>1 DEF Moves, GoTo, TypeOK, PC, FromMake, InMPI
  <2> QED
    BY <1>2, <2>1 DEF TypeOK, PC, FromMake, InMPI
<1>4. /\ {"made", "draw"} \subseteq FromMade /\ {"made", "draw"} \subseteq FromMake
      /\ "draw" \in FromDraw
      /\ "made" \notin FromLeave /\ "draw" \notin FromLeave
      /\ "made" \notin FromLooped /\ "draw" \notin FromLooped
  BY DEF FromMake, FromMade, FromDraw, FromLeave, FromLooped
<1>5. TeamInv'
  <2>1. \A u \in Thread, k \in Loop :
          /\ Past(u, k, FromMake)' <=> Past(u, k, FromMake)
          /\ Past(u, k, FromMade)' <=> Past(u, k, FromMade)
    BY <1>1, <1>4, StayPast
  <2>2. \A u \in Thread, k \in Loop :
          Past(u, k, FromDraw)' => Past(u, k, FromDraw) \/ k = k0
    BY <1>1, <1>4, MovePast
  <2>3. \A u \in Thread : pc'[u] = "make" => pc[u] = "make" /\ loop'[u] = loop[u]
    BY <1>1, MovePlaces
  <2> QED
    BY <1>1, <1>2, <2>1, <2>2, <2>3 DEF TeamInv
<1>6. PositionInv'
  BY <1>1, <1>2, <1>4, PositionKept
<1>7. RunInv'
  BY <1>1, <1>2, RunKept
<1>8. CountInv'
  <2>1. C => \A k \in Loop : executor[k] # NoThread /\ Counted(k) # {} =>
                counter[Frame(k)][executor[k]] = Cardinality(Counted(k))
    BY DEF CountInv
  <2> QED
    BY <1>1, <1>2, <1>4, <2>1, CountKept
<1>9. FortranInv'
  BY <1>1, <1>2, <1>4, FortranKept
<1> QED
  BY <1>3, <1>5, <1>6, <1>7, <1>8, <1>9

\* Draw and GeneratorNext do the same, in their critical sections.
LEMMA DrawingInv ==
    ASSUME IInv, NEW t \in Thread, Draw(t) \/ GeneratorNext(t)
    PROVE  IInv'
<1> USE DEF IInv
<1> DEFINE k0 == loop[t]
           to == IF position[k0] = tasks[k0] THEN "leave" ELSE "advance"
<1>1. Moves(t, to) /\ pc[t] = "draw" /\ k0 \in Loop
  BY DEF Draw, GeneratorNext, Moves, TypeOK, PC, FromMake
<1>2. \A u \in Thread : pc[u] # "advance"
  BY DEF Draw, GeneratorNext, GenFree
<1>3. task' = IF position[k0] = tasks[k0] THEN task
              ELSE [task EXCEPT ![t] = position[k0] + 1]
  BY DEF Draw, GeneratorNext
<1>4. UNCHANGED <<program, loop, counter, ran, tasks, position, deletes,
                  executor, deleter, arrived>>
  BY DEF Draw, GeneratorNext, scheduleVars, teamVars
<1>5. /\ {"draw", "leave", "advance"} \subseteq FromDraw
      /\ "draw" \notin FromLooped /\ to \notin FromLooped
      /\ "leave" \in FromLeave /\ "advance" \notin FromLeave
  BY DEF FromMake, FromMade, FromDraw, FromLeave, FromLooped
<1>6. /\ position[k0] \in 0..tasks[k0] /\ tasks[k0] \in 0..MaxTasks
      /\ position[k0] \in Nat /\ tasks[k0] \in Nat /\ MaxTasks \in Nat
      /\ task \in [Thread -> 0..MaxTasks]
  BY <1>1, BoundsAssumption DEF TypeOK, PositionInv
<1>7. TypeOK'
  <2>1. pc' \in [Thread -> PC]
    BY <1>1 DEF Moves, GoTo, TypeOK, PC, FromMake, InMPI
  <2>2. task' \in [Thread -> 0..MaxTasks]
    BY <1>3, <1>6
  <2> QED
    BY <1>4, <2>1, <2>2 DEF TypeOK, PC, FromMake, InMPI
<1>8. TeamInv'
  BY <1>1, <1>4, <1>5, TeamKept
<1>9. PositionInv'
  <2>1. \A u \in Thread : pc'[u] = "advance" => u = t /\ to = "advance"
    BY <1>1, <1>2, MovePlaces
  <2>2. to = "advance" => /\ task'[t] = position[k0] + 1
                          /\ position[k0] < tasks[k0]
    BY <1>3, <1>6
  <2>3. \A u \in Thread, k \in Loop : Past(u, k, FromLeave)' => position[k] = tasks[k]
    <3> TAKE u \in Thread, k \in Loop
    <3>1. Past(u, k, FromLeave)' <=>
            IF u = t /\ k = k0 THEN to \in FromLeave ELSE Past(u, k, FromLeave)
      BY <1>1, MovePast
    <3>2. to \in FromLeave => position[k0] = tasks[k0]
      BY <1>5
    <3> QED
      BY <3>1, <3>2 DEF PositionInv
  <2>4. \A k \in Loop : arrived[k]["made"] # Thread => position[k] = 0
    BY DEF PositionInv
  <2>5. loop' = loop /\ position' \in [Loop -> Nat]
    BY <1>4 DEF PositionInv
  <2> QED
    BY <1>4, <2>1, <2>2, <2>3, <2>4, <2>5 DEF PositionInv
<1>10. RunInv'
  <2>1. \A u \in Thread : pc[u] = "work" => task'[u] = task[u]
    BY <1>1, <1>3 DEF TypeOK
  <2> QED
    BY <1>1, <1>4, <2>1, RunKept
<1>11. CountInv'
  <2>1. C => \A k \in Loop : executor[k] # NoThread /\ Counted(k) # {} =>
                counter[Frame(k)][executor[k]] = Cardinality(Counted(k))
    BY DEF CountInv
  <2> QED
    BY <1>1, <1>4, <1>5, <2>1, CountKept
<1>12. FortranInv'
  BY <1>1, <1>4, <1>5, FortranKept
<1> QED
  BY <1>7, <1>8, <1>9, <1>10, <1>11, <1>12

LEMMA AdvanceInv == ASSUME IInv, NEW t \in Thread, Advance(t) PROVE IInv'
<1> USE DEF IInv
<1> DEFINE k0 == loop[t]
<1>1. Moves(t, "work") /\ pc[t] = "advance" /\ k0 \in Loop
  BY DEF Advance, Moves, TypeOK, PC, FromMake
<1>2. UNCHANGED <<program, loop, task, counter, tasks, deletes, ran,
                  executor, deleter, arrived>>
  BY DEF Advance, teamVars
<1>3. /\ position \in [Loop -> Nat]
      /\ position' = [position EXCEPT ![k0] = @ + 1]
      /\ task[t] = position[k0] + 1 /\ position[k0] < tasks[k0]
      /\ \A u \in Thread : pc[u] = "advance" => u = t
  BY <1>1 DEF Advance, PositionInv
<1>4. /\ position' \in [Loop -> Nat]
      /\ \A k \in Loop : position'[k] = IF k = k0 THEN position[k] + 1 ELSE position[k]
  BY <1>1, <1>3
<1>5. /\ {"advance", "work"} \subseteq FromDraw
      /\ "advance" \notin FromLooped /\ "work" \notin FromLooped
      /\ "advance" \notin FromLeave /\ "work" \notin FromLeave
  BY DEF FromMake, FromMade, FromDraw, FromLeave, FromLooped
<1>6. TypeOK'
  <2>1. pc' \in [Thread -> PC]
    BY <1>1 DEF Moves, GoTo, TypeOK, PC, FromMake, InMPI
  <2>2. \A k \in Loop : position'[k] \in 0..tasks[k]
    BY <1>3, <1>4 DEF TypeOK
  <2> QED
    BY <1>2, <2>1, <2>2 DEF TypeOK, PC, FromMake, InMPI
<1>7. TeamInv'
  BY <1>1, <1>2, <1>5, TeamKept
<1>8. \A u \in Thread : /\ pc'[u] = IF u = t THEN "work" ELSE pc[u]
                        /\ loop'[u] = loop[u]
  BY <1>1, MovePlaces
<1>9. PositionInv'
  <2>1. \A u \in Thread : pc'[u] # "advance"
    BY <1>3, <1>8
  <2>2. \A u \in Thread, k \in Loop :
          Past(u, k, FromLeave)' => k # k0 /\ Past(u, k, FromLeave)
    <3>1. \A u \in Thread, k \in Loop : Past(u, k, FromLeave)' <=> Past(u, k, FromLeave)
      BY <1>1, <1>5, StayPast
    <3>2. \A u \in Thread : Past(u, k0, FromLeave) => position[k0] = tasks[k0]
      BY <1>1 DEF PositionInv
    <3>3. position[k0] # tasks[k0]
      BY <1>1, <1>3 DEF TypeOK
    <3> QED
      BY <3>1, <3>2, <3>3
  <2>3. arrived[k0]["made"] = Thread
    <3>1. Past(t, k0, FromDraw)
      BY <1>1, <1>5 DEF Past
    <3> QED
      BY <1>1, <3>1 DEF TeamInv
  <2> QED
    BY <1>2, <1>4, <2>1, <2>2, <2>3 DEF PositionInv
<1>10. RunInv'
  <2> SUFFICES ASSUME NEW k \in Loop
               PROVE  /\ \A u \in Thread : loop[u] = k /\ pc'[u] = "work" =>
                            /\ task[u] \in 1..position'[k]
                            /\ \A x \in ran[k] : x[1] # task[u]
                            /\ \A v \in Thread :
                                  loop[v] = k /\ pc'[v] = "work" /\ task[v] = task[u] => u = v
                      /\ \A x \in ran[k] : x[1] \in 1..position'[k]
                      /\ \A x, y \in ran[k] : x[1] = y[1] => x = y
                      /\ \A i \in 1..position'[k] :
                            \/ \E x \in ran[k] : x[1] = i
                            \/ \E u \in Thread : loop[u] = k /\ pc'[u] = "work" /\ task[u] = i
    BY <1>2 DEF RunInv
  <2>1. /\ \A x \in ran[k] : x[1] \in 1..position[k]
        /\ \A x, y \in ran[k] : x[1] = y[1] => x = y
        /\ \A i \in 1..position[k] :
              \/ \E x \in ran[k] : x[1] = i
              \/ \E u \in Thread : loop[u] = k /\ pc[u] = "work" /\ task[u] = i
    BY DEF RunInv
  <2>2. \A u \in Thread : loop[u] = k /\ pc[u] = "work" =>
              /\ task[u] \in 1..position[k]
              /\ \A x \in ran[k] : x[1] # task[u]
              /\ \A v \in Thread :
                    loop[v] = k /\ pc[v] = "work" /\ task[v] = task[u] => u = v
    BY DEF RunInv
  <2>3. position[k] \in Nat /\ position'[k] \in {position[k], position[k] + 1}
    BY <1>3, <1>4
  <2>4. 1..position[k] \subseteq 1..position'[k]
    BY <2>3
  <2>5. k = k0 => /\ position'[k] = position[k] + 1
                  /\ task[t] = position'[k] /\ task[t] \in 1..position'[k]
                  /\ task[t] \notin 1..position[k]
    BY <1>3, <1>4, <2>3
  <2>6. ASSUME NEW u \in Thread, loop[u] = k, pc'[u] = "work"
        PROVE  /\ task[u] \in 1..position'[k]
               /\ \A x \in ran[k] : x[1] # task[u]
               /\ \A v \in Thread :
                     loop[v] = k /\ pc'[v] = "work" /\ task[v] = task[u] => u = v
    <3>1. CASE u = t
      BY <1>8, <2>1, <2>2, <2>5, <2>6, <3>1
    <3>2. CASE u # t
      BY <1>8, <2>1, <2>2, <2>4, <2>5, <2>6, <3>2
    <3> QED
      BY <3>1, <3>2
  <2>7. ASSUME NEW i \in 1..position'[k]
        PROVE  \/ \E x \in ran[k] : x[1] = i
               \/ \E u \in Thread : loop[u] = k /\ pc'[u] = "work" /\ task[u] = i
    <3>1. i \in 1..position[k] \/ (k = k0 /\ i = task[t])
      BY <1>4, <2>3, <2>5
    <3>2. CASE i \in 1..position[k]
      BY <1>1, <1>8, <2>1, <3>2
    <3>3. CASE k = k0 /\ i = task[t]
      BY <1>8, <3>3
    <3> QED
      BY <3>1, <3>2, <3>3
  <2> QED
    BY <2>1, <2>4, <2>6, <2>7
<1>11. CountInv'
  <2>1. C => \A k \in Loop : executor[k] # NoThread /\ Counted(k) # {} =>
                counter[Frame(k)][executor[k]] = Cardinality(Counted(k))
    BY DEF CountInv
  <2> QED
    BY <1>1, <1>2, <1>5, <2>1, CountKept
<1>12. FortranInv'
  BY <1>1, <1>2, <1>5, FortranKept
<1> QED
  BY <1>6, <1>7, <1>9, <1>10, <1>11, <1>12

LEMMA WorkInv == ASSUME IInv, NEW t \in Thread, Work(t) PROVE IInv'
<1> USE DEF IInv
<1> DEFINE k0 == loop[t]
           z  == <<task[t], t>>
<1>1. Moves(t, "draw") /\ pc[t] = "work" /\ k0 \in Loop
  BY DEF Work, Moves, TypeOK, PC, FromMake
<1>2. UNCHANGED <<program, loop, task, counter, tasks, position, deletes,
                  executor, deleter, arrived>>
  BY DEF Work, scheduleVars, teamVars
<1>3. /\ task[t] \in 1..position[k0]
      /\ \A x \in ran[k0] : x[1] # task[t]
      /\ \A u \in Thread : loop[u] = k0 /\ pc[u] = "work" /\ task[u] = task[t] => u = t
  BY <1>1 DEF RunInv
<1>4. ran \in [Loop -> SUBSET ((1..MaxTasks) \X Thread)]
  BY DEF TypeOK
<1>5. z \in (1..MaxTasks) \X Thread /\ z[1] = task[t]
  <2>1. position[k0] \in 0..tasks[k0] /\ tasks[k0] \in 0..MaxTasks /\ MaxTasks \in Nat
    BY <1>1, BoundsAssumption DEF TypeOK
  <2>2. task[t] \in 1..MaxTasks
    BY <1>3, <2>1
  <2> QED
    BY <2>2
<1> HIDE DEF z
<1>6. /\ ran' \in [Loop -> SUBSET ((1..MaxTasks) \X Thread)]
      /\ \A k \in Loop : ran'[k] = IF k = k0 THEN ran[k] \union {z} ELSE ran[k]
  <2>1. ran' = [ran EXCEPT ![k0] = @ \union {z}]
    BY DEF Work, z
  <2> QED
    BY <1>1, <1>4, <1>5, <2>1
<1>7. /\ {"draw", "work"} \subseteq FromDraw
      /\ "draw" \notin FromLooped /\ "work" \notin FromLooped
      /\ "draw" \notin FromLeave
  BY DEF FromMake, FromMade, FromDraw, FromLeave, FromLooped
<1>8. TypeOK'
  <2>1. pc' \in [Thread -> PC]
    BY <1>1 DEF Moves, GoTo, TypeOK, PC, FromMake, InMPI
  <2> QED
    BY <1>2, <1>6, <2>1 DEF TypeOK, PC, FromMake, InMPI
<1>9. TeamInv'
  BY <1>1, <1>2, <1>7, TeamKept
<1>10. PositionInv'
  BY <1>1, <1>2, <1>7, PositionKept
<1>11. \A u \in Thread : /\ pc'[u] = IF u = t THEN "draw" ELSE pc[u]
                         /\ loop'[u] = loop[u]
  BY <1>1, MovePlaces
<1>12. RunInv'
  <2>1. ASSUME NEW k \in Loop, NEW u \in Thread, loop[u] = k, pc'[u] = "work"
        PROVE  /\ task[u] \in 1..position[k]
               /\ \A x \in ran'[k] : x[1] # task[u]
               /\ \A v \in Thread :
                     loop[v] = k /\ pc'[v] = "work" /\ task[v] = task[u] => u = v
    <3>1. u # t /\ pc[u] = "work"
      BY <1>11, <2>1
    <3>2. /\ task[u] \in 1..position[k]
          /\ \A x \in ran[k] : x[1] # task[u]
          /\ \A v \in Thread :
                loop[v] = k /\ pc[v] = "work" /\ task[v] = task[u] => u = v
      BY <2>1, <3>1 DEF RunInv
    <3>3. k = k0 => task[u] # task[t]
      BY <1>3, <2>1, <3>1
    <3> QED
      BY <1>5, <1>6, <1>11, <3>2, <3>3
  <2>2. ASSUME NEW k \in Loop
        PROVE  /\ \A x \in ran'[k] : x[1] \in 1..position[k]
               /\ \A x, y \in ran'[k] : x[1] = y[1] => x = y
    <3>1. /\ \A x \in ran[k] : x[1] \in 1..position[k]
          /\ \A x, y \in ran[k] : x[1] = y[1] => x = y
      BY DEF RunInv
    <3> QED
      BY <1>3, <1>5, <1>6, <3>1
  <2>3. ASSUME NEW k \in Loop, NEW i \in 1..position[k]
        PROVE  \/ \E x \in ran'[k] : x[1] = i
               \/ \E u \in Thread : loop[u] = k /\ pc'[u] = "work" /\ task[u] = i
    <3>1. CASE \E x \in ran[k] : x[1] = i
      BY <1>6, <3>1
    <3>2. CASE \E u \in Thread : loop[u] = k /\ pc[u] = "work" /\ task[u] = i
      <4>1. PICK u \in Thread : loop[u] = k /\ pc[u] = "work" /\ task[u] = i
        BY <3>2
      <4>2. CASE u = t
        BY <1>5, <1>6, <4>1, <4>2
      <4>3. CASE u # t
        BY <1>11, <4>1, <4>3
      <4> QED
        BY <4>2, <4>3
    <3> QED
      BY <3>1, <3>2 DEF RunInv
  <2>4. loop' = loop /\ task' = task /\ position' = position
    BY <1>2
  <2> QED
    BY <2>1, <2>2, <2>3, <2>4 DEF RunInv
<1>13. CountInv'
  <2>1. C => \A k \in Loop : executor[k] # NoThread /\ Counted(k) # {} =>
                counter[Frame(k)][executor[k]] = Cardinality(Counted(k))
    BY DEF CountInv
  <2> QED
    BY <1>1, <1>2, <1>7, <2>1, CountKept
<1>14. FortranInv'
  BY <1>1, <1>2, <1>7, FortranKept
<1> QED
  BY <1>8, <1>9, <1>10, <1>12, <1>13, <1>14

LEMMA LeaveInv == ASSUME IInv, NEW t \in Thread, Leave(t) PROVE IInv'
<1> USE DEF IInv
<1> DEFINE k0 == loop[t]
           e  == executor[k0]
           n  == counter[Frame(k0)][e] - 1
           to == IF n = 0 THEN "delete" ELSE "out"
<1>1. Moves(t, to) /\ pc[t] = "leave" /\ k0 \in Loop /\ C
  BY DEF Leave, Moves, TypeOK, PC, FromMake
<1>2. UNCHANGED <<program, loop, task, tasks, position, deletes, ran,
                  executor, deleter, arrived>>
  BY DEF Leave, scheduleVars, teamVars
<1>3. /\ "leave" \in FromDraw /\ to \in FromDraw /\ "leave" \in FromLeave
      /\ to \in FromDelete /\ "leave" \notin FromDelete /\ "leave" \in FromMake
      /\ to \in {"delete", "out"}
  BY DEF FromMake, FromMade, FromDraw, FromLeave, FromLooped, FromDelete
<1>4. t \in Counted(k0) /\ Counted(k0) \subseteq Thread
  BY <1>1, <1>3 DEF Counted, Past, Loop
<1>5. e \in Thread
  <2>1. Past(t, k0, FromMake)
    BY <1>1, <1>3 DEF Past
  <2> QED
    BY <1>1, <2>1 DEF TeamInv, TypeOK
<1>6. counter[Frame(k0)][e] = Cardinality(Counted(k0))
  BY <1>1, <1>4, <1>5, ThreadAssumption DEF CountInv
<1>7. /\ IsFiniteSet(Counted(k0)) /\ Cardinality(Counted(k0)) \in Nat
      /\ Cardinality(Counted(k0)) <= Cardinality(Thread) /\ Cardinality(Thread) \in Nat
  BY <1>4, ThreadAssumption, FS_Subset, FS_CardinalityType
<1>8. n = Cardinality(Counted(k0) \ {t}) /\ IsFiniteSet(Counted(k0) \ {t}) /\ n \in 0..Cardinality(Thread)
  <2>1. Cardinality(Counted(k0) \ {t}) = Cardinality(Counted(k0)) - 1 /\ IsFiniteSet(Counted(k0) \ {t})
    BY <1>4, <1>7, FS_RemoveElement
  <2>2. Cardinality(Counted(k0) \ {t}) \in Nat
    BY <2>1, FS_CardinalityType
  <2> QED
    BY <1>6, <1>7, <2>1, <2>2
<1>9. n = 0 <=> Counted(k0) \ {t} = {}
  BY <1>8, FS_EmptySet
<1>10. Frame(k0) \in Loop /\ \A k \in Loop : Frame(k) \in Loop /\ Frame(k)' = Frame(k)
  BY <1>1, <1>2, BoundsAssumption DEF Frame, Loop
<1>11. /\ counter' \in [Loop -> [Thread -> 0..Cardinality(Thread)]]
       /\ \A i \in Loop, u \in Thread :
             counter'[i][u] = IF i = Frame(k0) /\ u = e THEN n ELSE counter[i][u]
  <2> DEFINE row == [counter[Frame(k0)] EXCEPT ![e] = n]
  <2>1. counter \in [Loop -> [Thread -> 0..Cardinality(Thread)]]
    BY DEF TypeOK
  <2>2. /\ row \in [Thread -> 0..Cardinality(Thread)]
        /\ \A u \in Thread : row[u] = IF u = e THEN n ELSE counter[Frame(k0)][u]
    <3>1. counter[Frame(k0)] \in [Thread -> 0..Cardinality(Thread)]
      BY <1>10, <2>1
    <3> HIDE DEF n, e
    <3> QED
      BY <1>5, <1>8, <3>1
  <2>3. counter' = [counter EXCEPT ![Frame(k0)] = row]
    BY DEF Leave
  <2> HIDE DEF row, n, e
  <2> QED
    BY <1>10, <2>1, <2>2, <2>3
<1> HIDE DEF n, to
<1>12. TypeOK'
  <2>1. pc' \in [Thread -> PC]
    BY <1>1 DEF Moves, GoTo, TypeOK, PC, FromMake, InMPI
  <2> QED
    BY <1>2, <1>11, <2>1 DEF TypeOK, PC, FromMake, InMPI
<1>13. TeamInv'
  BY <1>1, <1>2, <1>3, TeamKept
<1>14. PositionInv'
  BY <1>1, <1>2, <1>3, PositionKept
<1>15. RunInv'
  BY <1>1, <1>2, <1>3, RunKept
<1>16. FortranInv'
  BY <1>1, <1>2 DEF FortranInv, C
<1>17. \A u \in Thread : /\ pc'[u] = IF u = t THEN to ELSE pc[u]
                         /\ loop'[u] = loop[u]
  BY <1>1, MovePlaces
<1>18. \A k \in Loop : Counted(k)' = IF k = k0 THEN Counted(k) \ {t} ELSE Counted(k)
  <2> TAKE k \in Loop
  <2>1. \A u \in Thread : Past(u, k, FromDelete)' <=>
            (u = t /\ k = k0) \/ Past(u, k, FromDelete)
    BY <1>1, <1>3, MovePast
  <2>2. Counted(k)' = {u \in Thread : ~(Past(u, k, FromDelete)')}
    BY DEF Counted
  <2>3. \A u : u \in Counted(k)' <=> u \in Counted(k) /\ ~(u = t /\ k = k0)
    BY <2>1, <2>2 DEF Counted
  <2> QED
    BY <2>3
<1>19. CountInv'
  <2>1. \A u \in Thread : pc'[u] \notin {"looped", "deleted"}
    BY <1>1, <1>3, <1>17 DEF CountInv
  <2>2. \A k \in Loop : /\ \A u \in arrived[k]["looped"] : Past(u, k, {"out"})'
                        /\ \A u \in Thread : loop[u] > k /\ program.barrier =>
                              arrived[k]["looped"] = Thread
    <3>1. \A u \in Thread, k \in Loop : Past(u, k, {"out"}) => Past(u, k, {"out"})'
      <4>1. ~Past(t, k0, {"out"})
        BY <1>1 DEF Past, Loop
      <4> QED
        BY <1>1, <4>1, MovePast
    <3>2. \A k \in Loop : arrived[k]["looped"] \subseteq Thread
      BY DEF TypeOK, Barrier
    <3> QED
      BY <1>1, <3>1, <3>2 DEF CountInv
  <2>3. ASSUME NEW k \in Loop, executor[k] # NoThread, Counted(k)' # {}
        PROVE  counter'[Frame(k)][executor[k]] = Cardinality(Counted(k)')
    <3>1. CASE k = k0
      BY <1>5, <1>8, <1>10, <1>11, <1>18, <3>1
    <3>2. CASE k # k0
      <4>1. Counted(k)' = Counted(k) /\ executor[k] \in Thread
        BY <1>18, <2>3, <3>2 DEF TypeOK
      <4>2. counter[Frame(k)][executor[k]] = Cardinality(Counted(k))
        BY <1>1, <2>3, <4>1 DEF CountInv
      <4>3. Frame(k) # Frame(k0)
        BY <1>1, <2>3, <3>2, <4>1, SameFrame
      <4> QED
        BY <1>10, <1>11, <4>1, <4>2, <4>3
    <3> QED
      BY <3>1, <3>2
  <2>4. \A u \in Thread : ~(loop[u] = k0 /\ pc[u] = "delete")
    BY <1>1, <1>4 DEF CountInv
  <2>5. deletes[k0] = 0
    BY <1>1, <1>4 DEF CountInv
  <2>6. to = "delete" <=> Counted(k0) \ {t} = {}
    BY <1>9 DEF to
  <2>7. \A k \in Loop, u \in Thread : loop[u] = k /\ pc'[u] = "delete" =>
            IF k = k0 THEN u = t /\ to = "delete" ELSE pc[u] = "delete"
    BY <1>17, <2>4
  <2>8. ASSUME NEW k \in Loop
        PROVE  /\ \A u, v \in Thread :
                     loop[u] = k /\ pc'[u] = "delete" /\ loop[v] = k /\ pc'[v] = "delete" => u = v
               /\ \A u \in Thread : loop[u] = k /\ pc'[u] = "delete" =>
                     Counted(k)' = {} /\ deletes[k] = 0
               /\ Counted(k)' # {} => deletes[k] = 0
               /\ Counted(k)' = {} /\ (\A u \in Thread : ~(loop[u] = k /\ pc'[u] = "delete")) =>
                     deletes[k] = 1
    <3>1. CASE k = k0
      BY <1>17, <1>18, <2>5, <2>6, <2>7, <3>1
    <3>2. CASE k # k0
      <4>1. Counted(k)' = Counted(k)
        BY <1>18, <3>2
      <4>2. \A u \in Thread : loop[u] = k => (pc'[u] = "delete" <=> pc[u] = "delete")
        BY <1>17, <3>2
      <4> QED
        BY <1>1, <4>1, <4>2 DEF CountInv
    <3> QED
      BY <3>1, <3>2
  <2>9. KeepsCounter(program)' /\ C'
    BY <1>1, <1>2 DEF CountInv, KeepsCounter, C
  <2> QED
    BY <1>2, <1>10, <2>1, <2>2, <2>3, <2>8, <2>9 DEF CountInv
<1> QED
  BY <1>12, <1>13, <1>14, <1>15, <1>16, <1>19

LEMMA LeaveFortranInv == ASSUME IInv, NEW t \in Thread, LeaveFortran(t) PROVE IInv'
<1> USE DEF IInv
<1> DEFINE k0 == loop[t]
<1>1. Moves(t, "looped") /\ pc[t] = "leave" /\ k0 \in Loop /\ ~C
  BY DEF LeaveFortran, Moves, TypeOK, PC, FromMake
<1>2. UNCHANGED <<program, loop, task, counter, tasks, position, deletes, ran,
                  executor, deleter>>
  BY DEF LeaveFortran, scheduleVars
<1>3. Arrive(t, "looped") /\ "looped" \in Barrier
  BY DEF LeaveFortran, Barrier
<1>4. arrived' \in [Loop -> [Barrier -> SUBSET Thread]]
  BY <1>3, ArriveFacts DEF Comes
<1>5. \A k \in Loop, b \in Barrier :
        arrived'[k][b] = IF k = loop[t] /\ b = "looped" THEN arrived[k][b] \union {t}
                                                        ELSE arrived[k][b]
  <2>1. Comes(t, "looped")
    BY <1>3, ArriveFacts
  <2> QED
    BY <2>1 DEF Comes
<1>6. \A k \in Loop : /\ arrived'[k]["made"] = arrived[k]["made"]
                      /\ arrived'[k]["deleted"] = arrived[k]["deleted"]
                      /\ arrived'[k]["looped"] = IF k = k0 THEN arrived[k]["looped"] \union {t}
                                                           ELSE arrived[k]["looped"]
  BY <1>5 DEF Barrier
<1>7. /\ {"leave", "looped"} \subseteq FromDraw /\ "leave" \in FromLeave
      /\ "looped" \in FromLooped /\ "leave" \notin FromDelete /\ "looped" \notin FromDelete
      /\ "leave" \notin FromDeleted /\ "looped" \notin FromDeleted
  BY DEF FromMake, FromMade, FromDraw, FromLeave, FromLooped, FromDelete, FromDeleted
<1>8. TypeOK'
  <2>1. pc' \in [Thread -> PC]
    BY <1>1 DEF Moves, GoTo, TypeOK, PC, FromMake, InMPI
  <2> QED
    BY <1>2, <1>4, <2>1 DEF TypeOK, PC, FromMake, InMPI
<1>9. TeamInv'
  BY <1>1, <1>2, <1>6, <1>7, TeamKept
<1>10. PositionInv'
  BY <1>1, <1>2, <1>6, <1>7, PositionKept
<1>11. RunInv'
  BY <1>1, <1>2, RunKept
<1>12. CountInv'
  BY <1>1, <1>2 DEF CountInv, C
<1>13. FortranInv'
  <2>1. \A u \in Thread, k \in Loop :
          /\ Past(u, k, FromDelete)' <=> Past(u, k, FromDelete)
          /\ Past(u, k, FromDeleted)' <=> Past(u, k, FromDeleted)
          /\ Past(u, k, {"out"})' <=> Past(u, k, {"out"})
    BY <1>1, <1>7, StayPast
  <2>2. \A u \in Thread, k \in Loop :
          Past(u, k, FromLooped)' <=> Past(u, k, FromLooped) \/ (u = t /\ k = k0)
    BY <1>1, <1>7, MovePast
  <2>3. \A u \in Thread : pc'[u] = "delete" => pc[u] = "delete" /\ loop'[u] = loop[u]
    BY <1>1, MovePlaces
  <2>4. \A k \in Loop : arrived[k]["looped"] = Thread => arrived'[k]["looped"] = Thread
    BY <1>6
  <2>5. ASSUME NEW k \in Loop, NEW u \in Thread
        PROVE  u \in arrived'[k]["looped"] <=> Past(u, k, FromLooped)'
    <3>1. u \in arrived[k]["looped"] <=> Past(u, k, FromLooped)
      BY <1>1 DEF FortranInv
    <3> QED
      BY ZenonT(30), <1>6, <2>2, <3>1
  <2>6. ASSUME NEW k \in Loop, NEW u \in Thread
        PROVE  /\ deleter[k] = NoThread => ~(Past(u, k, FromDelete)')
               /\ deleter[k] = u => Past(u, k, FromDelete)'
               /\ u \in arrived'[k]["deleted"] <=> Past(u, k, FromDeleted)'
               /\ Past(u, k, FromDelete)' => arrived'[k]["looped"] = Thread
               /\ Past(u, k, {"out"})' => arrived'[k]["deleted"] = Thread
               /\ loop'[u] = k /\ pc'[u] = "delete" => deleter[k] = u
    <3>1. /\ deleter[k] = NoThread => ~Past(u, k, FromDelete)
          /\ deleter[k] = u => Past(u, k, FromDelete)
          /\ u \in arrived[k]["deleted"] <=> Past(u, k, FromDeleted)
          /\ Past(u, k, FromDelete) => arrived[k]["looped"] = Thread
          /\ Past(u, k, {"out"}) => arrived[k]["deleted"] = Thread
          /\ loop[u] = k /\ pc[u] = "delete" => deleter[k] = u
      BY <1>1 DEF FortranInv
    <3> QED
      BY <1>6, <2>1, <2>3, <2>4, <3>1
  <2>7. \A k \in Loop : deletes[k] = IF deleter[k] \in arrived'[k]["deleted"] THEN 1 ELSE 0
    BY <1>1, <1>6 DEF FortranInv
  <2> QED
    BY <1>2, <2>5, <2>6, <2>7 DEF FortranInv
<1> QED
  BY <1>8, <1>9, <1>10, <1>11, <1>12, <1>13

LEMMA LoopedInv == ASSUME IInv, NEW t \in Thread, Looped(t) PROVE IInv'
<1> USE DEF IInv
<1> DEFINE k0 == loop[t]
           to == IF deleter[k0] = NoThread THEN "delete" ELSE "deleted"
<1>1. Moves(t, to) /\ pc[t] = "looped" /\ k0 \in Loop /\ ~C /\ arrived[k0]["looped"] = Thread
  BY DEF Looped, Moves, TypeOK, PC, FromMake
<1>2. UNCHANGED <<program, loop, task, counter, tasks, position, deletes, ran, executor>>
  BY DEF Looped, scheduleVars
<1>3. /\ deleter' \in [Loop -> Thread \union {NoThread}]
      /\ \A k \in Loop :
            deleter'[k] = IF k = k0 /\ deleter[k] = NoThread THEN t ELSE deleter[k]
  BY <1>1 DEF Looped, TypeOK
<1>4. /\ arrived' \in [Loop -> [Barrier -> SUBSET Thread]]
      /\ \A k \in Loop, b \in Barrier :
            arrived'[k][b] = IF k = k0 /\ b = "deleted" /\ deleter[k0] # NoThread
                             THEN arrived[k][b] \union {t} ELSE arrived[k][b]
  <2>1. CASE deleter[k0] = NoThread
    BY <2>1 DEF Looped, TypeOK
  <2>2. CASE deleter[k0] # NoThread
    <3>1. Arrive(t, "deleted") /\ "deleted" \in Barrier
      BY <2>2 DEF Looped, Barrier
    <3>2. Comes(t, "deleted")
      BY <3>1, ArriveFacts
    <3> QED
      BY <2>2, <3>2 DEF Comes
  <2> QED
    BY <2>1, <2>2
<1>5. \A k \in Loop : /\ arrived'[k]["made"] = arrived[k]["made"]
                      /\ arrived'[k]["looped"] = arrived[k]["looped"]
                      /\ arrived'[k]["deleted"] =
                            IF k = k0 /\ deleter[k0] # NoThread
                            THEN arrived[k]["deleted"] \union {t} ELSE arrived[k]["deleted"]
  <2>1. {"made", "looped", "deleted"} \subseteq Barrier
    BY DEF Barrier
  <2> QED
    BY <1>4, <2>1
<1>6. /\ "looped" \in FromDraw /\ to \in FromDraw /\ "looped" \in FromLeave
      /\ to \in FromLooped /\ "looped" \in FromLooped /\ to \in FromDelete /\ "looped" \notin FromDelete
      /\ "looped" \notin FromDeleted /\ to \in {"delete", "deleted"}
      /\ "delete" \notin FromDeleted /\ "deleted" \in FromDeleted
  BY DEF FromMake, FromMade, FromDraw, FromLeave, FromLooped, FromDelete, FromDeleted
<1>7. TypeOK'
  <2>1. pc' \in [Thread -> PC]
    BY <1>1 DEF Moves, GoTo, TypeOK, PC, FromMake, InMPI
  <2> QED
    BY <1>2, <1>3, <1>4, <2>1 DEF TypeOK, PC, FromMake, InMPI
<1>8. TeamInv'
  BY <1>1, <1>2, <1>5, <1>6, TeamKept
<1>9. PositionInv'
  BY <1>1, <1>2, <1>5, <1>6, PositionKept
<1>10. RunInv'
  BY <1>1, <1>2, <1>6, RunKept
<1>11. CountInv'
  BY <1>1, <1>2 DEF CountInv, C
<1>12. FortranInv'
  <2>1. \A u \in Thread, k \in Loop :
          Past(u, k, FromLooped)' <=> Past(u, k, FromLooped)
    BY <1>1, <1>6, StayPast
  <2>2. \A u \in Thread, k \in Loop : Past(u, k, {"out"})' <=> Past(u, k, {"out"})
    <3>1. to \notin {"out"} /\ pc[t] \notin {"out"}
      BY <1>1, <1>6
    <3> QED
      BY <1>1, <3>1, StayPast
  <2>3. \A u \in Thread, k \in Loop :
          Past(u, k, FromDelete)' <=> Past(u, k, FromDelete) \/ (u = t /\ k = k0)
    BY <1>1, <1>6, MovePast
  <2>4. \A u \in Thread, k \in Loop :
          Past(u, k, FromDeleted)' <=>
             Past(u, k, FromDeleted) \/ (u = t /\ k = k0 /\ deleter[k0] # NoThread)
    <3>1. ~Past(t, k0, FromDeleted)
      BY <1>1, <1>6 DEF Past, Loop
    <3>2. to \in FromDeleted <=> deleter[k0] # NoThread
      BY <1>6
    <3> HIDE DEF to
    <3> QED
      BY <1>1, <3>1, <3>2, MovePast
  <2>5. \A u \in Thread : /\ pc'[u] = IF u = t THEN to ELSE pc[u]
                          /\ loop'[u] = loop[u]
    BY <1>1, MovePlaces
  <2>6. ~Past(t, k0, FromDelete)
    BY <1>1, <1>6 DEF Past, Loop
  <2>7. deleter[k0] # t
    BY <1>1, <2>6 DEF FortranInv
  <2>8. ASSUME NEW k \in Loop, NEW u \in Thread
        PROVE  /\ deleter'[k] = NoThread => ~(Past(u, k, FromDelete)')
               /\ deleter'[k] = u => Past(u, k, FromDelete)'
               /\ u \in arrived'[k]["looped"] <=> Past(u, k, FromLooped)'
               /\ u \in arrived'[k]["deleted"] <=> Past(u, k, FromDeleted)'
               /\ Past(u, k, FromDelete)' => arrived'[k]["looped"] = Thread
               /\ Past(u, k, {"out"})' => arrived'[k]["deleted"] = Thread
               /\ loop'[u] = k /\ pc'[u] = "delete" => deleter'[k] = u
    <3>1. /\ deleter[k] = NoThread => ~Past(u, k, FromDelete)
          /\ deleter[k] = u => Past(u, k, FromDelete)
          /\ u \in arrived[k]["looped"] <=> Past(u, k, FromLooped)
          /\ u \in arrived[k]["deleted"] <=> Past(u, k, FromDeleted)
          /\ Past(u, k, FromDelete) => arrived[k]["looped"] = Thread
          /\ Past(u, k, {"out"}) => arrived[k]["deleted"] = Thread
          /\ loop[u] = k /\ pc[u] = "delete" => deleter[k] = u
      BY <1>1 DEF FortranInv
    <3>2. deleter'[k] = NoThread => ~(Past(u, k, FromDelete)')
      BY <1>3, <2>3, <3>1, ThreadAssumption
    <3>3. deleter'[k] = u => Past(u, k, FromDelete)'
      BY <1>3, <2>3, <3>1, ThreadAssumption
    <3>4. u \in arrived'[k]["deleted"] <=> Past(u, k, FromDeleted)'
      <4>1. u \in arrived'[k]["deleted"] <=>
               u \in arrived[k]["deleted"] \/ (u = t /\ k = k0 /\ deleter[k0] # NoThread)
        BY ZenonT(30), <1>5
      <4> QED
        BY <2>4, <3>1, <4>1
    <3>5. Past(u, k, FromDelete)' => arrived'[k]["looped"] = Thread
      BY <1>1, <1>5, <2>3, <3>1
    <3>6. arrived[k]["deleted"] = Thread => arrived'[k]["deleted"] = Thread
      BY <1>5
    <3>7. loop'[u] = k /\ pc'[u] = "delete" => deleter'[k] = u
      BY <1>3, <2>5, <3>1, ThreadAssumption
    <3> QED
      BY <1>5, <2>1, <2>2, <3>1, <3>2, <3>3, <3>4, <3>5, <3>6, <3>7
  <2>9. ASSUME NEW k \in Loop
        PROVE  deletes[k] = IF deleter'[k] \in arrived'[k]["deleted"] THEN 1 ELSE 0
    <3>1. deletes[k] = IF deleter[k] \in arrived[k]["deleted"] THEN 1 ELSE 0
      BY <1>1 DEF FortranInv
    <3>2. deleter'[k] \in arrived'[k]["deleted"] <=> deleter[k] \in arrived[k]["deleted"]
      <4>1. CASE k = k0 /\ deleter[k0] = NoThread
        <5>1. t \notin arrived[k]["deleted"]
          BY <1>1, <1>6, <4>1 DEF FortranInv, Past, Loop
        <5>2. arrived[k]["deleted"] \subseteq Thread
          BY DEF TypeOK, Barrier
        <5> QED
          BY <1>3, <1>5, <4>1, <5>1, <5>2, ThreadAssumption
      <4>2. CASE ~(k = k0 /\ deleter[k0] = NoThread)
        <5>1. deleter'[k] = deleter[k]
          BY <1>3, <4>2
        <5>2. k = k0 => deleter[k] # t
          BY <2>7
        <5>3. \A d : d \in arrived'[k]["deleted"] =>
                d \in arrived[k]["deleted"] \/ (d = t /\ k = k0)
          BY ZenonT(30), <1>5
        <5>4. \A d : d \in arrived[k]["deleted"] => d \in arrived'[k]["deleted"]
          BY <1>5
        <5> QED
          BY <5>1, <5>2, <5>3, <5>4
      <4> QED
        BY <4>1, <4>2
    <3> QED
      BY <3>1, <3>2
  <2> QED
    BY <1>2, <2>8, <2>9 DEF FortranInv
<1> QED
  BY <1>7, <1>8, <1>9, <1>10, <1>11, <1>12

LEMMA DeleteInvC == ASSUME IInv, NEW t \in Thread, Delete(t), C PROVE IInv'
<1> USE DEF IInv
<1> DEFINE k0 == loop[t]
<1>1. Moves(t, "out") /\ pc[t] = "delete" /\ k0 \in Loop
  BY DEF Delete, Moves, TypeOK, PC, FromMake
<1>2. UNCHANGED <<program, loop, executor, deleter, task, counter, tasks, position, ran, arrived>>
  BY DEF Delete
<1>3. deletes[k0] = 0 /\ Counted(k0) = {}
  BY <1>1 DEF CountInv
<1>4. /\ deletes' \in [Loop -> 0..1]
      /\ \A k \in Loop : deletes'[k] = IF k = k0 THEN 1 ELSE deletes[k]
  BY <1>1, <1>3 DEF Delete, TypeOK
<1>5. /\ {"delete", "out"} \subseteq FromDraw /\ {"delete", "out"} \subseteq FromLeave
      /\ {"delete", "out"} \subseteq FromDelete
  BY DEF FromMake, FromMade, FromDraw, FromLeave, FromLooped, FromDelete
<1>6. TypeOK'
  <2>1. pc' \in [Thread -> PC]
    BY <1>1 DEF Moves, GoTo, TypeOK, PC, FromMake, InMPI
  <2> QED
    BY <1>2, <1>4, <2>1 DEF TypeOK, PC, FromMake, InMPI
<1>7. TeamInv'
  BY <1>1, <1>2, <1>5, TeamKept
<1>8. PositionInv'
  BY <1>1, <1>2, <1>5, PositionKept
<1>9. RunInv'
  BY <1>1, <1>2, RunKept
<1>10. FortranInv'
  BY <1>2 DEF FortranInv, C
<1>11. \A u \in Thread : /\ pc'[u] = IF u = t THEN "out" ELSE pc[u]
                         /\ loop'[u] = loop[u]
  BY <1>1, MovePlaces
<1>12. \A k \in Loop : Counted(k)' = Counted(k)
  <2> TAKE k \in Loop
  <2>1. \A u \in Thread : Past(u, k, FromDelete)' <=> Past(u, k, FromDelete)
    BY <1>1, <1>5, StayPast
  <2>2. Counted(k)' = {u \in Thread : ~(Past(u, k, FromDelete)')}
    BY DEF Counted
  <2> QED
    BY <2>1, <2>2 DEF Counted
<1>13. CountInv'
  <2>1. \A u \in Thread, k \in Loop : Past(u, k, {"out"}) => Past(u, k, {"out"})'
    BY <1>1, MovePast
  <2>2. \A k \in Loop : arrived[k]["looped"] \subseteq Thread
    BY DEF TypeOK, Barrier
  <2>3. ASSUME NEW k \in Loop
        PROVE  /\ \A u \in arrived[k]["looped"] : Past(u, k, {"out"})'
               /\ \A u \in Thread : loop[u] > k /\ program.barrier =>
                     arrived[k]["looped"] = Thread
               /\ executor[k] # NoThread /\ Counted(k) # {} =>
                     counter[Frame(k)][executor[k]] = Cardinality(Counted(k))
    BY <2>1, <2>2 DEF CountInv
  <2>4. \A u \in Thread : ~(loop[u] = k0 /\ pc'[u] = "delete")
    BY <1>1, <1>11 DEF CountInv
  <2>5. ASSUME NEW k \in Loop
        PROVE  /\ \A u, v \in Thread :
                     loop[u] = k /\ pc'[u] = "delete" /\ loop[v] = k /\ pc'[v] = "delete" => u = v
               /\ \A u \in Thread : loop[u] = k /\ pc'[u] = "delete" =>
                     Counted(k) = {} /\ deletes'[k] = 0
               /\ Counted(k) # {} => deletes'[k] = 0
               /\ Counted(k) = {} /\ (\A u \in Thread : ~(loop[u] = k /\ pc'[u] = "delete")) =>
                     deletes'[k] = 1
    <3>1. CASE k = k0
      BY <1>3, <1>4, <2>4, <3>1
    <3>2. CASE k # k0
      <4>1. \A u \in Thread : loop[u] = k => (pc'[u] = "delete" <=> pc[u] = "delete")
        BY <1>11, <3>2
      <4> QED
        BY <1>4, <3>2, <4>1 DEF CountInv
    <3> QED
      BY <3>1, <3>2
  <2>6. /\ KeepsCounter(program)' /\ C' /\ \A u \in Thread : pc'[u] \notin {"looped", "deleted"}
        /\ \A k \in Loop : Frame(k)' = Frame(k)
    BY <1>2, <1>11 DEF CountInv, KeepsCounter, C, Frame
  <2> QED
    BY <1>2, <1>12, <2>3, <2>5, <2>6 DEF CountInv
<1> QED
  BY <1>6, <1>7, <1>8, <1>9, <1>10, <1>13

LEMMA DeleteInvFortran == ASSUME IInv, NEW t \in Thread, Delete(t), ~C PROVE IInv'
<1> USE DEF IInv
<1> DEFINE k0 == loop[t]
<1>1. Moves(t, "deleted") /\ pc[t] = "delete" /\ k0 \in Loop
  BY DEF Delete, Moves, TypeOK, PC, FromMake
<1>2. UNCHANGED <<program, loop, executor, deleter, task, counter, tasks, position, ran>>
  BY DEF Delete
<1>3. Comes(t, "deleted")
  <2>1. Arrive(t, "deleted") /\ "deleted" \in Barrier
    BY DEF Delete, Barrier
  <2> QED
    BY <2>1, ArriveFacts
<1>4. arrived' \in [Loop -> [Barrier -> SUBSET Thread]]
  BY <1>3 DEF Comes
<1>5. \A k \in Loop : /\ arrived'[k]["made"] = arrived[k]["made"]
                      /\ arrived'[k]["looped"] = arrived[k]["looped"]
                      /\ arrived'[k]["deleted"] =
                            IF k = k0 THEN arrived[k]["deleted"] \union {t}
                                      ELSE arrived[k]["deleted"]
  <2>1. {"made", "looped", "deleted"} \subseteq Barrier
    BY DEF Barrier
  <2> QED
    BY <1>3, <2>1 DEF Comes
<1>6. /\ {"delete", "deleted"} \subseteq FromDraw /\ {"delete", "deleted"} \subseteq FromLeave
      /\ {"delete", "deleted"} \subseteq FromLooped /\ {"delete", "deleted"} \subseteq FromDelete
      /\ "delete" \notin FromDeleted /\ "deleted" \in FromDeleted
  BY DEF FromMake, FromMade, FromDraw, FromLeave, FromLooped, FromDelete, FromDeleted
<1>7. deleter[k0] = t /\ t \notin arrived[k0]["deleted"]
  BY <1>1, <1>6 DEF FortranInv, Past, Loop
<1>8. deletes[k0] = 0
  BY <1>1, <1>7 DEF FortranInv
<1>9. /\ deletes' \in [Loop -> 0..1]
      /\ \A k \in Loop : deletes'[k] = IF k = k0 THEN 1 ELSE deletes[k]
  BY <1>1, <1>8 DEF Delete, TypeOK
<1>10. TypeOK'
  <2>1. pc' \in [Thread -> PC]
    BY <1>1 DEF Moves, GoTo, TypeOK, PC, FromMake, InMPI
  <2> QED
    BY <1>2, <1>4, <1>9, <2>1 DEF TypeOK, PC, FromMake, InMPI
<1>11. TeamInv'
  BY <1>1, <1>2, <1>5, <1>6, TeamKept
<1>12. PositionInv'
  BY <1>1, <1>2, <1>5, <1>6, PositionKept
<1>13. RunInv'
  BY <1>1, <1>2, RunKept
<1>14. CountInv'
  BY <1>2 DEF CountInv, C
<1>15. FortranInv'
  <2>1. \A u \in Thread, k \in Loop :
          /\ Past(u, k, FromLooped)' <=> Past(u, k, FromLooped)
          /\ Past(u, k, FromDelete)' <=> Past(u, k, FromDelete)
          /\ Past(u, k, {"out"})' <=> Past(u, k, {"out"})
    BY <1>1, <1>6, StayPast
  <2>2. \A u \in Thread, k \in Loop :
          Past(u, k, FromDeleted)' <=> Past(u, k, FromDeleted) \/ (u = t /\ k = k0)
    BY <1>1, <1>6, MovePast
  <2>3. \A u \in Thread : pc'[u] = "delete" => pc[u] = "delete" /\ loop'[u] = loop[u]
    BY <1>1, MovePlaces
  <2>4. ASSUME NEW k \in Loop, NEW u \in Thread
        PROVE  /\ deleter[k] = NoThread => ~(Past(u, k, FromDelete)')
               /\ deleter[k] = u => Past(u, k, FromDelete)'
               /\ u \in arrived'[k]["looped"] <=> Past(u, k, FromLooped)'
               /\ u \in arrived'[k]["deleted"] <=> Past(u, k, FromDeleted)'
               /\ Past(u, k, FromDelete)' => arrived'[k]["looped"] = Thread
               /\ Past(u, k, {"out"})' => arrived'[k]["deleted"] = Thread
               /\ loop'[u] = k /\ pc'[u] = "delete" => deleter[k] = u
    <3>1. /\ deleter[k] = NoThread => ~Past(u, k, FromDelete)
          /\ deleter[k] = u => Past(u, k, FromDelete)
          /\ u \in arrived[k]["looped"] <=> Past(u, k, FromLooped)
          /\ u \in arrived[k]["deleted"] <=> Past(u, k, FromDeleted)
          /\ Past(u, k, FromDelete) => arrived[k]["looped"] = Thread
          /\ Past(u, k, {"out"}) => arrived[k]["deleted"] = Thread
          /\ loop[u] = k /\ pc[u] = "delete" => deleter[k] = u
      BY DEF FortranInv
    <3>2. u \in arrived'[k]["deleted"] <=> u \in arrived[k]["deleted"] \/ (u = t /\ k = k0)
      BY ZenonT(30), <1>5
    <3>3. arrived[k]["deleted"] = Thread => arrived'[k]["deleted"] = Thread
      BY <1>5
    <3> QED
      BY <1>5, <2>1, <2>2, <2>3, <3>1, <3>2, <3>3
  <2>5. ASSUME NEW k \in Loop
        PROVE  deletes'[k] = IF deleter[k] \in arrived'[k]["deleted"] THEN 1 ELSE 0
    <3>1. CASE k = k0
      BY <1>5, <1>7, <1>9, <3>1
    <3>2. CASE k # k0
      BY ZenonT(30), <1>5, <1>9, <3>2 DEF FortranInv
    <3> QED
      BY <3>1, <3>2
  <2> QED
    BY <1>2, <2>4, <2>5 DEF FortranInv
<1> QED
  BY <1>10, <1>11, <1>12, <1>13, <1>14, <1>15

LEMMA DeletedInv == ASSUME IInv, NEW t \in Thread, Deleted(t) PROVE IInv'
<1> USE DEF IInv
<1> DEFINE k0 == loop[t]
<1>1. Moves(t, "out") /\ pc[t] = "deleted" /\ k0 \in Loop /\ arrived[k0]["deleted"] = Thread
  BY DEF Deleted, Moves, TypeOK, PC, FromMake
<1>2. UNCHANGED <<program, loop, task, counter, ran, tasks, position, deletes,
                  executor, deleter, arrived>>
  BY DEF Deleted, scheduleVars, teamVars
<1>3. ~C
  BY <1>1 DEF CountInv
<1>4. /\ {"deleted", "out"} \subseteq FromDraw /\ {"deleted", "out"} \subseteq FromLeave
      /\ {"deleted", "out"} \subseteq FromLooped /\ {"deleted", "out"} \subseteq FromDelete
      /\ {"deleted", "out"} \subseteq FromDeleted
  BY DEF FromMake, FromMade, FromDraw, FromLeave, FromLooped, FromDelete, FromDeleted
<1>5. TypeOK'
  <2>1. pc' \in [Thread -> PC]
    BY <1>1 DEF Moves, GoTo, TypeOK, PC, FromMake, InMPI
  <2> QED
    BY <1>2, <2>1 DEF TypeOK, PC, FromMake, InMPI
<1>6. TeamInv'
  BY <1>1, <1>2, <1>4, TeamKept
<1>7. PositionInv'
  BY <1>1, <1>2, <1>4, PositionKept
<1>8. RunInv'
  BY <1>1, <1>2, RunKept
<1>9. CountInv'
  BY <1>2, <1>3 DEF CountInv, C
<1>10. FortranInv'
  <2>1. \A u \in Thread, k \in Loop :
          /\ Past(u, k, FromLooped)' <=> Past(u, k, FromLooped)
          /\ Past(u, k, FromDelete)' <=> Past(u, k, FromDelete)
          /\ Past(u, k, FromDeleted)' <=> Past(u, k, FromDeleted)
    BY <1>1, <1>4, StayPast
  <2>2. \A u \in Thread, k \in Loop :
          Past(u, k, {"out"})' => Past(u, k, {"out"}) \/ k = k0
    BY <1>1, MovePast
  <2>3. \A u \in Thread : pc'[u] = "delete" => pc[u] = "delete" /\ loop'[u] = loop[u]
    BY <1>1, MovePlaces
  <2>4. ASSUME NEW k \in Loop, NEW u \in Thread
        PROVE  /\ deleter[k] = NoThread => ~(Past(u, k, FromDelete)')
               /\ deleter[k] = u => Past(u, k, FromDelete)'
               /\ u \in arrived[k]["looped"] <=> Past(u, k, FromLooped)'
               /\ u \in arrived[k]["deleted"] <=> Past(u, k, FromDeleted)'
               /\ Past(u, k, FromDelete)' => arrived[k]["looped"] = Thread
               /\ Past(u, k, {"out"})' => arrived[k]["deleted"] = Thread
               /\ loop'[u] = k /\ pc'[u] = "delete" => deleter[k] = u
    BY <1>1, <1>3, <2>1, <2>2, <2>3 DEF FortranInv
  <2>5. \A k \in Loop : deletes[k] = IF deleter[k] \in arrived[k]["deleted"] THEN 1 ELSE 0
    BY <1>3 DEF FortranInv
  <2> QED
    BY <1>2, <2>4, <2>5 DEF FortranInv
<1> QED
  BY <1>5, <1>6, <1>7, <1>8, <1>9, <1>10

\* Case A: the thread comes to the user's barrier.
LEMMA BarrierInv ==
    ASSUME IInv, NEW t \in Thread, NextLoop(t), C, program.barrier,
           t \notin arrived[loop[t]]["looped"]
    PROVE  IInv'
<1> USE DEF IInv
<1> DEFINE k0 == loop[t]
<1>1. pc[t] = "out" /\ k0 \in Loop /\ pc' = pc /\ loop' = loop
  BY DEF NextLoop, TypeOK
<1>2. UNCHANGED <<program, executor, deleter, task, counter, ran, tasks, position, deletes>>
  BY DEF NextLoop, scheduleVars
<1>3. Comes(t, "looped")
  <2>1. Arrive(t, "looped") /\ "looped" \in Barrier
    BY DEF NextLoop, Barrier
  <2> QED
    BY <2>1, ArriveFacts
<1>4. arrived' \in [Loop -> [Barrier -> SUBSET Thread]]
  BY <1>3 DEF Comes
<1>5. \A k \in Loop : /\ arrived'[k]["made"] = arrived[k]["made"]
                      /\ arrived'[k]["looped"] =
                            IF k = k0 THEN arrived[k]["looped"] \union {t}
                                      ELSE arrived[k]["looped"]
  <2>1. {"made", "looped", "deleted"} \subseteq Barrier
    BY DEF Barrier
  <2> QED
    BY <1>3, <2>1 DEF Comes
<1>6. \A u, k, S : Past(u, k, S)' <=> Past(u, k, S)
  BY <1>1 DEF Past
<1>7. TypeOK'
  BY <1>1, <1>2, <1>4 DEF TypeOK
<1>8. TeamInv'
  BY ZenonT(30), <1>1, <1>2, <1>5, <1>6 DEF TeamInv
<1>9. PositionInv'
  BY <1>1, <1>2, <1>5, <1>6 DEF PositionInv
<1>10. RunInv'
  BY <1>1, <1>2 DEF RunInv
<1>11. FortranInv'
  BY <1>2 DEF FortranInv, C
<1>12. CountInv'
  <2>1. KeepsCounter(program)' /\ \A k \in Loop : Frame(k)' = Frame(k)
    BY <1>2 DEF KeepsCounter, CountInv, Frame
  <2>2. \A k \in Loop : Counted(k)' = Counted(k)
    <3> TAKE k \in Loop
    <3>1. Counted(k)' = {u \in Thread : ~(Past(u, k, FromDelete)')}
      BY DEF Counted
    <3> QED
      BY <1>6, <3>1 DEF Counted
  <2>3. Past(t, k0, {"out"})
    BY <1>1 DEF Past
  <2>4. ASSUME NEW k \in Loop
        PROVE  /\ \A u \in arrived'[k]["looped"] : Past(u, k, {"out"})
               /\ \A u \in Thread : loop[u] > k /\ program.barrier =>
                     arrived'[k]["looped"] = Thread
    <3>1. /\ \A u \in arrived[k]["looped"] : Past(u, k, {"out"})
          /\ \A u \in Thread : loop[u] > k /\ program.barrier =>
                arrived[k]["looped"] = Thread
      BY DEF CountInv
    <3> QED
      BY <1>5, <2>3, <3>1
  <2> QED
    BY <1>1, <1>2, <1>6, <2>1, <2>2, <2>4 DEF CountInv
<1> QED
  BY <1>7, <1>8, <1>9, <1>10, <1>11, <1>12

\* Case B: the thread goes on to the next loop.
LEMMA GoOnInv ==
    ASSUME IInv, NEW t \in Thread, NextLoop(t),
           ~(C /\ program.barrier /\ t \notin arrived[loop[t]]["looped"])
    PROVE  IInv'
<1> USE DEF IInv
<1> DEFINE k0 == loop[t]
<1>1. /\ pc[t] = "out" /\ k0 \in Loop /\ k0 < NumLoops
      /\ C /\ program.barrier => arrived[k0]["looped"] = Thread
      /\ loop' = [loop EXCEPT ![t] = @ + 1]
      /\ pc' = [pc EXCEPT ![t] = "enter"]
  BY DEF NextLoop, TypeOK, GoTo
<1>2. UNCHANGED <<program, executor, deleter, task, counter, ran, tasks, position, deletes,
                  arrived>>
  BY DEF NextLoop, scheduleVars
<1>3. /\ pc \in [Thread -> PC] /\ loop \in [Thread -> Loop] /\ Loop \subseteq Int
      /\ k0 + 1 \in Loop
  BY SMTT(30), <1>1, BoundsAssumption DEF TypeOK, PC, FromMake, InMPI, Loop
<1>4. /\ pc' \in [Thread -> PC] /\ loop' \in [Thread -> Loop]
      /\ \A u \in Thread : /\ pc'[u] = IF u = t THEN "enter" ELSE pc[u]
                           /\ loop'[u] = IF u = t THEN k0 + 1 ELSE loop[u]
  BY <1>1, <1>3 DEF PC, FromMake
<1>5. ASSUME NEW S, "out" \in S, "enter" \notin S, NEW u \in Thread, NEW k \in Loop
      PROVE  Past(u, k, S)' <=> Past(u, k, S)
  <2>1. CASE u = t
    <3>1. Past(u, k, S)' <=> k0 + 1 > k
      <4>1. Past(u, k, S)' <=> loop'[u] > k \/ (loop'[u] = k /\ pc'[u] \in S)
        BY DEF Past
      <4> QED
        BY <1>4, <1>5, <2>1, <4>1
    <3>2. Past(u, k, S) <=> k0 > k \/ k0 = k
      BY <1>1, <1>5, <2>1 DEF Past
    <3>3. k0 \in Int /\ k \in Int
      BY <1>1, <1>3
    <3> HIDE DEF k0
    <3> QED
      BY <3>1, <3>2, <3>3
  <2>2. CASE u # t
    BY <1>4, <2>2 DEF Past
  <2> QED
    BY <2>1, <2>2
<1>6. \A u \in Thread, k \in Loop :
        /\ Past(u, k, FromMake)' <=> Past(u, k, FromMake)
        /\ Past(u, k, FromMade)' <=> Past(u, k, FromMade)
        /\ Past(u, k, FromDraw)' <=> Past(u, k, FromDraw)
        /\ Past(u, k, FromLeave)' <=> Past(u, k, FromLeave)
        /\ Past(u, k, FromLooped)' <=> Past(u, k, FromLooped)
        /\ Past(u, k, FromDelete)' <=> Past(u, k, FromDelete)
        /\ Past(u, k, FromDeleted)' <=> Past(u, k, FromDeleted)
        /\ Past(u, k, {"out"})' <=> Past(u, k, {"out"})
  <2>1. ASSUME NEW S \in {FromMake, FromMade, FromDraw, FromLeave, FromLooped,
                          FromDelete, FromDeleted, {"out"}}
        PROVE  "out" \in S /\ "enter" \notin S
    BY DEF FromMake, FromMade, FromDraw, FromLeave, FromLooped, FromDelete, FromDeleted
  <2> QED
    BY <1>5, <2>1
<1>7. ASSUME NEW u \in Thread, NEW x, x # "enter", x # "out"
      PROVE  (pc'[u] = x <=> pc[u] = x) /\ (pc[u] = x => loop'[u] = loop[u])
  BY <1>1, <1>4, <1>7
<1>8. \A u \in Thread :
        /\ (pc'[u] = "make" <=> pc[u] = "make") /\ (pc[u] = "make" => loop'[u] = loop[u])
        /\ (pc'[u] = "advance" <=> pc[u] = "advance")
        /\ (pc[u] = "advance" => loop'[u] = loop[u])
        /\ (pc'[u] = "work" <=> pc[u] = "work") /\ (pc[u] = "work" => loop'[u] = loop[u])
        /\ (pc'[u] = "delete" <=> pc[u] = "delete") /\ (pc[u] = "delete" => loop'[u] = loop[u])
  BY <1>7
<1>9. TypeOK'
  BY <1>2, <1>4 DEF TypeOK, PC, FromMake, InMPI
<1>10. TeamInv'
  BY <1>2, <1>6, <1>8 DEF TeamInv
<1>11. PositionInv'
  BY <1>2, <1>6, <1>8 DEF PositionInv
<1>12. RunInv'
  BY <1>2, <1>8 DEF RunInv
<1>13. CountInv'
  <2> SUFFICES ASSUME C PROVE CountInv'
    BY <1>2 DEF CountInv, C
  <2>1. KeepsCounter(program)' /\ \A k \in Loop : Frame(k)' = Frame(k)
    BY <1>2 DEF KeepsCounter, CountInv, Frame
  <2>2. \A k \in Loop : Counted(k)' = Counted(k)
    <3> TAKE k \in Loop
    <3>1. Counted(k)' = {u \in Thread : ~(Past(u, k, FromDelete)')}
      BY DEF Counted
    <3> QED
      BY <1>6, <3>1 DEF Counted
  <2>3. \A k \in Loop : arrived[k]["looped"] \subseteq Thread
    BY DEF TypeOK, Barrier
  <2>4. ASSUME NEW k \in Loop, NEW u \in Thread, loop'[u] > k, program.barrier
        PROVE  arrived[k]["looped"] = Thread
    <3>1. CASE u = t /\ k = k0
      BY <1>1, <2>4, <3>1
    <3>2. CASE ~(u = t /\ k = k0)
      <4>1. loop[u] > k
        BY <1>3, <1>4, <2>4, <3>2
      <4> QED
        BY <2>4, <4>1 DEF CountInv
    <3> QED
      BY <3>1, <3>2
  <2>5. \A u \in Thread : pc'[u] \notin {"looped", "deleted"}
    BY <1>4 DEF CountInv
  <2>6. ASSUME NEW k \in Loop
        PROVE  /\ \A u \in arrived[k]["looped"] : Past(u, k, {"out"})'
               /\ executor[k] # NoThread /\ Counted(k) # {} =>
                     counter[Frame(k)][executor[k]] = Cardinality(Counted(k))
    BY <1>6, <2>3 DEF CountInv
  <2>7. \A k \in Loop, u \in Thread :
          loop'[u] = k /\ pc'[u] = "delete" <=> loop[u] = k /\ pc[u] = "delete"
    BY <1>8
  <2>8. ASSUME NEW k \in Loop
        PROVE  /\ \A u, v \in Thread :
                     loop'[u] = k /\ pc'[u] = "delete" /\ loop'[v] = k /\ pc'[v] = "delete" => u = v
               /\ \A u \in Thread : loop'[u] = k /\ pc'[u] = "delete" =>
                     Counted(k) = {} /\ deletes[k] = 0
               /\ Counted(k) # {} => deletes[k] = 0
               /\ Counted(k) = {} /\ (\A u \in Thread : ~(loop'[u] = k /\ pc'[u] = "delete")) =>
                     deletes[k] = 1
    BY <2>7 DEF CountInv
  <2> QED
    BY <1>2, <2>1, <2>2, <2>4, <2>5, <2>6, <2>8 DEF CountInv
<1>14. FortranInv'
  <2> SUFFICES ASSUME ~C PROVE FortranInv'
    BY <1>2 DEF FortranInv, C
  <2> QED
    BY <1>2, <1>6, <1>8 DEF FortranInv
<1> QED
  BY <1>9, <1>10, <1>11, <1>12, <1>13, <1>14

LEMMA NextLoopInv == ASSUME IInv, NEW t \in Thread, NextLoop(t) PROVE IInv'
<1>1. CASE C /\ program.barrier /\ t \notin arrived[loop[t]]["looped"]
  BY <1>1, BarrierInv
<1>2. CASE ~(C /\ program.barrier /\ t \notin arrived[loop[t]]["looped"])
  BY <1>2, GoOnInv
<1> QED
  BY <1>1, <1>2

LEMMA StepInv == ASSUME IInv, [Next]_vars PROVE IInv'
<1>1. ASSUME NEW t \in Thread, Delete(t) PROVE IInv'
  BY <1>1, DeleteInvC, DeleteInvFortran
<1>2. ASSUME UNCHANGED vars PROVE IInv'
  <2>1. UNCHANGED <<program, pc, loop, task, counter, ran, tasks, position, deletes,
                    executor, deleter, arrived>>
    BY <1>2 DEF vars, scheduleVars, teamVars
  <2>2. \A u, k, S : Past(u, k, S)' <=> Past(u, k, S)
    BY <2>1 DEF Past
  <2>3. TypeOK' /\ TeamInv' /\ PositionInv' /\ RunInv'
    BY <2>1, <2>2 DEF IInv, TypeOK, TeamInv, PositionInv, RunInv
  <2>4. \A k : Counted(k)' = Counted(k) /\ Frame(k)' = Frame(k)
    BY <2>1 DEF Counted, Past, Frame
  <2>5. CountInv'
    BY <2>1, <2>2, <2>4 DEF IInv, CountInv, KeepsCounter, C
  <2>6. FortranInv'
    BY <2>1, <2>2 DEF IInv, FortranInv, C
  <2> QED
    BY <2>3, <2>5, <2>6 DEF IInv
<1> QED
  BY <1>1, <1>2, EnterInv, MakeInv, MadeInv, DrawingInv, AdvanceInv, WorkInv, LeaveInv,
     LeaveFortranInv, LoopedInv, DeletedInv, NextLoopInv DEF Next

LEMMA InitInv == ASSUME Kept, Init PROVE IInv
<1>1. 1 \in Loop /\ Loop \subseteq Nat /\ \A k \in Loop : ~(1 > k)
  BY BoundsAssumption DEF Loop
<1>2. /\ \A t \in Thread : pc[t] = "enter" /\ loop[t] = 1
      /\ program \in Programs /\ KeepsCounter(program)
  BY DEF Init, Kept
<1>3. ASSUME NEW S, "enter" \notin S, NEW t \in Thread, NEW k \in Loop
      PROVE  ~Past(t, k, S)
  BY <1>1, <1>2, <1>3 DEF Past
<1>4. \A t \in Thread, k \in Loop :
        /\ ~Past(t, k, FromMake) /\ ~Past(t, k, FromMade) /\ ~Past(t, k, FromDraw)
        /\ ~Past(t, k, FromLeave) /\ ~Past(t, k, FromLooped) /\ ~Past(t, k, FromDelete)
        /\ ~Past(t, k, FromDeleted) /\ ~Past(t, k, {"out"})
  <2>1. ASSUME NEW S \in {FromMake, FromMade, FromDraw, FromLeave, FromLooped,
                          FromDelete, FromDeleted, {"out"}}
        PROVE  "enter" \notin S
    BY DEF FromMake, FromMade, FromDraw, FromLeave, FromLooped, FromDelete, FromDeleted
  <2> QED
    BY <1>3, <2>1
<1>5. \A k \in Loop : /\ executor[k] = NoThread /\ deleter[k] = NoThread
                      /\ arrived[k] = [b \in Barrier |-> {}]
                      /\ arrived[k]["made"] = {} /\ arrived[k]["looped"] = {}
                      /\ arrived[k]["deleted"] = {}
                      /\ tasks[k] = 0 /\ position[k] = 0 /\ deletes[k] = 0 /\ ran[k] = {}
  BY DEF Init, Barrier
<1>6. TypeOK
  <2>1. Cardinality(Thread) \in Nat
    BY ThreadAssumption, FS_CardinalityType
  <2>2. 0 \in 0..Cardinality(Thread) /\ 0 \in 0..MaxTasks
    BY <2>1, BoundsAssumption
  <2>3. pc \in [Thread -> {"enter"}] /\ loop \in [Thread -> Loop]
    BY <1>1 DEF Init
  <2>4. /\ executor \in [Loop -> Thread \union {NoThread}]
        /\ deleter \in [Loop -> Thread \union {NoThread}]
        /\ arrived \in [Loop -> [Barrier -> SUBSET Thread]]
    BY DEF Init
  <2>5. /\ counter \in [Loop -> [Thread -> 0..Cardinality(Thread)]]
        /\ tasks \in [Loop -> 0..MaxTasks]
        /\ task \in [Thread -> 0..MaxTasks]
    BY <2>2 DEF Init
  <2>6. /\ deletes \in [Loop -> 0..1]
        /\ ran \in [Loop -> SUBSET ((1..MaxTasks) \X Thread)]
        /\ \A k \in Loop : position[k] \in 0..tasks[k]
    BY DEF Init
  <2> QED
    BY <1>2, <2>3, <2>4, <2>5, <2>6 DEF TypeOK
<1>7. TeamInv
  BY <1>2, <1>4, <1>5, ThreadAssumption DEF TeamInv
<1>8. PositionInv
  <2>1. position \in [Loop -> Nat]
    BY DEF Init
  <2> QED
    BY <1>2, <1>4, <1>5, <2>1 DEF PositionInv
<1>9. RunInv
  BY <1>2, <1>5 DEF RunInv
<1>10. CountInv
  <2>1. \A k \in Loop : Counted(k) = Thread
    BY <1>4 DEF Counted
  <2>2. \A k \in Loop, t \in Thread : ~(loop[t] > k)
    BY <1>1, <1>2
  <2> QED
    BY <1>2, <1>5, <2>1, <2>2, ThreadAssumption DEF CountInv
<1>11. FortranInv
  BY <1>2, <1>4, <1>5, ThreadAssumption DEF FortranInv
<1> QED
  BY <1>6, <1>7, <1>8, <1>9, <1>10, <1>11 DEF IInv

-----------------------------------------------------------------------------
(***************************************************************************)
(* The theorems.                                                           *)
(***************************************************************************)

LEMMA Invariance == ASSUME Kept PROVE Spec => []IInv
<1>1. Init => IInv
  BY InitInv
<1>2. IInv /\ [Next]_vars => IInv'
  BY StepInv
<1> QED
  BY <1>1, <1>2, PTL DEF Spec

\* The variables of the threads and of the loops stay in their types: a count
\* of threads never goes below zero, the iterator never goes past the last
\* task, and no schedule is deleted twice, however the threads of the team
\* follow each other through the macros.
THEOREM TypeCorrect == ASSUME Kept PROVE Spec => []TypeOK
<1>1. IInv => TypeOK
  BY DEF IInv
<1> QED
  BY <1>1, Invariance, PTL

LEMMA OverPast ==
    ASSUME IInv, Over, NEW t \in Thread, NEW k \in Loop
    PROVE  /\ Past(t, k, {"out"}) /\ Past(t, k, FromDelete) /\ Past(t, k, FromLeave)
           /\ pc[t] = "out"
<1>1. pc[t] = "out" /\ loop[t] = NumLoops /\ k \in 1..NumLoops
  BY DEF Over, Loop
<1>2. "out" \in FromDelete /\ "out" \in FromLeave
  BY DEF FromMake, FromMade, FromDraw, FromLeave, FromLooped, FromDelete
<1>3. loop[t] > k \/ loop[t] = k
  BY <1>1, BoundsAssumption
<1> QED
  BY <1>1, <1>2, <1>3 DEF Past

\* critical(_s_p_scheduler_gen) and critical(s_p_gen_critical): a thread copies
\* its task and moves the iterator on in one go, so that every task of the rank
\* is run by one thread and none is left when the loops are over.
THEOREM RunOnce == ASSUME Kept PROVE Spec => []TasksRunOnce
<1>1. ASSUME IInv PROVE TasksRunOnce
  <2> SUFFICES ASSUME NEW k \in Loop, Over
               PROVE  {x[1] : x \in ran[k]} = 1..tasks[k]
    BY <1>1 DEF TasksRunOnce, IInv, RunInv
  <2>1. position[k] = tasks[k]
    <3>1. PICK t \in Thread : TRUE
      BY ThreadAssumption
    <3> QED
      BY <1>1, <3>1, OverPast DEF IInv, PositionInv
  <2>2. \A t \in Thread : pc[t] # "work"
    BY <1>1, OverPast
  <2>3. \A x \in ran[k] : x[1] \in 1..tasks[k]
    BY <1>1, <2>1 DEF IInv, RunInv
  <2>4. \A i \in 1..tasks[k] : \E x \in ran[k] : x[1] = i
    BY <1>1, <2>1, <2>2 DEF IInv, RunInv
  <2> QED
    BY <2>3, <2>4
<1> QED
  BY <1>1, Invariance, PTL

\* While a thread uses the schedule of its loop, it is made and not deleted.
LEMMA UsersFindItOpen ==
    ASSUME IInv, NEW t \in Thread, pc[t] \in {"draw", "advance", "work"}
    PROVE  executor[loop[t]] \in arrived[loop[t]]["made"] /\ deletes[loop[t]] = 0
<1> DEFINE k == loop[t]
<1>1. k \in Loop /\ ~(loop[t] > k)
  BY DEF IInv, TypeOK, Loop
<1>2. /\ Past(t, k, FromMake) /\ Past(t, k, FromDraw)
      /\ ~Past(t, k, FromDelete) /\ ~Past(t, k, FromLooped)
  BY <1>1 DEF Past, FromMake, FromMade, FromDraw, FromLeave, FromLooped, FromDelete
<1>3. executor[k] \in Thread /\ arrived[k]["made"] = Thread
  BY <1>1, <1>2 DEF IInv, TeamInv, TypeOK
<1>4. CASE C
  <2>1. Counted(k) # {}
    BY <1>2 DEF Counted
  <2> QED
    BY <1>1, <1>3, <1>4, <2>1 DEF IInv, CountInv
<1>5. CASE ~C
  <2>1. arrived[k]["deleted"] \subseteq Thread
    BY <1>1 DEF IInv, TypeOK, Barrier
  <2>2. t \notin arrived[k]["looped"]
    BY <1>1, <1>2, <1>5 DEF IInv, FortranInv
  <2>3. \A u \in Thread : deleter[k] # u
    BY <1>1, <1>5, <2>2 DEF IInv, FortranInv
  <2>4. deleter[k] \notin arrived[k]["deleted"]
    BY <2>1, <2>3
  <2> QED
    BY <1>1, <1>3, <1>5, <2>4 DEF IInv, FortranInv
<1> QED
  BY <1>4, <1>5

\* critical(_s_p_last_treads), and the single construct behind Fortran's
\* barrier: the thread that deletes the schedule is the last that uses it, and
\* every loop's schedule is deleted once.
THEOREM LastDeletes == ASSUME Kept PROVE Spec => []DeletedByLast
<1>1. ASSUME IInv, NEW t \in Thread, pc[t] \in {"draw", "advance"}
      PROVE  executor[loop[t]] \in arrived[loop[t]]["made"] /\ deletes[loop[t]] = 0
  BY <1>1, UsersFindItOpen
<1>2. ASSUME IInv, NEW k \in Loop PROVE deletes[k] <= 1 /\ (Over => deletes[k] = 1)
  <2>1. deletes[k] \in 0..1
    BY <1>2 DEF IInv, TypeOK
  <2>2. ASSUME Over PROVE deletes[k] = 1
    <3>1. \A t \in Thread : Past(t, k, FromDelete) /\ Past(t, k, {"out"}) /\ pc[t] = "out"
      BY <1>2, <2>2, OverPast
    <3>2. CASE C
      <4>1. Counted(k) = {}
        BY <3>1 DEF Counted
      <4> QED
        BY <1>2, <3>1, <3>2, <4>1 DEF IInv, CountInv
    <3>3. CASE ~C
      <4>1. PICK t \in Thread : TRUE
        BY ThreadAssumption
      <4>2. arrived[k]["deleted"] = Thread /\ deleter[k] # NoThread
        BY <1>2, <3>1, <3>3, <4>1 DEF IInv, FortranInv
      <4>3. deleter[k] \in Thread
        BY <1>2, <4>2 DEF IInv, TypeOK
      <4> QED
        BY <1>2, <3>3, <4>2, <4>3 DEF IInv, FortranInv
    <3> QED
      BY <3>2, <3>3
  <2> QED
    BY <2>1, <2>2
<1>3. IInv => DeletedByLast
  BY <1>1, <1>2 DEF DeletedByLast
<1> QED
  BY <1>3, Invariance, PTL

\* "threading::serialized": when the loops do not overlap, the calls that reach
\* MPI (s_p_new_dynamic_schedule, s_p_next or s_p_f_parallel_scheduler_advance,
\* and the deletion) never run in two threads at a time.
THEOREM MPIIsSerialized == ASSUME Kept PROVE Spec => []SerializedWhenSeparated
<1>1. ASSUME IInv, Separated, NEW t \in Thread, NEW u \in Thread,
             pc[t] \in InMPI, pc[u] \in InMPI
      PROVE  ~(loop[u] > loop[t])
  <2> SUFFICES ASSUME loop[u] > loop[t] PROVE FALSE
    OBVIOUS
  <2>1. loop[t] \in Loop /\ loop[u] \in Loop /\ ~(loop[t] > loop[t])
    BY <1>1 DEF IInv, TypeOK, Loop
  <2>2. pc[t] # "out" /\ pc[t] \notin FromDeleted
    BY <1>1 DEF InMPI, FromMake, FromMade, FromDraw, FromLeave, FromLooped, FromDelete,
                FromDeleted
  <2>3. NumLoops # 1
    BY <2>1 DEF Loop
  <2>4. CASE C
    <3>1. arrived[loop[t]]["looped"] = Thread
      BY <1>1, <2>1, <2>3, <2>4 DEF IInv, CountInv, Separated
    <3>2. Past(t, loop[t], {"out"})
      BY <1>1, <2>1, <2>4, <3>1 DEF IInv, CountInv
    <3> QED
      BY <2>1, <2>2, <3>2 DEF Past
  <2>5. CASE ~C
    <3>1. Past(u, loop[t], {"out"})
      BY DEF Past
    <3>2. arrived[loop[t]]["deleted"] = Thread
      BY <1>1, <2>1, <2>5, <3>1 DEF IInv, FortranInv
    <3>3. Past(t, loop[t], FromDeleted)
      BY <1>1, <2>1, <2>5, <3>2 DEF IInv, FortranInv
    <3> QED
      BY <2>1, <2>2, <3>3 DEF Past
  <2> QED
    BY <2>4, <2>5
<1>2. ASSUME IInv, NEW t \in Thread, NEW u \in Thread, loop[t] = loop[u],
             pc[t] \in InMPI, pc[u] \in InMPI
      PROVE  t = u
  <2> DEFINE k == loop[t]
  <2>1. k \in Loop /\ ~(k > k)
    BY <1>2 DEF IInv, TypeOK, Loop
  <2>2. ASSUME NEW v \in Thread, loop[v] = k, pc[v] = "make", NEW w \in Thread,
               loop[w] = k, pc[w] \in InMPI
        PROVE  v = w
    <3>1. pc[w] # "make" => Past(w, k, FromDraw)
      BY <2>2 DEF Past, InMPI, FromMake, FromMade, FromDraw
    <3>2. ~Past(v, k, FromMade)
      BY <2>1, <2>2 DEF Past, FromMade
    <3>3. pc[w] = "make"
      BY <1>2, <2>1, <3>1, <3>2 DEF IInv, TeamInv
    <3> QED
      BY <1>2, <2>1, <2>2, <3>3 DEF IInv, TeamInv
  <2>3. ASSUME NEW v \in Thread, loop[v] = k, pc[v] = "delete", NEW w \in Thread,
               loop[w] = k, pc[w] = "advance"
        PROVE  FALSE
    <3>1. ~Past(w, k, FromDelete) /\ ~Past(w, k, FromLooped)
      BY <2>1, <2>3 DEF Past, FromMake, FromMade, FromDraw, FromLeave, FromLooped, FromDelete
    <3>2. CASE C
      <4>1. Counted(k) = {}
        BY <1>2, <2>1, <2>3, <3>2 DEF IInv, CountInv
      <4> QED
        BY <3>1, <4>1 DEF Counted
    <3>3. CASE ~C
      <4>1. Past(v, k, FromDelete)
        BY <2>3 DEF Past, FromMake, FromMade, FromDraw, FromLeave, FromLooped, FromDelete
      <4>2. arrived[k]["looped"] = Thread
        BY <1>2, <2>1, <3>3, <4>1 DEF IInv, FortranInv
      <4> QED
        BY <1>2, <2>1, <3>1, <3>3, <4>2 DEF IInv, FortranInv
    <3> QED
      BY <3>2, <3>3
  <2>4. CASE pc[t] = "delete" /\ pc[u] = "delete"
    <3>1. CASE C
      BY <1>2, <2>1, <2>4, <3>1 DEF IInv, CountInv
    <3>2. CASE ~C
      BY <1>2, <2>1, <2>4, <3>2 DEF IInv, FortranInv
    <3> QED
      BY <3>1, <3>2
  <2>5. CASE pc[t] = "advance" /\ pc[u] = "advance"
    BY <1>2, <2>5 DEF IInv, PositionInv
  <2> QED
    BY <1>2, <2>2, <2>3, <2>4, <2>5 DEF InMPI
<1>3. ASSUME IInv PROVE SerializedWhenSeparated
  <2> SUFFICES ASSUME Separated, NEW t \in Thread, NEW u \in Thread,
                      pc[t] \in InMPI, pc[u] \in InMPI
               PROVE  t = u
    BY DEF SerializedWhenSeparated, Serialized
  <2>1. loop[t] \in Int /\ loop[u] \in Int
    BY <1>3 DEF IInv, TypeOK, Loop
  <2>2. loop[t] = loop[u]
    BY <1>1, <1>3, <2>1
  <2> QED
    BY <1>2, <1>3, <2>2
<1> QED
  BY <1>3, Invariance, PTL

-----------------------------------------------------------------------------
(***************************************************************************)
(* The macros implement the task pool.                                     *)
(***************************************************************************)

\* A step of the pool of loop k.
PoolStep(k) == [Pool(k)!Next]_(Pool(k)!vars)

\* A step that the pools do not see: no iterator moves, no thread begins or ends
\* its work, and no schedule is made or deleted.
Unseen ==
    /\ UNCHANGED <<position, tasks, ran>>
    /\ \A u \in Thread : /\ pc'[u] = "work" <=> pc[u] = "work"
                         /\ pc[u] = "work" => loop'[u] = loop[u] /\ task'[u] = task[u]
    /\ \A k \in Loop : IsOpen(k)' = IsOpen(k)

LEMMA UnseenSteps == ASSUME Unseen, NEW k \in Loop PROVE PoolStep(k)
<1>1. NotGiven(k)' = NotGiven(k) /\ HaveRun(k)' = HaveRun(k) /\ IsOpen(k)' = IsOpen(k)
  BY DEF Unseen, NotGiven, HaveRun
<1>2. Given(k)' = Given(k)
  <2>1. \A u \in Thread :
          (IF loop'[u] = k /\ pc'[u] = "work" THEN {task'[u]} ELSE {})
            = (IF loop[u] = k /\ pc[u] = "work" THEN {task[u]} ELSE {})
    BY DEF Unseen
  <2> QED
    BY <2>1 DEF Given
<1> QED
  BY <1>1, <1>2 DEF PoolStep, Pool!vars

\* A thread that deletes a schedule finds no thread using it, and no task left.
LEMMA DeleterIsLast ==
    ASSUME IInv, NEW t \in Thread, pc[t] = "delete"
    PROVE  /\ executor[loop[t]] \in arrived[loop[t]]["made"] /\ deletes[loop[t]] = 0
           /\ position[loop[t]] = tasks[loop[t]]
           /\ \A u \in Thread : ~(loop[u] = loop[t] /\ pc[u] = "work")
<1> DEFINE k == loop[t]
<1>1. k \in Loop /\ ~(k > k)
  BY DEF IInv, TypeOK, Loop
<1>2. Past(t, k, FromMake) /\ Past(t, k, FromDraw) /\ Past(t, k, FromLeave) /\ Past(t, k, FromDelete)
      /\ ~Past(t, k, FromDeleted)
  BY <1>1 DEF Past, FromMake, FromMade, FromDraw, FromLeave, FromLooped, FromDelete, FromDeleted
<1>3. executor[k] \in arrived[k]["made"] /\ position[k] = tasks[k]
  BY <1>1, <1>2 DEF IInv, TeamInv, TypeOK, PositionInv
<1>4. ASSUME NEW u \in Thread, loop[u] = k, pc[u] = "work"
      PROVE  ~Past(u, k, FromDelete) /\ ~Past(u, k, FromLooped)
  BY <1>1, <1>4 DEF Past, FromMake, FromMade, FromDraw, FromLeave, FromLooped, FromDelete
<1>5. CASE C
  <2>1. Counted(k) = {} /\ deletes[k] = 0
    BY <1>1, <1>5 DEF IInv, CountInv
  <2> QED
    BY <1>3, <1>4, <2>1 DEF Counted
<1>6. CASE ~C
  <2>1. arrived[k]["looped"] = Thread /\ deleter[k] = t /\ t \notin arrived[k]["deleted"]
    BY <1>1, <1>2, <1>6 DEF IInv, FortranInv
  <2>2. deletes[k] = 0
    BY <1>1, <1>6, <2>1 DEF IInv, FortranInv
  <2>3. \A u \in Thread : Past(u, k, FromLooped)
    BY <1>1, <1>6, <2>1 DEF IInv, FortranInv
  <2> QED
    BY <1>3, <1>4, <2>2, <2>3
<1> QED
  BY <1>5, <1>6

\* Where the threads of a step of t are.
LEMMA GoToPlaces ==
    ASSUME TypeOK, NEW t \in Thread, NEW to, GoTo(t, to)
    PROVE  pc'[t] = to /\ \A u \in Thread : u # t => pc'[u] = pc[u]
BY DEF TypeOK, GoTo

\* A thread that comes to a barrier behind the schedule does not open it.
LEMMA ArriveElsewhere ==
    ASSUME TypeOK, NEW t \in Thread, NEW b \in Barrier, Arrive(t, b), b # "made"
    PROVE  \A k \in Loop : arrived'[k]["made"] = arrived[k]["made"]
BY ZenonT(30), ArriveFacts DEF Comes, Barrier

LEMMA InitPools == ASSUME Init, NEW k \in Loop PROVE Pool(k)!Init
<1>1. NotGiven(k) = {} /\ HaveRun(k) = {}
  BY DEF Init, NotGiven, HaveRun
<1>2. Given(k) = [t \in Thread |-> {}]
  BY DEF Init, Given
<1>3. IsOpen(k) = FALSE
  BY DEF Init, IsOpen, Barrier
<1> QED
  BY <1>1, <1>2, <1>3 DEF Pool!Init

\* The first single construct: nobody else has a task, and the schedule is not
\* made before its executor comes to the end of the construct.
LEMMA EnterUnseen == ASSUME IInv, NEW t \in Thread, Enter(t) PROVE Unseen
<1>1. pc[t] = "enter" /\ UNCHANGED <<position, tasks, ran, loop, task, deletes>>
  BY DEF Enter, scheduleVars
<1>2. /\ pc'[t] # "work" /\ \A u \in Thread : u # t => pc'[u] = pc[u]
  BY GoToPlaces DEF Enter, IInv
<1>3. loop[t] \in Loop /\ ~Past(t, loop[t], FromMake)
  BY <1>1 DEF IInv, TypeOK, Past, Loop, FromMake
<1>4. executor[loop[t]] # t /\ executor \in [Loop -> Thread \union {NoThread}]
  BY <1>3 DEF IInv, TeamInv, TypeOK
<1>5. ASSUME NEW k \in Loop PROVE IsOpen(k)' = IsOpen(k)
  <2>0. arrived[k]["made"] \subseteq Thread
    BY DEF IInv, TypeOK, Barrier
  <2>1. CASE executor[loop[t]] = NoThread
    <3>1. executor' = [executor EXCEPT ![loop[t]] = t] /\ arrived' = arrived
      BY <2>1 DEF Enter
    <3>2. CASE k = loop[t]
      <4>1. NoThread \notin arrived[k]["made"]
        BY <2>0, ThreadAssumption
      <4>2. t \notin arrived[k]["made"]
        <5>1. ~Past(t, k, FromMade)
          BY <1>1, <3>2, <1>3 DEF Past, FromMake, FromMade
        <5> QED
          BY <5>1 DEF IInv, TeamInv
      <4>3. executor'[k] = t
        BY <1>4, <3>1, <3>2
      <4> QED
        BY <2>1, <3>1, <3>2, <4>1, <4>2, <4>3 DEF IsOpen
    <3>3. CASE k # loop[t]
      BY <1>1, <1>4, <3>1, <3>3 DEF IsOpen
    <3> QED
      BY <3>2, <3>3
  <2>2. CASE executor[loop[t]] # NoThread
    <3>1. executor' = executor /\ Arrive(t, "made")
      BY <2>2 DEF Enter
    <3>2. Comes(t, "made")
      BY <3>1, ArriveFacts DEF IInv, Barrier
    <3>3. executor[k] \in arrived'[k]["made"] <=> executor[k] \in arrived[k]["made"]
      BY ZenonT(30), <1>4, <3>2 DEF Comes, Barrier
    <3> QED
      BY <1>1, <3>1, <3>3 DEF IsOpen
  <2> QED
    BY <2>1, <2>2
<1> QED
  BY <1>1, <1>2, <1>5 DEF Unseen

\* The schedule is made: the pool opens with the tasks of this rank.
LEMMA MakeOpens == ASSUME IInv, NEW t \in Thread, Make(t), NEW k \in Loop PROVE PoolStep(k)
<1>1. /\ pc[t] = "make" /\ UNCHANGED <<position, ran, loop, task, deletes, executor>>
      /\ Comes(t, "made") /\ pc'[t] = "made" /\ \A u \in Thread : u # t => pc'[u] = pc[u]
  BY ArriveFacts, GoToPlaces DEF Make, IInv, Barrier
<1>2. loop[t] \in Loop /\ ~Past(t, loop[t], FromMade) /\ ~(loop[t] > loop[t])
  BY <1>1 DEF IInv, TypeOK, Past, Loop, FromMade
<1>3. PICK n \in 0..MaxTasks : tasks' = [tasks EXCEPT ![loop[t]] = n]
  BY DEF Make
<1>4. tasks \in [Loop -> 0..MaxTasks]
  BY DEF IInv, TypeOK
<1>5. Given(k)' = Given(k)
  BY <1>1 DEF Given
<1>6. HaveRun(k)' = HaveRun(k)
  BY <1>1 DEF HaveRun
<1>7. CASE k = loop[t]
  <2>1. executor[k] = t /\ t \notin arrived[k]["made"]
    BY <1>1, <1>2, <1>7 DEF IInv, TeamInv
  <2>2. position[k] = 0
    BY <1>7, <2>1 DEF IInv, PositionInv
  <2>3. HaveRun(k) = {}
    BY <2>2 DEF IInv, RunInv, HaveRun
  <2>4. NotGiven(k)' = 1..n
    BY <1>1, <1>3, <1>4, <1>7, <2>2 DEF NotGiven
  <2>5. IsOpen(k) = FALSE
    BY <2>1 DEF IsOpen
  <2>6. deletes[k] = 0
    <3>1. ~Past(t, k, FromDelete) /\ ~Past(t, k, FromLooped)
      BY <1>1, <1>2, <1>7 DEF Past, FromMake, FromMade, FromDraw, FromLeave, FromLooped, FromDelete
    <3>2. CASE C
      <4>1. Counted(k) # {}
        BY <3>1 DEF Counted
      <4> QED
        BY <3>2, <4>1 DEF IInv, CountInv
    <3>3. CASE ~C
      <4>1. arrived[k]["deleted"] \subseteq Thread
        BY DEF IInv, TypeOK, Barrier
      <4>2. t \notin arrived[k]["looped"]
        BY <3>1, <3>3 DEF IInv, FortranInv
      <4>3. \A u \in Thread : deleter[k] # u
        BY <3>3, <4>2 DEF IInv, FortranInv
      <4>4. deleter[k] \notin arrived[k]["deleted"]
        BY <4>1, <4>3
      <4> QED
        BY <3>3, <4>4 DEF IInv, FortranInv
    <3> QED
      BY <3>2, <3>3
  <2>7. IsOpen(k)' = TRUE
    BY <1>1, <1>7, <2>1, <2>6 DEF IsOpen, Comes, Barrier
  <2>8. Pool(k)!Open
    BY <1>5, <1>6, <2>3, <2>4, <2>5, <2>7 DEF Pool!Open
  <2> QED
    BY <2>8 DEF PoolStep, Pool!Next
<1>8. CASE k # loop[t]
  <2>1. NotGiven(k)' = NotGiven(k)
    BY <1>1, <1>3, <1>4, <1>8 DEF NotGiven
  <2>2. IsOpen(k)' = IsOpen(k)
    BY <1>1, <1>8 DEF IsOpen, Comes, Barrier
  <2> QED
    BY <1>5, <1>6, <2>1, <2>2 DEF PoolStep, Pool!vars
<1> QED
  BY <1>7, <1>8

\* The iterator goes past a task, which is in the thread's hands from then on.
LEMMA AdvanceGives ==
    ASSUME IInv, NEW t \in Thread, Advance(t), NEW k \in Loop PROVE PoolStep(k)
<1>1. /\ pc[t] = "advance" /\ UNCHANGED <<tasks, ran, loop, task, deletes, executor, arrived>>
      /\ position' = [position EXCEPT ![loop[t]] = @ + 1]
      /\ pc'[t] = "work" /\ \A u \in Thread : u # t => pc'[u] = pc[u]
  BY GoToPlaces DEF Advance, IInv, teamVars
<1>2. HaveRun(k)' = HaveRun(k) /\ IsOpen(k)' = IsOpen(k)
  BY <1>1 DEF HaveRun, IsOpen
<1>3. CASE k = loop[t]
  <2>1. /\ task[t] = position[k] + 1 /\ position[k] < tasks[k]
        /\ position[k] \in Nat /\ tasks[k] \in Nat /\ position'[k] = position[k] + 1
    BY <1>1, <1>3 DEF IInv, PositionInv, TypeOK
  <2>2. IsOpen(k) = TRUE
    BY <1>1, <1>3, UsersFindItOpen DEF IsOpen
  <2>3. task[t] \in NotGiven(k) /\ \A u \in NotGiven(k) : task[t] <= u
    BY <2>1 DEF NotGiven
  <2>4. NotGiven(k)' = NotGiven(k) \ {task[t]}
    <3>1. NotGiven(k)' = ((position[k] + 1) + 1)..tasks[k]
      BY <1>1, <2>1 DEF NotGiven
    <3>2. NotGiven(k) = (position[k] + 1)..tasks[k]
      BY DEF NotGiven
    <3>3. PICK p \in Nat, n \in Nat : p = position[k] /\ n = tasks[k]
      BY <2>1
    <3>4. ((p + 1) + 1)..n = ((p + 1)..n) \ {p + 1}
      OBVIOUS
    <3> QED
      BY <2>1, <3>1, <3>2, <3>3, <3>4
  <2>5. Given(k)' = [Given(k) EXCEPT ![t] = @ \union {task[t]}]
    <3>1. \A u \in Thread :
            (IF loop'[u] = k /\ pc'[u] = "work" THEN {task'[u]} ELSE {})
              = IF u = t THEN Given(k)[t] \union {task[t]} ELSE Given(k)[u]
      BY <1>1, <1>3 DEF Given
    <3> QED
      BY <3>1 DEF Given
  <2>6. Pool(k)!Give(t)
    BY <1>2, <2>2, <2>3, <2>4, <2>5 DEF Pool!Give
  <2> QED
    BY <2>6 DEF PoolStep, Pool!Next
<1>4. CASE k # loop[t]
  <2>1. position'[k] = position[k]
    BY <1>1, <1>4 DEF IInv, PositionInv
  <2>2. NotGiven(k)' = NotGiven(k)
    BY <1>1, <2>1 DEF NotGiven
  <2>3. Given(k)' = Given(k)
    BY <1>1, <1>4 DEF Given
  <2> QED
    BY <1>2, <2>2, <2>3 DEF PoolStep, Pool!vars
<1> QED
  BY <1>3, <1>4

\* The user's loop runs the task the thread has.
LEMMA WorkRuns ==
    ASSUME IInv, NEW t \in Thread, Work(t), NEW k \in Loop PROVE PoolStep(k)
<1>1. /\ pc[t] = "work"
      /\ UNCHANGED <<tasks, position, loop, task, deletes, executor, arrived>>
      /\ ran' = [ran EXCEPT ![loop[t]] = @ \union {<<task[t], t>>}]
      /\ pc'[t] = "draw" /\ \A u \in Thread : u # t => pc'[u] = pc[u]
  BY GoToPlaces DEF Work, IInv, teamVars, scheduleVars
<1>2. NotGiven(k)' = NotGiven(k) /\ IsOpen(k)' = IsOpen(k)
  BY <1>1 DEF NotGiven, IsOpen
<1>3. ran \in [Loop -> SUBSET ((1..MaxTasks) \X Thread)]
  BY DEF IInv, TypeOK
<1>4. CASE k = loop[t]
  <2>1. IsOpen(k) = TRUE
    BY <1>1, <1>4, UsersFindItOpen DEF IsOpen
  <2>2. Given(k)[t] = {task[t]} /\ task[t] <= task[t]
    BY <1>1, <1>4 DEF Given, IInv, TypeOK
  <2>3. Given(k)' = [Given(k) EXCEPT ![t] = @ \ {task[t]}]
    <3>1. \A u \in Thread :
            (IF loop'[u] = k /\ pc'[u] = "work" THEN {task'[u]} ELSE {})
              = IF u = t THEN Given(k)[t] \ {task[t]} ELSE Given(k)[u]
      BY <1>1, <1>4, <2>2 DEF Given
    <3> QED
      BY <3>1 DEF Given
  <2>4. HaveRun(k)' = HaveRun(k) \union {task[t]}
    <3>1. ran'[k] = ran[k] \union {<<task[t], t>>}
      BY <1>1, <1>3, <1>4
    <3>2. HaveRun(k)' = {x[1] : x \in ran'[k]}
      BY DEF HaveRun
    <3>3. \A x \in ran'[k] : x \in ran[k] \/ x[1] = task[t]
      BY <3>1
    <3>4. <<task[t], t>> \in ran'[k] /\ <<task[t], t>>[1] = task[t]
      BY <3>1
    <3>5. ran[k] \subseteq ran'[k]
      BY <3>1
    <3>6. HaveRun(k)' \subseteq HaveRun(k) \union {task[t]}
      BY <3>2, <3>3 DEF HaveRun
    <3>7. HaveRun(k) \union {task[t]} \subseteq HaveRun(k)'
      BY <3>2, <3>4, <3>5 DEF HaveRun
    <3> QED
      BY <3>6, <3>7
  <2>5. Pool(k)!Run(t)
    BY <1>2, <2>1, <2>2, <2>3, <2>4 DEF Pool!Run
  <2> QED
    BY <2>5 DEF PoolStep, Pool!Next
<1>5. CASE k # loop[t]
  <2>1. HaveRun(k)' = HaveRun(k)
    BY <1>1, <1>3, <1>5 DEF HaveRun
  <2>2. Given(k)' = Given(k)
    BY <1>1, <1>5 DEF Given
  <2> QED
    BY <1>2, <2>1, <2>2 DEF PoolStep, Pool!vars
<1> QED
  BY <1>4, <1>5

\* The schedule is deleted: the pool closes, with no task left.
LEMMA DeleteCloses ==
    ASSUME IInv, NEW t \in Thread, Delete(t), NEW k \in Loop PROVE PoolStep(k)
<1>1. /\ pc[t] = "delete" /\ UNCHANGED <<tasks, position, loop, task, executor, ran>>
      /\ deletes' = [deletes EXCEPT ![loop[t]] = @ + 1]
      /\ pc'[t] # "work" /\ \A u \in Thread : u # t => pc'[u] = pc[u]
  BY GoToPlaces DEF Delete, IInv
<1>2. arrived'[k]["made"] = arrived[k]["made"]
  <2>1. UNCHANGED arrived \/ Arrive(t, "deleted")
    BY DEF Delete
  <2> QED
    BY <2>1, ArriveElsewhere DEF IInv, Barrier
<1>3. NotGiven(k)' = NotGiven(k) /\ Given(k)' = Given(k) /\ HaveRun(k)' = HaveRun(k)
  BY <1>1 DEF NotGiven, Given, HaveRun
<1>4. deletes \in [Loop -> 0..1]
  BY DEF IInv, TypeOK
<1>5. CASE k = loop[t]
  <2>1. IsOpen(k) = TRUE
    BY <1>1, <1>5, DeleterIsLast DEF IsOpen
  <2>2. IsOpen(k)' = FALSE
    BY <1>1, <1>4, <1>5, DeleterIsLast DEF IsOpen
  <2>3. NotGiven(k) = {}
    <3>1. position[k] = tasks[k] /\ position[k] \in Nat
      BY <1>1, <1>5, DeleterIsLast DEF IInv, PositionInv
    <3> QED
      BY <3>1 DEF NotGiven
  <2>4. \A u \in Thread : Given(k)[u] = {}
    BY <1>1, <1>5, DeleterIsLast DEF Given
  <2>5. Pool(k)!Close
    BY <1>3, <2>1, <2>2, <2>3, <2>4 DEF Pool!Close
  <2> QED
    BY <2>5 DEF PoolStep, Pool!Next
<1>6. CASE k # loop[t]
  <2>1. IsOpen(k)' = IsOpen(k)
    BY <1>1, <1>2, <1>4, <1>6 DEF IsOpen
  <2> QED
    BY <1>3, <2>1 DEF PoolStep, Pool!vars
<1> QED
  BY <1>5, <1>6

\* The other steps are not seen.
LEMMA OthersUnseen ==
    ASSUME IInv, NEW t \in Thread,
           \/ Made(t) \/ Draw(t) \/ GeneratorNext(t) \/ Leave(t) \/ LeaveFortran(t)
           \/ Looped(t) \/ Deleted(t) \/ NextLoop(t)
    PROVE  Unseen
<1>1. CASE Made(t) \/ Draw(t) \/ GeneratorNext(t) \/ Leave(t) \/ Deleted(t)
  <2>1. /\ UNCHANGED <<tasks, position, loop, ran, deletes, executor, arrived>>
        /\ pc[t] # "work" /\ \A u \in Thread : u # t => task'[u] = task[u]
    BY <1>1 DEF Made, Draw, GeneratorNext, Leave, Deleted, scheduleVars, teamVars, IInv, TypeOK
  <2>2. pc'[t] # "work" /\ \A u \in Thread : u # t => pc'[u] = pc[u]
    BY <1>1, GoToPlaces DEF Made, Draw, GeneratorNext, Leave, Deleted, IInv
  <2> QED
    BY <2>1, <2>2 DEF Unseen, IsOpen
<1>2. CASE LeaveFortran(t) \/ Looped(t)
  <2>1. /\ UNCHANGED <<tasks, position, loop, ran, deletes, executor, task>>
        /\ pc[t] # "work"
        /\ UNCHANGED arrived \/ Arrive(t, "looped") \/ Arrive(t, "deleted")
    BY <1>2 DEF LeaveFortran, Looped, scheduleVars
  <2>2. pc'[t] # "work" /\ \A u \in Thread : u # t => pc'[u] = pc[u]
    BY <1>2, GoToPlaces DEF LeaveFortran, Looped, IInv
  <2>3. \A k \in Loop : arrived'[k]["made"] = arrived[k]["made"]
    BY <2>1, ArriveElsewhere DEF IInv, Barrier
  <2> QED
    BY <2>1, <2>2, <2>3 DEF Unseen, IsOpen
<1>3. CASE NextLoop(t)
  <2>1. /\ UNCHANGED <<tasks, position, ran, deletes, executor, task>>
        /\ pc[t] = "out"
        /\ UNCHANGED arrived \/ Arrive(t, "looped")
    BY <1>3 DEF NextLoop, scheduleVars
  <2>2. /\ pc'[t] # "work"
        /\ \A u \in Thread : u # t => pc'[u] = pc[u] /\ loop'[u] = loop[u]
    BY <1>3, GoToPlaces DEF NextLoop, IInv, TypeOK
  <2>3. \A k \in Loop : arrived'[k]["made"] = arrived[k]["made"]
    BY <2>1, ArriveElsewhere DEF IInv, Barrier
  <2> QED
    BY <2>1, <2>2, <2>3 DEF Unseen, IsOpen
<1> QED
  BY <1>1, <1>2, <1>3

\* The macros and the two Fortran files implement the task pool for the threads
\* of the team, in every loop of the parallel region.
THEOREM MacrosImplementTaskPool == ASSUME Kept PROVE Spec => LoopsAreTaskPools
<1>1. Init => \A k \in Loop : Pool(k)!Init
  BY InitPools
<1>2. IInv /\ [Next]_vars => \A k \in Loop : PoolStep(k)
  <2> SUFFICES ASSUME IInv, [Next]_vars, NEW k \in Loop PROVE PoolStep(k)
    OBVIOUS
  <2>1. CASE UNCHANGED vars
    <3>1. Unseen
      BY <2>1 DEF vars, scheduleVars, teamVars, Unseen, IsOpen
    <3> QED
      BY <3>1, UnseenSteps
  <2>2. ASSUME NEW t \in Thread, Enter(t) PROVE PoolStep(k)
    BY <2>2, EnterUnseen, UnseenSteps
  <2>3. ASSUME NEW t \in Thread,
               \/ Made(t) \/ Draw(t) \/ GeneratorNext(t) \/ Leave(t) \/ LeaveFortran(t)
               \/ Looped(t) \/ Deleted(t) \/ NextLoop(t)
        PROVE  PoolStep(k)
    BY <2>3, OthersUnseen, UnseenSteps
  <2> QED
    BY <2>1, <2>2, <2>3, MakeOpens, AdvanceGives, WorkRuns, DeleteCloses DEF Next
<1> QED
  BY <1>1, <1>2, Invariance, PTL DEF Spec, LoopsAreTaskPools, PoolStep

=============================================================================
