------------------------------- MODULE OmpLoop --------------------------------
(***************************************************************************)
(* The threads of one rank that share a schedule: the macros               *)
(* S_P_GSS_UINT64_T_PAR_FOR (and its COLLAPSE_2 twin, which differs only   *)
(* in the generator) for C, and gss_dynamic_schedule_begin.h and _end.h    *)
(* for Fortran, in loops one after the other inside one OpenMP parallel    *)
(* region.                                                                 *)
(*                                                                         *)
(* What the schedule gives to the other ranks is DynamicSchedule's matter: *)
(* here it hands this rank a number of tasks nobody knows beforehand.      *)
(***************************************************************************)
EXTENDS Integers, FiniteSets

CONSTANTS
    Thread,      \* the OpenMP team
    NoThread,
    NumLoops,    \* bound: loops in the parallel region
    MaxTasks,    \* bound: tasks of a loop this rank gets
    Programs     \* programs that may run, see Program

\* A program: the language; whether the user's code has a barrier between the
\* loops; whether they are one loop run again (in an outer loop) or loops whose
\* variables the compiler puts in the same place, so that the variables of a
\* block that has been left are those of the next one.
Program == [lang : {"c", "fortran"}, barrier : BOOLEAN, sameFrame : BOOLEAN]

ASSUME ThreadAssumption   == IsFiniteSet(Thread) /\ Thread # {} /\ NoThread \notin Thread
ASSUME BoundsAssumption   == NumLoops \in Nat \ {0} /\ MaxTasks \in Nat
ASSUME ProgramsAssumption == Programs \subseteq Program

Loop == 1..NumLoops

\* The barriers of a loop: at the end of the single construct that makes the
\* schedule, after the loop (Fortran's, or the user's), and at the end of the
\* single construct that deletes it (Fortran).
Barrier == {"made", "looped", "deleted"}

VARIABLES
    program,
    pc,        \* where each thread is
    loop,      \* the loop each thread is in
    executor,  \* executor[k]: the thread that runs the first single of loop k
    deleter,   \* deleter[k]: the thread that runs the second one (Fortran)
    arrived,   \* arrived[k][b]: threads that have come to barrier b of loop k
    counter,   \* counter[k][t]: _num_threads_count in thread t's block of loop k
    tasks,     \* tasks[k]: how many tasks the schedule gives this rank
    position,  \* position[k]: the tasks m_iter has gone past
    task,      \* each thread's copy of a task
    deletes,   \* deletes[k]: how often the schedule has been deleted
    ran        \* history: ran[k]: the tasks run, with the threads that ran them

scheduleVars == <<tasks, position, deletes>>
teamVars     == <<executor, deleter, arrived>>
vars == <<program, pc, loop, task, counter, ran, scheduleVars, teamVars>>

InMPI == {"make", "advance", "delete"}

TypeOK ==
    /\ program \in Programs
    /\ pc \in [Thread -> InMPI \union {"enter", "made", "draw", "work", "leave",
                                       "looped", "deleted", "out"}]
    /\ loop \in [Thread -> Loop]
    /\ executor \in [Loop -> Thread \union {NoThread}]
    /\ deleter \in [Loop -> Thread \union {NoThread}]
    /\ arrived \in [Loop -> [Barrier -> SUBSET Thread]]
    /\ counter \in [Loop -> [Thread -> 0..Cardinality(Thread)]]
    /\ tasks \in [Loop -> 0..MaxTasks]
    /\ \A k \in Loop : position[k] \in 0..tasks[k]
    /\ task \in [Thread -> 0..MaxTasks]
    /\ deletes \in [Loop -> 0..1]
    /\ ran \in [Loop -> SUBSET ((1..MaxTasks) \X Thread)]

Init ==
    /\ program \in Programs
    /\ pc = [t \in Thread |-> "enter"]
    /\ loop = [t \in Thread |-> 1]
    /\ executor = [k \in Loop |-> NoThread]
    /\ deleter = [k \in Loop |-> NoThread]
    /\ arrived = [k \in Loop |-> [b \in Barrier |-> {}]]
    /\ counter = [k \in Loop |-> [t \in Thread |-> 0]]
    /\ tasks = [k \in Loop |-> 0]
    /\ position = [k \in Loop |-> 0]
    /\ task = [t \in Thread |-> 0]
    /\ deletes = [k \in Loop |-> 0]
    /\ ran = [k \in Loop |-> {}]

C == program.lang = "c"

GoTo(t, to) == pc' = [pc EXCEPT ![t] = to]

Arrive(t, b) == arrived' = [arrived EXCEPT ![loop[t]][b] = @ \union {t}]

\* The block whose variables block k's are.
Frame(k) == IF program.sameFrame THEN 1 ELSE k

\* No thread is in the critical section around the calls of the generator.
GenFree == \A t \in Thread : pc[t] # "advance"

\* No thread is in the critical section around the last thread's deletion.
LastFree == \A t \in Thread : ~(C /\ pc[t] = "delete")

-----------------------------------------------------------------------------
\* Slip: the thread that runs the single construct is not counted.
EnterCountOthers(t) ==
    /\ pc[t] = "enter"
    /\ counter' = IF C THEN [counter EXCEPT ![Frame(loop[t])][t] = Cardinality(Thread) - 1]
                       ELSE counter
    /\ IF executor[loop[t]] = NoThread
       THEN /\ executor' = [executor EXCEPT ![loop[t]] = t]
            /\ GoTo(t, "make")
            /\ UNCHANGED arrived
       ELSE GoTo(t, "made") /\ Arrive(t, "made") /\ UNCHANGED executor
    /\ UNCHANGED <<program, loop, deleter, task, ran, scheduleVars>>

\* The variables of the block, and the single construct: the first thread that
\* gets there runs it.
Enter(t) ==
    /\ pc[t] = "enter"
    /\ counter' = IF C THEN [counter EXCEPT ![Frame(loop[t])][t] = Cardinality(Thread)]
                       ELSE counter
    /\ IF executor[loop[t]] = NoThread
       THEN /\ executor' = [executor EXCEPT ![loop[t]] = t]
            /\ GoTo(t, "make")
            /\ UNCHANGED arrived
       ELSE GoTo(t, "made") /\ Arrive(t, "made") /\ UNCHANGED executor
    /\ UNCHANGED <<program, loop, deleter, task, ran, scheduleVars>>

\* The sum of the thread counts of all ranks, s_p_new_dynamic_schedule, and the
\* first task it has for this rank; the pointers are given to all threads.
Make(t) ==
    /\ pc[t] = "make"
    /\ \E n \in 0..MaxTasks : tasks' = [tasks EXCEPT ![loop[t]] = n]
    /\ Arrive(t, "made")
    /\ GoTo(t, "made")
    /\ UNCHANGED <<program, loop, executor, deleter, task, counter, position, deletes, ran>>

\* All threads have come to the end of the single construct.
Made(t) ==
    /\ pc[t] = "made"
    /\ arrived[loop[t]]["made"] = Thread
    /\ GoTo(t, "draw")
    /\ UNCHANGED <<program, loop, task, counter, ran, scheduleVars, teamVars>>

\* critical(_s_p_scheduler_gen): s_p_done, or a copy of the task.
Draw(t) ==
    /\ pc[t] = "draw" /\ C /\ GenFree
    /\ IF position[loop[t]] = tasks[loop[t]]
       THEN GoTo(t, "leave") /\ UNCHANGED task
       ELSE /\ task' = [task EXCEPT ![t] = position[loop[t]] + 1]
            /\ GoTo(t, "advance")
    /\ UNCHANGED <<program, loop, counter, ran, scheduleVars, teamVars>>

\* Slip: without the critical section.
GeneratorNextUnlocked(t) ==
    /\ pc[t] = "draw" /\ ~C
    /\ IF position[loop[t]] = tasks[loop[t]]
       THEN GoTo(t, "leave") /\ UNCHANGED task
       ELSE /\ task' = [task EXCEPT ![t] = position[loop[t]] + 1]
            /\ GoTo(t, "advance")
    /\ UNCHANGED <<program, loop, counter, ran, scheduleVars, teamVars>>

\* critical(s_p_gen_critical): parallel_scheduler_next copies buffer_loc and
\* advances, or has no value.
GeneratorNext(t) ==
    /\ pc[t] = "draw" /\ ~C /\ GenFree
    /\ IF position[loop[t]] = tasks[loop[t]]
       THEN GoTo(t, "leave") /\ UNCHANGED task
       ELSE /\ task' = [task EXCEPT ![t] = position[loop[t]] + 1]
            /\ GoTo(t, "advance")
    /\ UNCHANGED <<program, loop, counter, ran, scheduleVars, teamVars>>

\* s_p_next, s_p_f_parallel_scheduler_advance: the schedule gets the rank's
\* next task in the place of the last one, and the critical section ends.
Advance(t) ==
    /\ pc[t] = "advance"
    /\ position' = [position EXCEPT ![loop[t]] = @ + 1]
    /\ GoTo(t, "work")
    /\ UNCHANGED <<program, loop, task, counter, tasks, deletes, ran, teamVars>>

\* The user's loop over the task.
Work(t) ==
    /\ pc[t] = "work"
    /\ ran' = [ran EXCEPT ![loop[t]] = @ \union {<<task[t], t>>}]
    /\ GoTo(t, "draw")
    /\ UNCHANGED <<program, loop, task, counter, scheduleVars, teamVars>>

-----------------------------------------------------------------------------
\* Slip: the thread that made the schedule deletes it.
LeaveMakerDeletes(t) ==
    /\ pc[t] = "leave" /\ C /\ LastFree
    /\ LET e == executor[loop[t]]
       IN  /\ counter' = [counter EXCEPT ![Frame(loop[t])][e] = @ - 1]
           /\ GoTo(t, IF t = e THEN "delete" ELSE "out")
    /\ UNCHANGED <<program, loop, task, ran, scheduleVars, teamVars>>

\* critical(_s_p_last_treads): one thread less at *_num_threads_count_ptr,
\* which is in the block of the thread that ran the single construct.
Leave(t) ==
    /\ pc[t] = "leave" /\ C /\ LastFree
    /\ LET e == executor[loop[t]]
           n == counter[Frame(loop[t])][e] - 1
       IN  /\ counter' = [counter EXCEPT ![Frame(loop[t])][e] = n]
           /\ GoTo(t, IF n = 0 THEN "delete" ELSE "out")
    /\ UNCHANGED <<program, loop, task, ran, scheduleVars, teamVars>>

\* Fortran: the barrier after the loop.
LeaveFortran(t) ==
    /\ pc[t] = "leave" /\ ~C
    /\ Arrive(t, "looped")
    /\ GoTo(t, "looped")
    /\ UNCHANGED <<program, loop, executor, deleter, task, counter, ran, scheduleVars>>

\* Fortran: all threads have left the loop; the first one deletes the schedule.
Looped(t) ==
    /\ pc[t] = "looped" /\ ~C
    /\ arrived[loop[t]]["looped"] = Thread
    /\ IF deleter[loop[t]] = NoThread
       THEN /\ deleter' = [deleter EXCEPT ![loop[t]] = t]
            /\ GoTo(t, "delete")
            /\ UNCHANGED arrived
       ELSE GoTo(t, "deleted") /\ Arrive(t, "deleted") /\ UNCHANGED deleter
    /\ UNCHANGED <<program, loop, executor, task, counter, ran, scheduleVars>>

\* s_p_delete_dynamic_schedule, parallel_scheduler_del.  The protocol of the loop has
\* ended in next(), or in the constructor where there was no task for this rank; the
\* destructor of the handler calls MPI for the requests that are still open.
Delete(t) ==
    /\ pc[t] = "delete"
    /\ deletes' = [deletes EXCEPT ![loop[t]] = @ + 1]
    /\ IF C THEN GoTo(t, "out") /\ UNCHANGED arrived
            ELSE GoTo(t, "deleted") /\ Arrive(t, "deleted")
    /\ UNCHANGED <<program, loop, executor, deleter, task, counter, tasks, position, ran>>

\* Slip: the second single construct is nowait.
DeletedNowait(t) ==
    /\ pc[t] = "deleted"
    /\ GoTo(t, "out")
    /\ UNCHANGED <<program, loop, task, counter, ran, scheduleVars, teamVars>>

\* Fortran: the barrier at the end of the second single construct.
Deleted(t) ==
    /\ pc[t] = "deleted"
    /\ arrived[loop[t]]["deleted"] = Thread
    /\ GoTo(t, "out")
    /\ UNCHANGED <<program, loop, task, counter, ran, scheduleVars, teamVars>>

\* The user's code after a loop: a barrier, if there is one, and the next loop.
NextLoop(t) ==
    /\ pc[t] = "out"
    /\ loop[t] < NumLoops
    /\ IF C /\ program.barrier /\ t \notin arrived[loop[t]]["looped"]
       THEN Arrive(t, "looped") /\ UNCHANGED <<pc, loop>>
       ELSE /\ C /\ program.barrier => arrived[loop[t]]["looped"] = Thread
            /\ loop' = [loop EXCEPT ![t] = @ + 1]
            /\ GoTo(t, "enter")
            /\ UNCHANGED arrived
    /\ UNCHANGED <<program, executor, deleter, task, counter, ran, scheduleVars>>

Over == \A t \in Thread : pc[t] = "out" /\ loop[t] = NumLoops

Next ==
    \/ \E t \in Thread :
          \/ Enter(t) \/ Make(t) \/ Made(t)
          \/ Draw(t) \/ GeneratorNext(t) \/ Advance(t) \/ Work(t)
          \/ Leave(t) \/ LeaveFortran(t) \/ Looped(t)
          \/ Delete(t) \/ Deleted(t) \/ NextLoop(t)
    \/ Over /\ UNCHANGED vars

Spec == Init /\ [][Next]_vars

-----------------------------------------------------------------------------
(***************************************************************************)
(* Correctness.                                                            *)
(***************************************************************************)

\* Every task the schedule has given this rank is run by one thread, whichever
\* threads draw tasks while others advance the iterator.
TasksRunOnce ==
    \A k \in Loop :
        /\ \A x, y \in ran[k] : x[1] = y[1] => x = y
        /\ Over => {x[1] : x \in ran[k]} = 1..tasks[k]

\* "critical(_s_p_last_treads)", and s_p_delete_dynamic_schedule takes a
\* gsl::owner: the last thread deletes the schedule.  A thread that tests, copies
\* from or advances a schedule finds it made and not deleted, and at the end of
\* the parallel region each has been deleted, and once.
DeletedByLast ==
    /\ \A t \in Thread : pc[t] \in {"draw", "advance"} =>
          executor[loop[t]] \in arrived[loop[t]]["made"] /\ deletes[loop[t]] = 0
    /\ \A k \in Loop : deletes[k] <= 1 /\ (Over => deletes[k] = 1)

\* "threading::serialized" is what fake_main asks MPI for by default: no two
\* threads of a rank are inside MPI at the same time.
Serialized ==
    \A t, u \in Thread : pc[t] \in InMPI /\ pc[u] \in InMPI => t = u

\* The loops do not overlap: the user's program waits between them, or the
\* Fortran interface does.
Separated == ~C \/ program.barrier \/ NumLoops = 1

\* It is so when the loops do not overlap.
SerializedWhenSeparated == Separated => Serialized

-----------------------------------------------------------------------------
(***************************************************************************)
(* Every loop is a task pool whose ranks are the threads: it is open from  *)
(* the making of the schedule to its deletion, and a task is given when    *)
(* the iterator goes past it.                                              *)
(***************************************************************************)

NotGiven(k) == (position[k] + 1)..tasks[k]

Given(k) ==
    [t \in Thread |-> IF loop[t] = k /\ pc[t] = "work" THEN {task[t]} ELSE {}]

HaveRun(k) == {x[1] : x \in ran[k]}

IsOpen(k) == executor[k] \in arrived[k]["made"] /\ deletes[k] = 0

Pool(k) ==
    INSTANCE TaskPool
    WITH Rank <- Thread, TaskCounts <- 0..MaxTasks,
         todo <- NotGiven(k), given <- Given(k), ran <- HaveRun(k), open <- IsOpen(k)

\* The macros implement the task pool for the threads, in every loop: tasks are
\* drawn in order, by one thread each, while the schedule exists, and it is
\* deleted when no task is left or in a thread's hands.
LoopsAreTaskPools ==
    /\ \A k \in Loop : Pool(k)!Init
    /\ [][\A k \in Loop : [Pool(k)!Next]_(Pool(k)!vars)]_vars

=============================================================================
