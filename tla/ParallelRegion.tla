---------------------------- MODULE ParallelRegion ----------------------------
(***************************************************************************)
(* A run of the program, from fake_main to MPI_Finalize: the checks at     *)
(* startup, par_ctx on the leader (rank 0), the loop of worker() on the    *)
(* other ranks, and how fake_main ends them.                               *)
(*                                                                         *)
(* All the ranks do together are collective calls on s_p_comm.  log[r] is  *)
(* the sequence of collectives rank r has been through; the k-th call of a *)
(* rank meets the k-th call of every other one.  The root of a broadcast   *)
(* goes on as soon as it has called, the other ranks when the root has;    *)
(* the root of a reduction waits for all ranks.  A rank whose call meets a *)
(* different one stays there: MPI leaves open what happens, and no outcome *)
(* is a correct one.  The collectives of the startup return on a rank when *)
(* every rank has called them.                                             *)
(*                                                                         *)
(* The user's program is free to open regions one after the other, to      *)
(* return, to call exit() and to let an exception escape from main.        *)
(*                                                                         *)
(* What throws on one rank only is a fault; faults records it.  That       *)
(* memory for small objects runs out and that a switch of contexts fails   *)
(* are left out.                                                           *)
(***************************************************************************)
EXTENDS Integers, Sequences

CONSTANTS
    NumWorkers,    \* ranks other than the leader
    Kinds,         \* the kinds of regions the program opens
    MaxRegions,    \* bound: how many regions it opens
    Fortran,       \* built with SIMPLE_PARALLEL_Fortran_BINDING
    MayFail,       \* what may throw on one rank alone, at startup or in a worker
    SendMayFail,   \* a step of enter_parallel_impl may throw on the leader
    MainMayThrow   \* an exception may escape from the user's main

AllKinds == {"serial",    \* par_ctx{false}
             "plain",     \* no reduce area
             "reduce",    \* reduce areas with an identity
             "badType",   \* a reduce area without a known identity
             "overlap",   \* reduce areas that overlap: the constructor throws
             "nested",    \* the body opens another region
             "exit"}      \* the body calls exit() on every rank

\* The checks of the startup.
Checks == {"pagesize", "binding", "personality", "aslr"}

\* What else throws on one rank: reserve_heap_area, an operation that a worker replays,
\* and reading the symbols of the Fortran globals.
Throwing == {"reserve", "replay", "symbols"}

ASSUME NumWorkersAssumption == NumWorkers \in Nat \ {0}
ASSUME KindsAssumption      == Kinds \subseteq AllKinds
ASSUME MaxRegionsAssumption == MaxRegions \in Nat
ASSUME FlagsAssumption ==
    /\ MayFail \subseteq Checks \union Throwing /\ Fortran \in BOOLEAN
    /\ SendMayFail \in BOOLEAN /\ MainMayThrow \in BOOLEAN

Worker == 1..NumWorkers
Rank   == 0..NumWorkers

\* The collectives: those of the startup, the two RPC tags, the steps of enter_parallel_impl, the
\* broadcast of the Fortran globals and the reduction of the reduce areas.
Entry == {"enterTag", "memOps", "stack", "heap", "context"}
Setup == {"dup", "aslr", "barrier"}
Op    == Setup \union Entry \union {"exitTag", "fortran", "reduce"}

\* What may go wrong that the other ranks are not told of.
Fault == (Checks \union Throwing \union {"send", "throw", "badType", "nested"}) \X Rank

\* A call, and the region it belongs to (0: none).
Collective == [op : Op, region : 0..MaxRegions]

VARIABLES
    pc,          \* where each rank is
    log,         \* the collectives each rank has called
    kinds,       \* the kinds of the regions opened so far
    region,      \* the region each rank runs or ran last
    inParallel,  \* in_parallel, one per process
    begun,       \* history: begun[r]: regions whose body rank r has begun
    ended,       \* history: ended[r]: regions whose body rank r has ended
    faults       \* history: what has gone wrong, and where

vars == <<pc, log, kinds, region, inParallel, begun, ended, faults>>

StartPC  == {"pagesize", "dup", "aslr", "report", "barrier"}
LeaderPC == StartPC \union
            {"main", "serial", "enterTag", "memOps", "stack", "heap",
             "context", "clear", "fortran", "body", "refused", "bodyEnd",
             "reduce", "finalize", "stopped"}
WorkerPC == StartPC \union
            {"reserve", "loop", "memOps", "stack", "heap", "context", "init", "fortran",
             "body", "nested", "lost", "finalize", "stopped"}

TypeOK ==
    /\ pc \in [Rank -> LeaderPC \union WorkerPC]
    /\ pc[0] \in LeaderPC /\ \A w \in Worker : pc[w] \in WorkerPC
    /\ log \in [Rank -> Seq(Collective)]
    /\ kinds \in Seq(Kinds) /\ Len(kinds) <= MaxRegions
    /\ region \in [Rank -> 0..Len(kinds)]
    /\ inParallel \in [Rank -> BOOLEAN]
    /\ begun \in [Rank -> SUBSET (1..Len(kinds))]
    /\ ended \in [Rank -> SUBSET (1..Len(kinds))]
    /\ faults \subseteq Fault

Init ==
    /\ pc = [r \in Rank |-> "pagesize"]
    /\ log = [r \in Rank |-> << >>]
    /\ kinds = << >>
    /\ region = [r \in Rank |-> 0]
    /\ inParallel = [r \in Rank |-> FALSE]
    /\ begun = [r \in Rank |-> {}]
    /\ ended = [r \in Rank |-> {}]
    /\ faults = {}

GoTo(r, to) == pc' = [pc EXCEPT ![r] = to]

\* Rank r calls collective c for region k.
Call(r, c, k) == log' = [log EXCEPT ![r] = Append(@, [op |-> c, region |-> k])]

\* The call of the leader that the next call of worker w meets, if it is there.
Called(w) == Len(log[w]) < Len(log[0])
Root(w)   == log[0][Len(log[w]) + 1]

\* Worker w receives the broadcast c.
Receive(w, c) ==
    /\ Called(w)
    /\ Root(w).op = c
    /\ Call(w, c, Root(w).region)

Kind(r) == kinds[region[r]]

Blame(what, r) == faults' = faults \union {<<what, r>>}

-----------------------------------------------------------------------------
(***************************************************************************)
(* The startup: fake_main up to the user's main and worker().              *)
(***************************************************************************)

\* The last collective of rank r has been called by every rank.
AllCalled(r) == \A q \in Rank : Len(log[q]) >= Len(log[r])

\* An exception leaves a check of rank r, or its worker(): fake_main reports it and
\* returns 1, and MPI_Finalize is called on the way out.  No other rank is told.
Throws(what, r) ==
    /\ what \in MayFail
    /\ Blame(what, r)
    /\ GoTo(r, "finalize")

\* check_pagesize, and the duplication of the communicator.
CheckPagesize(r) ==
    /\ pc[r] = "pagesize"
    /\ \/ Throws("pagesize", r) /\ UNCHANGED log
       \/ Call(r, "dup", 0) /\ GoTo(r, "dup") /\ UNCHANGED faults
    /\ UNCHANGED <<kinds, region, inParallel, begun, ended>>

\* check_cpu_binding, and check_aslr_disabled up to its reduction: it throws where
\* /proc/self/personality cannot be read, and a rank with address space
\* randomization contributes FALSE.
CheckBinding(r) ==
    /\ pc[r] = "dup" /\ AllCalled(r)
    /\ \/ \E what \in {"binding", "personality"} : Throws(what, r) /\ UNCHANGED log
       \/ /\ Call(r, "aslr", 0) /\ GoTo(r, "aslr")
          /\ UNCHANGED faults \/ ("aslr" \in MayFail /\ Blame("aslr", r))
    /\ UNCHANGED <<kinds, region, inParallel, begun, ended>>

\* Slip: the flags are combined with logical_or.
AllRankAslrDisabledOr == \E r \in Rank : <<"aslr", r>> \notin faults

\* What the reduction gives on every rank.
AllRankAslrDisabled == \A r \in Rank : <<"aslr", r>> \notin faults

\* The rest of check_aslr_disabled: on to main or to worker(), or to the first
\* barrier.
CheckAslrDisabled(r) ==
    /\ pc[r] = "aslr" /\ AllCalled(r)
    /\ IF AllRankAslrDisabled
       THEN GoTo(r, IF r = 0 THEN "main" ELSE "reserve") /\ UNCHANGED log
       ELSE Call(r, "barrier", 0) /\ GoTo(r, "report")
    /\ UNCHANGED <<kinds, region, inParallel, begun, ended, faults>>

\* Slip: there is no second barrier.
ReportAslrAndAbort(r) ==
    /\ pc[r] = "report" /\ AllCalled(r)
    /\ pc' = [q \in Rank |-> "stopped"]
    /\ Call(r, "barrier", 0)
    /\ UNCHANGED <<kinds, region, inParallel, begun, ended, faults>>

\* Between the two barriers the ranks whose own check has passed write
\* "ASLR is not disabled on rank"; the others write nothing.
ReportAslr(r) ==
    /\ pc[r] = "report" /\ AllCalled(r)
    /\ Call(r, "barrier", 0) /\ GoTo(r, "barrier")
    /\ UNCHANGED <<kinds, region, inParallel, begun, ended, faults>>

\* MPI_Abort ends every rank.
Abort(r) ==
    /\ pc[r] = "barrier" /\ AllCalled(r)
    /\ pc' = [q \in Rank |-> "stopped"]
    /\ UNCHANGED <<log, kinds, region, inParallel, begun, ended, faults>>

Startup(r) == \/ CheckPagesize(r) \/ CheckBinding(r)
              \/ CheckAslrDisabled(r) \/ ReportAslr(r) \/ Abort(r)

-----------------------------------------------------------------------------
(***************************************************************************)
(* The leader.                                                             *)
(***************************************************************************)

\* par_ctx is constructed in main: do_enter_parallel up to its swapcontext.
\* When it throws, the exception is caught by the user ("refused").
OpenRegion ==
    /\ pc[0] = "main"
    /\ Len(kinds) < MaxRegions
    /\ \E k \in Kinds :
          /\ kinds' = Append(kinds, k)
          /\ region' = [region EXCEPT ![0] = Len(kinds) + 1]
          /\ IF k = "serial"
             THEN GoTo(0, "serial") /\ UNCHANGED inParallel
             ELSE IF inParallel[0]
             THEN GoTo(0, "refused") /\ UNCHANGED inParallel
             ELSE /\ inParallel' = [inParallel EXCEPT ![0] = TRUE]
                  /\ GoTo(0, IF k = "overlap" THEN "main" ELSE "enterTag")
    /\ UNCHANGED <<log, begun, ended, faults>>

\* "Error: nested parallel is not supported" is handled by the user, in main
\* or in the body of a region.
Refused ==
    /\ pc[0] = "refused"
    /\ GoTo(0, IF region[0] \in begun[0] THEN "bodyEnd" ELSE "main")
    /\ UNCHANGED <<log, kinds, region, inParallel, begun, ended, faults>>

\* A region that is not entered: the body runs on the leader alone, and
\* do_exit_parallel returns at once.
SerialBody ==
    /\ pc[0] = "serial"
    /\ GoTo(0, "main")
    /\ begun' = [begun EXCEPT ![0] = @ \union {region[0]}]
    /\ ended' = [ended EXCEPT ![0] = @ \union {region[0]}]
    /\ UNCHANGED <<log, kinds, region, inParallel, faults>>

\* Slip: the stack is sent before the memory operations.
AfterSendStackFirst(c) ==
    CASE c = "enterTag" -> "stack"
      [] c = "stack"    -> "memOps"
      [] c = "memOps"   -> "heap"
      [] c = "heap"     -> "context"
      [] c = "context"  -> "clear"

\* Where a broadcast of enter_parallel_impl leads on the leader.
AfterSend(c) ==
    CASE c = "enterTag" -> "memOps"
      [] c = "memOps"   -> "stack"
      [] c = "stack"    -> "heap"
      [] c = "heap"     -> "context"
      [] c = "context"  -> "clear"

\* enter_parallel_impl, one broadcast after the other.
Send(c) ==
    /\ pc[0] = c
    /\ Call(0, c, region[0])
    /\ GoTo(0, AfterSend(c))
    /\ UNCHANGED <<kinds, region, inParallel, begun, ended, faults>>

\* The body of the region begins on rank r.
BeginBody(r) ==
    /\ GoTo(r, "body")
    /\ begun' = [begun EXCEPT ![r] = @ \union {region[r]}]

\* do_enter_parallel after its swapcontext has returned on rank r.
Resume(r) ==
    IF Fortran THEN GoTo(r, "fortran") /\ UNCHANGED begun ELSE BeginBody(r)

\* clear_soft_dirty, and the return to m_parallel_ctx.
ClearSoftDirty ==
    /\ pc[0] = "clear"
    /\ Resume(0)
    /\ UNCHANGED <<log, kinds, region, inParallel, ended, faults>>

\* A step of enter_parallel_impl throws before its broadcast.  The exception
\* is stored in params, which do_enter_parallel read before the swapcontext:
\* it resumes as if the region had been entered.
SendFails ==
    /\ SendMayFail
    /\ pc[0] \in {"enterTag", "memOps", "stack", "heap", "context", "clear"}
    /\ Resume(0)
    /\ Blame("send", 0)
    /\ UNCHANGED <<log, kinds, region, inParallel, ended>>

\* sync_fortran_global_variables: its broadcasts.
LeaderFortran ==
    /\ pc[0] = "fortran"
    /\ Call(0, "fortran", region[0])
    /\ BeginBody(0)
    /\ UNCHANGED <<kinds, region, inParallel, ended, faults>>

\* Rank r has not read the symbols of the globals, which it does once.
SymbolsUnread(r) == \A i \in 1..Len(log[r]) : log[r][i].op # "fortran"

\* The symbols of the globals cannot be read: the constructor of par_ctx throws, with
\* in_parallel set, and the user handles it.
LeaderSymbolsFail ==
    /\ pc[0] = "fortran"
    /\ "symbols" \in MayFail /\ SymbolsUnread(0)
    /\ Blame("symbols", 0)
    /\ GoTo(0, "main")
    /\ UNCHANGED <<log, kinds, region, inParallel, begun, ended>>

\* The body opens a region: in_parallel is set.
LeaderOpensInner ==
    /\ pc[0] = "body"
    /\ Kind(0) = "nested"
    /\ inParallel[0]
    /\ GoTo(0, "refused")
    /\ UNCHANGED <<log, kinds, region, inParallel, begun, ended, faults>>

\* exit() inside the body: the handler of fake_main sends the tag.
LeaderCallsExit ==
    /\ pc[0] = "body"
    /\ Kind(0) = "exit"
    /\ Call(0, "exitTag", region[0])
    /\ GoTo(0, "finalize")
    /\ ended' = [ended EXCEPT ![0] = @ \union {region[0]}]
    /\ UNCHANGED <<kinds, region, inParallel, begun, faults>>

\* Slip: in_parallel is reset only where there is something to reduce.
LeaderExitKeepsFlag ==
    /\ \/ pc[0] = "bodyEnd"
       \/ pc[0] = "body" /\ Kind(0) \notin {"nested", "exit"}
    /\ ended' = [ended EXCEPT ![0] = @ \union {region[0]}]
    /\ IF Kind(0) \in {"reduce", "badType"}
       THEN /\ Call(0, "reduce", region[0]) /\ GoTo(0, "reduce")
            /\ inParallel' = [inParallel EXCEPT ![0] = FALSE]
       ELSE GoTo(0, "main") /\ UNCHANGED <<log, inParallel>>
    /\ UNCHANGED <<kinds, region, begun, faults>>

\* The body ends and par_ctx is destroyed: do_exit_parallel.
LeaderExit ==
    /\ \/ pc[0] = "bodyEnd"
       \/ pc[0] = "body" /\ Kind(0) \notin {"nested", "exit"}
    /\ ended' = [ended EXCEPT ![0] = @ \union {region[0]}]
    /\ inParallel' = [inParallel EXCEPT ![0] = FALSE]
    /\ IF Kind(0) \in {"reduce", "badType"}
       THEN Call(0, "reduce", region[0]) /\ GoTo(0, "reduce")
       ELSE GoTo(0, "main") /\ UNCHANGED log
    /\ UNCHANGED <<kinds, region, begun, faults>>

\* Slip: the leader does not wait for the contributions.
LeaderReducedEarly ==
    /\ pc[0] = "reduce"
    /\ GoTo(0, "main")
    /\ UNCHANGED <<log, kinds, region, inParallel, begun, ended, faults>>

\* The root of the reduction has the contribution of every rank.
LeaderReduced ==
    /\ pc[0] = "reduce"
    /\ \A w \in Worker : /\ Len(log[w]) >= Len(log[0])
                         /\ log[w][Len(log[0])].op = "reduce"
    /\ GoTo(0, "main")
    /\ UNCHANGED <<log, kinds, region, inParallel, begun, ended, faults>>

\* Slip: main returns without the exit tag.
MainReturnsNoTag ==
    /\ pc[0] = "main"
    /\ GoTo(0, "finalize")
    /\ UNCHANGED <<log, kinds, region, inParallel, begun, ended, faults>>

\* main returns, or calls exit(): finished, the exit tag, MPI_Finalize.
MainReturns ==
    /\ pc[0] = "main"
    /\ Call(0, "exitTag", 0)
    /\ GoTo(0, "finalize")
    /\ UNCHANGED <<kinds, region, inParallel, begun, ended, faults>>

\* An exception escapes from main, or from clear_soft_dirty before it: fake_main ends
\* before the tag.
MainThrows ==
    /\ MainMayThrow
    /\ pc[0] = "main"
    /\ Blame("throw", 0)
    /\ GoTo(0, "finalize")
    /\ UNCHANGED <<log, kinds, region, inParallel, begun, ended>>

-----------------------------------------------------------------------------
(***************************************************************************)
(* The workers.                                                            *)
(***************************************************************************)

\* worker() begins: reserve_heap_area, which throws when it has tried too often.
ReserveHeapArea(w) ==
    /\ pc[w] = "reserve"
    /\ \/ Throws("reserve", w)
       \/ GoTo(w, "loop") /\ UNCHANGED faults
    /\ UNCHANGED <<log, kinds, region, inParallel, begun, ended>>

\* The broadcast of the tag.
GetTag(w) ==
    /\ pc[w] = "loop"
    /\ \/ Receive(w, "enterTag") /\ GoTo(w, "memOps")
       \/ Receive(w, "exitTag") /\ GoTo(w, "finalize")
    /\ UNCHANGED <<kinds, region, inParallel, begun, ended, faults>>

\* recv_and_perform_mem_ops: an operation that fails throws out of worker().
GetMemOps(w) ==
    /\ pc[w] = "memOps"
    /\ Receive(w, "memOps")
    /\ \/ Throws("replay", w)
       \/ GoTo(w, "stack") /\ UNCHANGED faults
    /\ UNCHANGED <<kinds, region, inParallel, begun, ended>>

\* enter_parallel_impl of the worker: the heap and the context.
Get(w, c, next) ==
    /\ pc[w] = c
    /\ Receive(w, c)
    /\ GoTo(w, next)
    /\ UNCHANGED <<kinds, region, inParallel, begun, ended, faults>>

\* The stack: from now on the worker's user code is where the leader's was.
GetStack(w) ==
    /\ pc[w] = "stack"
    /\ Receive(w, "stack")
    /\ region' = [region EXCEPT ![w] = Root(w).region]
    /\ GoTo(w, "heap")
    /\ UNCHANGED <<kinds, inParallel, begun, ended, faults>>

\* Slip: the worker does not switch to the context it received.
InitReduceAreasNoSwap(w) ==
    /\ pc[w] = "init"
    /\ GoTo(w, "loop")
    /\ UNCHANGED <<log, kinds, region, inParallel, begun, ended, faults>>

\* init_reduce_area_on_worker: it throws when no identity is known, out of the
\* user's main on a stack that is the leader's; the worker is lost.
InitReduceAreas(w) ==
    /\ pc[w] = "init"
    /\ IF Kind(w) = "badType"
       THEN GoTo(w, "lost") /\ Blame("badType", w) /\ UNCHANGED begun
       ELSE Resume(w) /\ UNCHANGED faults
    /\ UNCHANGED <<log, kinds, region, inParallel, ended>>

WorkerFortran(w) ==
    /\ pc[w] = "fortran"
    /\ Receive(w, "fortran")
    /\ BeginBody(w)
    /\ UNCHANGED <<kinds, region, inParallel, ended, faults>>

\* The symbols cannot be read on the worker: it throws as in InitReduceAreas.
WorkerSymbolsFail(w) ==
    /\ pc[w] = "fortran"
    /\ "symbols" \in MayFail /\ SymbolsUnread(w)
    /\ Blame("symbols", w)
    /\ GoTo(w, "lost")
    /\ UNCHANGED <<log, kinds, region, inParallel, begun, ended>>

\* The body opens a region: in_parallel is set on the leader only, and the
\* worker starts to enter it.  Its send_rpc_tag is a broadcast whose root is the
\* leader: it returns with the leader's next tag, and the worker goes on to send what
\* the root sends.  What happens then is undefined; here it stays, and properties
\* that depend on what it does exclude the fault.
WorkerOpensInner(w) ==
    /\ pc[w] = "body"
    /\ Kind(w) = "nested"
    /\ ~inParallel[w]
    /\ inParallel' = [inParallel EXCEPT ![w] = TRUE]
    /\ Blame("nested", w)
    /\ GoTo(w, "nested")
    /\ UNCHANGED <<log, kinds, region, begun, ended>>

\* exit() inside the body: the handler of fake_main calls the broadcast of the
\* tag on this rank too.
WorkerCallsExit(w) ==
    /\ pc[w] = "body"
    /\ Kind(w) = "exit"
    /\ Receive(w, "exitTag")
    /\ GoTo(w, "finalize")
    /\ ended' = [ended EXCEPT ![w] = @ \union {region[w]}]
    /\ UNCHANGED <<kinds, region, inParallel, begun, faults>>

\* Slip: the worker does not go back to worker() and returns to main.
WorkerExitNoSetcontext(w) ==
    /\ pc[w] = "body"
    /\ Kind(w) \notin {"nested", "exit"}
    /\ ended' = [ended EXCEPT ![w] = @ \union {region[w]}]
    /\ inParallel' = [inParallel EXCEPT ![w] = FALSE]
    /\ IF Kind(w) = "reduce"
       THEN Call(w, "reduce", region[w])
       ELSE UNCHANGED log
    /\ GoTo(w, "main")
    /\ UNCHANGED <<kinds, region, begun, faults>>

\* do_exit_parallel: the worker contributes to the reduction and goes back to
\* its loop.
WorkerExit(w) ==
    /\ pc[w] = "body"
    /\ Kind(w) \notin {"nested", "exit"}
    /\ ended' = [ended EXCEPT ![w] = @ \union {region[w]}]
    /\ inParallel' = [inParallel EXCEPT ![w] = FALSE]
    /\ IF Kind(w) = "reduce"
       THEN Call(w, "reduce", region[w])
       ELSE UNCHANGED log
    /\ GoTo(w, "loop")
    /\ UNCHANGED <<kinds, region, begun, faults>>

-----------------------------------------------------------------------------
\* MPI_Finalize returns when every rank has called it.
Finalize(r) ==
    /\ pc[r] = "finalize"
    /\ \A q \in Rank : pc[q] \in {"finalize", "stopped"}
    /\ GoTo(r, "stopped")
    /\ UNCHANGED <<log, kinds, region, inParallel, begun, ended, faults>>

Stopped ==
    /\ \A r \in Rank : pc[r] = "stopped"
    /\ UNCHANGED vars

LeaderStep ==
    \/ Startup(0)
    \/ OpenRegion \/ Refused \/ SerialBody
    \/ \E c \in Entry : Send(c)
    \/ ClearSoftDirty \/ SendFails \/ LeaderFortran \/ LeaderSymbolsFail
    \/ LeaderOpensInner \/ LeaderCallsExit \/ LeaderExit \/ LeaderReduced
    \/ MainReturns \/ MainThrows
    \/ Finalize(0)

WorkerStep(w) ==
    \/ Startup(w)
    \/ ReserveHeapArea(w) \/ GetTag(w)
    \/ GetMemOps(w) \/ GetStack(w)
    \/ Get(w, "heap", "context") \/ Get(w, "context", "init")
    \/ InitReduceAreas(w) \/ WorkerFortran(w) \/ WorkerSymbolsFail(w)
    \/ WorkerOpensInner(w) \/ WorkerCallsExit(w) \/ WorkerExit(w)
    \/ Finalize(w)

Next == LeaderStep \/ (\E w \in Worker : WorkerStep(w)) \/ Stopped

Spec == Init /\ [][Next]_vars

\* Every rank keeps running; a user's body and main come to an end.
FairSpec == Spec /\ WF_vars(LeaderStep) /\ \A w \in Worker : WF_vars(WorkerStep(w))

-----------------------------------------------------------------------------
(***************************************************************************)
(* Correctness.                                                            *)
(***************************************************************************)

\* The broadcasts worker w may be waiting in.
Expected(w) ==
    CASE pc[w] = "loop" -> {"enterTag", "exitTag"}
      [] pc[w] \in {"memOps", "stack", "heap", "context", "fortran"} -> {pc[w]}
      [] pc[w] = "body" /\ Kind(w) = "exit" -> {"exitTag"}
      [] pc[w] = "nested" -> {"enterTag"}
      [] OTHER -> {}

\* One of these has gone wrong on some rank.
Happened(what) == \E f \in faults : f[1] \in what

\* The collective calls of all ranks line up: what worker() waits for is what
\* the leader has called at that point, and calls that have met are the same
\* operation for the same region.  Three faults put the ranks out of step: a
\* step of enter_parallel_impl that throws, a region inside a region, and symbols
\* of Fortran globals that one rank cannot read.
CollectivesAgree ==
    \/ Happened({"send", "nested", "symbols"})
    \/ /\ \A w \in Worker :
             Called(w) /\ Expected(w) # {} => Root(w).op \in Expected(w)
       /\ \A q, r \in Rank, k \in 1..Len(log[0]) :
             k <= Len(log[q]) /\ k <= Len(log[r]) => log[q][k] = log[r][k]

\* After do_exit_parallel of a region with reduce areas the leader has the
\* contribution of every worker: each has finished the body of that region.  The
\* leader does not go on without one, whatever stops a worker before: it did not
\* get its range, could not replay an operation, is lost.  What a worker does that
\* opens a region inside a region is undefined.
ReductionIsComplete ==
    \/ Happened({"nested"})
    \/ \A k \in ended[0] :
          kinds[k] = "reduce" /\ ~(k = region[0] /\ pc[0] = "reduce")
              => \A w \in Worker : k \in ended[w]

\* The user's main and the loop of a worker begin only when every check has
\* passed on every rank, though each rank checks itself.
OnlyCheckedRanksRun ==
    (\E r \in Rank : pc[r] \notin StartPC \union {"finalize", "stopped"})
        => ~Happened(Checks)

\* MPI_Abort of one rank ends the others only when all have been through what they
\* do between the two barriers of check_aslr_disabled: no report is cut off.
AbortAfterReports ==
    \A r \in Rank :
        pc[r] = "stopped" /\ Happened({"aslr"}) => Len(log[r]) = 4

\* "Error: nested parallel is not supported" is thrown only when a region is
\* open: in_parallel is reset however a region ends.  The exceptions are a constructor
\* that throws with in_parallel set, for overlapping reduce areas or Fortran globals
\* it cannot find: every later region is refused.
RefusedMeansNested ==
    pc[0] = "refused" => \/ \E k \in begun[0] : k \notin ended[0]
                         \/ \E k \in 1..Len(kinds) : kinds[k] = "overlap"
                         \/ <<"symbols", 0>> \in faults

\* "once par_ctx is constructed (with enter_parallel == true), code is executed
\* on all processes": when the leader is in the body of a region that is
\* entered in parallel, every worker gets there.
RegionReached ==
    \A w \in Worker, k \in 1..MaxRegions :
        k \in begun[0] /\ kinds[k] # "serial" ~> k \in begun[w]

\* The same, for the programs and the runs that the code handles: no step of
\* enter_parallel_impl throws, on the leader or in what a worker replays, the worker
\* got its range, no region inside a region, no reduce area without an identity, and
\* the symbols of the Fortran globals are read.  A rank forgets no body it has begun,
\* whence the workers catch up again and again.
RegionReachedUnlessFault ==
    []<>(\/ \A w \in Worker, k \in begun[0] : kinds[k] # "serial" => k \in begun[w]
         \/ Happened(Throwing \union {"send", "nested", "badType"}))

\* However main ends, every rank ends: no worker stays in its loop, no rank
\* waits in MPI_Finalize for ever.  A rank with address space randomization
\* ends all of them; no other fault is told to the other ranks, and the ranks that go
\* on without the faulty one wait for it in a collective or in MPI_Finalize.
AllRanksStopUnlessFault ==
    <>(\/ \A r \in Rank : pc[r] = "stopped"
       \/ \E f \in faults : f[1] # "aslr")

-----------------------------------------------------------------------------
(***************************************************************************)
(* What the regions promise, see ForkJoin.                                 *)
(***************************************************************************)

\* The regions that do_enter_parallel enters: not after an overlap, see RefusedMeansNested.
Forked ==
    {k \in 1..Len(kinds) : kinds[k] # "serial" /\ \A j \in 1..k : kinds[j] # "overlap"}

Reducing == {k \in Forked : kinds[k] \in {"reduce", "badType"}}

\* The leader is still in a region while it waits for the reduction.
LeftByLeader == ended[0] \ (IF pc[0] = "reduce" THEN {region[0]} ELSE {})

Regions ==
    INSTANCE ForkJoin
    WITH Leader <- 0, Workers <- Worker, opened <- Len(kinds), forked <- Forked,
         reducing <- Reducing, left <- LeftByLeader

\* The program runs as forks and joins: every rank runs the bodies of the entered
\* regions once each, in order and without skipping one, and the leader leaves a
\* reduction after all ranks.  This is so as long as the ranks are in step, see
\* CollectivesAgree; the other faults only stop ranks.
RegionsForkAndJoin ==
    /\ Regions!Init
    /\ [][Happened({"send", "nested", "symbols"}) \/ [Regions!Next]_(Regions!vars)]_vars

=============================================================================
