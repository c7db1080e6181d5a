# A TLA+ model of simple_parallel

simple_parallel runs one program on several machines as if it were a
multi-threaded program on one.  Rank 0 (the *leader*) executes the user's `main`.
The other ranks (the *workers*) wait in `worker()` until the leader opens a
parallel region; then they receive the leader's stack and heap, jump to the
leader's position in the program, run the body of the region and go back to
waiting.  Inside a region, loops are shared out task by task by a dynamic
schedule.  Everything goes over MPI.

Paths below are relative to the root of the repository.

## 1. Inventory

| component | source | state it keeps | operations | what makes it correct |
|---|---|---|---|---|
| dynamic_schedule | `include/simple_parallel/cxx/dynamic_schedule.h` | leader: `m_iter`, a ring of send requests per client; client: `m_value`, ring of request sends, `m_leader_gen_finished`, `m_totally_finished` | construct (gather buffer sizes, barrier, first round), next, done, destroy | every element runs once, the leader leaves last, no message outlives its loop, every loop ends |
| parallel regions | `include/.../cxx/simple_parallel.h`, `src/simple_parallel/leader.cc` 415-682, `worker.cc` 133-182 | `in_parallel`, `entered_parallel`, saved contexts | `do_enter_parallel`, `do_exit_parallel`, `worker` | the collectives of all ranks line up, the reduction has every contribution, every rank runs every entered region |
| startup, termination | `src/simple_parallel/init.cc`, `override_main.cc`, `fake_main.h` | `mpi_env`, `finished`, the fake stack | checks, stack switch, end of main, `exit()` | nobody runs after a failed check, all ranks stop together |
| heap synchronisation | `leader.cc` 118-390, `worker.cc` 94-131, `pagemap.*` | soft-dirty bits, registered heaps, pages of all ranks | find dirty and zeroed pages, send, receive, clear | at the start of a body a worker sees what the leader wrote |
| reserved heap | `leader.cc` 684-833, `worker.cc` 31-87, `leader.h` | the mappings inside the reserved range, `begin`, `memory_operations` | `proxy_mmap`, `proxy_munmap`, `proxy_madvise`, replay | an address is mapped once, nothing outside the range is touched, the maps of all ranks agree |
| transfers of large arrays | `bigmpi.cc` | a ring of requests | `Bcast`, `AllReduce`, `Reduce`, `sync_areas` | chunks cover the data, each once; nothing is open on return |
| C interface | `src/c_binding/*` | generator states, `s_p_dynamic_schedule`, the count of threads | construct and destroy regions, generators, loop macros | chunks tile the range, the schedule is deleted once and after its last use |
| Fortran interface | `src/fortran_binding/*`, `include/simple_parallel/fortran/*` | `parallel_scheduler`, `gss_scheduler` | as above | as above |
| Fortran globals | `sync_fortran_global_vars.cc` | list of symbols | broadcast on entry | same list on all ranks |
| build, page size detection, examples | `CMakeLists.txt`, `detect_page_size.cc`, `example/*` | none at run time | | |

How they interact: `fake_main` runs `main` on the leader and `worker` elsewhere.
`par_ctx` sends a tag, the recorded memory operations, the stack, the heap, and the
context to continue with, all as collectives on `s_p_comm`, and `worker` answers
with the same collectives.  A body may construct `dynamic_schedule`s one after the
other on the same communicator.  The C macros and the Fortran include files let all
threads of a rank draw tasks from one schedule under a critical section.  Memory
operations of mimalloc on the leader call the proxies, whose records the next region
replays.

What is hard here: the pace of the ranks is unrelated (the leader can be several
regions ahead); messages of consecutive loops use the same tags; probes say only what
has already arrived; several ends of a loop race (a last value against the end
message, unanswered requests against the leader's last drain); an exception on one
rank leaves the others inside a collective; `exit()` and escaping exceptions end
the program from inside.  `PROJECT.json` lists each hazard at its line.

## 2. The modules

| module | models | proofs |
|---|---|---|
| `TaskPool` | what a shared loop promises (abstract) | |
| `DynamicSchedule` | the messages of `dynamic_schedule`; implements `TaskPool` | `DynamicScheduleProofs`, `TaskPoolProofs` |
| `ForkJoin` | what regions promise (abstract) | |
| `ParallelRegion` | startup, regions and termination on all ranks; implements `ForkJoin` | `ParallelRegionProofs` |
| `HeapSync` | what a worker's heap holds | `HeapSyncProofs` |
| `ReservedHeap` | what is mapped on the leader and on a worker | `ReservedHeapProofs` |
| `BigMpi` | transfers of large arrays | `BigMpiProofs` |
| `OmpLoop` | the threads of one rank in a loop of the C macros or of the Fortran include files; implements `TaskPool` | `OmpLoopProofs` |
| `GuidedChunk`, `GssGenerator`, `Collapse2Generator`, `FortranGss`; `Generators`, the three side by side | the generators of chunks | `GeneratorProofs` |

`MC*` modules hold the sets their configurations name.  An operator that a comment calls a *slip* is
a plausible mistake in the operator after it; no next-state relation uses one.
It is there to show that the properties notice such a mistake.

The modules meet at narrow places.  `HeapSync` leaves to `ParallelRegion` that the
broadcasts of an entry meet on all ranks, and to `ReservedHeap` what the kernel of a
worker has mapped.  `ReservedHeap` promises (`OwnedIsTold`) what `HeapSync` needs when it
sends a page.  `OmpLoop` takes the tasks of a rank from `DynamicSchedule`, and
`DynamicSchedule` gets its elements from a generator.  `ParallelRegion` sees one collective
where `BigMpi` sees the calls it is made of.

### TaskPool: what a shared loop promises

`todo`, `given`, `ran`, `open`.  Tasks leave the range in order, each is given to one
rank, a rank runs its tasks oldest first, and the leader leaves when all have run.
It says nothing of requests, buffers or messages.

### DynamicSchedule: the protocol

The constants are the number of clients, the buffer sizes and range lengths a program
may use, a bound `MaxLoops` on the loops it runs, and `Eager`: whether `MPI_Isend` of
a task completes at once (small tasks) or when the client has received it.

| variables | in the code |
|---|---|
| `srv`, `iter`, `nTasks`, `ring` | position of the leader in `server_handler`, `m_iter` and `m_end`, fill of `m_requests[c]` |
| `buf`, `left`, `turn` | `all_buffer_sizes`; the local `buffer_sizes` and `i` of the first round |
| `cli`, `value`, `genDone` | position of a client in `client_handler`, `m_value`, `m_leader_gen_finished` |
| `reqs`/`reqsIn`, `vals`/`valsIn` | requests and values between two ranks, and how many have arrived |
| `doneMsg`, `finMsg` | `val_gen_done` to, `client_finished` from a client |
| `ran` | history: how often the body ran for a task |

Every probe, receive and send decides on an action of its own where another rank can
act in between.  The three looks of a client (`ProbeValue`, `CheckDone`, `Recheck`) are
three steps, since a value or the end can arrive between any two.  `Gather`
starts a loop on all ranks; `StartSingle` is the loop on `s_p_comm_self` outside a
region.  `FirstRound` sends one unsolicited value; `Handle` answers a request;
`HandleNone` lets the leader work itself; `Notify`, `RecvFinished`, `AllFinished`,
`Drain` and `LeaderEnd` are `finish_cleanup` and the destructor.

Taken from the environment: messages between two ranks arrive in the order they were
sent, whatever their tags (Open MPI's sequence numbers), `barrier` and `all_gather` do
not let a rank out before all are in, `MPI_Cancel` of a send does nothing.  A barrier
does *not* deliver the messages sent before it.  A task is its number; a range that
reuses the memory of its element is outside the model (see hazards).  A
`buffer_size` of 0 stands for a `hardware_concurrency()` of 0.

The refinement mapping: `Todo` is what is behind `iter`; `Waiting(c)`, what is on the
wire to a client or in its hands, is what `TaskPool` calls given; `HaveRun` are the tasks with
`ran = 1`; `InLoop` says whether the leader is between the constructor and the
destructor.

### ForkJoin: what regions promise

`opened` counts the regions of the leader, `forked` are those all ranks run, `reducing` those of them
that end with a reduction, `begun` and `ended` the bodies of each rank, `left` what the leader has left.
The leader opens one region at a time, begins its body and leaves it; a worker begins the first forked region it has not run,
however far the leader is ahead; a region that reduces is left when all ranks have ended its body; one that is
not forked is run by the leader alone or not at all.  It says nothing of collectives, tags, contexts or faults.

### ParallelRegion: starting, entering, leaving, stopping

Each rank has a position (`pc`) and the sequence of collectives it has called
(`log`); the k-th call of one rank meets the k-th call of another.  The root of a broadcast
goes on at once, the other ranks when the root has called; the root of a reduction
waits for all; the collectives of the startup let nobody out before all are in.  A rank whose call
meets another operation stays there.  The kinds of regions are what the code
distinguishes: not entered, plain, with reduce areas, with a reduce area of a type without
identity, with overlapping areas, with a region inside, with `exit()` in the body.

The startup is `fake_main` up to `main` and `worker()`: the page size, the binding and the reading of
`/proc/self/personality` throw on one rank; the answer about address space
randomisation is reduced over all ranks.  When it is no, all ranks go through two barriers and the program is aborted.  In
between the ranks whose own check has *passed* write the message (`init.cc:85`), the others write nothing.

What throws on one rank is a fault.  `faults` records it, and properties that such a fault breaks name it:

| fault | action | what the rank does |
|---|---|---|
| `pagesize`, `binding`, `personality` | `CheckPagesize`, `CheckBinding` | goes to `MPI_Finalize` alone |
| `aslr` | `CheckBinding` | contributes FALSE to the reduction; the only fault that ends all ranks |
| `reserve` | `ReserveHeapArea`: the worker does not get its range (`worker.cc:157`) | leaves `worker()` and goes to `MPI_Finalize` alone |
| `replay` | `GetMemOps`: a replayed operation fails (`leader.h:33-56`) | the same, while the leader goes on to the body |
| `symbols` | `LeaderSymbolsFail`, `WorkerSymbolsFail`: the symbols of the Fortran globals cannot be read | the constructor throws on the leader, with `in_parallel` set; a worker is lost |
| `send` | `SendFails`: a step of `enter_parallel_impl` throws | the leader runs the body alone |
| `throw` | `MainThrows`: an exception escapes from `main` | the leader goes to `MPI_Finalize` without the exit tag |
| `badType` | `InitReduceAreas`: a type has no known identity | the worker is lost |
| `nested` | `WorkerOpensInner`: a worker opens a region in a region | undefined |

Contents of stack and heap are not represented: a body is known by its region.  `send_heap`
makes several broadcasts; they are one collective here, as no other rank's choice
depends on a part of them.  A lost worker unwinds a stack that is the leader's; what happens then is
undefined, and the model keeps it out of the protocol for ever (`"lost"`).  A worker that opens a region in a region calls
a broadcast whose root is the leader (`leader.cc:422`).  That broadcast returns with the leader's *next* tag, and the worker goes on
as a sender (424-433).  What follows is undefined too: the model holds the worker (`"nested"`), and the
properties that depend on what it does exclude the fault (`CollectivesAgree`, `ReductionIsComplete`,
`RegionsForkAndJoin`, `RegionReachedUnlessFault`, `AllRanksStopUnlessFault`).

The refinement mapping (`Regions`): a region is opened by its constructor, as the `kinds` say; it is forked when
the constructor enters it (`Forked`: not `"serial"`, and none since overlapping areas were refused, as `in_parallel` then
stays set); `begun` and `ended` are the history variables of that name; the leader has left what it
has ended, but for a region in whose reduction it is.  `RegionsForkAndJoin` excludes what puts the ranks out of
step: a throwing step of `enter_parallel_impl` (`send_fails` shows why), a region inside a region, and symbols of Fortran
globals that cannot be read.  The other faults only stop ranks.

### HeapSync: pages and their soft-dirty bits

Memory is a row of cells, some to a page.  `content` and `wcontent` are the leader's and the
worker's cells; `malloced` are the pages of the registered heaps, `library` those of the
library's own heap, `mapped` and `wmapped` what `mmap` has given on either side, `memOps` what has not been
told.  `dirty` and `touched` are the bits of `/proc/self/pagemap`.  An entry is six steps
(`Open`, `SendMemOps`, `Scan`, `SendDirty`, `SendZero`, `ClearSoftDirty`), as between any two
of them another thread of the leader may allocate, free or write (`Threaded`).
`InnerPages` are the pages that lie in a reduce area as a whole, which are not sent.  `live`,
`stale` and `late` are history: which cells the program has written; which of them the worker has written
too, or a thread behind the back of an entry; which pages were mapped after the list of operations
had gone.

Two kinds of writes the code really loses, and the properties are not about those: what a worker writes (its copy is never compared with the
leader's), and what another thread writes after the scan, since `clear_soft_dirty` then clears bits that nobody has read.  Such
cells are `stale` and not `Shared`, until the leader writes the page again.  A page that another thread maps after the list has gone is sent although
the worker has not mapped it; `SentPagesMapped` leaves it out as `late`.

### ReservedHeap: the address range of the heap

A row of pages, one before and one after the range included.  `lmap` and `wmap` are the two
kernels' maps.  A call of a thread is one to three steps: `Mmap` takes the mutex, `TryMmap` is one
turn of the loop around the system call (`Step` is by how much `begin` moves on when the hint was not taken),
`MmapReturns` records the operation, frees the mutex and gives the memory to mimalloc; `Munmap` and `Madvise` make the system call, and
`RecordOp` puts the operation on the list.  `MapsAgree` is therefore about states in which no call is between the two.  `SendMemOps` moves the list
to the worker, which first has to reserve the range (`ReserveHeapArea`, again and again) and
replays in order (`Replay`).  The container that has been moved from is taken to be empty, as it is
in the standard library that is used.

### BigMpi: transfers of large arrays

`calls[r]` are the calls rank r has made, each an area, a position and a count; `ring[r]` its open requests;
`complete[r]` the calls that are complete, which follows from who has called: a broadcast waits for the
root, a reduction on the root for all, an all-reduction for all.  `Bcast`, `Reduce` and `AllReduce` wait for each call, `sync_areas`
and the Fortran globals keep a ring.

### OmpLoop: the threads of one rank

Where each thread is (`pc`, `loop`), who ran the two `single` constructs (`executor`,
`deleter`), who has come to which barrier (`arrived`), the thread count in the frame of each thread's
block (`counter`), and the shared iterator (`tasks`, `position`, `deletes`).  A program
is C or Fortran, with or without a barrier of its own between the loops, and enters the same block
again (`sameFrame`) or another one.  `Frame` says which variables a block has: those of the first loop
if the block is the same.

The refinement mapping (`Pool(k)`, one `TaskPool` for each loop, whose ranks are the threads): what is
behind the iterator is to do, the task in a thread's hands is given to it, and the pool is open from
when the schedule is made until it is deleted.  This is a promise about the threads of one rank.  It is not composed with
that of `DynamicSchedule` about the ranks: the C macros and the Fortran include files copy the task and call `s_p_next` *before* the body, so a client may have
asked for more, and reported that it has finished, with a body still to run.  The leader of such a
loop can leave it while threads of other ranks are in a body; that it leaves after all tasks have run
(`AllRanWhenLeaderLeaves`) holds of loops written in C++, where `next` is called after the body.

The protocol of a loop ends in `next`, or in the constructor where a rank gets no task.  The destructor (`Delete`) only deals with open
requests; it matters here since it calls MPI.

### The generators

Unsigned integers of any width (`Modulus`, 2^64 in the code) with wrapping addition and
subtraction.  `GssGenerator` is `s_p_gss_generator`; `Collapse2Generator` is
`s_p_collapse_2_gss_generator` with the user's function of `example/c_example.c`.  A point
(i, j) is the number of pairs before it, and `inLastRow` whether its `i` is `end.i`.
`FortranGss` is `gss_next` of `gss_scheduler`, on signed integers, with the end of the loop included.
`Generators` composes the three for one run: they share no variable, and a behaviour is about one of them.

The code checks little here, and the models assume what it leaves to the caller: a range does not end before
it begins (`s_p_new_gss_state` would wrap), there is a process, the number of pairs is the right one, and the user's
function moves by the count it is asked for.  `PairsDoNotFail` leaves out 0 pairs with rows, where the assertion does fail.

## 3. What the runs check

| run | instance | shows |
|---|---|---|
| `loops` | 2 clients, buffers 0-2, ranges of 0, 3 or 4 tasks, 2 loops, eager sends | `AtMostOnce`, `AllRanWhenLeaderLeaves`, `NothingLeftOver`, `Conservation`, `FirstRoundIsFair`, `FinishedClientHasNoValue`, and the refinement `ImplementsTaskPool` |
| `loops_end` | 2 clients, buffers 0-1, 0 or 3 tasks, 2 loops, synchronous sends, fair | `LoopEnds`: no rank waits for ever |
| `regions` | 2 workers, 2 regions of every kind, Fortran globals, every fault, fair | `OnlyCheckedRanksRun`, `AbortAfterReports`, `CollectivesAgree`, `ReductionIsComplete`, `RefusedMeansNested`, `RegionReachedUnlessFault`, `AllRanksStopUnlessFault`, and the refinement `RegionsForkAndJoin` |
| `heap` | 2 pages of 2 cells, values 0 and 1, a reduce area over cells 1-3, any number of regions, another thread on the leader | `InSync`, `NothingForgotten`, `SentPagesMapped` |
| `reserved` | 2 threads, 4 pages, steps of 2, mappings of 1 or 2 pages, a foreign page or none, 1 retry, 2 operations under way | `OnlyTheRange`, `MmapMeetsReserved`, `OwnedIsTold`, `MapsAgree` |
| `transfer` | 3 ranks, calls of at most 2 elements, a ring of 2, areas 5 / 1,0,3,1 / 2,0,1 / none | `CallsTile`, `CompleteOnReturn` |
| `omp` | 3 threads, 2 loops, up to 2 tasks each, C and Fortran, where the count of threads is kept | `TasksRunOnce`, `DeletedByLast`, `SerializedWhenSeparated`, and the refinement `LoopsAreTaskPools` |
| `generators` | 4-bit integers: every range, number of pairs, grain size and process count; Fortran loops between 0, 1, 2, 3, 6, 9, 14 in both directions | `ChunksTile`, `Guided`, `PairsTile`, `PairsDoNotFail`, `IndicesOnce` |
| `ring_full` | 2 clients, synchronous sends | violated: `BOOST_ASSERT(!requests.full())` |
| `send_fails` | 1 worker, 1 region | violated: a constructed region runs on all processes |
| `omp_serialized` | 2 threads, 2 loops in C, no barrier | violated: MPI is entered at the level *serialized* |
| `omp_frames` | 2 threads, the same loop twice, no barrier | violated: the last thread deletes the schedule |

Why the bounds are enough.

* *Loops.* Two clients show every race of two clients with each other
  and the leader; the first round, the rank order of `finish_cleanup` and the
  `any_source` probe need no third.  A buffer of 2 makes the first round go
  round twice; 0, 3 or 4 tasks end it before it starts, in the
  middle, at its end or after it, depending on the buffers, and leave tasks for
  requests and for the leader.  Two loops are what it takes for
  a message to be taken for one of another loop, and each loop starts from the same
  state (`QuiescentBetweenLoops` proves it).
* *Regions.* Two regions let the leader be a whole region ahead of a worker, and one kind follow
  each other; two workers let one be ahead of the other, and one throw while the other goes on.  The theorems below need neither bound.
* *Heap.* With two cells to a page a page can be inside the reduce area as a whole (the second one) or be touched by it (the
  first), and a page can be written in a cell other than the one that is stale.
* *Reserved heap.* Four pages and steps of two make the third mapping fail or end at the range's end; a foreign
  page makes `begin` move on without a mapping; with two operations under way one can be on its way while another is on the list.
* *Transfers.* Calls of 2 elements have an odd rest, an exact multiple and an empty area; three open
  calls are more than the ring holds; a list of no areas ends at once.
* *Threads.* Three threads: one in each of two critical sections, and one that is neither the first nor the last.
* *Generators.* 4-bit integers reach the largest value and every relation of range, grain size and process count.

Deadlock is checked except in `regions` and `send_fails`, where the system may really stop.  Address space randomisation is the only
fault that all ranks are told of.  After any other one in the table of section 2 (at startup, in a worker's range or replay, in
the entry or the body of a region, or at the end of `main`) the ranks that are left may wait for the faulty one for
ever, in a collective or in `MPI_Finalize`.  `AllRanksStopUnlessFault` says that they end when there was none, or only randomisation.
`RegionReachedUnlessFault` says that the workers catch up again and again, which is the same as one after the other reaching each region,
since no rank forgets a body it has begun.

Fairness.  Every rank keeps executing (weak fairness of the leader's step and of
each client's or worker's step; bodies and `main` come to an end), and the network delivers each
kind of message in the end (weak fairness of each delivery, progress of MPI).  None is needed
for the choice between alternatives: which request is answered, and whether a
probe finds a message, stays free.  The probing loops of the clients are
not a liveness problem, because a delivery stays enabled while they spin.

The four violated properties are disagreements between the code and its own
comments, assertions or names; `PROJECT.json` quotes each.
`SerializedWhenSeparated` and the programs of `omp` say where the last two do not occur:
when the threads wait for each other between the loops, as they always do in Fortran.
`RegionReachedUnlessFault` says the same of `send_fails`.

Other places where code and intent differ, for which there is no run of their own:

* `dynamic_schedule.h:121` asserts that the request of a client has arrived because it was sent before the
  barrier.  MPI does not promise that; `FirstRound` does not need it.
* `leader.cc:506`: a type without identity is noticed on the workers only, whose stack then unwinds; the
  leader waits in the reduction (`"badType"`).
* `worker.cc:157`, `worker.cc:85`: a worker that does not get its range, or cannot replay an operation, leaves `worker()` with an
  exception and waits in `MPI_Finalize`, while the leader runs its regions (`"reserve"`, `"replay"`).
* `sync_fortran_global_vars.cc`: symbols that cannot be read throw out of the constructor of `par_ctx` when the region has been
  entered on all ranks (`"symbols"`).
* `leader.cc:616`: overlapping reduce areas throw after `in_parallel` has been set, so that all later
  regions are refused as nested.  Symbols that cannot be read do the same.  `RefusedMeansNested` names both cases.
* A region inside a region is refused on the leader, while a worker enters it and receives the leader's next tag in the
  place of sending one (`leader.cc:422`); what it does then is undefined (`"nested"`).
* `c_dynamic_schedule_binding.cc:175`: the assertion blames the caller's count when there are rows
  without pairs.  `PairsDoNotFail` leaves this case out.
* A check that fails on one rank only, and an exception that escapes from `main` (`init.cc` 377-379), end that
  rank in `MPI_Finalize` while the others wait in a collective.
* `init.cc:85` prints "ASLR is not disabled on rank" on the ranks where it is disabled, and the rank whose check failed says nothing.  `worker.cc` says "at most 16 times" and tries 17.
  `gss_dynamic_schedule_begin.h:34` sums 64-bit integers as `MPI_INT`.  `s_p_enter_parallel` is demanded by an
  `#error` of the Fortran header and then ignored.  The time
  `m_begin_parallel_consume` is not initialised before it is added to.  A debug build replays `MADV_NORMAL` in the
  place of every advice.  None of them is behind a property here.

## 4. What is proved

All theorems are for every value of the constants that meets the named assumptions of
the modules: natural numbers where the code has sizes, sets of them, Booleans; ranges do not end before they begin; a process, a thread, a place in
the ring.  They need no bound on ranks, regions, pages or tasks.

**The protocol of a loop** (`DynamicScheduleProofs`), for both kinds of sends:

* `TypeCorrect`: the iterator never passes the end of the range although three places advance it.
* `QuiescentBetweenLoops`: between loops nothing is on its way.
* `RequestsConserved`: requests, values and first-round credits add up to twice the
  buffer of a client.
* `FinishedClientIsServed`: a client that leaves has received all its values.
* `FirstRoundFair`: in the first round no client gets ahead of another that has room by more than one task.

None of these is inductive.  The inductive invariant `IInv` joins to the
types, to `NothingLeftOver` and to `Conservation`: `ChannelInv` (no more messages have arrived than
are on their way, and what has been received ended the queue before it), `WorkInv` (a
client has a task only where it may run one), `PhaseInv` (which positions of the leader
and the clients go together: nobody passes the barrier before all have posted, the
leader is in its loop as long as a client is) and `EndInv` (once
`val_gen_done` has arrived no value is on the wire, once `client_finished` is sent
none is left, and the requests that remain arrive before it).
`EndInv` is what makes the drain at the end of `finish_cleanup` complete: all requests
have arrived when the last `client_finished` has been received, so a drain that stops at the
first probe without result leaves nothing.  `FirstRoundFair` needs to know how far the round is: `PassInv` says that
there is a pass n such that the clients before `turn` have got n + 1 tasks and the others n, a client without room at
most as many.  A step goes on in the pass, or begins the next one when nobody after `turn` has room.

**Every task once** (`TaskPoolProofs`): `TasksRunAtMostOnce`, `TasksRunBeforeLeaderLeaves` and
`DynamicScheduleImplementsTaskPool`.  On top of `IInv`, `TaskInv` says that tasks are on the wire in
increasing order and behind the one in a client's hands (`OrderInv`), that what waits for a client
has left the range and waits for no other (`WaitingInv`), and that a task that has left the range and
waits for nobody has run once, any other never (`RanInv`).  Every action then gives a
task, takes one, runs one, opens, closes or leaves the pool alone; one lemma for each of these shows that `TaskInv` stays
and that `TaskPool` makes the same step or none.

**Startup, regions, termination** (`ParallelRegionProofs`): `RegionTypeCorrect`,
`OnlyChecked`, `CallsAgree`, `ReductionsComplete`, `AbortsAfterReports`, `NestedIsNested`,
`RegionsAreForksAndJoins`.  They include all faults: what a property says of a program in which something goes wrong is proved
of it too.  So `ReductionsComplete` excludes a region inside a region and nothing else, and `CallsAgree` and `RegionsAreForksAndJoins`
the three faults that put the ranks out of step.  `AbortsAfterReports` says that the second barrier is before the end of any
rank, so that no report between the two is cut off.  `IInv` has three layers: what one rank's log may hold (`StartInv` for the startup; `GrammarInv`: which call
may follow which, and which regions they belong to), where a rank is after its last call (`LeaderInv`, `LeaderInStep`,
`WorkerInv`), and how logs compare (`PrefixInv`: the log of a worker is a prefix of the leader's, but for a
last call made before the leader's, which `MayBeAhead` limits to reductions and the startup).
`ContributedInv` ties a contribution to the body before it.
When ranks are out of step the second and the third no longer hold, and
`GrammarInv` alone keeps that no rank takes another call for a
reduction.  `StopInv` and `FlagInv` are two further invariants, for how ranks end and for `in_parallel`.

The refinement of `ForkJoin` goes by the broadcasts of contexts, the one call that names a region to a
worker.  In the leader's log they come in the order of the regions, one for each forked region but the
one being entered (`ContextInv`).  A worker has ended the regions whose contexts it has received, but for the one it is in
(`WorkerBodies`), and has begun no other; as its log is a prefix of the leader's, what it begins next is the first forked
region it has not run.  `LeaderBodies` says where the leader is in the one region it may be in, and `ThrewInv` that it enters
none after a constructor has thrown with `in_parallel` set.  The reduction ends when all have contributed, whence all have
ended the body (`ReductionIsComplete`).  A worker that has gone to `MPI_Finalize` or unwinds a foreign stack begins
and ends no body of a forked region any more; that is all the model says of the latter.

**The heap** (`HeapSyncProofs`): `TypeCorrect`, `HeapInSync`, `NothingIsForgotten`, `SentPagesAreMapped`, for any number of pages, cells to a page,
reduce areas and with other threads.  They are about `Shared` cells: not what a worker has written, nor what another thread
has written since the scan, which the code loses.  The invariant goes by the place of the entry: a shared
cell that differs is on a page that is dirty and allocated before the scan, on a page of the result
until that is sent, and not there afterwards.  It needs the arithmetic of `InnerPages` (a page inside an area has no
cell outside it).

**The range** (`ReservedHeapProofs`): `TypeCorrect`, `RangeIsRespected`, `MappedOnce`, `HeapIsTold`, `MapsFollow`.  The list on the leader and what
is on its way are one sequence, `Told`: sending does not change it, recording appends to it, a replay takes its head.  As
`begin` only grows (it may even leave the range, after which every mapping fails), under the mutex, an address is mapped once; so the operations of a page are at most one `mmap` and what follows it,
and the worker's map is the leader's with `Told` still to be applied.

**Transfers** (`BigMpiProofs`): `TypeCorrect`, `NoRequestForgotten`, `TransfersComplete`, `AreasAreTiled`, for any ranks, areas,
ring and largest count of a call.  `AreasAreTiled` is about whole histories, so `TileInv` describes one from both ends: each call is the
one that must follow the call before it (`OrderInv`: `Follows` is a function of the call, whence two ranks make the same
calls, `SameInv`), the place of a rank is behind its last call with nothing left out (`PlaceInv`), and every element before
that place is in a call (`SentInv`).

**The threads of a rank** (`OmpLoopProofs`): `TypeCorrect`, `RunOnce`, `LastDeletes`, `MPIIsSerialized`, `MacrosImplementTaskPool`,
for any number of threads, loops and tasks, in C and in Fortran.  They assume `Kept`: a C program that enters the
same block again has a barrier before it does (the run `omp_frames` shows what
happens without one, and the programs of `omp` meet `Kept`).  Threads may be in different
loops, so the invariant goes by `Past(t, k, S)`: thread t has been at one of the places S of loop k, or is in
a later loop.  `TeamInv` orders the threads around the first `single` construct, `FortranInv` around the second and
the barrier before it; `PositionInv` and `RunInv` say that a task behind the iterator has been run once or is in one
thread's hands; `CountInv` that the count in the block of the thread that made the schedule is the number of threads
still to leave, as long as there is one (`SameFrame` shows that no thread of another loop writes to it until then).  For the refinement, what has been run is what has left the range and is
in nobody's hands (`RunInv`), a thread that draws or runs a task finds the schedule made and not deleted
(`UsersFindItOpen`), and when the last thread deletes it nobody has a task of the loop left (`DeleterIsLast`).

**The generators** (`GeneratorProofs`), for integers of any width, every range and number of pairs, grain size and process count:

* `GssChunksTile`: the chunks of `s_p_gss_generator` are consecutive, not empty, and stay in the range, so that
  the sum of position and chunk never wraps.  `NextCountRange` carries the arithmetic.
* `GssTypeCorrect`, `GssIsGuided`: chunks never grow, only the last is below the grain size, and every process gets one if the range
  allows it.  `GuidedInv` adds that the chunk which comes next is not longer than the last one, and that
  enough remains for the processes which have had none; the lemmas are about division (`QuotientMonotone`, `NextCountMonotone`).
* `PairsAreTiled`, `PairsNeverFail`: with the user's function of the example, the collapse-2 generator subtracts
  what it gives, although point and `remaining_index` advance separately, and its assertion holds for every right count
  but 0 with rows.  `PairsInv` relates `inLastRow` to the pairs that remain.
* `IndicesAreShared`: a Fortran loop, its end included, gives each index once, an empty loop none.  `IndicesInv` says
  that the position is behind all chunks, which lie in order, and that a loop without index makes at most one call.
* `EachGenerator`: a behaviour of the composition is one of each of the three.

Only model-checked: liveness under fairness (`LoopEnds`, `RegionReachedUnlessFault`, `AllRanksStopUnlessFault`), which
the provers do not do.  Every invariant and every refinement that a passing run checks is proved.  Two invariants
are proved and no longer part of a run: the type invariant of `GssGenerator` (`GssTypeCorrect`) and `OpenIsRemembered` of `BigMpi`
(`NoRequestForgotten`), on which `CompleteOnReturn` rests.

## 5. Plan

What could still be added, the most useful first: action properties of the log of collectives and of the list of memory operations; the choice of the stack's
and the heap's address at startup.

## 6. Not modelled

* Reading the symbols of the binary for the Fortran globals (ELF and DWARF through elfutils) and of `/proc`: input parsing.
* The vector instructions of the test for zeroed pages: `Scan` knows whether a page is zero.
* The stack and the registers that are sent at each entry: they are sent as a whole, and the context switch is a
  step of `ParallelRegion`.
* What `madvise` does to the contents of pages.
* In `init.cc`: the environment variables, the runs without Open MPI or on a single rank (314-326), the choice of addresses, the
  switch to the fake stack.
* `fortran_binding.*` and `parallel_begin.h`: text that the preprocessor pastes around `par_ctx`, one case for each type
  and rank of a reduce area, and conversions of handles.
* That memory for small objects runs out, that `getcontext` or `swapcontext` fails, and what a worker does that entered a region inside a
  region or unwinds a foreign stack.
* Error returns of MPI: the default error handler aborts.  Leaving a loop over a schedule with `break`: the interface does not offer it.
* mimalloc, MPI, OpenMP themselves (external), the output of times, build files, the detection of the page size, the examples.
