------------------------------- MODULE HeapSync -------------------------------
(***************************************************************************)
(* What a worker's copy of the heap holds: enter_parallel_impl of the      *)
(* leader finds the pages written since the last region by their           *)
(* soft-dirty bit and sends them, except those inside a reduce area.       *)
(*                                                                         *)
(* Memory is a row of cells, CellsPerPage to a page; 0 is what new memory  *)
(* holds.  The broadcasts of one entry are steps of both ranks: that they  *)
(* meet is ParallelRegion's matter, and the kernel's map of the worker is  *)
(* ReservedHeap's.  Other threads of the leader may allocate, free and     *)
(* write at any time.                                                      *)
(***************************************************************************)
EXTENDS Integers

CONSTANTS
    NumPages,
    CellsPerPage,
    Value,         \* what a cell may hold
    ReduceAreas,   \* sets of cells lo..hi a region may reduce
    Threaded       \* other threads of the leader may run while a region is entered

ASSUME SizesAssumption == NumPages \in Nat \ {0} /\ CellsPerPage \in Nat \ {0}
ASSUME ValueAssumption == 0 \in Value

Page   == 0..(NumPages - 1)
Cell   == 0..(NumPages * CellsPerPage - 1)
NoArea == {}

PageOf(c)  == c \div CellsPerPage
CellsOf(S)  == {c \in Cell : PageOf(c) \in S}

ASSUME AreasAssumption == \A a \in ReduceAreas : \E lo, hi \in Cell : a = lo..hi
ASSUME ThreadedAssumption == Threaded \in BOOLEAN

VARIABLES
    pc,          \* where the main thread of the leader is
    area,        \* the reduce area of the region, NoArea if none
    content,     \* the leader's cells
    malloced,    \* pages of blocks in the registered heaps
    library,     \* pages of mpi_heap, which is not registered
    mapped,      \* pages mmap has been called for
    memOps,      \* of these, pages of which the workers have not been told
    dirty,       \* the soft-dirty bits of the leader's page table
    touched,     \* pages that are present or swapped
    dirtyPages,  \* the result of get_zero_and_dirty_pages
    zeroPages,
    wcontent,    \* the worker's cells
    wmapped,     \* pages mapped on the worker
    live,        \* history: cells the program has written in its blocks
    stale,       \* history: of these, cells the worker wrote, or another thread
                 \* wrote behind the back of an entry
    late         \* history: pages another thread mapped after send_mem_ops

program == <<content, malloced, library, mapped, memOps, dirty, touched>>
result  == <<dirtyPages, zeroPages>>
worker  == <<wcontent, wmapped>>
history == <<live, stale, late>>
vars    == <<pc, area, program, result, worker, history>>

Entering == {"memOps", "scan", "sendDirty", "sendZero", "clear", "begin"}

TypeOK ==
    /\ pc \in Entering \union {"main", "body"}
    /\ area \in ReduceAreas \union {NoArea}
    /\ content \in [Cell -> Value] /\ wcontent \in [Cell -> Value]
    /\ malloced \subseteq mapped /\ library \subseteq mapped
    /\ malloced \intersect library = {}
    /\ mapped \subseteq Page /\ memOps \subseteq mapped /\ wmapped = mapped \ memOps
    /\ dirty \subseteq mapped /\ touched \subseteq mapped
    /\ dirtyPages \subseteq Page /\ zeroPages \subseteq Page
    /\ live \subseteq CellsOf(malloced) /\ stale \subseteq live
    /\ late \subseteq memOps

Init ==
    /\ pc = "main" /\ area = NoArea
    /\ content = [c \in Cell |-> 0] /\ wcontent = [c \in Cell |-> 0]
    /\ malloced = {} /\ library = {} /\ mapped = {} /\ memOps = {}
    /\ dirty = {} /\ touched = {}
    /\ dirtyPages = {} /\ zeroPages = {}
    /\ wmapped = {}
    /\ live = {} /\ stale = {} /\ late = {}

\* Slip: every page the area touches.
InnerPagesTouched(a) == {PageOf(c) : c \in a}

\* memarea2innerpgrng: the pages wholly inside the area lo..hi, from the page
\* after that of lo - 1 to the one before that of hi + 1.
InnerPages(a) ==
    {p \in Page : \E lo, hi \in a : /\ a = lo..hi
                                    /\ p >= (lo - 1) \div CellsPerPage + 1
                                    /\ p < (hi + 1) \div CellsPerPage}

-----------------------------------------------------------------------------
(***************************************************************************)
(* The leader's program, and its other threads.                            *)
(***************************************************************************)

UserRuns == pc \in {"main", "body"} \/ Threaded

\* Pages that become mapped by an allocation in page p.
MapPage(p) ==
    /\ mapped' = mapped \union {p}
    /\ memOps' = IF p \in mapped THEN memOps ELSE memOps \union {p}

\* malloc of a block of page p: what it holds is not the program's.
Malloc(p) ==
    /\ UserRuns
    /\ p \notin malloced \union library
    /\ malloced' = malloced \union {p}
    /\ MapPage(p)
    /\ late' = IF p \notin mapped /\ pc \in Entering \ {"memOps"} THEN late \union {p} ELSE late
    /\ UNCHANGED <<pc, area, content, library, dirty, touched, result, worker,
                   live, stale>>

\* free of the block; not of one that is being reduced.
Free(p) ==
    /\ UserRuns
    /\ p \in malloced /\ CellsOf({p}) \intersect area = {}
    /\ malloced' = malloced \ {p}
    /\ live' = live \ CellsOf({p})
    /\ stale' = stale \ CellsOf({p})
    /\ UNCHANGED <<pc, area, content, library, mapped, memOps, dirty, touched,
                   result, worker, late>>

\* The program writes a cell of a block; in a body not one being reduced (the
\* leader's contribution is part of what Exit stores).
Write(c, v) ==
    /\ UserRuns
    /\ PageOf(c) \in malloced /\ c \notin area
    /\ content' = [content EXCEPT ![c] = v]
    /\ dirty' = dirty \union {PageOf(c)}
    /\ touched' = touched \union {PageOf(c)}
    /\ live' = live \union {c}
    /\ stale' = IF pc \in Entering \ {"memOps", "scan"} \/ PageOf(c) \in late
                THEN stale \union {c} ELSE stale
    /\ UNCHANGED <<pc, area, malloced, library, mapped, memOps, result, worker, late>>

-----------------------------------------------------------------------------
(***************************************************************************)
(* Entering a region.                                                      *)
(***************************************************************************)

\* par_ctx is constructed with reduce areas in the program's blocks.
Open ==
    /\ pc = "main"
    /\ \E a \in ReduceAreas \union {NoArea} :
          {PageOf(c) : c \in a} \subseteq malloced /\ area' = a
    /\ pc' = "memOps"
    /\ UNCHANGED <<program, result, worker, history>>

\* Slip: the default heap is not switched to mpi_heap.
LibraryAllocatesInUserHeap(p) ==
    /\ pc \in {"memOps", "scan"}
    /\ p \notin malloced \union library
    /\ MapPage(p)
    /\ malloced' = malloced \union {p}
    /\ dirty' = dirty \union {p}
    /\ touched' = touched \union {p}
    /\ UNCHANGED <<pc, area, content, library, result, worker, history>>

\* The vectors and interval sets of the entry are allocated while mpi_heap is
\* the default heap: it is not registered, so its blocks are not visited.
LibraryAllocates(p) ==
    /\ pc \in {"memOps", "scan"}
    /\ p \notin malloced \union library
    /\ MapPage(p)
    /\ library' = library \union {p}
    /\ UNCHANGED <<pc, area, content, malloced, dirty, touched, result, worker, history>>

\* Slip: the operations stay in the list.
SendMemOpsKept ==
    /\ pc = "memOps"
    /\ late' = {}
    /\ wmapped' = wmapped \union memOps
    /\ wcontent' = [c \in Cell |-> IF PageOf(c) \in memOps THEN 0 ELSE wcontent[c]]
    /\ pc' = "scan"
    /\ UNCHANGED <<area, content, malloced, library, mapped, memOps, dirty, touched,
                   result, live, stale>>

\* send_mem_ops, and recv_and_perform_mem_ops: new pages of the worker are blank.
SendMemOps ==
    /\ pc = "memOps"
    /\ memOps' = {} /\ late' = {}
    /\ wmapped' = wmapped \union memOps
    /\ wcontent' = [c \in Cell |-> IF PageOf(c) \in memOps THEN 0 ELSE wcontent[c]]
    /\ pc' = "scan"
    /\ UNCHANGED <<area, content, malloced, library, mapped, dirty, touched, result,
                   live, stale>>

\* is_zeroed_pg_simd
IsZeroed(p) == \A c \in CellsOf({p}) : content[c] = 0

\* get_zero_and_dirty_pages, over the blocks of all registered heaps.
GetZeroAndDirtyPages ==
    LET found == (malloced \intersect dirty \intersect touched) \ InnerPages(area)
    IN  /\ zeroPages' = {p \in found : IsZeroed(p)}
        /\ dirtyPages' = {p \in found : ~IsZeroed(p)}

Scan ==
    /\ pc = "scan"
    /\ GetZeroAndDirtyPages
    /\ pc' = "sendDirty"
    /\ UNCHANGED <<area, program, worker, history>>

\* The worker has what the leader has in these pages.
Sent(S) ==
    /\ stale' = stale \ CellsOf(S)
    /\ UNCHANGED <<live, late>>

\* send_dirty_page and recv_dirty_page: the pages as they are now.
SendDirty ==
    /\ pc = "sendDirty"
    /\ wcontent' = [c \in Cell |-> IF PageOf(c) \in dirtyPages THEN content[c] ELSE wcontent[c]]
    /\ Sent(dirtyPages \ late)
    /\ pc' = "sendZero"
    /\ UNCHANGED <<area, program, result, wmapped>>

\* send_zeroed_page and recv_zero_page: madvise, or memset.
SendZero ==
    /\ pc = "sendZero"
    /\ wcontent' = [c \in Cell |-> IF PageOf(c) \in zeroPages THEN 0 ELSE wcontent[c]]
    /\ Sent({p \in zeroPages : IsZeroed(p)})
    /\ pc' = "clear"
    /\ UNCHANGED <<area, program, result, wmapped>>

\* clear_soft_dirty clears the bits of all pages.
ClearSoftDirty ==
    /\ pc = "clear"
    /\ dirty' = {}
    /\ pc' = "begin"
    /\ dirtyPages' = {} /\ zeroPages' = {}
    /\ UNCHANGED <<area, content, malloced, library, mapped, memOps, touched, worker, history>>

\* init_reduce_area_on_worker; the body begins.
Begin ==
    /\ pc = "begin"
    /\ wcontent' = [c \in Cell |-> IF c \in area THEN 0 ELSE wcontent[c]]
    /\ pc' = "body"
    /\ UNCHANGED <<area, program, result, wmapped, history>>

\* The body writes on the worker, in blocks it got from the leader.
WorkerWrites(c, v) ==
    /\ pc = "body"
    /\ PageOf(c) \in malloced /\ PageOf(c) \in wmapped
    /\ wcontent' = [wcontent EXCEPT ![c] = v]
    /\ stale' = IF c \in live \ area THEN stale \union {c} ELSE stale
    /\ UNCHANGED <<pc, area, program, result, wmapped, live, late>>

\* Slip: the soft-dirty bits are cleared once more when the region is left.
ExitClears ==
    /\ pc = "body"
    /\ \E v \in Value : content' = [c \in Cell |-> IF c \in area THEN v ELSE content[c]]
    /\ dirty' = {}
    /\ touched' = touched \union {PageOf(c) : c \in area}
    /\ live' = live \union area
    /\ area' = NoArea
    /\ pc' = "main"
    /\ UNCHANGED <<malloced, library, mapped, memOps, result, worker, stale, late>>

\* do_exit_parallel: the reduction stores its result in the leader's area.
Exit ==
    /\ pc = "body"
    /\ \E v \in Value : content' = [c \in Cell |-> IF c \in area THEN v ELSE content[c]]
    /\ dirty' = dirty \union {PageOf(c) : c \in area}
    /\ touched' = touched \union {PageOf(c) : c \in area}
    /\ live' = live \union area
    /\ area' = NoArea
    /\ pc' = "main"
    /\ UNCHANGED <<malloced, library, mapped, memOps, result, worker, stale, late>>

Next ==
    \/ \E p \in Page : Malloc(p) \/ Free(p) \/ LibraryAllocates(p)
    \/ \E c \in Cell, v \in Value : Write(c, v) \/ WorkerWrites(c, v)
    \/ Open \/ SendMemOps \/ Scan \/ SendDirty \/ SendZero
    \/ ClearSoftDirty \/ Begin \/ Exit

Spec == Init /\ [][Next]_vars

-----------------------------------------------------------------------------
(***************************************************************************)
(* Correctness.                                                            *)
(***************************************************************************)

\* Cells on which the body may rely: written by the program in a block it has,
\* not being reduced, not changed by the worker since the page was last sent,
\* and not written by another thread between the scan and the body.  The code loses
\* those two kinds of writes, until the leader writes the page again: the worker's
\* copy is never compared, and clear_soft_dirty clears what the scan has not seen.
Shared == live \ (area \union stale)

\* "code is executed on all processes": when a body begins, the worker's copy of
\* what the program has written is the leader's, be it written before the last
\* region, between regions or by a reduction, or overwritten with zeros.
InSync == pc = "begin" => \A c \in Shared : wcontent[c] = content[c]

\* A page that is sent is mapped on the workers: the library does not send its
\* own memory, and the program's was announced by send_mem_ops first.  A page that
\* another thread maps after send_mem_ops (late) is sent although no worker has it.
SentPagesMapped ==
    pc = "sendDirty" =>
        \A p \in dirtyPages \union zeroPages :
            p \in wmapped \/ p \in late

\* A cell that must be sent is not forgotten: outside an entry, a shared cell
\* that differs is on a page the next entry sends.  Of a program with one thread this
\* is every cell that differs, but for those the worker itself wrote.
NothingForgotten ==
    pc \in {"main", "memOps", "scan"} =>
        \A c \in Shared : wcontent[c] # content[c] =>
            PageOf(c) \in malloced \intersect dirty \intersect touched

=============================================================================
