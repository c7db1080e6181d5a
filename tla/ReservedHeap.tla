----------------------------- MODULE ReservedHeap -----------------------------
(***************************************************************************)
(* The address range the heap of the program lives in, reserved_heap:      *)
(* proxy_mmap, proxy_munmap and proxy_madvise of the leader's threads,     *)
(* which mimalloc calls instead of the system's, the list of operations    *)
(* they keep, and their replay on a worker, which has reserved the range.  *)
(*                                                                         *)
(* Memory is a row of pages; those of the range are 0..HeapPages-1, the    *)
(* pages before and after it belong to somebody else.                      *)
(***************************************************************************)
EXTENDS Integers, Sequences, FiniteSets

CONSTANTS
    Thread, NoThread,
    HeapPages,
    Step,         \* pages of the largest huge page, the step of begin
    MaxLen,       \* bound: pages of one mmap
    ForeignSets,  \* sets of pages of the range that others may have mapped on the leader
    MaxTries,     \* how often a worker tries to reserve the range again
    MaxOps        \* bound: operations listed and not replayed

ASSUME SizesAssumption == HeapPages \in Nat \ {0} /\ Step \in Nat \ {0} /\ MaxLen \in Nat \ {0}
ASSUME BoundsAssumption == MaxTries \in Nat /\ MaxOps \in Nat /\ NoThread \notin Thread

Reserved == 0..(HeapPages - 1)
Outside  == {-1, HeapPages}
Page     == Reserved \union Outside

ASSUME ForeignAssumption == ForeignSets \subseteq SUBSET Reserved

VARIABLES
    lmap,     \* the leader's map: "free", "foreign" or "heap"
    begin,    \* the static begin of proxy_mmap
    mutex,    \* mmap_mutex: who holds it
    call,     \* the call each thread is in
    owned,    \* pages mmap has returned to mimalloc and munmap was not called for
    memOps,   \* memory_operations
    finished,
    inbox,    \* operations on their way to the worker
    wmap,     \* the worker's map: "foreign", "reserved" or "heap"
    tries,    \* loop_count of reserve_heap_area
    st        \* "running", or "terminated": the leader has no room, or the
              \* worker could not reserve the range

leader == <<lmap, begin, mutex, call, owned, memOps>>
worker == <<inbox, wmap, tries>>
vars   == <<leader, worker, finished, st>>

NoCall == [op |-> "none", pages |-> {}, at |-> "idle"]
Op     == [op : {"mmap", "munmap", "madvise"}, pages : SUBSET Page]

Record(o)  == memOps' = Append(memOps, o)
OpOf(t)    == [op |-> call[t].op, pages |-> call[t].pages]
Idle(t)    == call[t].at = "idle"
InCall(t, op, S, at) == call' = [call EXCEPT ![t] = [op |-> op, pages |-> S, at |-> at]]

\* Threads: what each call is about, and mmap_mutex is held by the one in mmap.
CallTypeOK ==
    /\ mutex \in Thread \union {NoThread}
    /\ call \in [Thread -> [op : {"none", "mmap", "munmap", "madvise"},
                           pages : SUBSET Int, at : {"idle", "map", "record"}]]
    /\ \A t \in Thread :
          /\ \/ call[t] = NoCall
             \/ call[t].op = "mmap" /\ call[t].at = "map"
             \/ OpOf(t) \in Op /\ call[t].at = "record"
          /\ call[t].op = "mmap" <=> mutex = t

MapTypeOK ==
    /\ lmap \in [Page -> {"free", "foreign", "heap"}]
    /\ begin \in Nat
    /\ owned \subseteq {p \in Reserved : lmap[p] = "heap"}
    /\ memOps \in Seq(Op) /\ inbox \in Seq(Op)
    /\ finished \in BOOLEAN
    /\ wmap \in [Page -> {"foreign", "reserved", "heap"}]
    /\ tries \in 0..MaxTries + 1
    /\ st \in {"running", "terminated"}

TypeOK == CallTypeOK /\ MapTypeOK

Init ==
    /\ \E F \in ForeignSets :
          lmap = [p \in Page |-> IF p \in F \union Outside THEN "foreign" ELSE "free"]
    /\ begin = 0 /\ mutex = NoThread
    /\ call = [t \in Thread |-> NoCall]
    /\ owned = {} /\ memOps = << >> /\ inbox = << >> /\ finished = FALSE
    /\ wmap = [p \in Page |-> "foreign"]
    /\ tries = 0 /\ st = "running"

\* Bound.
Room == Len(memOps) + Len(inbox) < MaxOps

PagesFrom(a, len) == a..(a + len - 1)

\* Slip: an area that ends where the range begins overlaps it.
OverlapWithReservedHeapInclusive(S) ==
    \E p \in S : p + 1 >= 0 /\ p <= HeapPages - 1

\* overlap_with_reserved_heap: the last byte of each is not before the first of
\* the other.
OverlapWithReservedHeap(S) ==
    \E p \in S : p >= 0 /\ p <= HeapPages - 1

RoundUp(len, multiple) ==
    IF len % multiple = 0 THEN len ELSE len + multiple - (len % multiple)

-----------------------------------------------------------------------------
(***************************************************************************)
(* The leader.                                                             *)
(***************************************************************************)

\* Slip: begin is not protected.
MmapUnlocked(t, len) ==
    /\ Idle(t)
    /\ Room
    /\ InCall(t, "mmap", PagesFrom(begin, len), "map")
    /\ UNCHANGED <<lmap, begin, mutex, owned, memOps, worker, finished, st>>

\* proxy_mmap takes the mutex.
Mmap(t, len) ==
    /\ Idle(t) /\ mutex = NoThread
    /\ Room
    /\ mutex' = t
    /\ InCall(t, "mmap", PagesFrom(begin, len), "map")
    /\ UNCHANGED <<lmap, begin, owned, memOps, worker, finished, st>>

\* Slip: the memory can be used before the operation is recorded.
TryMmapReturnsEarly(t) ==
    /\ call[t].op = "mmap" /\ call[t].at = "map"
    /\ LET S == call[t].pages
       IN  IF ~(S \subseteq Reserved)
           THEN /\ st' = "terminated"
                /\ UNCHANGED <<lmap, begin, call, owned>>
           ELSE /\ UNCHANGED st
                /\ \/ /\ \A p \in S : lmap[p] = "free"
                      /\ lmap' = [p \in Page |-> IF p \in S THEN "heap" ELSE lmap[p]]
                      /\ owned' = owned \union S
                      /\ InCall(t, "mmap", S, "record")
                      /\ UNCHANGED begin
                   \/ /\ begin' = begin + Step
                      /\ InCall(t, "mmap", {p + Step : p \in S}, "map")
                      /\ UNCHANGED <<lmap, owned>>
    /\ UNCHANGED <<mutex, memOps, worker, finished>>

\* One turn of its loop: the call of mmap with begin as the hint.  The kernel
\* takes the hint if nothing is mapped there; it may also put the mapping
\* elsewhere (which is undone) or fail, and begin moves on.
TryMmap(t) ==
    /\ call[t].op = "mmap" /\ call[t].at = "map"
    /\ LET S == call[t].pages
       IN  IF ~(S \subseteq Reserved)
           THEN /\ st' = "terminated"
                /\ UNCHANGED <<lmap, begin, call>>
           ELSE /\ UNCHANGED st
                /\ \/ /\ \A p \in S : lmap[p] = "free"
                      /\ lmap' = [p \in Page |-> IF p \in S THEN "heap" ELSE lmap[p]]
                      /\ InCall(t, "mmap", S, "record")
                      /\ UNCHANGED begin
                   \/ /\ begin' = begin + Step
                      /\ InCall(t, "mmap", {p + Step : p \in S}, "map")
                      /\ UNCHANGED lmap
    /\ UNCHANGED <<mutex, owned, memOps, worker, finished>>

\* The operation is recorded, begin moves on, the mutex is released.
MmapReturns(t) ==
    /\ call[t].op = "mmap" /\ call[t].at = "record"
    /\ LET S == call[t].pages
       IN  /\ Record(OpOf(t))
           /\ begin' = begin + RoundUp(Cardinality(S), Step)
           /\ owned' = owned \union S
    /\ mutex' = NoThread
    /\ call' = [call EXCEPT ![t] = NoCall]
    /\ UNCHANGED <<lmap, worker, finished, st>>

\* What munmap and madvise are called for: pages of the heap, or memory of
\* somebody else.
MayCall(t, S) ==
    /\ Idle(t) /\ Room
    /\ S \subseteq owned \/ S \subseteq {p \in Outside : lmap[p] # "free"}

\* The operation is recorded after the system call, unless it is none of the
\* workers' business.
ThenRecord(t, op, S) ==
    IF finished \/ ~OverlapWithReservedHeap(S)
    THEN UNCHANGED call
    ELSE InCall(t, op, S, "record")

\* Slip: the operation is recorded whether munmap has worked or not.
MunmapRecordsFailure(t, S) ==
    /\ MayCall(t, S)
    /\ \/ /\ lmap' = [p \in Page |-> IF p \in S THEN "free" ELSE lmap[p]]
          /\ owned' = owned \ S
       \/ UNCHANGED <<lmap, owned>>
    /\ ThenRecord(t, "munmap", S)
    /\ UNCHANGED <<begin, mutex, memOps, worker, finished, st>>

\* proxy_munmap; when the system call fails nothing changes.
Munmap(t, S) ==
    /\ MayCall(t, S)
    /\ lmap' = [p \in Page |-> IF p \in S THEN "free" ELSE lmap[p]]
    /\ owned' = owned \ S
    /\ ThenRecord(t, "munmap", S)
    /\ UNCHANGED <<begin, mutex, memOps, worker, finished, st>>

\* proxy_madvise: advice does not change the map; when it fails it is not told.
Madvise(t, S) ==
    /\ MayCall(t, S)
    /\ ThenRecord(t, "madvise", S)
    /\ UNCHANGED <<lmap, begin, mutex, owned, memOps, worker, finished, st>>

\* memory_operations()->emplace_back
RecordOp(t) ==
    /\ call[t].op # "mmap" /\ call[t].at = "record"
    /\ Record(OpOf(t))
    /\ call' = [call EXCEPT ![t] = NoCall]
    /\ UNCHANGED <<lmap, begin, mutex, owned, worker, finished, st>>

\* Slip: the operations stay in the list.
SendMemOpsKept ==
    /\ ~finished /\ memOps # << >> /\ Room
    /\ inbox' = inbox \o memOps
    /\ UNCHANGED <<leader, wmap, tries, finished, st>>

\* send_mem_ops: the operations are moved out of the list under its lock.
SendMemOps ==
    /\ ~finished /\ memOps # << >>
    /\ memOps' = << >>
    /\ inbox' = inbox \o memOps
    /\ UNCHANGED <<lmap, begin, mutex, call, owned, wmap, tries, finished, st>>

\* main has returned.
Finish ==
    /\ ~finished
    /\ finished' = TRUE
    /\ UNCHANGED <<leader, worker, st>>

-----------------------------------------------------------------------------
(***************************************************************************)
(* The worker.                                                             *)
(***************************************************************************)
Ready == \A p \in Reserved : wmap[p] # "foreign"

\* reserve_heap_area: mmap with the range as the hint.  When it fails or ends
\* up elsewhere it is tried again; after too many tries the worker gives up.
ReserveHeapArea ==
    /\ ~Ready
    /\ tries <= MaxTries
    /\ tries' = tries + 1
    /\ \/ /\ wmap' = [p \in Page |-> IF p \in Reserved THEN "reserved" ELSE wmap[p]]
          /\ UNCHANGED st
       \/ /\ st' = IF tries' > MaxTries THEN "terminated" ELSE st
          /\ UNCHANGED wmap
    /\ UNCHANGED <<leader, inbox, finished>>

\* recv_and_perform_mem_ops, one operation: mmap with MAP_FIXED, which replaces
\* what is there; munmap as a mapping that is not accessible; madvise.
Replay ==
    /\ Ready /\ inbox # << >>
    /\ LET o == Head(inbox)
       IN  /\ wmap' = [p \in Page |-> IF p \notin o.pages \/ o.op = "madvise" THEN wmap[p]
                                      ELSE IF o.op = "mmap" THEN "heap" ELSE "reserved"]
    /\ inbox' = Tail(inbox)
    /\ UNCHANGED <<leader, tries, finished, st>>

-----------------------------------------------------------------------------
Areas == {PagesFrom(a, n) : a \in Page, n \in 1..MaxLen}

Next ==
    \/ /\ st = "running"
       /\ \/ \E t \in Thread :
                \/ \E n \in 1..MaxLen : Mmap(t, n)
                \/ TryMmap(t) \/ MmapReturns(t) \/ RecordOp(t)
                \/ \E S \in Areas : Munmap(t, S) \/ Madvise(t, S)
          \/ SendMemOps \/ Finish
          \/ ReserveHeapArea \/ Replay
    \/ (st = "terminated" \/ finished) /\ UNCHANGED vars

Spec == Init /\ [][Next]_vars

-----------------------------------------------------------------------------
(***************************************************************************)
(* Correctness.                                                            *)
(***************************************************************************)

Listed == {memOps[i] : i \in 1..Len(memOps)} \union {inbox[i] : i \in 1..Len(inbox)}

\* Nothing outside the range is told to the workers, where somebody else's
\* memory may be at the same address, or changed there.
OnlyTheRange ==
    /\ \A o \in Listed : o.pages \subseteq Reserved
    /\ \A p \in Outside : wmap[p] = "foreign"

\* mmap on the worker replaces what is there: it never meets pages that hold
\* the program's data, for an address is used once and an operation told once.
MmapMeetsReserved ==
    Ready /\ inbox # << >> /\ Head(inbox).op = "mmap" =>
        \A p \in Head(inbox).pages : wmap[p] = "reserved"

\* Memory the leader's program can have written is mapped on the workers before
\* the next heap is sent: it is there, or on its way, or will be sent.
OwnedIsTold ==
    \A p \in owned :
        wmap[p] = "heap" \/ \E o \in Listed : o.op = "mmap" /\ p \in o.pages

\* When everything has been told and replayed, the worker's map of the range is
\* the leader's.
MapsAgree ==
    Ready /\ ~finished /\ memOps = << >> /\ inbox = << >>
          /\ (\A t \in Thread : call[t].at # "record") =>
        \A p \in Reserved : wmap[p] = "heap" <=> lmap[p] = "heap"

=============================================================================
