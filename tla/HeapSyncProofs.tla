---------------------------- MODULE HeapSyncProofs ----------------------------
(***************************************************************************)
(* What the program has written is on the workers when a body begins, for  *)
(* any size of the heap and of its pages, any reduce areas, and whatever   *)
(* the other threads of the leader do while the region is entered.         *)
(*                                                                         *)
(* The inductive invariant says, for each place of the entry, why a cell   *)
(* that differs will still be sent: its page is dirty until the scan, then *)
(* in one of the two results, then in the zeroed pages; after that there   *)
(* is no such cell.  What another thread writes too late is stale, and so  *)
(* is not part of the promise.                                             *)
(***************************************************************************)
EXTENDS HeapSync, TLAPS

\* A reduce area lies in the program's blocks, from Open to Exit.
AreaHeld ==
    /\ \A c \in area : PageOf(c) \in malloced
    /\ pc = "main" => area = NoArea

\* Once the memory operations are sent the pages of the area are known.
AreaTold == pc \notin {"main", "memOps"} => \A c \in area : PageOf(c) \notin late

\* On a page the workers were told of too late every cell is stale, or blank.
LateIsStale == \A c \in live : PageOf(c) \in late => c \in stale \/ content[c] = 0

\* A page the workers do not know is dirty if the program has written to it;
\* after send_mem_ops it is the library's or came too late.
NewIsDirty ==
    IF pc \in {"main", "body", "memOps"}
    THEN \A c \in live : PageOf(c) \in memOps \ late => PageOf(c) \in dirty \intersect touched
    ELSE memOps \subseteq late \union library

Differs(c) == c \in Shared /\ wcontent[c] # content[c]

\* A cell that differs will be sent.
WillBeSent ==
    /\ pc \in {"main", "body", "memOps", "scan"} =>
          \A c \in Cell : Differs(c) => PageOf(c) \in malloced \intersect dirty \intersect touched
    /\ pc = "sendDirty" =>
          \A c \in Cell : Differs(c) => PageOf(c) \in dirtyPages \union zeroPages
    /\ pc = "sendZero" => \A c \in Cell : Differs(c) => PageOf(c) \in zeroPages
    /\ pc \in {"clear", "begin"} => \A c \in Cell : ~Differs(c)

\* What is sent as zeros is zero.
ZeroIsZero ==
    /\ pc \in {"sendDirty", "sendZero"} =>
          \A c \in Shared : PageOf(c) \in zeroPages => content[c] = 0
    /\ pc = "sendDirty" => dirtyPages \intersect zeroPages = {}

IInv == /\ TypeOK /\ AreaHeld /\ AreaTold /\ LateIsStale /\ NewIsDirty
        /\ WillBeSent /\ ZeroIsZero /\ SentPagesMapped

\* The quotient and the remainder of a place in memory.
LEMMA Division ==
    ASSUME NEW x \in Int, NEW n \in Nat \ {0}
    PROVE  /\ x \div n \in Int
           /\ n * (x \div n) <= x
           /\ x < n * (x \div n) + n
  OBVIOUS

\* Places on a page after that of y are after y.
LEMMA LaterPage ==
    ASSUME NEW x \in Int, NEW y \in Int, NEW n \in Nat \ {0}, x \div n >= y \div n + 1
    PROVE  x > y
<1> DEFINE p == x \div n
           q == y \div n
<1>1. p \in Int /\ q \in Int /\ p >= q + 1
  BY Division
<1>2. n * p <= x /\ y < n * q + n
  BY Division
<1> HIDE DEF p, q
<1>3. n * p >= n * (q + 1)
  <2>1. \A d \in Nat : n * d >= 0
    OBVIOUS
  <2>2. p - (q + 1) \in Nat
    BY <1>1
  <2>3. n * (p - (q + 1)) >= 0
    BY <2>1, <2>2
  <2>4. n * (p - (q + 1)) = n * p - n * (q + 1)
    BY <1>1
  <2>5. n * p \in Int /\ n * (q + 1) \in Int
    BY <1>1
  <2> QED
    BY <2>3, <2>4, <2>5
<1>4. n * (q + 1) = n * q + n
  BY <1>1
<1>5. n * p \in Int /\ n * q \in Int
  BY <1>1
<1> QED
  BY <1>2, <1>3, <1>4, <1>5

\* Reduce areas are in memory.
LEMMA AreasAreCells == ASSUME NEW a \in ReduceAreas PROVE a \subseteq Cell
<1>1. NumPages * CellsPerPage \in Int
  BY SizesAssumption
<1>2. PICK lo \in Cell, hi \in Cell : a = lo..hi
  BY AreasAssumption
<1>3. lo \in Int /\ hi \in Int /\ lo >= 0 /\ hi <= NumPages * CellsPerPage - 1
  BY <1>1 DEF Cell
<1> QED
  BY <1>1, <1>2, <1>3 DEF Cell

\* What is skipped by the scan is inside the reduce area: memarea2innerpgrng
\* takes no page that the area only touches.
LEMMA InnerPagesAreInside ==
    ASSUME NEW a \in ReduceAreas \union {NoArea}
    PROVE  CellsOf(InnerPages(a)) \subseteq a
<1> SUFFICES ASSUME NEW c \in Cell, PageOf(c) \in InnerPages(a)
             PROVE  c \in a
  BY DEF CellsOf
<1>1. a \subseteq Cell
  BY AreasAreCells DEF NoArea
<1>2. PICK lo \in a, hi \in a : /\ a = lo..hi
                               /\ PageOf(c) >= (lo - 1) \div CellsPerPage + 1
                               /\ PageOf(c) < (hi + 1) \div CellsPerPage
  BY DEF InnerPages
<1>3. c \in Int /\ lo \in Int /\ hi \in Int /\ CellsPerPage \in Nat \ {0}
  <2>1. NumPages * CellsPerPage \in Int
    BY SizesAssumption
  <2> QED
    BY <1>1, <2>1, SizesAssumption DEF Cell
<1>4. c > lo - 1
  BY <1>2, <1>3, LaterPage DEF PageOf
<1>5. hi + 1 > c
  <2>1. (hi + 1) \div CellsPerPage \in Int /\ c \div CellsPerPage \in Int
    BY <1>3, Division
  <2>2. (hi + 1) \div CellsPerPage >= c \div CellsPerPage + 1
    BY <1>2, <2>1 DEF PageOf
  <2>3. hi + 1 \in Int
    BY <1>3
  <2> QED
    BY <1>3, <2>2, <2>3, LaterPage
<1> QED
  BY <1>2, <1>3, <1>4, <1>5

\* What the steps below use of the constants.
LEMMA Facts ==
    /\ 0 \in Value
    /\ \A a \in ReduceAreas : a \subseteq Cell
    /\ \A a \in ReduceAreas \union {NoArea} : CellsOf(InnerPages(a)) \subseteq a
  BY ValueAssumption, AreasAreCells, InnerPagesAreInside

\* A new block holds nothing of the program's; if its page is mapped behind the back
\* of the entry, it is late.
LEMMA MallocInv == ASSUME NEW p \in Page, IInv, Malloc(p) PROVE IInv'
<1>1. TypeOK'
  BY DEF IInv, TypeOK, Malloc, result, worker, MapPage, CellsOf
<1>2. AreaHeld'
  BY DEF IInv, AreaHeld, Malloc, result, worker
<1>3. AreaTold'
  BY Facts DEF IInv, AreaTold, Malloc, AreaHeld
<1>4. LateIsStale'
  BY DEF IInv, LateIsStale, Malloc, TypeOK, CellsOf
<1>5. NewIsDirty'
  BY DEF IInv, NewIsDirty, Malloc, MapPage, TypeOK, CellsOf
<1>6. WillBeSent'
  BY DEF IInv, WillBeSent, Differs, Shared, Malloc, result, worker
<1>7. ZeroIsZero'
  BY DEF IInv, ZeroIsZero, Shared, Malloc, result, worker
<1>8. SentPagesMapped'
  BY DEF IInv, SentPagesMapped, Malloc, result, worker
<1> QED
  BY <1>1, <1>2, <1>3, <1>4, <1>5, <1>6, <1>7, <1>8 DEF IInv

\* The program has nothing in a block that it gives back.
LEMMA FreeInv == ASSUME NEW p \in Page, IInv, Free(p) PROVE IInv'
<1>1. TypeOK'
  BY DEF IInv, TypeOK, Free, result, worker, CellsOf
<1>2. AreaHeld'
  BY Facts DEF IInv, AreaHeld, Free, NoArea, TypeOK, CellsOf
<1>3. AreaTold'
  BY DEF IInv, AreaTold, Free, result, worker
<1>4. LateIsStale'
  BY DEF IInv, LateIsStale, Free, result, worker
<1>5. NewIsDirty'
  BY DEF IInv, NewIsDirty, Free, result, worker
<1>6. WillBeSent'
  BY DEF IInv, WillBeSent, Differs, Shared, Free, result, worker, CellsOf
<1>7. ZeroIsZero'
  BY DEF IInv, ZeroIsZero, Shared, Free, result, worker
<1>8. SentPagesMapped'
  BY DEF IInv, SentPagesMapped, Free, result, worker
<1> QED
  BY <1>1, <1>2, <1>3, <1>4, <1>5, <1>6, <1>7, <1>8 DEF IInv

\* The library's pages are not the program's.
LEMMA LibraryAllocatesInv == ASSUME NEW p \in Page, IInv, LibraryAllocates(p) PROVE IInv'
<1>1. TypeOK'
  BY DEF IInv, TypeOK, LibraryAllocates, result, worker, history, MapPage
<1>2. AreaHeld'
  BY DEF IInv, AreaHeld, LibraryAllocates, result, worker, history
<1>3. AreaTold'
  BY DEF IInv, AreaTold, LibraryAllocates, result, worker, history
<1>4. LateIsStale'
  BY DEF IInv, LateIsStale, LibraryAllocates, result, worker, history
<1>5. NewIsDirty'
  BY DEF IInv, NewIsDirty, LibraryAllocates, history, MapPage, TypeOK, CellsOf
<1>6. WillBeSent'
  BY DEF IInv, WillBeSent, Differs, Shared, LibraryAllocates, result, worker,
       history
<1>7. ZeroIsZero'
  BY DEF IInv, ZeroIsZero, Shared, LibraryAllocates, result, worker, history
<1>8. SentPagesMapped'
  BY DEF IInv, SentPagesMapped, LibraryAllocates, result, worker, history
<1> QED
  BY <1>1, <1>2, <1>3, <1>4, <1>5, <1>6, <1>7, <1>8 DEF IInv

\* What is written makes its page dirty, or is written behind the back of the entry.
LEMMA WriteInv == ASSUME NEW c \in Cell, NEW v \in Value, IInv, Write(c, v) PROVE IInv'
<1>1. TypeOK'
  BY DEF IInv, TypeOK, Write, result, worker, CellsOf
<1>2. AreaHeld'
  BY DEF IInv, AreaHeld, Write, result, worker
<1>3. AreaTold'
  BY DEF IInv, AreaTold, Write, result, worker
<1>4. LateIsStale'
  BY DEF IInv, LateIsStale, Write, result, worker
<1>5. NewIsDirty'
  BY DEF IInv, NewIsDirty, Write, result, worker
<1>6. WillBeSent'
  BY DEF IInv, WillBeSent, Differs, Shared, Write, result, worker, TypeOK
<1>7. ZeroIsZero'
  BY DEF IInv, ZeroIsZero, Shared, Write, result, TypeOK
<1>8. SentPagesMapped'
  BY DEF IInv, SentPagesMapped, Write, result, worker
<1> QED
  BY <1>1, <1>2, <1>3, <1>4, <1>5, <1>6, <1>7, <1>8 DEF IInv

\* What the worker writes is stale.
LEMMA WorkerWritesInv ==
    ASSUME NEW c \in Cell, NEW v \in Value, IInv, WorkerWrites(c, v) PROVE IInv'
<1>1. TypeOK'
  BY DEF IInv, TypeOK, WorkerWrites, program, result
<1>2. AreaHeld'
  BY DEF IInv, AreaHeld, WorkerWrites, program, result
<1>3. AreaTold'
  BY DEF IInv, AreaTold, WorkerWrites, program, result
<1>4. LateIsStale'
  BY DEF IInv, LateIsStale, WorkerWrites, program, result
<1>5. NewIsDirty'
  BY DEF IInv, NewIsDirty, WorkerWrites, program, result
<1>6. WillBeSent'
  BY DEF IInv, WillBeSent, Differs, Shared, WorkerWrites, program, result
<1>7. ZeroIsZero'
  BY DEF IInv, ZeroIsZero, Shared, WorkerWrites, program, result
<1>8. SentPagesMapped'
  BY DEF IInv, SentPagesMapped, WorkerWrites, program, result
<1> QED
  BY <1>1, <1>2, <1>3, <1>4, <1>5, <1>6, <1>7, <1>8 DEF IInv

\* Opening a region only takes the cells of the area away from the promise.
LEMMA OpenInv == ASSUME IInv, Open PROVE IInv'
<1>1. TypeOK'
  BY DEF IInv, TypeOK, Open, program, result, worker, history, Entering
<1>2. AreaHeld'
  BY DEF IInv, AreaHeld, Open, program, result, worker, history
<1>3. AreaTold'
  BY DEF IInv, AreaTold, Open, program, result, worker, history
<1>4. LateIsStale'
  BY DEF IInv, LateIsStale, Open, program, result, worker, history
<1>5. NewIsDirty'
  BY DEF IInv, NewIsDirty, Open, program, result, worker, history
<1>6. WillBeSent'
  BY Facts DEF IInv, WillBeSent, Differs, Shared, Open, program, worker, history,
       NoArea, AreaHeld
<1>7. ZeroIsZero'
  BY DEF IInv, ZeroIsZero, Shared, Open, program, result, worker, history
<1>8. SentPagesMapped'
  BY DEF IInv, SentPagesMapped, Open, program, result, worker, history
<1> QED
  BY <1>1, <1>2, <1>3, <1>4, <1>5, <1>6, <1>7, <1>8 DEF IInv

\* New pages of the worker are blank, and dirty where the program has written.
LEMMA SendMemOpsInv == ASSUME IInv, SendMemOps PROVE IInv'
<1>1. TypeOK'
  BY Facts DEF IInv, TypeOK, SendMemOps, result, Entering
<1>2. AreaHeld'
  BY DEF IInv, AreaHeld, SendMemOps, result
<1>3. AreaTold'
  BY DEF IInv, AreaTold, SendMemOps, result
<1>4. LateIsStale'
  BY DEF IInv, LateIsStale, SendMemOps, result
<1>5. NewIsDirty'
  BY DEF IInv, NewIsDirty, SendMemOps, result
<1>6. WillBeSent'
  BY DEF IInv, WillBeSent, Differs, Shared, SendMemOps, TypeOK, CellsOf,
       NewIsDirty, LateIsStale
<1>7. ZeroIsZero'
  BY DEF IInv, ZeroIsZero, Shared, SendMemOps, result
<1>8. SentPagesMapped'
  BY DEF IInv, SentPagesMapped, SendMemOps, result
<1> QED
  BY <1>1, <1>2, <1>3, <1>4, <1>5, <1>6, <1>7, <1>8 DEF IInv

\* Dirty pages are found unless all of the page is being reduced.
LEMMA ScanInv == ASSUME IInv, Scan PROVE IInv'
<1>1. TypeOK'
  BY DEF IInv, TypeOK, Scan, program, worker, history, GetZeroAndDirtyPages,
       Entering
<1>2. AreaHeld'
  BY DEF IInv, AreaHeld, Scan, program, worker, history
<1>3. AreaTold'
  BY DEF IInv, AreaTold, Scan, program, worker, history
<1>4. LateIsStale'
  BY DEF IInv, LateIsStale, Scan, program, worker, history
<1>5. NewIsDirty'
  BY DEF IInv, NewIsDirty, Scan, program, worker, history
<1>6. WillBeSent'
  BY Facts DEF IInv, WillBeSent, Differs, Shared, Scan, program, worker, history,
       GetZeroAndDirtyPages, TypeOK, CellsOf
<1>7. ZeroIsZero'
  BY DEF IInv, ZeroIsZero, Shared, Scan, program, history, GetZeroAndDirtyPages,
       IsZeroed, TypeOK, CellsOf
<1>8. SentPagesMapped'
  BY DEF IInv, SentPagesMapped, Scan, worker, history, GetZeroAndDirtyPages,
       TypeOK, NewIsDirty
<1> QED
  BY <1>1, <1>2, <1>3, <1>4, <1>5, <1>6, <1>7, <1>8 DEF IInv

\* After the dirty pages only cells of zeroed pages differ.
LEMMA SendDirtyInv == ASSUME IInv, SendDirty PROVE IInv'
<1>1. TypeOK'
  BY DEF IInv, TypeOK, SendDirty, program, result, Sent, Entering
<1>2. AreaHeld'
  BY DEF IInv, AreaHeld, SendDirty, program, result
<1>3. AreaTold'
  BY DEF IInv, AreaTold, SendDirty, program, result, Sent
<1>4. LateIsStale'
  BY DEF IInv, LateIsStale, SendDirty, program, Sent, CellsOf
<1>5. NewIsDirty'
  BY DEF IInv, NewIsDirty, SendDirty, program, result, Sent
<1>6. WillBeSent'
  BY DEF IInv, WillBeSent, Differs, Shared, SendDirty, program, result, Sent,
       CellsOf
<1>7. ZeroIsZero'
  BY DEF IInv, ZeroIsZero, Shared, SendDirty, program, result, Sent, CellsOf
<1>8. SentPagesMapped'
  BY DEF IInv, SentPagesMapped, SendDirty, program, result
<1> QED
  BY <1>1, <1>2, <1>3, <1>4, <1>5, <1>6, <1>7, <1>8 DEF IInv

\* After the zeroed pages no cell of the promise differs.
LEMMA SendZeroInv == ASSUME IInv, SendZero PROVE IInv'
<1>1. TypeOK'
  BY Facts DEF IInv, TypeOK, SendZero, program, result, Sent, Entering
<1>2. AreaHeld'
  BY DEF IInv, AreaHeld, SendZero, program, result
<1>3. AreaTold'
  BY DEF IInv, AreaTold, SendZero, program, result, Sent, IsZeroed, CellsOf
<1>4. LateIsStale'
  BY DEF IInv, LateIsStale, SendZero, program, result, Sent, IsZeroed, CellsOf
<1>5. NewIsDirty'
  BY DEF IInv, NewIsDirty, SendZero, program, result, Sent, IsZeroed, CellsOf
<1>6. WillBeSent'
  <2> SUFFICES ASSUME NEW c \in Cell PROVE ~Differs(c)'
    BY DEF WillBeSent, SendZero
  <2>1. CASE PageOf(c) \notin zeroPages
    <3>1. c \in Shared' => c \in Shared
      BY <2>1 DEF SendZero, Sent, Shared, CellsOf
    <3>2. ~Differs(c)
      BY <2>1 DEF IInv, WillBeSent, SendZero
    <3>3. content'[c] = content[c] /\ wcontent'[c] = wcontent[c]
      BY <2>1 DEF SendZero, program
    <3> QED
      BY <3>1, <3>2, <3>3 DEF Differs
  <2>2. CASE PageOf(c) \in zeroPages
    <3>1. wcontent'[c] = 0 /\ content' = content
      BY <2>2 DEF SendZero, program
    <3>2. ASSUME c \in Shared' PROVE content[c] = 0
      <4>1. CASE c \in stale
        BY <2>2, <3>2, <4>1 DEF SendZero, Sent, Shared, CellsOf, IsZeroed
      <4>2. CASE c \notin stale
        BY <2>2, <3>2, <4>2 DEF IInv, ZeroIsZero, SendZero, Sent, Shared
      <4> QED
        BY <4>1, <4>2
    <3> QED
      BY <3>1, <3>2 DEF Differs
  <2> QED
    BY <2>1, <2>2
<1>7. ZeroIsZero'
  BY DEF IInv, ZeroIsZero, Shared, SendZero, program, result
<1>8. SentPagesMapped'
  BY DEF IInv, SentPagesMapped, SendZero, program, result
<1> QED
  BY <1>1, <1>2, <1>3, <1>4, <1>5, <1>6, <1>7, <1>8 DEF IInv

\* Nothing differs any more, so nothing is lost with the bits.
LEMMA ClearSoftDirtyInv == ASSUME IInv, ClearSoftDirty PROVE IInv'
<1>1. TypeOK'
  BY DEF IInv, TypeOK, ClearSoftDirty, worker, history, Entering
<1>2. AreaHeld'
  BY DEF IInv, AreaHeld, ClearSoftDirty, worker, history
<1>3. AreaTold'
  BY DEF IInv, AreaTold, ClearSoftDirty, worker, history
<1>4. LateIsStale'
  BY DEF IInv, LateIsStale, ClearSoftDirty, worker, history
<1>5. NewIsDirty'
  BY DEF IInv, NewIsDirty, ClearSoftDirty, worker, history
<1>6. WillBeSent'
  BY DEF IInv, WillBeSent, Differs, Shared, ClearSoftDirty, worker, history
<1>7. ZeroIsZero'
  BY DEF IInv, ZeroIsZero, Shared, ClearSoftDirty, worker, history
<1>8. SentPagesMapped'
  BY DEF IInv, SentPagesMapped, ClearSoftDirty, worker, history
<1> QED
  BY <1>1, <1>2, <1>3, <1>4, <1>5, <1>6, <1>7, <1>8 DEF IInv

\* What the reduce area is set to is not part of the promise.
LEMMA BeginInv == ASSUME IInv, Begin PROVE IInv'
<1>1. TypeOK'
  BY Facts DEF IInv, TypeOK, Begin, program, result, history
<1>2. AreaHeld'
  BY DEF IInv, AreaHeld, Begin, program, result, history
<1>3. AreaTold'
  BY DEF IInv, AreaTold, Begin, program, result, history
<1>4. LateIsStale'
  BY DEF IInv, LateIsStale, Begin, program, result, history
<1>5. NewIsDirty'
  BY DEF IInv, NewIsDirty, Begin, program, history, TypeOK, CellsOf
<1>6. WillBeSent'
  BY DEF IInv, WillBeSent, Differs, Shared, Begin, program, result, history
<1>7. ZeroIsZero'
  BY DEF IInv, ZeroIsZero, Shared, Begin, program, result, history
<1>8. SentPagesMapped'
  BY DEF IInv, SentPagesMapped, Begin, program, result, history
<1> QED
  BY <1>1, <1>2, <1>3, <1>4, <1>5, <1>6, <1>7, <1>8 DEF IInv

\* The result of the reduction makes the pages of the area dirty.
LEMMA ExitInv == ASSUME IInv, Exit PROVE IInv'
<1>1. TypeOK'
  BY Facts DEF IInv, TypeOK, Exit, result, worker, NoArea, CellsOf, AreaHeld
<1>2. AreaHeld'
  BY DEF IInv, AreaHeld, Exit, result, worker, NoArea
<1>3. AreaTold'
  BY DEF IInv, AreaTold, Exit, result, worker
<1>4. LateIsStale'
  BY DEF IInv, LateIsStale, Exit, TypeOK, CellsOf, AreaTold
<1>5. NewIsDirty'
  BY DEF IInv, NewIsDirty, Exit, result, worker
<1>6. WillBeSent'
  BY Facts DEF IInv, WillBeSent, Differs, Shared, Exit, worker, AreaHeld
<1>7. ZeroIsZero'
  BY DEF IInv, ZeroIsZero, Shared, Exit, result, worker
<1>8. SentPagesMapped'
  BY DEF IInv, SentPagesMapped, Exit, result, worker
<1> QED
  BY <1>1, <1>2, <1>3, <1>4, <1>5, <1>6, <1>7, <1>8 DEF IInv

\* The invariant holds before anything is mapped.
LEMMA InitInv == Init => IInv
<1> SUFFICES ASSUME Init PROVE IInv
  OBVIOUS
<1>1. TypeOK
  BY Facts DEF Init, TypeOK, Entering
<1>2. AreaHeld /\ AreaTold /\ LateIsStale /\ NewIsDirty /\ ZeroIsZero /\ SentPagesMapped
  BY DEF Init, AreaHeld, AreaTold, LateIsStale, NewIsDirty, ZeroIsZero, SentPagesMapped, NoArea
<1>3. WillBeSent
  BY DEF Init, WillBeSent, Differs, Shared
<1> QED
  BY <1>1, <1>2, <1>3 DEF IInv

\* A step that changes nothing keeps the invariant.
LEMMA StutterInv == ASSUME IInv, UNCHANGED vars PROVE IInv'
  BY DEF vars, program, result, worker, history, IInv, TypeOK, AreaHeld, AreaTold,
         LateIsStale, NewIsDirty, WillBeSent, Differs, Shared, ZeroIsZero,
         SentPagesMapped, Entering

\* Every step keeps the invariant.
LEMMA StepInv == IInv /\ [Next]_vars => IInv'
<1> SUFFICES ASSUME IInv, [Next]_vars PROVE IInv'
  OBVIOUS
<1>1. CASE \E p \in Page : Malloc(p) \/ Free(p) \/ LibraryAllocates(p)
  BY <1>1, MallocInv, FreeInv, LibraryAllocatesInv
<1>2. CASE \E c \in Cell, v \in Value : Write(c, v) \/ WorkerWrites(c, v)
  BY <1>2, WriteInv, WorkerWritesInv
<1>3. CASE Open \/ SendMemOps \/ Scan \/ SendDirty \/ SendZero
  BY <1>3, OpenInv, SendMemOpsInv, ScanInv, SendDirtyInv, SendZeroInv
<1>4. CASE ClearSoftDirty \/ Begin \/ Exit
  BY <1>4, ClearSoftDirtyInv, BeginInv, ExitInv
<1>5. CASE UNCHANGED vars
  BY <1>5, StutterInv
<1> QED
  BY <1>1, <1>2, <1>3, <1>4, <1>5 DEF Next

\* The invariant holds in every behaviour.
LEMMA Invariance == Spec => []IInv
  BY InitInv, StepInv, PTL DEF Spec

\* The state of the entry, of the page tables and of both copies has its types;
\* what is mapped on the worker is what the leader has told.
THEOREM TypeCorrect == Spec => []TypeOK
<1>1. IInv => TypeOK
  BY DEF IInv
<1> QED
  BY <1>1, Invariance, PTL

\* When a body begins, the workers' copy of the program's memory is the
\* leader's (enter_parallel_impl).
THEOREM HeapInSync == Spec => []InSync
<1>1. IInv => InSync
  BY DEF IInv, TypeOK, WillBeSent, Differs, InSync, Shared, CellsOf
<1> QED
  BY <1>1, Invariance, PTL

\* A cell that must be sent stays on a page the scan of the next region finds.
THEOREM NothingIsForgotten == Spec => []NothingForgotten
<1>1. IInv => NothingForgotten
  BY DEF IInv, TypeOK, WillBeSent, Differs, NothingForgotten, Shared, CellsOf
<1> QED
  BY <1>1, Invariance, PTL

\* No page is sent that the workers have not mapped (send_mem_ops comes first,
\* and the library's own heap is not scanned).
THEOREM SentPagesAreMapped == Spec => []SentPagesMapped
<1>1. IInv => SentPagesMapped
  BY DEF IInv
<1> QED
  BY <1>1, Invariance, PTL

=============================================================================
