-------------------------- MODULE ReservedHeapProofs --------------------------
(***************************************************************************)
(* For any number of threads and pages: the worker's map of the range      *)
(* follows the leader's.  What makes the invariant inductive is that begin *)
(* only grows, so that a page is mapped once: an operation that is still   *)
(* on its way cannot be about a page that has been mapped again.           *)
(***************************************************************************)
EXTENDS ReservedHeap, SequenceTheorems, FiniteSetTheorems, TLAPS

\* The operations that have been recorded and not been replayed, in order.
Told == inbox \o memOps

Recording(t, op, p) == call[t].op = op /\ call[t].at = "record" /\ p \in call[t].pages

\* What the calls of the leader's threads are about.
CallOK(t) ==
    /\ call[t].op = "mmap" => \E n \in 1..MaxLen : call[t].pages = PagesFrom(begin, n)
    /\ call[t].at = "record" => call[t].pages \subseteq Reserved
    /\ \A p \in call[t].pages :
          /\ call[t].op = "mmap" /\ call[t].at = "record" => lmap[p] = "heap"
          /\ call[t].op = "munmap" => p < begin /\ lmap[p] # "heap"

CallInv == \A t \in Thread : CallOK(t)

\* Pages that are or have been mapped are before begin.
PageInv ==
    \A p \in Page :
        /\ lmap[p] = "heap" =>
              p \in Reserved /\ (p < begin \/ \E t \in Thread : Recording(t, "mmap", p))
        /\ p \in owned => p < begin
        /\ wmap[p] = "heap" => p \in Reserved /\ p < begin
        /\ p \in Outside => wmap[p] = "foreign"

\* The worker reserves the range before it replays anything.
ReadyInv == Ready \/ \A p \in Page : wmap[p] = "foreign"

\* What the operations on their way are about.
ToldInv ==
    \A i \in 1..Len(Told) :
        /\ Told[i].pages \subseteq Reserved
        /\ \A p \in Told[i].pages :
              /\ Told[i].op = "mmap" => p < begin /\ wmap[p] # "heap"
              /\ Told[i].op = "munmap" => p < begin /\ lmap[p] # "heap"

\* A page is mapped once.
ToldOnce ==
    \A i, j \in 1..Len(Told) :
        i < j /\ Told[i].op = "mmap" /\ Told[j].op = "mmap" =>
            Told[i].pages \intersect Told[j].pages = {}

\* What the leader has, the worker has or will get.
HeapComes ==
    \A p \in Page : lmap[p] = "heap" =>
        \/ wmap[p] = "heap"
        \/ \E i \in 1..Len(Told) : Told[i].op = "mmap" /\ p \in Told[i].pages
        \/ \E t \in Thread : Recording(t, "mmap", p)

\* What the leader has no more, the worker has not or will lose.
HeapGoes ==
    ~finished => \A p \in Page : lmap[p] # "heap" /\ wmap[p] = "heap" =>
        \/ \E i \in 1..Len(Told) : Told[i].op = "munmap" /\ p \in Told[i].pages
        \/ \E t \in Thread : Recording(t, "munmap", p)

\* The same for what the worker is still to get: it loses it later.
HeapGoesLater ==
    ~finished =>
        \A i \in 1..Len(Told) : \A p \in Told[i].pages :
            Told[i].op = "mmap" /\ lmap[p] # "heap" =>
                \/ \E j \in 1..Len(Told) : i < j /\ Told[j].op = "munmap" /\ p \in Told[j].pages
                \/ \E t \in Thread : Recording(t, "munmap", p)

IInv == /\ TypeOK /\ CallInv /\ PageInv /\ ReadyInv /\ ToldInv
        /\ ToldOnce /\ HeapComes /\ HeapGoes /\ HeapGoesLater

-----------------------------------------------------------------------------
\* The operations on their way are a sequence of operations.
LEMMA ToldIsSeq == TypeOK => Told \in Seq(Op) /\ Len(Told) \in Nat
  BY ConcatProperties DEF TypeOK, MapTypeOK, Told

\* Recording an operation puts it behind the others.
LEMMA ToldAppends ==
    ASSUME TypeOK, NEW o \in Op, Record(o), inbox' = inbox
    PROVE  /\ Len(Told') = Len(Told) + 1
           /\ Told'[Len(Told) + 1] = o
           /\ \A i \in 1..Len(Told) : Told'[i] = Told[i]
<1>1. memOps \in Seq(Op) /\ inbox \in Seq(Op) /\ Append(memOps, o) \in Seq(Op)
  BY AppendProperties DEF TypeOK, MapTypeOK
<1>2. memOps' = Append(memOps, o)
  BY DEF Record
<1>3. /\ Len(Append(memOps, o)) = Len(memOps) + 1
      /\ \A i \in 1..Len(memOps) : Append(memOps, o)[i] = memOps[i]
      /\ Append(memOps, o)[Len(memOps) + 1] = o
  BY <1>1, AppendProperties
<1>4. /\ Len(inbox \o Append(memOps, o)) = Len(inbox) + Len(Append(memOps, o))
      /\ \A i \in 1..(Len(inbox) + Len(Append(memOps, o))) :
            (inbox \o Append(memOps, o))[i] =
                IF i <= Len(inbox) THEN inbox[i] ELSE Append(memOps, o)[i - Len(inbox)]
  BY <1>1, ConcatProperties
<1>5. /\ Len(Told) = Len(inbox) + Len(memOps)
      /\ \A i \in 1..(Len(inbox) + Len(memOps)) :
            Told[i] = IF i <= Len(inbox) THEN inbox[i] ELSE memOps[i - Len(inbox)]
  BY <1>1, ConcatProperties DEF Told
<1>6. Told' = inbox \o Append(memOps, o)
  BY <1>2 DEF Told
<1>7. Len(inbox) \in Nat /\ Len(memOps) \in Nat
  BY <1>1
<1> HIDE DEF Told
<1>8. Len(Told') = Len(Told) + 1
  BY <1>3, <1>4, <1>5, <1>6, <1>7
<1>9. Told'[Len(Told) + 1] = o
  BY <1>3, <1>4, <1>5, <1>6, <1>7
<1>10. \A i \in 1..Len(Told) : Told'[i] = Told[i]
  BY <1>3, <1>4, <1>5, <1>6, <1>7
<1> QED
  BY <1>8, <1>9, <1>10

\* The worker replays the first of them.
LEMMA ToldTail ==
    ASSUME TypeOK, inbox # << >>, inbox' = Tail(inbox), memOps' = memOps
    PROVE  /\ Len(Told) \in Nat /\ Len(Told) > 0 /\ Len(Told') = Len(Told) - 1
           /\ Told[1] = Head(inbox)
           /\ \A i \in 1..(Len(Told) - 1) : Told'[i] = Told[i + 1]
<1>1. memOps \in Seq(Op) /\ inbox \in Seq(Op) /\ Tail(inbox) \in Seq(Op)
  BY HeadTailProperties DEF TypeOK, MapTypeOK
<1>2. /\ Len(Tail(inbox)) = Len(inbox) - 1 /\ Len(inbox) \in Nat /\ Len(inbox) > 0
      /\ Len(memOps) \in Nat /\ Head(inbox) = inbox[1]
      /\ \A i \in 1..(Len(inbox) - 1) : Tail(inbox)[i] = inbox[i + 1]
  BY <1>1, HeadTailProperties
<1>3. /\ Len(Told) = Len(inbox) + Len(memOps)
      /\ \A i \in 1..(Len(inbox) + Len(memOps)) :
            Told[i] = IF i <= Len(inbox) THEN inbox[i] ELSE memOps[i - Len(inbox)]
  BY <1>1, ConcatProperties DEF Told
<1>4. Told' = Tail(inbox) \o memOps
  BY DEF Told
<1>5. /\ Len(Told') = Len(Tail(inbox)) + Len(memOps)
      /\ \A i \in 1..(Len(Tail(inbox)) + Len(memOps)) :
            Told'[i] = IF i <= Len(Tail(inbox)) THEN Tail(inbox)[i]
                                                ELSE memOps[i - Len(Tail(inbox))]
  BY <1>1, <1>4, ConcatProperties
<1> HIDE DEF Told
<1>6. \A i \in 1..(Len(Told) - 1) : Told'[i] = Told[i + 1]
  BY <1>2, <1>3, <1>5
<1> QED
  BY <1>2, <1>3, <1>5, <1>6

\* What is on its way does not change when it is sent.
LEMMA ToldIsSent ==
    ASSUME TypeOK, memOps' = << >>, inbox' = inbox \o memOps
    PROVE  Told' = Told
<1>1. (inbox \o memOps) \o << >> = inbox \o memOps
  BY ConcatEmptySeq, ConcatProperties DEF TypeOK, MapTypeOK
<1> QED
  BY <1>1 DEF Told

\* begin moves behind the pages that have been mapped.
LEMMA BeginMoves ==
    ASSUME begin \in Nat, NEW n \in 1..MaxLen
    PROVE  /\ RoundUp(Cardinality(PagesFrom(begin, n)), Step) \in Nat
           /\ \A p \in PagesFrom(begin, n) :
                 p < begin + RoundUp(Cardinality(PagesFrom(begin, n)), Step)
<1>1. n \in Nat \ {0} /\ Step \in Nat \ {0}
  BY SizesAssumption
<1>2. Cardinality(PagesFrom(begin, n)) = n
  BY <1>1, FS_Interval DEF PagesFrom
<1>3. n % Step \in 0..(Step - 1)
  BY <1>1
<1>4. RoundUp(n, Step) \in Nat /\ RoundUp(n, Step) >= n
  BY <1>1, <1>3 DEF RoundUp
<1> QED
  BY <1>1, <1>2, <1>4 DEF PagesFrom

\* The calls have their types when one thread's changes as it may.
LEMMA CallTypes ==
    ASSUME CallTypeOK, NEW t \in Thread, NEW op, NEW S, NEW at,
           call' = [call EXCEPT ![t] = [op |-> op, pages |-> S, at |-> at]],
           S \in SUBSET Int,
           \/ [op |-> op, pages |-> S, at |-> at] = NoCall
           \/ op = "mmap" /\ at = "map"
           \/ [op |-> op, pages |-> S] \in Op /\ at = "record",
           \/ mutex' = t /\ op = "mmap" /\ mutex \in {t, NoThread}
           \/ mutex' = mutex /\ mutex # t /\ op # "mmap"
           \/ mutex' = NoThread /\ mutex = t /\ op # "mmap"
    PROVE  CallTypeOK'
<1>1. op \in {"none", "mmap", "munmap", "madvise"} /\ at \in {"idle", "map", "record"}
  BY DEF NoCall, Op
<1>2. call' \in [Thread -> [op : {"none", "mmap", "munmap", "madvise"},
                           pages : SUBSET Int, at : {"idle", "map", "record"}]]
  BY <1>1 DEF CallTypeOK
<1>3. mutex' \in Thread \union {NoThread} /\ t # NoThread
  BY BoundsAssumption DEF CallTypeOK
<1>4. call'[t] = [op |-> op, pages |-> S, at |-> at] /\ \A u \in Thread \ {t} : call'[u] = call[u]
  BY DEF CallTypeOK
<1>5. \A u \in Thread : call'[u].op = "mmap" <=> mutex' = u
  <2>1. call'[t].op = op
    BY <1>4
  <2>2. op = "mmap" <=> mutex' = t
    BY <1>3
  <2>3. \A u \in Thread \ {t} : mutex' = u <=> mutex = u
    BY BoundsAssumption
  <2>4. \A u \in Thread \ {t} : call'[u].op = "mmap" <=> mutex' = u
    BY <1>4, <2>3 DEF CallTypeOK
  <2> QED
    BY <2>1, <2>2, <2>4
<1>6. \A u \in Thread :
         \/ call'[u] = NoCall
         \/ call'[u].op = "mmap" /\ call'[u].at = "map"
         \/ [op |-> call'[u].op, pages |-> call'[u].pages] \in Op /\ call'[u].at = "record"
  <2>1. \A u \in Thread \ {t} :
           \/ call'[u] = NoCall
           \/ call'[u].op = "mmap" /\ call'[u].at = "map"
           \/ [op |-> call'[u].op, pages |-> call'[u].pages] \in Op /\ call'[u].at = "record"
    BY <1>4 DEF CallTypeOK, OpOf
  <2>2. \/ call'[t] = NoCall
        \/ call'[t].op = "mmap" /\ call'[t].at = "map"
        \/ [op |-> call'[t].op, pages |-> call'[t].pages] \in Op /\ call'[t].at = "record"
    BY <1>4
  <2> QED
    BY <2>1, <2>2
<1> QED
  BY <1>2, <1>3, <1>5, <1>6 DEF CallTypeOK, OpOf

\* Nothing is mapped or told in an initial state.
LEMMA InitInv == Init => IInv
<1> SUFFICES ASSUME Init PROVE IInv
  OBVIOUS
<1>1. Told = << >>
  BY DEF Init, Told
<1>2. TypeOK
  <2>1. CallTypeOK
    BY BoundsAssumption DEF Init, CallTypeOK, NoCall
  <2>2. MapTypeOK
    <3>1. << >> \in Seq(Op) /\ 0 \in 0..(MaxTries + 1)
      BY BoundsAssumption
    <3>2. /\ lmap \in [Page -> {"free", "foreign", "heap"}]
          /\ wmap \in [Page -> {"foreign", "reserved", "heap"}]
      BY DEF Init
    <3> QED
      BY <3>1, <3>2 DEF Init, MapTypeOK
  <2> QED
    BY <2>1, <2>2 DEF TypeOK
<1>3. CallInv /\ PageInv /\ ReadyInv
  BY DEF Init, CallInv, CallOK, PageInv, ReadyInv, NoCall
<1>4. ToldInv /\ ToldOnce /\ HeapComes /\ HeapGoes /\ HeapGoesLater
  BY <1>1 DEF Init, ToldInv, ToldOnce, HeapComes, HeapGoes, HeapGoesLater
<1> QED
  BY <1>2, <1>3, <1>4 DEF IInv

\* The call that begins has recorded nothing yet.
LEMMA MmapInv ==
    ASSUME IInv, NEW t \in Thread, NEW n \in 1..MaxLen, Mmap(t, n) PROVE IInv'
<1>1. /\ call[t] = NoCall /\ mutex = NoThread /\ t # NoThread
      /\ mutex' = t
      /\ call' = [call EXCEPT ![t] = [op |-> "mmap", pages |-> PagesFrom(begin, n), at |-> "map"]]
      /\ UNCHANGED <<lmap, begin, owned, memOps, inbox, wmap, tries, finished, st>>
  BY BoundsAssumption DEF Mmap, Idle, InCall, worker, IInv, TypeOK, CallTypeOK
<1>2. PagesFrom(begin, n) \subseteq Int /\ Told' = Told
  BY <1>1, SizesAssumption DEF PagesFrom, IInv, TypeOK, MapTypeOK, Told
<1>3. TypeOK'
  <2>1. CallTypeOK'
    BY <1>1, <1>2, CallTypes DEF IInv, TypeOK
  <2>2. MapTypeOK'
    BY <1>1 DEF IInv, TypeOK, MapTypeOK
  <2> QED
    BY <2>1, <2>2 DEF TypeOK
<1>4. \A u \in Thread, p \in Page :
         /\ Recording(u, "mmap", p)' <=> Recording(u, "mmap", p)
         /\ Recording(u, "munmap", p)' <=> Recording(u, "munmap", p)
  BY <1>1 DEF IInv, TypeOK, CallTypeOK, NoCall, Recording
<1>5. CallInv'
  BY <1>1 DEF IInv, TypeOK, CallTypeOK, CallInv, CallOK, NoCall
<1>6. PageInv' /\ ReadyInv'
  BY <1>1, <1>4 DEF IInv, PageInv, ReadyInv, Ready
<1>7. ToldInv' /\ ToldOnce'
  BY <1>1, <1>2 DEF IInv, ToldInv, ToldOnce
<1>8. HeapComes' /\ HeapGoes'
  BY <1>1, <1>2, <1>4 DEF IInv, HeapComes, HeapGoes
<1>9. HeapGoesLater'
  BY <1>1, <1>2, <1>4 DEF IInv, HeapGoesLater, ToldInv, Page
<1> QED
  BY <1>3, <1>5, <1>6, <1>7, <1>8, <1>9 DEF IInv
\* The mapping lies behind all that have been mapped, or is tried further on.
LEMMA TryMmapInv == ASSUME IInv, NEW t \in Thread, TryMmap(t) PROVE IInv'
<1> DEFINE S == call[t].pages
<1>1. /\ call[t].op = "mmap" /\ call[t].at = "map" /\ S \in SUBSET Int
      /\ \A u \in Thread \ {t} : call[u].op # "mmap"
      /\ UNCHANGED <<mutex, owned, memOps, inbox, wmap, tries, finished>>
  BY DEF TryMmap, worker, IInv, TypeOK, CallTypeOK
<1>2. PICK n \in 1..MaxLen : S = PagesFrom(begin, n)
  BY <1>1 DEF IInv, CallInv, CallOK
<1>3. Told' = Told
  BY <1>1 DEF Told
<1>4. st' \in {"running", "terminated"}
  BY DEF TryMmap, IInv, TypeOK, MapTypeOK
<1>5. CASE UNCHANGED <<lmap, begin, call>>
  <2>1. TypeOK'
    BY <1>1, <1>4, <1>5 DEF IInv, TypeOK, CallTypeOK, MapTypeOK, OpOf
  <2>2. CallInv' /\ PageInv' /\ ReadyInv'
    BY <1>1, <1>5 DEF IInv, CallInv, CallOK, PageInv, ReadyInv, Ready, Recording
  <2>3. ToldInv' /\ ToldOnce' /\ HeapComes' /\ HeapGoes' /\ HeapGoesLater'
    BY <1>1, <1>3, <1>5
    DEF IInv, ToldInv, ToldOnce, HeapComes, HeapGoes, HeapGoesLater, Recording
  <2> QED
    BY <2>1, <2>2, <2>3 DEF IInv
<1>6. CASE /\ S \subseteq Reserved
           /\ \A p \in S : lmap[p] = "free"
           /\ lmap' = [p \in Page |-> IF p \in S THEN "heap" ELSE lmap[p]]
           /\ InCall(t, "mmap", S, "record")
           /\ UNCHANGED begin
  <2>1. /\ call' = [call EXCEPT ![t] = [op |-> "mmap", pages |-> S, at |-> "record"]]
        /\ call'[t] = [op |-> "mmap", pages |-> S, at |-> "record"]
        /\ \A u \in Thread \ {t} : call'[u] = call[u]
    BY <1>6 DEF InCall, IInv, TypeOK, CallTypeOK
  <2>2. /\ \A p \in S : lmap'[p] = "heap" /\ lmap[p] = "free" /\ p >= begin /\ p \in Page
        /\ \A p \in Page \ S : lmap'[p] = lmap[p]
    BY <1>2, <1>6 DEF PagesFrom, Page, IInv, TypeOK, MapTypeOK
  <2>3. TypeOK'
    <3>1. [op |-> "mmap", pages |-> S] \in Op
      BY <1>6 DEF Op, Page
    <3>2. CallTypeOK'
      BY <1>1, <2>1, <3>1, CallTypes, BoundsAssumption DEF IInv, TypeOK, CallTypeOK
    <3>3. lmap' \in [Page -> {"free", "foreign", "heap"}]
      BY <1>6 DEF IInv, TypeOK, MapTypeOK
    <3>4. owned \subseteq {p \in Reserved : lmap'[p] = "heap"}
      BY <2>2 DEF IInv, TypeOK, MapTypeOK, Page
    <3> QED
      BY <1>1, <1>4, <1>6, <3>2, <3>3, <3>4 DEF IInv, TypeOK, MapTypeOK
  <2>4. \A p \in Page : /\ Recording(t, "mmap", p)' <=> p \in S
                        /\ ~Recording(t, "mmap", p) /\ ~Recording(t, "munmap", p)
                        /\ ~Recording(t, "munmap", p)'
    BY <1>1, <2>1 DEF Recording
  <2>5. \A u \in Thread \ {t}, p \in Page :
           /\ Recording(u, "mmap", p)' <=> Recording(u, "mmap", p)
           /\ Recording(u, "munmap", p)' <=> Recording(u, "munmap", p)
    BY <2>1 DEF Recording
  <2>6. CallInv'
    <3>1. \A u \in Thread \ {t} : \A p \in call[u].pages :
             call[u].op = "munmap" => p \notin S
      BY <1>1, <2>2 DEF IInv, CallInv, CallOK, TypeOK, MapTypeOK
    <3>2. \A u \in Thread \ {t} : \A p \in call[u].pages :
             call[u].op = "munmap" => p < begin' /\ lmap'[p] # "heap"
      <4>1. \A u \in Thread \ {t} : call[u].op = "munmap" => call[u].pages \subseteq Page
        BY DEF IInv, TypeOK, CallTypeOK, NoCall, Op, OpOf
      <4> QED
        BY <1>6, <2>2, <3>1, <4>1 DEF IInv, CallInv, CallOK
    <3> QED
      BY <1>1, <1>2, <1>6, <2>1, <2>2, <3>2 DEF IInv, CallInv, CallOK
  <2>7. PageInv' /\ ReadyInv'
    BY <1>1, <1>6, <2>2, <2>4, <2>5 DEF IInv, PageInv, ReadyInv, Ready
  <2>8. ToldInv' /\ ToldOnce'
    <3>1. \A i \in 1..Len(Told) : \A p \in Told[i].pages :
             Told[i].op = "munmap" => lmap'[p] # "heap"
      <4>1. \A p \in Reserved : p < begin => lmap'[p] = lmap[p]
        BY <1>1, <2>2 DEF IInv, TypeOK, MapTypeOK, Page
      <4> QED
        BY <4>1 DEF IInv, ToldInv
    <3> QED
      BY <1>1, <1>3, <1>6, <3>1 DEF IInv, ToldInv, ToldOnce
  <2>9. HeapComes' /\ HeapGoes' /\ HeapGoesLater'
    <3>1. HeapComes'
      BY <1>1, <1>3, <2>2, <2>4, <2>5 DEF IInv, HeapComes
    <3>2. HeapGoes'
      BY <1>1, <1>3, <2>2, <2>4, <2>5 DEF IInv, HeapGoes
    <3>3. HeapGoesLater'
      BY <1>1, <1>3, <2>2, <2>4, <2>5 DEF IInv, HeapGoesLater, ToldInv, Page
    <3> QED
      BY <3>1, <3>2, <3>3
  <2> QED
    BY <2>3, <2>6, <2>7, <2>8, <2>9 DEF IInv
<1>7. CASE /\ begin' = begin + Step
           /\ InCall(t, "mmap", {p + Step : p \in S}, "map")
           /\ UNCHANGED lmap
  <2>1. /\ call' = [call EXCEPT ![t] =
                      [op |-> "mmap", pages |-> {p + Step : p \in S}, at |-> "map"]]
        /\ call'[t] = [op |-> "mmap", pages |-> {p + Step : p \in S}, at |-> "map"]
        /\ \A u \in Thread \ {t} : call'[u] = call[u]
    BY <1>7 DEF InCall, IInv, TypeOK, CallTypeOK
  <2>2. begin' \in Nat /\ begin' > begin /\ Step \in Nat
    BY <1>7, SizesAssumption DEF IInv, TypeOK, MapTypeOK
  <2>3. /\ {p + Step : p \in S} = PagesFrom(begin', n)
        /\ {p + Step : p \in S} \in SUBSET Int
    <3>1. \A p \in Int : p \in PagesFrom(begin, n) <=> p + Step \in PagesFrom(begin', n)
      BY <1>7, <2>2, SizesAssumption DEF PagesFrom, IInv, TypeOK, MapTypeOK
    <3>2. PagesFrom(begin', n) \subseteq Int /\ PagesFrom(begin, n) \subseteq Int
      BY <2>2, SizesAssumption DEF PagesFrom, IInv, TypeOK, MapTypeOK
    <3>3. \A q \in PagesFrom(begin', n) : q - Step \in S /\ q = (q - Step) + Step
      BY <1>2, <2>2, <3>1, <3>2
    <3> QED
      BY <1>2, <2>2, <3>1, <3>2, <3>3
  <2>4. TypeOK'
    <3>1. CallTypeOK'
      BY <1>1, <2>1, <2>3, CallTypes DEF IInv, TypeOK, CallTypeOK
    <3> QED
      BY <1>1, <1>4, <1>7, <2>2, <3>1 DEF IInv, TypeOK, MapTypeOK
  <2>5. \A u \in Thread, p \in Page :
           /\ Recording(u, "mmap", p)' <=> Recording(u, "mmap", p)
           /\ Recording(u, "munmap", p)' <=> Recording(u, "munmap", p)
    BY <1>1, <2>1 DEF Recording
  <2>6. CallInv'
    <3>1. \A u \in Thread \ {t} : \A p \in call[u].pages :
             call[u].op = "munmap" => p < begin' /\ lmap[p] # "heap"
      BY <1>7, <2>2 DEF IInv, CallInv, CallOK, TypeOK, CallTypeOK, MapTypeOK
    <3>2. \A u \in Thread \ {t} : call[u].at = "record" => call[u].pages \subseteq Reserved
      BY DEF IInv, CallInv, CallOK
    <3>3. \A u \in Thread \ {t} : CallOK(u)'
      BY <1>1, <2>1, <1>7, <3>1, <3>2 DEF CallOK
    <3>4. CallOK(t)'
      BY <2>1, <2>3 DEF CallOK
    <3> QED
      BY <3>3, <3>4 DEF CallInv
  <2>7. PageInv' /\ ReadyInv'
    <3>1. \A p \in Page : p < begin => p < begin'
      BY <2>2 DEF Page, Reserved, Outside, IInv, TypeOK, MapTypeOK
    <3> QED
      BY <1>1, <1>7, <2>5, <3>1 DEF IInv, PageInv, ReadyInv, Ready
  <2>8. ToldInv' /\ ToldOnce'
    <3>1. \A p \in Reserved : p < begin => p < begin'
      BY <2>2 DEF Reserved, IInv, TypeOK, MapTypeOK
    <3> QED
      BY <1>1, <1>3, <1>7, <3>1 DEF IInv, ToldInv, ToldOnce
  <2>9. HeapComes' /\ HeapGoes' /\ HeapGoesLater'
    BY <1>1, <1>3, <1>7, <2>5 DEF IInv, HeapComes, HeapGoes, HeapGoesLater, ToldInv, Page
  <2> QED
    BY <2>4, <2>6, <2>7, <2>8, <2>9 DEF IInv
<1> QED
  BY <1>5, <1>6, <1>7 DEF TryMmap

\* The mapping is recorded behind all that have been recorded, and begin moves
\* behind it.
LEMMA MmapReturnsInv == ASSUME IInv, NEW t \in Thread, MmapReturns(t) PROVE IInv'
<1> DEFINE S == call[t].pages
           o == [op |-> "mmap", pages |-> S]
           more == RoundUp(Cardinality(S), Step)
<1>1. /\ call[t].op = "mmap" /\ call[t].at = "record" /\ o = OpOf(t) /\ o \in Op
      /\ \A u \in Thread \ {t} : call[u].op # "mmap"
      /\ S \subseteq Reserved /\ \A p \in S : lmap[p] = "heap"
  <2>1. call[t].op = "mmap" /\ call[t].at = "record"
    BY DEF MmapReturns
  <2>2. o = OpOf(t) /\ o \in Op
    BY <2>1 DEF OpOf, NoCall, IInv, TypeOK, CallTypeOK
  <2>3. \A u \in Thread \ {t} : call[u].op # "mmap"
    BY <2>1 DEF IInv, TypeOK, CallTypeOK
  <2>4. S \subseteq Reserved /\ \A p \in S : lmap[p] = "heap"
    BY <2>1 DEF IInv, CallInv, CallOK
  <2> QED
    BY <2>1, <2>2, <2>3, <2>4
<1>2. /\ Record(o) /\ begin' = begin + more /\ owned' = owned \union S
      /\ mutex' = NoThread /\ mutex = t /\ t # NoThread
      /\ call' = [call EXCEPT ![t] = NoCall]
      /\ UNCHANGED <<lmap, inbox, wmap, tries, finished, st>>
  BY <1>1, BoundsAssumption DEF MmapReturns, worker, IInv, TypeOK, CallTypeOK
<1>3. PICK n \in 1..MaxLen : S = PagesFrom(begin, n)
  BY <1>1 DEF IInv, CallInv, CallOK
<1>4. /\ begin \in Nat /\ begin' \in Nat /\ begin' >= begin
      /\ \A p \in S : p \in Int /\ p >= begin /\ p < begin'
  <2>1. more \in Nat /\ (\A p \in S : p < begin + more) /\ begin \in Nat
    BY <1>3, BeginMoves DEF IInv, TypeOK, MapTypeOK
  <2>2. \A p \in S : p \in Int /\ p >= begin
    BY <1>3, <2>1, SizesAssumption DEF PagesFrom
  <2> QED
    BY <1>2, <2>1, <2>2
<1>5. \A p \in Page : p \in Int /\ (p < begin => p < begin')
  BY <1>4, SizesAssumption DEF Page, Reserved, Outside
<1>6. /\ Told \in Seq(Op) /\ Len(Told) \in Nat /\ Len(Told') = Len(Told) + 1
      /\ Told'[Len(Told) + 1] = o
      /\ \A i \in 1..Len(Told) : Told'[i] = Told[i]
  BY <1>1, <1>2, ToldIsSeq, ToldAppends DEF IInv
<1>7. call'[t] = NoCall /\ \A u \in Thread \ {t} : call'[u] = call[u]
  BY <1>2 DEF IInv, TypeOK, CallTypeOK
<1>8. \A p \in Page : /\ Recording(t, "mmap", p) <=> p \in S
                      /\ ~Recording(t, "munmap", p)
                      /\ ~Recording(t, "mmap", p)' /\ ~Recording(t, "munmap", p)'
                      /\ \A u \in Thread \ {t} :
                            /\ ~Recording(u, "mmap", p) /\ ~Recording(u, "mmap", p)'
                            /\ Recording(u, "munmap", p)' <=> Recording(u, "munmap", p)
  BY <1>1, <1>7 DEF Recording, NoCall
<1>9. TypeOK'
  <2>1. CallTypeOK'
    <3>1. /\ call' = [call EXCEPT ![t] = [op |-> "none", pages |-> {}, at |-> "idle"]]
          /\ [op |-> "none", pages |-> {}, at |-> "idle"] = NoCall
      BY <1>2 DEF NoCall
    <3>2. {} \in SUBSET Int /\ "none" # "mmap" /\ mutex' = NoThread /\ mutex = t
      BY <1>2
    <3>3. CallTypeOK
      BY DEF IInv, TypeOK
    <3> QED
      BY <3>1, <3>2, <3>3, CallTypes
  <2>2. memOps' \in Seq(Op)
    BY <1>1, <1>2, AppendProperties DEF Record, IInv, TypeOK, MapTypeOK
  <2>3. owned' \subseteq {p \in Reserved : lmap'[p] = "heap"}
    BY <1>1, <1>2 DEF IInv, TypeOK, MapTypeOK
  <2> QED
    BY <1>2, <1>4, <2>1, <2>2, <2>3 DEF IInv, TypeOK, MapTypeOK
<1>10. CallInv'
  <2>1. CallOK(t)'
    BY <1>7 DEF CallOK, NoCall
  <2>2. ASSUME NEW u \in Thread \ {t} PROVE CallOK(u)'
    <3>1. call[u].op = "munmap" => call[u].pages \subseteq Page
      BY DEF IInv, TypeOK, CallTypeOK, NoCall, Op, OpOf
    <3> QED
      BY <1>1, <1>2, <1>5, <1>7, <3>1 DEF IInv, CallInv, CallOK
  <2> QED
    BY <2>1, <2>2 DEF CallInv
<1>11. PageInv' /\ ReadyInv'
  BY <1>2, <1>4, <1>5, <1>8 DEF IInv, PageInv, ReadyInv, Ready
<1>12. ToldInv'
  <2>1. /\ o.pages \subseteq Reserved /\ o.op = "mmap"
        /\ \A p \in o.pages : p < begin' /\ wmap[p] # "heap"
    BY <1>1, <1>4 DEF IInv, PageInv, Page
  <2>2. \A p \in Reserved : p < begin => p < begin'
    BY <1>5 DEF Page
  <2>3. \A i \in 1..Len(Told) :
           /\ Told[i].pages \subseteq Reserved
           /\ \A p \in Told[i].pages :
                 /\ Told[i].op = "mmap" => p < begin' /\ wmap'[p] # "heap"
                 /\ Told[i].op = "munmap" => p < begin' /\ lmap'[p] # "heap"
    BY <1>2, <2>2 DEF IInv, ToldInv
  <2>4. \A i \in 1..Len(Told') : i = Len(Told) + 1 \/ i \in 1..Len(Told)
    BY <1>6
  <2> QED
    BY <1>2, <1>6, <2>1, <2>3, <2>4 DEF ToldInv
<1>13. ToldOnce'
  <2>1. \A i \in 1..Len(Told) : Told[i].op = "mmap" => Told[i].pages \intersect S = {}
    BY <1>4 DEF IInv, ToldInv
  <2>2. \A i, j \in 1..Len(Told') : i < j => i \in 1..Len(Told) /\
                                             (j = Len(Told) + 1 \/ j \in 1..Len(Told))
    BY <1>6
  <2>3. \A i \in 1..Len(Told') : i = Len(Told) + 1 => Told'[i].pages = S
    BY <1>6
  <2> QED
    BY <1>6, <2>1, <2>2, <2>3 DEF IInv, ToldOnce
<1>14. Len(Told) + 1 \in 1..Len(Told') /\ 1..Len(Told) \subseteq 1..Len(Told')
  BY <1>6
<1>15. HeapComes'
  <2> SUFFICES ASSUME NEW p \in Page, lmap[p] = "heap", wmap[p] # "heap"
               PROVE  \E i \in 1..Len(Told') : Told'[i].op = "mmap" /\ p \in Told'[i].pages
    BY <1>2 DEF HeapComes
  <2>1. CASE p \in S
    BY <1>6, <1>14, <2>1
  <2>2. CASE p \notin S
    <3>1. \E i \in 1..Len(Told) : Told[i].op = "mmap" /\ p \in Told[i].pages
      BY <1>8, <2>2 DEF IInv, HeapComes
    <3> QED
      BY <1>6, <1>14, <3>1
  <2> QED
    BY <2>1, <2>2
<1>16. HeapGoes'
  BY <1>2, <1>6, <1>8, <1>14 DEF IInv, HeapGoes
<1>17. HeapGoesLater'
  <2> SUFFICES ASSUME ~finished, NEW i \in 1..Len(Told'), NEW p \in Told'[i].pages,
                      Told'[i].op = "mmap", lmap[p] # "heap"
               PROVE  \/ \E j \in 1..Len(Told') :
                            i < j /\ Told'[j].op = "munmap" /\ p \in Told'[j].pages
                      \/ \E u \in Thread : Recording(u, "munmap", p)'
    BY <1>2 DEF HeapGoesLater
  <2>1. i \in 1..Len(Told)
    BY <1>1, <1>6
  <2>2. p \in Page
    BY <1>6, <2>1 DEF IInv, ToldInv, Page
  <2>3. \/ \E j \in 1..Len(Told) : i < j /\ Told[j].op = "munmap" /\ p \in Told[j].pages
        \/ \E u \in Thread : Recording(u, "munmap", p)
    BY <1>6, <2>1 DEF IInv, HeapGoesLater
  <2> QED
    BY <1>6, <1>8, <1>14, <2>2, <2>3
<1> QED
  BY <1>9, <1>10, <1>11, <1>12, <1>13, <1>15, <1>16, <1>17 DEF IInv

\* A step that leaves the worker alone and records nothing keeps what is known
\* about the operations on their way, if it only takes pages away that another
\* call is about to record, or the main program has ended.
LEMMA ThenRecordInv ==
    ASSUME IInv, NEW t \in Thread, NEW op \in {"munmap", "madvise"}, NEW S \in Areas,
           MayCall(t, S), ThenRecord(t, op, S),
           op = "madvise" => UNCHANGED <<lmap, owned>>,
           op = "munmap" => /\ lmap' = [p \in Page |-> IF p \in S THEN "free" ELSE lmap[p]]
                            /\ owned' = owned \ S,
           UNCHANGED <<begin, mutex, memOps, worker, finished, st>>
    PROVE  IInv'
<1>1. /\ Idle(t) /\ call[t] = NoCall /\ mutex # t
      /\ UNCHANGED <<begin, mutex, memOps, inbox, wmap, tries, finished, st>>
  BY DEF MayCall, Idle, worker, IInv, TypeOK, CallTypeOK, NoCall, Op, OpOf
<1>2. S # {} /\ S \subseteq Int /\ \A p \in S \intersect Page : p \in Int
  <2>1. PICK a \in Page, n \in 1..MaxLen : S = PagesFrom(a, n)
    BY DEF Areas
  <2>2. a \in Int /\ n \in Nat \ {0}
    BY SizesAssumption DEF Page, Reserved, Outside
  <2>3. a \in S /\ S \subseteq Int
    BY <2>1, <2>2 DEF PagesFrom
  <2> QED
    BY <2>3
<1>3. \/ S \subseteq owned /\ S \subseteq Reserved /\ S \subseteq Page
      \/ S \subseteq Outside /\ S \subseteq Page
  BY DEF MayCall, IInv, TypeOK, MapTypeOK, Page
<1>4. OverlapWithReservedHeap(S) <=> S \subseteq Reserved
  <2>1. \A p \in Reserved : p >= 0 /\ p <= HeapPages - 1
    BY SizesAssumption DEF Reserved
  <2>2. \A p \in Outside : ~(p >= 0 /\ p <= HeapPages - 1)
    BY SizesAssumption DEF Outside
  <2> QED
    BY <1>2, <1>3, <2>1, <2>2 DEF OverlapWithReservedHeap
<1>5. Told' = Told
  BY <1>1 DEF Told
<1>6. /\ \A p \in Page : lmap'[p] = "heap" => lmap[p] = "heap"
      /\ \A p \in Page : op = "munmap" /\ p \in S => lmap'[p] # "heap"
      /\ \A p \in Page : p \notin S \/ op = "madvise" => lmap'[p] = lmap[p]
      /\ owned' \subseteq owned
  BY DEF IInv, TypeOK, MapTypeOK
<1>7. \/ UNCHANGED call /\ (finished \/ S \subseteq Outside)
      \/ /\ call' = [call EXCEPT ![t] = [op |-> op, pages |-> S, at |-> "record"]]
         /\ S \subseteq Reserved /\ S \subseteq owned
  <2>1. S \subseteq Reserved => S \subseteq owned
    BY <1>2, <1>3, SizesAssumption DEF Reserved, Outside
  <2>2. CASE finished \/ ~OverlapWithReservedHeap(S)
    BY <1>3, <1>4, <2>2 DEF ThenRecord
  <2>3. CASE ~finished /\ OverlapWithReservedHeap(S)
    BY <1>4, <2>1, <2>3 DEF ThenRecord, InCall
  <2> QED
    BY <2>2, <2>3
<1>8. \A u \in Thread \ {t} : call'[u] = call[u]
  BY <1>7 DEF IInv, TypeOK, CallTypeOK
<1>9. \A p \in Page : /\ ~Recording(t, "mmap", p) /\ ~Recording(t, "munmap", p)
                      /\ ~Recording(t, "mmap", p)'
                      /\ \A u \in Thread \ {t} :
                            /\ Recording(u, "mmap", p)' <=> Recording(u, "mmap", p)
                            /\ Recording(u, "munmap", p)' <=> Recording(u, "munmap", p)
  BY <1>1, <1>7, <1>8 DEF Recording, NoCall, IInv, TypeOK, CallTypeOK
<1>10. ASSUME ~finished, NEW p \in Page, lmap[p] = "heap", lmap'[p] # "heap"
       PROVE  Recording(t, "munmap", p)'
  <2>1. op = "munmap" /\ p \in S
    BY <1>6, <1>10
  <2>2. ~(S \subseteq Outside)
    BY <1>10, <2>1 DEF IInv, PageInv, Reserved, Outside
  <2>3. call'[t] = [op |-> op, pages |-> S, at |-> "record"]
    BY <1>7, <1>10, <2>2 DEF IInv, TypeOK, CallTypeOK
  <2> QED
    BY <2>1, <2>3 DEF Recording
<1>11. TypeOK'
  <2>1. CallTypeOK'
    <3>1. CASE UNCHANGED call
      BY <1>1, <3>1 DEF IInv, TypeOK, CallTypeOK, OpOf
    <3>2. CASE /\ call' = [call EXCEPT ![t] = [op |-> op, pages |-> S, at |-> "record"]]
               /\ S \subseteq Reserved
      <4>1. [op |-> op, pages |-> S] \in Op
        BY <3>2 DEF Op, Page
      <4> QED
        BY <1>1, <1>2, <3>2, <4>1, CallTypes DEF IInv, TypeOK
    <3> QED
      BY <1>7, <3>1, <3>2
  <2>2. lmap' \in [Page -> {"free", "foreign", "heap"}]
    BY DEF IInv, TypeOK, MapTypeOK
  <2>3. owned' \subseteq {p \in Reserved : lmap'[p] = "heap"}
    <3>1. CASE op = "madvise"
      BY <3>1 DEF IInv, TypeOK, MapTypeOK
    <3>2. CASE op = "munmap"
      BY <3>2 DEF IInv, TypeOK, MapTypeOK, Page
    <3> QED
      BY <3>1, <3>2
  <2> QED
    BY <1>1, <2>1, <2>2, <2>3 DEF IInv, TypeOK, MapTypeOK
<1>12. CallInv'
  <2>1. \A p \in owned : p < begin /\ p \in Page
    BY DEF IInv, PageInv, TypeOK, MapTypeOK, Page
  <2>2. CallOK(t)'
    <3>1. CASE UNCHANGED call
      BY <1>1, <3>1 DEF CallOK, NoCall
    <3>2. CASE /\ call' = [call EXCEPT ![t] = [op |-> op, pages |-> S, at |-> "record"]]
               /\ S \subseteq Reserved /\ S \subseteq owned
      <4>1. call'[t] = [op |-> op, pages |-> S, at |-> "record"]
        BY <3>2 DEF IInv, TypeOK, CallTypeOK
      <4> QED
        BY <1>1, <1>6, <2>1, <3>2, <4>1 DEF CallOK
    <3> QED
      BY <1>7, <3>1, <3>2
  <2>3. ASSUME NEW u \in Thread \ {t} PROVE CallOK(u)'
    <3>1. \/ call[u].at # "record" /\ call[u].op # "munmap"
          \/ call[u].at = "record" /\ call[u].pages \subseteq Reserved
      BY DEF IInv, TypeOK, CallTypeOK, NoCall, CallInv, CallOK
    <3>2. ASSUME call[u].op = "mmap", call[u].at = "record", NEW p \in call[u].pages
          PROVE  lmap'[p] = "heap"
      <4>1. p >= begin /\ p \in Page /\ lmap[p] = "heap"
        BY <3>1, <3>2, SizesAssumption
        DEF IInv, CallInv, CallOK, PagesFrom, TypeOK, MapTypeOK, Page
      <4>2. p \notin S
        BY <1>2, <1>3, <2>1, <4>1 DEF IInv, TypeOK, MapTypeOK, PageInv, Reserved, Outside
      <4> QED
        BY <1>6, <4>1, <4>2
    <3>3. ASSUME call[u].op = "munmap", NEW p \in call[u].pages
          PROVE  p < begin /\ lmap'[p] # "heap"
      BY <1>6, <3>1, <3>3 DEF IInv, CallInv, CallOK, Page
    <3> QED
      BY <1>1, <1>8, <3>2, <3>3 DEF IInv, CallInv, CallOK
  <2> QED
    BY <2>2, <2>3 DEF CallInv
<1>13. PageInv' /\ ReadyInv'
  BY <1>1, <1>6, <1>9 DEF IInv, PageInv, ReadyInv, Ready
<1>14. ToldInv' /\ ToldOnce'
  <2>1. Reserved \subseteq Page
    BY DEF Page
  <2> QED
    BY <1>1, <1>5, <1>6, <2>1 DEF IInv, ToldInv, ToldOnce
<1>15. HeapComes'
  BY <1>1, <1>5, <1>6, <1>9 DEF IInv, HeapComes
<1>16. HeapGoes'
  BY <1>1, <1>5, <1>9, <1>10 DEF IInv, HeapGoes
<1>17. HeapGoesLater'
  <2> SUFFICES ASSUME ~finished, NEW i \in 1..Len(Told), NEW p \in Told[i].pages,
                      Told[i].op = "mmap", lmap'[p] # "heap"
               PROVE  \/ \E j \in 1..Len(Told) :
                            i < j /\ Told[j].op = "munmap" /\ p \in Told[j].pages
                      \/ \E u \in Thread : Recording(u, "munmap", p)'
    BY <1>1, <1>5 DEF HeapGoesLater
  <2>1. p \in Page
    BY DEF IInv, ToldInv, Page
  <2>2. CASE lmap[p] = "heap"
    BY <1>10, <2>1, <2>2
  <2>3. CASE lmap[p] # "heap"
    BY <1>9, <2>1, <2>3 DEF IInv, HeapGoesLater
  <2> QED
    BY <2>2, <2>3
<1> QED
  BY <1>11, <1>12, <1>13, <1>14, <1>15, <1>16, <1>17 DEF IInv

\* munmap of pages the program has, or of somebody else's.
LEMMA MunmapInv ==
    ASSUME IInv, NEW t \in Thread, NEW S \in Areas, Munmap(t, S) PROVE IInv'
  BY ThenRecordInv DEF Munmap

\* madvise of pages the program has, or of somebody else's.
LEMMA MadviseInv ==
    ASSUME IInv, NEW t \in Thread, NEW S \in Areas, Madvise(t, S) PROVE IInv'
  BY ThenRecordInv DEF Madvise

\* An operation that has been performed is recorded behind the others.
LEMMA RecordOpInv == ASSUME IInv, NEW t \in Thread, RecordOp(t) PROVE IInv'
<1> DEFINE o == OpOf(t)
<1>1. /\ call[t].op # "mmap" /\ call[t].at = "record" /\ o \in Op /\ mutex # t
      /\ o.op = call[t].op /\ o.pages = call[t].pages /\ o.pages \subseteq Reserved
  BY DEF RecordOp, OpOf, NoCall, IInv, TypeOK, CallTypeOK, CallInv, CallOK
<1>2. /\ Record(o) /\ call' = [call EXCEPT ![t] = NoCall]
      /\ UNCHANGED <<lmap, begin, mutex, owned, inbox, wmap, tries, finished, st>>
  BY DEF RecordOp, worker
<1> HIDE DEF o
<1>3. /\ Told \in Seq(Op) /\ Len(Told) \in Nat /\ Len(Told') = Len(Told) + 1
      /\ Told'[Len(Told) + 1] = o
      /\ \A i \in 1..Len(Told) : Told'[i] = Told[i]
  BY <1>1, <1>2, ToldIsSeq, ToldAppends DEF IInv
<1>4. /\ Len(Told) + 1 \in 1..Len(Told') /\ 1..Len(Told) \subseteq 1..Len(Told')
      /\ \A i \in 1..Len(Told') : i = Len(Told) + 1 \/ i \in 1..Len(Told)
      /\ \A i \in 1..Len(Told) : i < Len(Told) + 1
  BY <1>3
<1>5. call'[t] = NoCall /\ \A u \in Thread \ {t} : call'[u] = call[u]
  BY <1>2 DEF IInv, TypeOK, CallTypeOK
<1>6. \A p \in Page : /\ ~Recording(t, "mmap", p)
                      /\ Recording(t, "munmap", p) => o.op = "munmap" /\ p \in o.pages
                      /\ ~Recording(t, "mmap", p)' /\ ~Recording(t, "munmap", p)'
                      /\ \A u \in Thread \ {t} :
                            /\ Recording(u, "mmap", p)' <=> Recording(u, "mmap", p)
                            /\ Recording(u, "munmap", p)' <=> Recording(u, "munmap", p)
  BY <1>1, <1>5 DEF Recording, NoCall
<1>7. TypeOK'
  <2>1. CallTypeOK'
    <3>1. /\ call' = [call EXCEPT ![t] = [op |-> "none", pages |-> {}, at |-> "idle"]]
          /\ [op |-> "none", pages |-> {}, at |-> "idle"] = NoCall
      BY <1>2 DEF NoCall
    <3>2. {} \in SUBSET Int /\ "none" # "mmap" /\ mutex' = mutex /\ mutex # t
      BY <1>1, <1>2
    <3>3. CallTypeOK
      BY DEF IInv, TypeOK
    <3> QED
      BY <3>1, <3>2, <3>3, CallTypes
  <2>2. memOps' \in Seq(Op)
    BY <1>1, <1>2, AppendProperties DEF Record, IInv, TypeOK, MapTypeOK
  <2> QED
    BY <1>2, <2>1, <2>2 DEF IInv, TypeOK, MapTypeOK
<1>8. CallInv'
  <2>1. CallOK(t)'
    BY <1>5 DEF CallOK, NoCall
  <2>2. \A u \in Thread \ {t} : CallOK(u)'
    BY <1>2, <1>5 DEF IInv, CallInv, CallOK
  <2> QED
    BY <2>1, <2>2 DEF CallInv
<1>9. PageInv' /\ ReadyInv'
  BY <1>2, <1>6 DEF IInv, PageInv, ReadyInv, Ready
<1>10. ToldInv'
  <2>1. o.op # "mmap" /\ (o.op = "munmap" => \A p \in o.pages : p < begin /\ lmap[p] # "heap")
    BY <1>1 DEF IInv, CallInv, CallOK
  <2> QED
    BY <1>1, <1>2, <1>3, <1>4, <2>1 DEF IInv, ToldInv
<1>11. ToldOnce'
  <2>1. \A i \in 1..Len(Told') : Told'[i].op = "mmap" => i \in 1..Len(Told)
    BY <1>1, <1>3, <1>4
  <2> QED
    BY <1>3, <2>1 DEF IInv, ToldOnce
<1>12. HeapComes'
  BY <1>2, <1>3, <1>4, <1>6 DEF IInv, HeapComes
<1>13. HeapGoes'
  BY <1>2, <1>3, <1>4, <1>6 DEF IInv, HeapGoes
<1>14. HeapGoesLater'
  <2> SUFFICES ASSUME ~finished, NEW i \in 1..Len(Told'), NEW p \in Told'[i].pages,
                      Told'[i].op = "mmap", lmap[p] # "heap"
               PROVE  \/ \E j \in 1..Len(Told') :
                            i < j /\ Told'[j].op = "munmap" /\ p \in Told'[j].pages
                      \/ \E u \in Thread : Recording(u, "munmap", p)'
    BY <1>2 DEF HeapGoesLater
  <2>1. i \in 1..Len(Told) /\ i < Len(Told) + 1
    BY <1>1, <1>3, <1>4
  <2>2. p \in Page
    BY <1>3, <2>1 DEF IInv, ToldInv, Page
  <2>3. \/ \E j \in 1..Len(Told) : i < j /\ Told[j].op = "munmap" /\ p \in Told[j].pages
        \/ \E u \in Thread : Recording(u, "munmap", p)
    BY <1>3, <2>1 DEF IInv, HeapGoesLater
  <2> QED
    BY <1>3, <1>4, <1>6, <2>1, <2>2, <2>3
<1> QED
  BY <1>7, <1>8, <1>9, <1>10, <1>11, <1>12, <1>13, <1>14 DEF IInv

\* What is sent stays in order.
LEMMA SendMemOpsInv == ASSUME IInv, SendMemOps PROVE IInv'
<1>1. /\ memOps' = << >> /\ inbox' = inbox \o memOps
      /\ UNCHANGED <<lmap, begin, mutex, call, owned, wmap, tries, finished, st>>
  BY DEF SendMemOps
<1>2. Told' = Told
  BY <1>1, ToldIsSent DEF IInv
<1>3. TypeOK'
  <2>1. << >> \in Seq(Op) /\ inbox \o memOps \in Seq(Op)
    BY ConcatProperties DEF IInv, TypeOK, MapTypeOK
  <2> QED
    BY <1>1, <2>1 DEF IInv, TypeOK, CallTypeOK, MapTypeOK, OpOf
<1>4. CallInv' /\ PageInv' /\ ReadyInv'
  BY <1>1 DEF IInv, CallInv, CallOK, PageInv, ReadyInv, Ready, Recording
<1>5. ToldInv' /\ ToldOnce' /\ HeapComes' /\ HeapGoes' /\ HeapGoesLater'
  BY <1>1, <1>2 DEF IInv, ToldInv, ToldOnce, HeapComes, HeapGoes, HeapGoesLater, Recording
<1> QED
  BY <1>3, <1>4, <1>5 DEF IInv

\* After the end of main nothing is promised about what is unmapped.
LEMMA FinishInv == ASSUME IInv, Finish PROVE IInv'
<1>1. finished' = TRUE /\ UNCHANGED <<leader, worker, st>>
  BY DEF Finish
<1>2. Told' = Told
  BY <1>1 DEF leader, worker, Told
<1>3. TypeOK'
  BY <1>1 DEF leader, worker, IInv, TypeOK, CallTypeOK, MapTypeOK, OpOf
<1>4. CallInv' /\ PageInv' /\ ReadyInv'
  BY <1>1 DEF leader, worker, IInv, CallInv, CallOK, PageInv, ReadyInv, Ready, Recording
<1>5. ToldInv' /\ ToldOnce' /\ HeapComes' /\ HeapGoes' /\ HeapGoesLater'
  BY <1>1, <1>2
  DEF leader, worker, IInv, ToldInv, ToldOnce, HeapComes, HeapGoes, HeapGoesLater, Recording
<1> QED
  BY <1>3, <1>4, <1>5 DEF IInv

\* The range is reserved before anything is in it.
LEMMA ReserveHeapAreaInv == ASSUME IInv, ReserveHeapArea PROVE IInv'
<1>1. /\ ~Ready /\ tries' = tries + 1 /\ tries <= MaxTries
      /\ UNCHANGED <<lmap, begin, mutex, call, owned, memOps, inbox, finished>>
  BY DEF ReserveHeapArea, leader
<1>2. \A p \in Page : wmap[p] = "foreign"
  BY <1>1 DEF IInv, ReadyInv
<1>3. Told' = Told
  BY <1>1 DEF Told
<1>4. /\ wmap' \in [Page -> {"foreign", "reserved", "heap"}]
      /\ \A p \in Page : wmap'[p] # "heap" /\ (p \in Outside => wmap'[p] = "foreign")
  <2>1. Reserved \intersect Outside = {}
    BY SizesAssumption DEF Reserved, Outside
  <2> QED
    BY <1>2, <2>1 DEF ReserveHeapArea, IInv, TypeOK, MapTypeOK
<1>5. TypeOK'
  <2>1. tries' \in 0..MaxTries + 1 /\ st' \in {"running", "terminated"}
    BY <1>1, BoundsAssumption DEF ReserveHeapArea, IInv, TypeOK, MapTypeOK
  <2> QED
    BY <1>1, <1>4, <2>1 DEF IInv, TypeOK, CallTypeOK, MapTypeOK, OpOf
<1>6. CallInv'
  BY <1>1 DEF IInv, CallInv, CallOK
<1>7. PageInv'
  BY <1>1, <1>4 DEF IInv, PageInv, Recording
<1>8. ReadyInv'
  BY <1>2 DEF ReserveHeapArea, ReadyInv, Ready, Page
<1>9. ToldInv' /\ ToldOnce'
  BY <1>1, <1>3, <1>4 DEF IInv, ToldInv, ToldOnce, Page
<1>10. HeapComes' /\ HeapGoes' /\ HeapGoesLater'
  BY <1>1, <1>2, <1>3, <1>4 DEF IInv, HeapComes, HeapGoes, HeapGoesLater, Recording
<1> QED
  BY <1>5, <1>6, <1>7, <1>8, <1>9, <1>10 DEF IInv

\* The worker does what the leader has done.
LEMMA ReplayInv == ASSUME IInv, Replay PROVE IInv'
<1> DEFINE o == Head(inbox)
<1>1. /\ Ready /\ inbox # << >> /\ inbox' = Tail(inbox)
      /\ wmap' = [p \in Page |-> IF p \notin o.pages \/ o.op = "madvise" THEN wmap[p]
                                 ELSE IF o.op = "mmap" THEN "heap" ELSE "reserved"]
      /\ UNCHANGED <<lmap, begin, mutex, call, owned, memOps, tries, finished, st>>
  BY DEF Replay, leader
<1>2. /\ Len(Told) \in Nat /\ Len(Told) > 0 /\ Len(Told') = Len(Told) - 1
      /\ Told[1] = o
      /\ \A i \in 1..(Len(Told) - 1) : Told'[i] = Told[i + 1]
  BY <1>1, ToldTail DEF IInv
<1> HIDE DEF o
<1>3. /\ 1 \in 1..Len(Told)
      /\ \A i \in 1..Len(Told') : i + 1 \in 1..Len(Told) /\ 1 < i + 1 /\ Told'[i] = Told[i + 1]
  BY <1>2
<1>4. \A i \in 1..Len(Told) : 1 < i => i - 1 \in 1..Len(Told') /\ Told'[i - 1] = Told[i]
  BY <1>2
<1>5. /\ o \in Op /\ o.pages \subseteq Reserved
      /\ \A p \in o.pages : /\ o.op = "mmap" => p < begin
                            /\ o.op = "munmap" => p < begin /\ lmap[p] # "heap"
  <2>1. o \in Op
    BY <1>2, <1>3, ToldIsSeq DEF IInv
  <2> QED
    BY <1>2, <1>3, <2>1 DEF IInv, ToldInv
<1>6. o.op \in {"mmap", "munmap", "madvise"}
  BY <1>5 DEF Op
<1>7. \A p \in Page :
         /\ p \in o.pages /\ o.op = "mmap" => wmap'[p] = "heap"
         /\ p \in o.pages /\ o.op = "munmap" => wmap'[p] = "reserved"
         /\ p \notin o.pages \/ o.op = "madvise" => wmap'[p] = wmap[p]
  BY <1>1, <1>6
<1>8. Reserved \subseteq Page /\ Reserved \intersect Outside = {}
  BY SizesAssumption DEF Page, Reserved, Outside
<1>9. TypeOK'
  <2>1. inbox' \in Seq(Op)
    BY <1>1, HeadTailProperties DEF IInv, TypeOK, MapTypeOK
  <2>2. wmap' \in [Page -> {"foreign", "reserved", "heap"}]
    BY <1>1 DEF IInv, TypeOK, MapTypeOK
  <2> QED
    BY <1>1, <2>1, <2>2 DEF IInv, TypeOK, CallTypeOK, MapTypeOK, OpOf
<1>10. CallInv'
  BY <1>1 DEF IInv, CallInv, CallOK
<1>11. PageInv'
  <2>1. \A p \in Page : wmap'[p] = "heap" => p \in Reserved /\ p < begin
    BY <1>5, <1>6, <1>7 DEF IInv, PageInv
  <2>2. \A p \in Page : p \in Outside => wmap'[p] = "foreign"
    BY <1>5, <1>7, <1>8 DEF IInv, PageInv
  <2> QED
    BY <1>1, <2>1, <2>2 DEF IInv, PageInv, Recording
<1>12. ReadyInv'
  <2>1. \A p \in Reserved : wmap'[p] # "foreign"
    BY <1>1, <1>6, <1>7, <1>8 DEF Ready
  <2> QED
    BY <2>1 DEF ReadyInv, Ready
<1>13. ToldInv'
  <2>1. ASSUME NEW i \in 1..Len(Told'), NEW p \in Told'[i].pages, Told'[i].op = "mmap"
        PROVE  p < begin /\ wmap'[p] # "heap"
    <3>1. /\ Told[i + 1].op = "mmap" /\ p \in Told[i + 1].pages /\ 1 < i + 1
          /\ i + 1 \in 1..Len(Told)
      BY <1>3, <2>1
    <3>2. p < begin /\ wmap[p] # "heap" /\ p \in Page
      BY <1>8, <3>1 DEF IInv, ToldInv
    <3>3. ~(o.op = "mmap" /\ p \in o.pages)
      BY <1>2, <1>3, <3>1 DEF IInv, ToldOnce
    <3> QED
      BY <1>6, <1>7, <3>2, <3>3
  <2>2. \A i \in 1..Len(Told') :
           /\ Told'[i].pages \subseteq Reserved
           /\ Told'[i].op = "munmap" => \A p \in Told'[i].pages : p < begin /\ lmap[p] # "heap"
    BY <1>3 DEF IInv, ToldInv
  <2> QED
    BY <1>1, <2>1, <2>2 DEF ToldInv
<1>14. ToldOnce'
  <2>1. \A i, j \in 1..Len(Told') : i < j => i + 1 < j + 1
    BY <1>2
  <2> QED
    BY <1>3, <2>1 DEF IInv, ToldOnce
<1>15. HeapComes'
  <2> SUFFICES ASSUME NEW p \in Page, lmap[p] = "heap"
               PROVE  \/ wmap'[p] = "heap"
                      \/ \E i \in 1..Len(Told') : Told'[i].op = "mmap" /\ p \in Told'[i].pages
                      \/ \E u \in Thread : Recording(u, "mmap", p)'
    BY <1>1 DEF HeapComes
  <2>1. CASE wmap[p] = "heap"
    BY <1>5, <1>6, <1>7, <2>1
  <2>2. CASE \E i \in 1..Len(Told) : Told[i].op = "mmap" /\ p \in Told[i].pages
    <3> PICK i \in 1..Len(Told) : Told[i].op = "mmap" /\ p \in Told[i].pages
      BY <2>2
    <3>1. CASE i = 1
      BY <1>2, <1>7, <3>1
    <3>2. CASE 1 < i
      BY <1>4, <3>2
    <3> QED
      BY <3>1, <3>2
  <2>3. CASE \E u \in Thread : Recording(u, "mmap", p)
    BY <1>1, <2>3 DEF Recording
  <2> QED
    BY <2>1, <2>2, <2>3 DEF IInv, HeapComes
<1>16. HeapGoes'
  <2> SUFFICES ASSUME ~finished, NEW p \in Page, lmap[p] # "heap", wmap'[p] = "heap"
               PROVE  \/ \E i \in 1..Len(Told') : Told'[i].op = "munmap" /\ p \in Told'[i].pages
                      \/ \E u \in Thread : Recording(u, "munmap", p)'
    BY <1>1 DEF HeapGoes
  <2>1. PICK k \in {0, 1} :
           \/ \E i \in 1..Len(Told) : k < i /\ Told[i].op = "munmap" /\ p \in Told[i].pages
           \/ \E u \in Thread : Recording(u, "munmap", p)
    <3>1. CASE o.op = "mmap" /\ p \in o.pages
      BY <1>2, <1>3, <3>1 DEF IInv, HeapGoesLater
    <3>2. CASE ~(o.op = "mmap" /\ p \in o.pages)
      <4>1. wmap[p] = "heap"
        BY <1>6, <1>7, <3>2
      <4> QED
        BY <4>1 DEF IInv, HeapGoes
    <3> QED
      BY <3>1, <3>2
  <2>2. ~(o.op = "munmap" /\ p \in o.pages)
    BY <1>7
  <2>3. CASE \E i \in 1..Len(Told) : k < i /\ Told[i].op = "munmap" /\ p \in Told[i].pages
    <3> PICK i \in 1..Len(Told) : Told[i].op = "munmap" /\ p \in Told[i].pages
      BY <2>3
    <3>1. i # 1
      BY <1>2, <2>2
    <3> QED
      BY <1>4, <3>1
  <2>4. CASE \E u \in Thread : Recording(u, "munmap", p)
    BY <1>1, <2>4 DEF Recording
  <2> QED
    BY <2>1, <2>3, <2>4
<1>17. HeapGoesLater'
  <2> SUFFICES ASSUME ~finished, NEW i \in 1..Len(Told'), NEW p \in Told'[i].pages,
                      Told'[i].op = "mmap", lmap[p] # "heap"
               PROVE  \/ \E j \in 1..Len(Told') :
                            i < j /\ Told'[j].op = "munmap" /\ p \in Told'[j].pages
                      \/ \E u \in Thread : Recording(u, "munmap", p)'
    BY <1>1 DEF HeapGoesLater
  <2>1. \/ \E j \in 1..Len(Told) : i + 1 < j /\ Told[j].op = "munmap" /\ p \in Told[j].pages
        \/ \E u \in Thread : Recording(u, "munmap", p)
    BY <1>3 DEF IInv, HeapGoesLater
  <2>2. CASE \E j \in 1..Len(Told) : i + 1 < j /\ Told[j].op = "munmap" /\ p \in Told[j].pages
    <3> PICK j \in 1..Len(Told) : i + 1 < j /\ Told[j].op = "munmap" /\ p \in Told[j].pages
      BY <2>2
    <3>1. 1 < j /\ i < j - 1
      BY <1>2
    <3> QED
      BY <1>4, <3>1
  <2>3. CASE \E u \in Thread : Recording(u, "munmap", p)
    BY <1>1, <2>3 DEF Recording
  <2> QED
    BY <2>1, <2>2, <2>3
<1> QED
  BY <1>9, <1>10, <1>11, <1>12, <1>13, <1>14, <1>15, <1>16, <1>17 DEF IInv

\* Every step keeps the invariant.
LEMMA StepInv == IInv /\ [Next]_vars => IInv'
<1> SUFFICES ASSUME IInv, [Next]_vars PROVE IInv'
  OBVIOUS
<1>1. CASE UNCHANGED vars
  <2>1. TypeOK'
    BY <1>1 DEF vars, leader, worker, IInv, TypeOK, CallTypeOK, MapTypeOK, OpOf
  <2>2. Told' = Told
    BY <1>1 DEF vars, leader, worker, Told
  <2>3. CallInv' /\ PageInv' /\ ReadyInv'
    BY <1>1 DEF vars, leader, worker, IInv, CallInv, CallOK, PageInv, ReadyInv, Ready, Recording
  <2>4. ToldInv' /\ ToldOnce' /\ HeapComes' /\ HeapGoes' /\ HeapGoesLater'
    BY <1>1, <2>2 DEF vars, leader, worker, IInv, ToldInv, ToldOnce, HeapComes, HeapGoes,
                      HeapGoesLater, Recording
  <2> QED
    BY <2>1, <2>3, <2>4 DEF IInv
<1>2. CASE Next
  BY <1>1, <1>2, MmapInv, TryMmapInv, MmapReturnsInv, RecordOpInv, MunmapInv, MadviseInv,
     SendMemOpsInv, FinishInv, ReserveHeapAreaInv, ReplayInv DEF Next
<1> QED
  BY <1>1, <1>2

\* The invariant holds in every behaviour.
LEMMA Invariance == Spec => []IInv
  BY InitInv, StepInv, PTL DEF Spec

\* The operations listed are those in Told.
LEMMA ListedIsTold ==
    ASSUME TypeOK
    PROVE  /\ Listed = {Told[i] : i \in 1..Len(Told)}
           /\ inbox # << >> => 1 \in 1..Len(Told) /\ Told[1] = Head(inbox)
<1>1. /\ memOps \in Seq(Op) /\ inbox \in Seq(Op)
      /\ Len(memOps) \in Nat /\ Len(inbox) \in Nat
  BY DEF TypeOK, MapTypeOK
<1>2. /\ Len(Told) = Len(inbox) + Len(memOps)
      /\ \A i \in 1..(Len(inbox) + Len(memOps)) :
            Told[i] = IF i <= Len(inbox) THEN inbox[i] ELSE memOps[i - Len(inbox)]
  BY <1>1, ConcatProperties DEF Told
<1> HIDE DEF Told
<1>3. \A i \in 1..Len(inbox) : i \in 1..Len(Told) /\ Told[i] = inbox[i]
  BY <1>1, <1>2
<1>4. \A i \in 1..Len(memOps) :
         Len(inbox) + i \in 1..Len(Told) /\ Told[Len(inbox) + i] = memOps[i]
  BY <1>1, <1>2
<1>5. \A i \in 1..Len(Told) : \/ i \in 1..Len(inbox) /\ Told[i] = inbox[i]
                              \/ /\ i - Len(inbox) \in 1..Len(memOps)
                                 /\ Told[i] = memOps[i - Len(inbox)]
  BY <1>1, <1>2
<1>6. inbox # << >> => 1 \in 1..Len(inbox) /\ inbox[1] = Head(inbox)
  BY <1>1
<1>7. {Told[i] : i \in 1..Len(Told)} \subseteq Listed
  BY <1>5 DEF Listed
<1>8. /\ {memOps[i] : i \in 1..Len(memOps)} \subseteq {Told[i] : i \in 1..Len(Told)}
      /\ {inbox[i] : i \in 1..Len(inbox)} \subseteq {Told[i] : i \in 1..Len(Told)}
  <2>1. \A i \in 1..Len(memOps) : \E j \in 1..Len(Told) : memOps[i] = Told[j]
    BY <1>4
  <2>2. \A i \in 1..Len(inbox) : \E j \in 1..Len(Told) : inbox[i] = Told[j]
    BY <1>3
  <2> QED
    BY <2>1, <2>2
<1>9. inbox # << >> => 1 \in 1..Len(Told) /\ Told[1] = Head(inbox)
  BY <1>3, <1>6
<1> QED
  BY <1>7, <1>8, <1>9 DEF Listed

-----------------------------------------------------------------------------
\* The leader's and the worker's maps, begin, the mutex and the calls of the
\* threads have their types; what mimalloc owns is mapped.
THEOREM TypeCorrect == Spec => []TypeOK
<1>1. IInv => TypeOK
  BY DEF IInv
<1> QED
  BY <1>1, Invariance, PTL

\* The proxies tell the workers of nothing outside the reserved range, and the
\* replay changes nothing there.
THEOREM RangeIsRespected == Spec => []OnlyTheRange
<1>1. IInv => OnlyTheRange
  <2> SUFFICES ASSUME IInv PROVE OnlyTheRange
    OBVIOUS
  <2>1. \A o \in Listed : o.pages \subseteq Reserved
    BY ListedIsTold DEF IInv, ToldInv
  <2>2. \A p \in Outside : wmap[p] = "foreign"
    BY DEF IInv, PageInv, Page
  <2> QED
    BY <2>1, <2>2 DEF OnlyTheRange
<1> QED
  BY <1>1, Invariance, PTL

\* MAP_FIXED never replaces pages in use on a worker.
THEOREM MappedOnce == Spec => []MmapMeetsReserved
<1>1. IInv => MmapMeetsReserved
  <2> SUFFICES ASSUME IInv, Ready, inbox # << >>, Head(inbox).op = "mmap",
                      NEW p \in Head(inbox).pages
               PROVE  wmap[p] = "reserved"
    BY DEF MmapMeetsReserved
  <2>1. p \in Reserved /\ wmap[p] # "heap"
    BY ListedIsTold DEF IInv, ToldInv
  <2> QED
    BY <2>1 DEF Ready, IInv, TypeOK, MapTypeOK, Page
<1> QED
  BY <1>1, Invariance, PTL

\* What mimalloc may hand out is mapped on the worker, or the worker will be
\* told, before the pages are sent.
THEOREM HeapIsTold == Spec => []OwnedIsTold
<1>1. IInv => OwnedIsTold
  <2> SUFFICES ASSUME IInv, NEW p \in owned, wmap[p] # "heap"
               PROVE  \E o \in Listed : o.op = "mmap" /\ p \in o.pages
    BY DEF OwnedIsTold
  <2>1. p \in Page /\ lmap[p] = "heap" /\ p < begin /\ begin \in Nat /\ p \in Int
    BY SizesAssumption DEF IInv, PageInv, TypeOK, MapTypeOK, Page, Reserved, Outside
  <2>2. \A t \in Thread : ~Recording(t, "mmap", p)
    BY <2>1, SizesAssumption DEF IInv, CallInv, CallOK, Recording, PagesFrom
  <2>3. PICK i \in 1..Len(Told) : Told[i].op = "mmap" /\ p \in Told[i].pages
    BY <2>1, <2>2 DEF IInv, HeapComes
  <2> QED
    BY <2>3, ListedIsTold DEF IInv
<1> QED
  BY <1>1, Invariance, PTL

\* When all operations have been replayed the worker's heap is the leader's.
THEOREM MapsFollow == Spec => []MapsAgree
<1>1. IInv => MapsAgree
  <2> SUFFICES ASSUME IInv, ~finished, memOps = << >>, inbox = << >>,
                      \A t \in Thread : call[t].at # "record", NEW p \in Reserved
               PROVE  wmap[p] = "heap" <=> lmap[p] = "heap"
    BY DEF MapsAgree
  <2>1. p \in Page /\ \A t \in Thread : ~Recording(t, "mmap", p) /\ ~Recording(t, "munmap", p)
    BY DEF Page, Recording
  <2>2. Told = << >>
    BY DEF Told
  <2>3. 1..Len(Told) = {}
    BY <2>2
  <2> QED
    BY <2>1, <2>3 DEF IInv, HeapComes, HeapGoes
<1> QED
  BY <1>1, Invariance, PTL

=============================================================================
