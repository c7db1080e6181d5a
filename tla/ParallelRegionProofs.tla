------------------------- MODULE ParallelRegionProofs -------------------------
(***************************************************************************)
(* Theorems about ParallelRegion, for any number of workers, any number of *)
(* regions of any kinds, and every fault the module has.                   *)
(*                                                                         *)
(* The inductive invariant IInv has three layers.  What the log of one     *)
(* rank may hold: the calls of the startup (StartInv), then calls that     *)
(* follow one another as in GrammarInv.  Where a rank is after its last    *)
(* call: LeaderInv, LeaderInStep, WorkerInv.  How the logs compare: the    *)
(* log of a worker is a prefix of the leader's, or one call longer where   *)
(* MayBeAhead says (PrefixInv).  When the ranks are out of step, GrammarInv *)
(* keeps what a step of enter_parallel_impl and a reduction need: what is  *)
(* said of reductions holds whatever else goes wrong.                      *)
(*                                                                         *)
(* One lemma for each action shows that IInv is kept; the lemmas before    *)
(* them say what a call, or a move without a call, leaves as it is.        *)
(*                                                                         *)
(* The last part is the refinement of ForkJoin.  JoinInv relates the       *)
(* bodies a rank has begun and ended to the contexts in its log, and       *)
(* ThrewInv says that once a constructor has thrown with in_parallel set   *)
(* it stays set and the leader enters no region any more.                  *)
(***************************************************************************)
EXTENDS ParallelRegion, TLAPS

Coll(c, k) == [op |-> c, region |-> k]

\* The last collective rank r has called.
Last(r) == log[r][Len(log[r])]

\* The last collective before the body of a region.
BodyOp == IF Fortran THEN "fortran" ELSE "context"

\* The faults that put the ranks out of step.
OutOfStep == Happened({"send", "nested", "symbols"})

\* Rank r is past the startup.
Running(r) == pc[r] \notin StartPC \union {"finalize", "stopped"}

-----------------------------------------------------------------------------
(***************************************************************************)
(* The startup.                                                            *)
(***************************************************************************)

\* How many collectives a rank has called at a place of the startup.
StartCalls ==
    [p \in StartPC |-> CASE p = "pagesize" -> 0
                         [] p = "dup"      -> 1
                         [] p = "aslr"     -> 2
                         [] p = "report"   -> 3
                         [] p = "barrier"  -> 4]

Started(r) ==
    /\ pc[r] \in StartPC => Len(log[r]) = StartCalls[pc[r]]
    /\ Len(log[r]) >= 1 => log[r][1] = Coll("dup", 0)
    /\ Len(log[r]) >= 2 => log[r][2] = Coll("aslr", 0)
    /\ Len(log[r]) >= 3 \/ Running(r) => \A q \in Rank : Len(log[q]) >= 2
    /\ Running(r) => AllRankAslrDisabled
    /\ pc[r] \in {"report", "barrier"} => ~AllRankAslrDisabled
    /\ \A i \in 3..Len(log[r]) :
          IF AllRankAslrDisabled THEN log[r][i].op \notin Setup
          ELSE log[r][i] = Coll("barrier", 0) /\ i <= 4
    /\ <<"pagesize", r>> \in faults => Len(log[r]) = 0 /\ pc[r] \in {"finalize", "stopped"}
    /\ \A what \in {"binding", "personality"} : <<what, r>> \in faults =>
          Len(log[r]) <= 1 /\ pc[r] \in {"finalize", "stopped"}
    /\ <<"aslr", r>> \in faults => Len(log[r]) >= 2

StartInv == \A r \in Rank : Started(r)

-----------------------------------------------------------------------------
(***************************************************************************)
(* What may follow what.                                                   *)
(***************************************************************************)

AfterBody(c) ==
    CASE kinds[c.region] \in {"reduce", "badType"} -> {"reduce"}
      [] kinds[c.region] = "exit"                  -> {"exitTag"}
      [] OTHER                                     -> {"enterTag", "exitTag"}

\* The collectives that may follow c while the ranks are in step.
Successors(c) ==
    CASE c.op = "dup"      -> {"aslr"}
      [] c.op = "aslr"     -> {"enterTag", "exitTag", "barrier"}
      [] c.op = "barrier"  -> {"barrier"}
      [] c.op = "enterTag" -> {"memOps"}
      [] c.op = "memOps"   -> {"stack"}
      [] c.op = "stack"    -> {"heap"}
      [] c.op = "heap"     -> {"context"}
      [] c.op = "context"  -> IF Fortran THEN {"fortran"} ELSE AfterBody(c)
      [] c.op = "fortran"  -> AfterBody(c)
      [] c.op = "reduce"   -> {"enterTag", "exitTag"}
      [] c.op = "exitTag"  -> {}

\* After c a region may be opened or the program end.
Closed(c) == {"enterTag", "exitTag"} \subseteq Successors(c)

\* The step of enter_parallel_impl before a broadcast.
Before(c) ==
    CASE c = "memOps"  -> "enterTag"
      [] c = "stack"   -> "memOps"
      [] c = "heap"    -> "stack"
      [] c = "context" -> "heap"

\* What holds of consecutive calls of the leader even out of step: a step of
\* enter_parallel_impl follows the one before it, for the same region, and what
\* begins the body of a region is followed by what the region calls next.  After
\* LeaderSymbolsFail there is no body.
Meets(c, d) ==
    /\ d.op \in Entry \ {"enterTag"} => c = Coll(Before(d.op), d.region)
    /\ c.op = "context" /\ Fortran =>
          d = Coll("fortran", c.region) \/ d.op = "exitTag"
    /\ c.op = BodyOp /\ kinds[c.region] = "reduce" => d = Coll("reduce", c.region)

GrammarInv ==
    \A i \in 1..(Len(log[0]) - 1) :
        /\ Meets(log[0][i], log[0][i + 1])
        /\ OutOfStep \/ log[0][i + 1].op \in Successors(log[0][i])

\* Calls belong to regions that have been opened.
RegionInv ==
    \A r \in Rank : \A i \in 1..Len(log[r]) :
        /\ log[r][i].region <= Len(kinds)
        /\ log[r][i].op \notin Setup \union {"exitTag"} => log[r][i].region >= 1

-----------------------------------------------------------------------------
(***************************************************************************)
(* Where a rank is after its last call.                                    *)
(***************************************************************************)

\* The leader, even out of step.
LeaderInv ==
    /\ Running(0) /\ pc[0] # "main" => region[0] >= 1
    /\ pc[0] \in Entry \ {"enterTag"} => Last(0) = Coll(Before(pc[0]), region[0])
    /\ pc[0] = "clear" => Last(0) = Coll("context", region[0])
    /\ pc[0] = "fortran" => Fortran
    /\ pc[0] \in Entry \union {"clear", "fortran"} => inParallel[0]
    /\ pc[0] = "reduce" => Last(0) = Coll("reduce", region[0])
    /\ pc[0] = "serial" => Kind(0) = "serial"
    /\ Len(log[0]) >= 1 /\ Last(0).op = "context" /\ Fortran =>
          \/ pc[0] \in {"clear", "fortran"} /\ region[0] = Last(0).region
          \/ pc[0] \in {"main", "serial"} /\ inParallel[0]
          \/ pc[0] = "refused" /\ inParallel[0] /\ region[0] \notin begun[0]
          \/ pc[0] \in {"finalize", "stopped"}
    /\ Len(log[0]) >= 1 /\ Last(0).op = BodyOp /\ kinds[Last(0).region] = "reduce" =>
          pc[0] \in {"clear", "body"} /\ region[0] = Last(0).region

\* The leader, in step.
LeaderInStep ==
    /\ pc[0] \in {"main", "serial", "enterTag"} => Closed(Last(0))
    /\ pc[0] = "refused" /\ region[0] \notin begun[0] => Closed(Last(0))
    /\ pc[0] = "fortran" => Last(0) = Coll("context", region[0])
    /\ pc[0] \in {"body", "bodyEnd"} => Last(0) = Coll(BodyOp, region[0]) /\ region[0] \in begun[0]
    /\ pc[0] = "refused" /\ region[0] \in begun[0] => Last(0) = Coll(BodyOp, region[0])
    /\ pc[0] = "bodyEnd" \/ (pc[0] = "refused" /\ region[0] \in begun[0]) => Kind(0) = "nested"

\* A worker.
WorkerPlace(w) ==
    /\ pc[w] \in {"reserve", "loop"} => Closed(Last(w))
    /\ pc[w] = "memOps" => Last(w).op = "enterTag"
    /\ pc[w] = "stack" => Last(w).op = "memOps"
    /\ pc[w] = "heap" => Last(w) = Coll("stack", region[w])
    /\ pc[w] = "context" => Last(w) = Coll("heap", region[w])
    /\ pc[w] = "init" => Last(w) = Coll("context", region[w])
    /\ pc[w] = "fortran" => Last(w) = Coll("context", region[w]) /\ Fortran
    /\ pc[w] = "body" => Last(w) = Coll(BodyOp, region[w])
    /\ pc[w] \in {"fortran", "body"} => Kind(w) # "badType"
    /\ pc[w] = "nested" => OutOfStep

WorkerInv == \A w \in Worker : WorkerPlace(w)

\* A worker has made the leader's calls, and may be one ahead: in the startup,
\* or with its contribution to the reduction of the region the leader is in.
Ahead(w) == Len(log[w]) > Len(log[0])

MayBeAhead(w) ==
    \/ ~Running(0) /\ Last(w).op \in Setup
    \/ /\ pc[0] \in {"clear", "body"}
       /\ Last(w) = Coll("reduce", region[0])
       /\ Last(0) = Coll(BodyOp, region[0])
       /\ Kind(0) = "reduce"

Prefix(w) ==
    /\ Len(log[w]) <= Len(log[0]) + 1
    /\ \A i \in 1..Len(log[w]) : i <= Len(log[0]) => log[w][i] = log[0][i]
    /\ Ahead(w) => MayBeAhead(w)

PrefixInv == \A w \in Worker : Prefix(w)

\* A worker that has contributed to a reduction has ended the body.
ContributedInv ==
    \A w \in Worker : \A i \in 1..Len(log[w]) :
        log[w][i].op = "reduce" => log[w][i].region \in ended[w]

\* ReductionIsComplete, as the model has it: a worker that opens a region inside a
\* region stays where it is.
ReductionInv ==
    \A k \in ended[0] :
        kinds[k] = "reduce" /\ ~(k = region[0] /\ pc[0] = "reduce")
            => \A w \in Worker : k \in ended[w]

IInv ==
    /\ TypeOK
    /\ StartInv
    /\ RegionInv
    /\ GrammarInv
    /\ LeaderInv
    /\ OutOfStep \/ LeaderInStep
    /\ WorkerInv
    /\ PrefixInv
    /\ ContributedInv
    /\ ReductionInv

-----------------------------------------------------------------------------
(***************************************************************************)
(* Calls and moves.                                                        *)
(***************************************************************************)

\* A call is the last of its rank's log, and of no other's.
LEMMA CallFacts ==
    ASSUME TypeOK, NEW r \in Rank, NEW c \in Op, NEW k \in 0..MaxRegions, Call(r, c, k)
    PROVE  /\ log' \in [Rank -> Seq(Collective)]
           /\ Len(log[r]) \in Nat /\ Len(log'[r]) = Len(log[r]) + 1
           /\ log'[r][Len(log[r]) + 1] = Coll(c, k) /\ Last(r)' = Coll(c, k)
           /\ \A i \in 1..Len(log[r]) : log'[r][i] = log[r][i]
           /\ \A q \in Rank \ {r} : log'[q] = log[q]
<1> DEFINE s == log[r]
           x == Coll(c, k)
<1>1. s \in Seq(Collective) /\ x \in Collective /\ log \in [Rank -> Seq(Collective)]
  BY DEF TypeOK, Collective, Coll
<1>2. log' = [log EXCEPT ![r] = Append(s, x)]
  BY DEF Call, Coll
<1> HIDE DEF s, x
<1>3. /\ Append(s, x) \in Seq(Collective) /\ Len(s) \in Nat /\ Len(Append(s, x)) = Len(s) + 1
      /\ Append(s, x)[Len(s) + 1] = x
      /\ \A i \in 1..Len(s) : Append(s, x)[i] = s[i]
  BY <1>1
<1>4. log'[r] = Append(s, x) /\ \A q \in Rank \ {r} : log'[q] = log[q]
  BY <1>1, <1>2
<1>5. log' \in [Rank -> Seq(Collective)]
  BY <1>1, <1>2, <1>3
<1>6. QED
  BY <1>3, <1>4, <1>5 DEF s, x, Last

\* Rank r moves: the other ranks are where they were.
Moves(r) ==
    /\ \A q \in Rank \ {r} : /\ pc'[q] = pc[q] /\ log'[q] = log[q]
                             /\ region'[q] = region[q]
                             /\ begun'[q] = begun[q] /\ ended'[q] = ended[q]
    /\ ended[r] \subseteq ended'[r]
    /\ faults \subseteq faults'

\* A fault is not forgotten.
LEMMA FaultStays == ASSUME faults \subseteq faults', OutOfStep PROVE OutOfStep'
  BY DEF OutOfStep, Happened

\* The leader's log is what the grammar is about.
LEMMA GrammarKept ==
    ASSUME GrammarInv, log'[0] = log[0], UNCHANGED kinds, faults \subseteq faults'
    PROVE  GrammarInv'
  BY ZenonT(30), FaultStays DEF GrammarInv, Meets, Successors, AfterBody

\* A worker that moves leaves what is said of the leader.
LEMMA LeaderKept ==
    ASSUME NEW w \in Worker, Moves(w), UNCHANGED kinds, inParallel'[0] = inParallel[0], GrammarInv, LeaderInv,
           OutOfStep \/ LeaderInStep
    PROVE  GrammarInv' /\ LeaderInv' /\ (OutOfStep \/ LeaderInStep)'
<1>1. 0 \in Rank \ {w} /\ faults \subseteq faults'
  BY NumWorkersAssumption DEF Moves, Worker, Rank
<1>2. /\ pc'[0] = pc[0] /\ log'[0] = log[0] /\ region'[0] = region[0] /\ begun'[0] = begun[0]
  BY <1>1 DEF Moves
<1>3. GrammarInv'
  BY <1>1, <1>2, GrammarKept
<1>4. LeaderInv'
  BY <1>2 DEF LeaderInv, Last, Running, Kind
<1>5. LeaderInStep => LeaderInStep'
  BY <1>2 DEF LeaderInStep, Closed, Successors, AfterBody, Last, Kind
<1>6. QED
  BY <1>1, <1>3, <1>4, <1>5, FaultStays

\* The leader that moves leaves what is said of the workers alone.
LEMMA WorkersKept ==
    ASSUME Moves(0), UNCHANGED kinds, WorkerInv, ContributedInv
    PROVE  WorkerInv' /\ ContributedInv'
<1>1. \A w \in Worker : w \in Rank \ {0}
  BY NumWorkersAssumption DEF Worker, Rank
<1>2. \A w \in Worker : /\ pc'[w] = pc[w] /\ log'[w] = log[w] /\ region'[w] = region[w]
                        /\ ended'[w] = ended[w]
  BY <1>1 DEF Moves
<1>3. OutOfStep => OutOfStep'
  BY FaultStays DEF Moves
<1>4. WorkerInv'
  <2>1. SUFFICES ASSUME NEW w \in Worker PROVE WorkerPlace(w)'
    BY DEF WorkerInv
  <2>2. Last(w)' = Last(w) /\ Kind(w)' = Kind(w) /\ pc'[w] = pc[w] /\ region'[w] = region[w]
    BY <1>2 DEF Last, Kind
  <2>3. Closed(Last(w))' <=> Closed(Last(w))
    BY <2>2 DEF Closed, Successors, AfterBody
  <2> QED
    BY <1>3, <2>2, <2>3 DEF WorkerInv, WorkerPlace
<1>5. ContributedInv'
  BY <1>2 DEF ContributedInv
<1>6. QED
  BY <1>4, <1>5

\* A step of the startup is no step of these.
LEMMA StartKept ==
    ASSUME StartInv, NEW r \in Rank, Moves(r), pc[r] \notin StartPC, pc'[r] \notin StartPC,
           UNCHANGED log, Running(r)' => Running(r),
           pc[r] \in {"finalize", "stopped"} => pc'[r] \in {"finalize", "stopped"},
           \A f \in faults' : f \in faults \/ f[1] \notin Checks
    PROVE  StartInv'
<1>1. \A q \in Rank : \A c \in Checks : <<c, q>> \in faults' <=> <<c, q>> \in faults
  BY DEF Moves
<1>2. AllRankAslrDisabled' <=> AllRankAslrDisabled
  BY <1>1 DEF AllRankAslrDisabled, Checks
<1>3. \A q \in Rank \ {r} : pc'[q] = pc[q]
  BY DEF Moves
<1>4. SUFFICES ASSUME NEW q \in Rank
               PROVE
        /\ pc'[q] \in StartPC => Len(log[q]) = StartCalls[pc'[q]]
        /\ Running(q)' => \A p \in Rank : Len(log[p]) >= 2
        /\ Running(q)' => AllRankAslrDisabled
        /\ pc'[q] \in {"report", "barrier"} => ~AllRankAslrDisabled
        /\ <<"pagesize", q>> \in faults => pc'[q] \in {"finalize", "stopped"}
        /\ \A what \in {"binding", "personality"} :
              <<what, q>> \in faults => pc'[q] \in {"finalize", "stopped"}
  BY <1>1, <1>2 DEF StartInv, Started, Checks
<1>5. CASE q = r
  BY <1>5 DEF StartInv, Started, StartPC
<1>6. CASE q # r
  BY <1>3, <1>6 DEF StartInv, Started, Running
<1>7. QED
  BY <1>5, <1>6

\* Where no call is made, the region the leader is in decides who may be ahead.
LEMMA PrefixKept ==
    ASSUME PrefixInv, UNCHANGED <<log, kinds>>,
           \/ pc'[0] = pc[0] /\ region'[0] = region[0]
           \/ ~Running(0) /\ ~Running(0)'
           \/ pc'[0] \in {"clear", "body"} /\ region'[0] = region[0] /\ Running(0)
           \/ \A w \in Worker : ~Ahead(w)
    PROVE  PrefixInv'
<1>1. SUFFICES ASSUME NEW w \in Worker PROVE Prefix(w)'
  BY DEF PrefixInv
<1>2. Prefix(w) /\ Last(w)' = Last(w) /\ Last(0)' = Last(0) /\ (Ahead(w)' <=> Ahead(w))
  BY DEF PrefixInv, Last, Ahead
<1>3. Ahead(w) => MayBeAhead(w)'
  <2>1. ASSUME Ahead(w) PROVE MayBeAhead(w)
    BY <1>2, <2>1 DEF Prefix
  <2>2. region'[0] = region[0] => Kind(0)' = Kind(0)
    BY DEF Kind
  <2>3. pc[0] \in {"clear", "body"} => Running(0)
    BY DEF Running, StartPC
  <2>4. pc'[0] = pc[0] => (Running(0)' <=> Running(0))
    BY DEF Running
  <2> QED
    BY <1>2, <2>1, <2>2, <2>3, <2>4 DEF MayBeAhead
<1>4. QED
  BY <1>2, <1>3 DEF Prefix

\* A call that is not one of the startup, by a rank past the startup.
LEMMA RunningCalls ==
    ASSUME TypeOK, StartInv, RegionInv, NEW r \in Rank, Running(r),
           NEW c \in Op \ Setup, NEW k \in 0..Len(kinds), c # "exitTag" => k >= 1,
           Call(r, c, k), Moves(r), UNCHANGED kinds, pc'[r] \notin StartPC,
           \A f \in faults' : f \in faults \/ f[1] \notin Checks
    PROVE  /\ StartInv' /\ RegionInv'
           /\ log' \in [Rank -> Seq(Collective)]
           /\ \A q \in Rank : Len(log[q]) \in Nat /\ Len(log[q]) >= 2
           /\ Len(log'[r]) = Len(log[r]) + 1
           /\ log'[r][Len(log[r]) + 1] = Coll(c, k) /\ Last(r)' = Coll(c, k)
           /\ \A i \in 1..Len(log[r]) : log'[r][i] = log[r][i]
           /\ \A i \in 1..Len(log'[r]) : i \in 1..Len(log[r]) \/ i = Len(log[r]) + 1
           /\ \A q \in Rank \ {r} : log'[q] = log[q]
<1>1. k \in 0..MaxRegions
  <2>1. Len(kinds) \in Nat /\ Len(kinds) <= MaxRegions /\ MaxRegions \in Nat
    BY MaxRegionsAssumption DEF TypeOK
  <2> QED
    BY <2>1
<1>2. /\ log' \in [Rank -> Seq(Collective)]
      /\ Len(log[r]) \in Nat /\ Len(log'[r]) = Len(log[r]) + 1
      /\ log'[r][Len(log[r]) + 1] = Coll(c, k) /\ Last(r)' = Coll(c, k)
      /\ \A i \in 1..Len(log[r]) : log'[r][i] = log[r][i]
      /\ \A q \in Rank \ {r} : log'[q] = log[q]
  BY <1>1, CallFacts
<1>3. \A q \in Rank : Len(log[q]) \in Nat /\ Len(log[q]) >= 2
  <2>1. \A q \in Rank : Len(log[q]) \in Nat
    BY DEF TypeOK
  <2>2. Started(r)
    BY DEF StartInv
  <2> QED
    BY <2>1, <2>2 DEF Started
<1>4. Coll(c, k).op = c /\ Coll(c, k).region = k
  BY DEF Coll
<1>5. \A i \in 1..Len(log'[r]) : i \in 1..Len(log[r]) \/ i = Len(log[r]) + 1
  BY <1>2
<1>6. StartInv'
  <2>a. \A q \in Rank : \A what \in Checks : <<what, q>> \in faults' <=> <<what, q>> \in faults
    BY DEF Moves
  <2>1. /\ (AllRankAslrDisabled' <=> AllRankAslrDisabled) /\ AllRankAslrDisabled
        /\ Started(r)
    BY <2>a DEF StartInv, Started, AllRankAslrDisabled, Checks
  <2>2. SUFFICES ASSUME NEW q \in Rank PROVE Started(q)'
    BY DEF StartInv
  <2>3. Started(q) /\ \A p \in Rank : Len(log'[p]) >= 2
    BY SMTT(30), <1>2, <1>3 DEF StartInv
  <2>4. CASE q = r
    <3>1. \A i \in 3..Len(log'[r]) : log'[r][i].op \notin Setup
      <4>1. TAKE i \in 3..Len(log'[r])
      <4>2. CASE i \in 3..Len(log[r])
        <5>1. i \in 1..Len(log[r])
          BY <1>3, <4>2
        <5>2. log'[r][i] = log[r][i]
          BY <1>2, <5>1
        <5> QED
          BY <2>1, <4>2, <5>2 DEF Started
      <4>3. CASE i = Len(log[r]) + 1
        BY <1>2, <1>4, <4>3
      <4> QED
        BY <1>2, <4>2, <4>3
    <3>2. log'[r][1] = log[r][1] /\ log'[r][2] = log[r][2]
      <4>1. 1 \in 1..Len(log[r]) /\ 2 \in 1..Len(log[r])
        BY <1>3
      <4> QED
        BY <1>2, <4>1
    <3>3. pc[r] \notin {"finalize", "stopped"} /\ Len(log[r]) >= 2
      BY <1>3 DEF Running
    <3> QED
      BY <1>2, <2>a, <2>1, <2>3, <2>4, <3>1, <3>2, <3>3 DEF Started, StartPC, Checks
  <2>5. CASE q # r
    <3>1. log'[q] = log[q] /\ pc'[q] = pc[q]
      BY <1>2, <2>5 DEF Moves
    <3> QED
      BY <2>a, <2>1, <2>3, <3>1 DEF Started, Running, Checks
  <2> QED
    BY <2>4, <2>5
<1>7. RegionInv'
  <2>1. \A i \in 1..Len(log'[r]) :
           /\ log'[r][i].region <= Len(kinds)
           /\ log'[r][i].op \notin Setup \union {"exitTag"} => log'[r][i].region >= 1
    <3>1. TAKE i \in 1..Len(log'[r])
    <3>2. CASE i \in 1..Len(log[r])
      BY <1>2, <3>2 DEF RegionInv
    <3>3. CASE i = Len(log[r]) + 1
      BY <1>2, <1>4, <3>3
    <3> QED
      BY <1>5, <3>2, <3>3
  <2> QED
    BY <1>2, <2>1 DEF RegionInv
<1>8. QED
  BY <1>2, <1>3, <1>5, <1>6, <1>7

\* What a call of the leader, in a region or at the end, must fit.
LEMMA LeaderCalls ==
    ASSUME TypeOK, StartInv, RegionInv, GrammarInv, PrefixInv, Running(0),
           NEW c \in Op \ Setup, NEW k \in 0..Len(kinds), c # "exitTag" => k >= 1,
           Call(0, c, k), Moves(0), UNCHANGED <<kinds, faults>>, pc'[0] \notin StartPC,
           Meets(Last(0), Coll(c, k)), OutOfStep \/ c \in Successors(Last(0)),
           \A w \in Worker : Ahead(w) => Last(w) = Coll(c, k)
    PROVE  StartInv' /\ RegionInv' /\ GrammarInv' /\ PrefixInv'
<1>1. 0 \in Rank /\ \A w \in Worker : w \in Rank /\ w # 0
  BY NumWorkersAssumption DEF Worker, Rank
<1>2. /\ StartInv' /\ RegionInv'
      /\ \A q \in Rank : Len(log[q]) \in Nat /\ Len(log[q]) >= 2
      /\ Len(log[0]) \in Nat /\ Len(log'[0]) = Len(log[0]) + 1
      /\ log'[0][Len(log[0]) + 1] = Coll(c, k) /\ Last(0)' = Coll(c, k)
      /\ \A i \in 1..Len(log[0]) : log'[0][i] = log[0][i]
      /\ \A q \in Rank \ {0} : log'[q] = log[q]
  BY <1>1, RunningCalls
<1>3. \A q \in Rank : Len(log[q]) \in Nat /\ Len(log[q]) >= 2
  BY <1>2
<1>4. Coll(c, k).op = c /\ Coll(c, k).region = k
  BY DEF Coll
<1>7. GrammarInv'
  <2>1. SUFFICES ASSUME NEW i \in 1..(Len(log'[0]) - 1)
                 PROVE  /\ Meets(log'[0][i], log'[0][i + 1])
                        /\ OutOfStep \/ log'[0][i + 1].op \in Successors(log'[0][i])
    BY DEF GrammarInv, OutOfStep, Happened, Meets, Successors, AfterBody
  <2>2. CASE i \in 1..(Len(log[0]) - 1)
    <3>1. i \in 1..Len(log[0]) /\ i + 1 \in 1..Len(log[0])
      BY <1>2, <2>2
    <3> QED
      BY <1>2, <2>2, <3>1 DEF GrammarInv
  <2>3. CASE i = Len(log[0])
    <3>1. log'[0][i] = Last(0) /\ log'[0][i + 1] = Coll(c, k)
      BY <1>2, <1>3, <1>1, <2>3 DEF Last
    <3> QED
      BY <1>4, <3>1
  <2> QED
    BY <1>2, <2>2, <2>3
<1>8. PrefixInv'
  <2>1. SUFFICES ASSUME NEW w \in Worker PROVE Prefix(w)'
    BY DEF PrefixInv
  <2>2. log'[w] = log[w] /\ Len(log[w]) \in Nat /\ Prefix(w)
    BY <1>1, <1>2, <1>3 DEF PrefixInv
  <2>3. ~Ahead(w)' /\ Len(log'[w]) <= Len(log'[0]) + 1
    BY <1>2, <2>2 DEF Prefix, Ahead
  <2>4. ASSUME NEW i \in 1..Len(log[w]), i <= Len(log'[0]) PROVE log[w][i] = log'[0][i]
    <3>1. CASE i <= Len(log[0])
      BY <1>2, <2>2, <2>4, <3>1 DEF Prefix
    <3>2. CASE i = Len(log[0]) + 1
      <4>1. Ahead(w) /\ i = Len(log[w])
        BY <1>2, <2>2, <2>4, <3>2 DEF Ahead, Prefix
      <4> QED
        BY <1>2, <3>2, <4>1 DEF Last
    <3> QED
      BY <1>2, <2>2, <2>4, <3>1, <3>2
  <2> QED
    BY <2>2, <2>3, <2>4 DEF Prefix
<1>9. QED
  BY <1>2, <1>7, <1>8

\* What a worker that receives knows, and what its call must fit: the call of the
\* leader that it meets.
LEMMA WorkerReceives ==
    ASSUME TypeOK, StartInv, RegionInv, GrammarInv, PrefixInv, NEW w \in Worker, Running(w),
           NEW c \in Op \ Setup, Receive(w, c), Moves(w), UNCHANGED kinds,
           pc'[w] \notin StartPC, \A f \in faults' : f \in faults \/ f[1] \notin Checks
    PROVE  /\ StartInv' /\ RegionInv' /\ PrefixInv'
           /\ Root(w).op = c /\ Root(w).region \in 0..Len(kinds)
           /\ Last(w)' = Root(w) /\ Root(w) = Coll(c, Root(w).region)
           /\ Meets(Last(w), Root(w)) /\ (OutOfStep \/ Root(w).op \in Successors(Last(w)))
           /\ \A i \in 1..Len(log'[w]) : \/ i \in 1..Len(log[w]) /\ log'[w][i] = log[w][i]
                                         \/ log'[w][i] = Root(w)
<1> DEFINE n == Len(log[w])
           x == Root(w)
<1>1. 0 \in Rank /\ w \in Rank /\ w # 0 /\ \A v \in Worker : v \in Rank
  BY NumWorkersAssumption DEF Worker, Rank
<1>2. \A q \in Rank : Len(log[q]) \in Nat /\ Len(log[q]) >= 2
  <2>1. \A q \in Rank : Len(log[q]) \in Nat
    BY DEF TypeOK
  <2>2. Started(w)
    BY <1>1 DEF StartInv
  <2> QED
    BY <2>1, <2>2 DEF Started
<1>3. n < Len(log[0]) /\ x = log[0][n + 1] /\ x.op = c /\ Call(w, c, x.region)
  BY DEF Receive, Called, Root
<1>4. n + 1 \in 1..Len(log[0]) /\ n \in 1..(Len(log[0]) - 1) /\ n \in 1..n
  BY <1>1, <1>2, <1>3
<1>5. x \in Collective
  <2>1. log[0] \in Seq(Collective)
    BY <1>1 DEF TypeOK
  <2> QED
    BY <1>3, <1>4, <2>1
<1>6. x.region \in 0..Len(kinds) /\ (c # "exitTag" => x.region >= 1) /\ x.region \in 0..MaxRegions
  BY <1>1, <1>3, <1>4, <1>5 DEF RegionInv, Collective
<1>7. x = Coll(c, x.region)
  BY <1>3, <1>5 DEF Collective, Coll
<1> HIDE DEF n, x
<1>8. /\ StartInv' /\ RegionInv'
      /\ Len(log'[w]) = n + 1
      /\ log'[w][n + 1] = x /\ Last(w)' = x
      /\ \A i \in 1..n : log'[w][i] = log[w][i]
      /\ \A i \in 1..Len(log'[w]) : i \in 1..n \/ i = n + 1
      /\ \A q \in Rank \ {w} : log'[q] = log[q]
  <2> DEFINE k == x.region
  <2>1. Call(w, c, k) /\ k \in 0..Len(kinds) /\ (c # "exitTag" => k >= 1) /\ x = Coll(c, k)
    BY <1>3, <1>6, <1>7
  <2> HIDE DEF k
  <2> QED
    BY <1>1, <2>1, RunningCalls DEF n
<1>9. Last(w) = log[0][n]
  <2>1. Prefix(w)
    BY DEF PrefixInv
  <2> QED
    BY <1>3, <1>4, <2>1 DEF Prefix, Last, n
<1>10. Meets(Last(w), x) /\ (OutOfStep \/ x.op \in Successors(Last(w)))
  BY <1>3, <1>4, <1>9 DEF GrammarInv
<1>12. n \in Nat
  BY <1>1, <1>2 DEF n
<1>14. PrefixInv'
  <2>1. SUFFICES ASSUME NEW v \in Worker PROVE Prefix(v)'
    BY DEF PrefixInv
  <2>2. /\ log'[0] = log[0] /\ pc'[0] = pc[0] /\ region'[0] = region[0]
        /\ Last(0)' = Last(0) /\ Kind(0)' = Kind(0)
    BY <1>1, <1>8 DEF Moves, Last, Kind
  <2>3. Prefix(v)
    BY DEF PrefixInv
  <2>4. CASE v = w
    <3>1. Len(log[0]) \in Nat /\ n < Len(log[0])
      BY <1>1, <1>2, <1>3
    <3>2. ~Ahead(w)' /\ Len(log'[w]) <= Len(log'[0]) + 1
      BY <1>8, <1>12, <2>2, <3>1 DEF Ahead
    <3>3. \A i \in 1..Len(log'[w]) : log'[w][i] = log[0][i]
      <4>1. TAKE i \in 1..Len(log'[w])
      <4>2. CASE i \in 1..n
        BY <1>8, <2>3, <2>4, <3>1, <4>2, <1>12 DEF Prefix, n
      <4>3. CASE i = n + 1
        BY <1>3, <1>8, <4>3
      <4> QED
        BY <1>8, <4>2, <4>3
    <3> QED
      BY <2>2, <2>4, <3>2, <3>3 DEF Prefix
  <2>5. CASE v # w
    <3>1. log'[v] = log[v] /\ Last(v)' = Last(v)
      BY <1>1, <1>8, <2>5 DEF Last
    <3> QED
      BY <2>2, <2>3, <3>1 DEF Prefix, Ahead, MayBeAhead, Running
  <2> QED
    BY <2>4, <2>5
<1>15. QED
  BY <1>3, <1>6, <1>7, <1>8, <1>10, <1>12, <1>14 DEF n, x

\* A step without a call leaves the calls' regions in order, whatever is opened.
LEMMA RegionKept ==
    ASSUME TypeOK, RegionInv, UNCHANGED log, Len(kinds') >= Len(kinds), Len(kinds') \in Nat
    PROVE  RegionInv'
<1>1. Len(kinds) \in Nat
  BY DEF TypeOK
<1>2. \A r \in Rank : \A i \in 1..Len(log[r]) : log[r][i].region \in Int
  <2>1. TAKE r \in Rank
  <2>2. log[r] \in Seq(Collective)
    BY DEF TypeOK
  <2>3. \A c \in Collective : c.region \in Int
    BY MaxRegionsAssumption DEF Collective
  <2> QED
    BY <2>2, <2>3
<1>3. QED
  BY <1>1, <1>2 DEF RegionInv

LEMMA StartCallsAre ==
    /\ StartCalls["pagesize"] = 0 /\ StartCalls["dup"] = 1 /\ StartCalls["aslr"] = 2
    /\ StartCalls["report"] = 3 /\ StartCalls["barrier"] = 4
  BY DEF StartCalls, StartPC

\* The calls of the startup come in one order, one rank at most one ahead of
\* another, and are the same on all ranks.
LEMMA StartCalling ==
    ASSUME TypeOK, StartInv, RegionInv, GrammarInv, PrefixInv, NEW r \in Rank,
           NEW c \in Setup, pc[r] \in StartPC, Call(r, c, 0), Moves(r), UNCHANGED kinds,
           pc'[r] \in StartPC, Len(log[r]) >= 1 => AllCalled(r),
           StartCalls[pc'[r]] = Len(log[r]) + 1,
           Len(log[r]) = 0 => c = "dup", Len(log[r]) = 1 => c = "aslr",
           Len(log[r]) >= 2 => c = "barrier",
           pc'[r] \in {"report", "barrier"} => ~AllRankAslrDisabled,
           \A f \in faults' : f \in faults \/ (f = <<"aslr", r>> /\ c = "aslr")
    PROVE  /\ StartInv' /\ RegionInv' /\ GrammarInv' /\ PrefixInv'
           /\ log' \in [Rank -> Seq(Collective)] /\ Last(r)' = Coll(c, 0)
           /\ \A i \in 1..Len(log'[r]) : log'[r][i].op \in Setup
<1>1. 0 \in Rank /\ \A w \in Worker : w \in Rank /\ w # 0
  BY NumWorkersAssumption DEF Worker, Rank
<1>2. \A q \in Rank : Len(log[q]) \in Nat
  BY DEF TypeOK
<1>3. c \in Op /\ 0 \in 0..MaxRegions
  BY MaxRegionsAssumption DEF Op
<1>4. /\ log' \in [Rank -> Seq(Collective)]
      /\ Len(log'[r]) = Len(log[r]) + 1
      /\ log'[r][Len(log[r]) + 1] = Coll(c, 0) /\ Last(r)' = Coll(c, 0)
      /\ \A i \in 1..Len(log[r]) : log'[r][i] = log[r][i]
      /\ \A q \in Rank \ {r} : log'[q] = log[q]
  BY <1>1, <1>3, CallFacts
<1>5. Coll(c, 0).op = c /\ Coll(c, 0).region = 0
  BY DEF Coll
<1>6. Len(log[r]) \in 0..3 /\ pc[r] \notin {"finalize", "stopped"} /\ Len(log[r]) = StartCalls[pc[r]]
  <2>1. Started(r)
    BY DEF StartInv
  <2>2. \A p \in StartPC : StartCalls[p] \in 0..4
    BY DEF StartCalls, StartPC
  <2>3. StartCalls[pc'[r]] \in 0..4
    BY <2>2
  <2>4. Len(log[r]) = StartCalls[pc[r]]
    BY <2>1 DEF Started
  <2> QED
    BY <1>2, <2>3, <2>4 DEF StartPC
<1>7. \A i \in 1..Len(log'[r]) : i \in 1..Len(log[r]) \/ i = Len(log[r]) + 1
  BY <1>4, <1>6
<1>8. \A q \in Rank : Len(log'[q]) >= Len(log[q])
  BY <1>2, <1>4, <1>6
<1>9. \A q \in Rank : pc'[q] = pc[q] \/ q = r
  BY DEF Moves
<1>e. ASSUME Len(log[r]) <= 1
      PROVE  \A q \in Rank : Len(log[q]) <= 2 /\ ~Running(q) /\ pc[q] \notin {"report", "barrier"}
  <2>1. TAKE q \in Rank
  <2>2. Started(q) /\ ~(Len(log[r]) >= 2)
    BY <1>2, <1>e DEF StartInv
  <2>3. Len(log[q]) <= 2 /\ ~Running(q)
    BY <1>2, <2>2 DEF Started
  <2>4. StartCalls["report"] = 3 /\ StartCalls["barrier"] = 4
    BY DEF StartCalls, StartPC
  <2> QED
    BY <2>2, <2>3, <2>4 DEF Started, StartPC
<1>l. ASSUME ~(Len(log[r]) <= 1)
      PROVE  /\ c = "barrier" /\ UNCHANGED faults /\ ~AllRankAslrDisabled /\ ~AllRankAslrDisabled'
             /\ \A q \in Rank : Len(log[q]) >= 2 /\ ~Running(q)
  <2>1. Len(log[r]) \in {2, 3} /\ c = "barrier"
    BY <1>6, <1>l
  <2>2. UNCHANGED faults
    BY <2>1 DEF Moves
  <2>3. pc'[r] \in {"report", "barrier"}
    BY <1>6, <2>1, StartCallsAre DEF StartPC
  <2>4. \A q \in Rank : Len(log[q]) >= 2
    <3>1. Len(log[r]) >= 2
      BY <1>6, <1>l
    <3>2. AllCalled(r)
      BY <3>1
    <3> QED
      BY <1>2, <3>1, <3>2 DEF AllCalled
  <2>5. ~AllRankAslrDisabled
    BY <2>3
  <2>6. ~AllRankAslrDisabled' /\ \A q \in Rank : ~Running(q)
    BY <2>2, <2>5 DEF StartInv, Started, AllRankAslrDisabled
  <2> QED
    BY <2>1, <2>2, <2>4, <2>5, <2>6
<1>10. \A q \in Rank :
          /\ Len(log'[q]) >= 1 => log'[q][1] = Coll("dup", 0)
          /\ Len(log'[q]) >= 2 => log'[q][2] = Coll("aslr", 0)
          /\ \A i \in 3..Len(log'[q]) :
                ~AllRankAslrDisabled' /\ log'[q][i] = Coll("barrier", 0) /\ i <= 4
  <2>1. TAKE q \in Rank
  <2>2. Started(q)
    BY DEF StartInv
  <2>3. CASE q # r
    <3>1. log'[q] = log[q]
      BY <1>4, <2>3
    <3>2. CASE Len(log[r]) <= 1
      BY <1>2, <1>e, <2>2, <3>1, <3>2 DEF Started
    <3>3. CASE ~(Len(log[r]) <= 1)
      BY <1>2, <1>l, <2>2, <3>1, <3>3 DEF Started
    <3> QED
      BY <3>2, <3>3
  <2>4. CASE q = r
    <3>1. CASE Len(log[r]) = 0
      <4>1. Len(log'[r]) = 1 /\ log'[r][1] = Coll("dup", 0)
        BY <1>4, <3>1
      <4> QED
        BY <2>4, <4>1
    <3>2. CASE Len(log[r]) = 1
      <4>1. /\ Len(log'[r]) = 2 /\ log'[r][2] = Coll("aslr", 0)
            /\ log'[r][1] = log[r][1] /\ log[r][1] = Coll("dup", 0)
        BY <1>4, <2>2, <2>4, <3>2 DEF Started
      <4> QED
        BY <2>4, <4>1
    <3>3. CASE Len(log[r]) \in {2, 3}
      <4>1. /\ c = "barrier" /\ ~AllRankAslrDisabled /\ ~AllRankAslrDisabled'
            /\ log'[r][1] = log[r][1] /\ log'[r][2] = log[r][2]
            /\ log[r][1] = Coll("dup", 0) /\ log[r][2] = Coll("aslr", 0)
            /\ Len(log'[r]) <= 4
        <5>1. ~(Len(log[r]) <= 1) /\ Len(log[r]) >= 2 /\ 1 \in 1..Len(log[r]) /\ 2 \in 1..Len(log[r])
          BY <1>6, <3>3
        <5>2. Len(log'[r]) <= 4
          BY <1>4, <1>6
        <5>3. log[r][1] = Coll("dup", 0) /\ log[r][2] = Coll("aslr", 0)
          BY <2>2, <2>4, <5>1 DEF Started
        <5> QED
          BY <1>4, <1>l, <5>1, <5>2, <5>3
      <4>2. \A i \in 3..Len(log'[r]) : i \in 3..Len(log[r]) \/ i = Len(log[r]) + 1
        BY <1>4, <3>3
      <4>3. \A i \in 3..Len(log[r]) : log'[r][i] = log[r][i] /\ log[r][i] = Coll("barrier", 0) /\ i <= 4
        <5>1. TAKE i \in 3..Len(log[r])
        <5>2. i \in 1..Len(log[r])
          BY <3>3
        <5> QED
          BY <1>4, <2>2, <2>4, <4>1, <5>2 DEF Started
      <4>4. log'[r][Len(log[r]) + 1] = Coll("barrier", 0)
        BY <1>4, <4>1
      <4>5. \A i \in 3..Len(log'[r]) : log'[r][i] = Coll("barrier", 0) /\ i <= 4
        BY <3>3, <4>1, <4>2, <4>3, <4>4
      <4> QED
        BY <2>4, <4>1, <4>5
    <3> QED
      BY <1>6, <3>1, <3>2, <3>3
  <2> QED
    BY <2>3, <2>4
<1>11. \A q \in Rank : Running(q)' => Running(q)
  BY <1>9 DEF Running
<1>12. StartInv'
  <2>1. SUFFICES ASSUME NEW q \in Rank PROVE Started(q)'
    BY DEF StartInv
  <2>2. Started(q)
    BY DEF StartInv
  <2>3. pc'[q] \in StartPC => Len(log'[q]) = StartCalls[pc'[q]]
    BY <1>4, <1>9, <2>2 DEF Started
  <2>4. ~Running(q)' /\ (Len(log'[q]) >= 3 => \A p \in Rank : Len(log'[p]) >= 2)
    <3>1. CASE Len(log[r]) <= 1
      <4>1. Len(log'[q]) <= 2
        BY <1>2, <1>4, <1>e, <1>9, <3>1
      <4> QED
        BY <1>2, <1>4, <1>11, <1>e, <3>1, <4>1
    <3>2. CASE ~(Len(log[r]) <= 1)
      BY <1>2, <1>4, <1>8, <1>11, <1>l, <3>2
    <3> QED
      BY <3>1, <3>2
  <2>5. pc'[q] \in {"report", "barrier"} => ~AllRankAslrDisabled'
    <3>1. CASE Len(log[r]) <= 1
      <4>1. StartCalls["report"] = 3 /\ StartCalls["barrier"] = 4
        BY DEF StartCalls, StartPC
      <4> QED
        BY <1>6, <1>9, <1>e, <3>1, <4>1
    <3>2. CASE ~(Len(log[r]) <= 1)
      BY <1>l, <3>2
    <3> QED
      BY <3>1, <3>2
  <2>6. /\ <<"pagesize", q>> \in faults' => <<"pagesize", q>> \in faults
        /\ \A what \in {"binding", "personality"} :
              <<what, q>> \in faults' => <<what, q>> \in faults
        /\ <<"aslr", q>> \in faults' => <<"aslr", q>> \in faults \/ (q = r /\ c = "aslr")
    OBVIOUS
  <2>7. CASE q = r
    <3>1. \A what \in {"pagesize", "binding", "personality"} : <<what, q>> \notin faults'
      BY <1>6, <2>2, <2>6, <2>7 DEF Started
    <3>2. <<"aslr", q>> \in faults' => Len(log'[q]) >= 2
      BY <1>4, <1>6, <2>2, <2>6, <2>7 DEF Started
    <3> QED
      BY <1>10, <2>3, <2>4, <2>5, <3>1, <3>2 DEF Started
  <2>8. CASE q # r
    <3>1. log'[q] = log[q] /\ pc'[q] = pc[q]
      BY <1>4, <1>9, <2>8
    <3> QED
      BY <1>10, <2>2, <2>3, <2>4, <2>5, <2>6, <2>8, <3>1 DEF Started
  <2> QED
    BY <2>7, <2>8
<1>13. RegionInv'
  <2>1. \A i \in 1..Len(log'[r]) :
           /\ log'[r][i].region <= Len(kinds)
           /\ log'[r][i].op \notin Setup \union {"exitTag"} => log'[r][i].region >= 1
    <3>1. Len(kinds) \in Nat
      BY DEF TypeOK
    <3> QED
      BY <1>4, <1>5, <1>7, <3>1 DEF RegionInv
  <2> QED
    BY <1>4, <2>1 DEF RegionInv
<1>14. \A q \in Rank : \A i \in 1..Len(log'[q]) : log'[q][i].op \in Setup
  <2>1. TAKE q \in Rank
  <2>2. TAKE i \in 1..Len(log'[q])
  <2>3. i = 1 \/ i = 2 \/ i \in 3..Len(log'[q])
    OBVIOUS
  <2>4. Len(log'[q]) \in Nat
    BY <1>2, <1>4
  <2> QED
    BY <1>10, <2>3, <2>4 DEF Coll, Setup
<1>15. GrammarInv'
  <2>1. CASE r # 0
    BY <1>1, <1>4, <2>1, GrammarKept DEF Moves
  <2>2. CASE r = 0
    <3>1. SUFFICES ASSUME NEW i \in 1..(Len(log'[0]) - 1)
                   PROVE  /\ Meets(log'[0][i], log'[0][i + 1])
                          /\ log'[0][i + 1].op \in Successors(log'[0][i])
      BY DEF GrammarInv, OutOfStep, Happened, Meets, Successors, AfterBody
    <3>2. Len(log'[0]) \in Nat /\ i \in 1..Len(log'[0]) /\ i + 1 \in 1..Len(log'[0])
      BY <1>1, <1>2, <1>4, <2>2
    <3>3. log'[0][i].op \in Setup /\ log'[0][i + 1].op \in Setup
      BY <1>1, <1>14, <3>2
    <3>4. Meets(log'[0][i], log'[0][i + 1])
      BY <3>3 DEF Meets, Setup, Entry, BodyOp
    <3>5. i = 1 \/ i = 2 \/ i \in 3..Len(log'[0])
      BY <3>2
    <3>6. i + 1 = 2 \/ i + 1 \in 3..Len(log'[0])
      BY <3>2
    <3>7. i = 1 => log'[0][i] = Coll("dup", 0) /\ log'[0][i + 1] = Coll("aslr", 0)
      BY <1>1, <1>10, <3>2
    <3>8. i = 2 => log'[0][i] = Coll("aslr", 0) /\ log'[0][i + 1] = Coll("barrier", 0)
      BY <1>1, <1>10, <3>2
    <3>9. i \in 3..Len(log'[0]) =>
             log'[0][i] = Coll("barrier", 0) /\ log'[0][i + 1] = Coll("barrier", 0)
      BY <1>1, <1>10, <3>2
    <3>10. log'[0][i + 1].op \in Successors(log'[0][i])
      <4>1. CASE i = 1
        BY <3>7, <4>1 DEF Successors, Coll
      <4>2. CASE i = 2
        BY <3>8, <4>2 DEF Successors, Coll
      <4>3. CASE i \in 3..Len(log'[0])
        BY <3>9, <4>3 DEF Successors, Coll
      <4> QED
        BY <3>5, <4>1, <4>2, <4>3
    <3> QED
      BY <3>4, <3>10
  <2> QED
    BY <2>1, <2>2
<1>16. PrefixInv'
  <2>1. SUFFICES ASSUME NEW w \in Worker PROVE Prefix(w)'
    BY DEF PrefixInv
  <2>2. Prefix(w) /\ Len(log'[w]) \in Nat /\ Len(log'[0]) \in Nat /\ w \in Rank /\ w # 0
    BY <1>1, <1>2, <1>4 DEF PrefixInv
  <2>3. Len(log'[w]) <= Len(log'[0]) + 1
    <3>1. CASE r = w
      <4>1. Len(log[w]) = 0 \/ Len(log[0]) >= Len(log[w])
        BY <1>1, <1>6, <3>1 DEF AllCalled
      <4> QED
        BY <1>1, <1>2, <1>4, <2>2, <3>1, <4>1
    <3>2. CASE r # w
      <4>1. log'[w] = log[w] /\ Len(log[w]) <= Len(log[0]) + 1
        BY <1>4, <2>2, <3>2 DEF Prefix
      <4> QED
        BY <1>1, <1>2, <1>8, <2>2, <4>1
    <3> QED
      BY <3>1, <3>2
  <2>4. ASSUME NEW i \in 1..Len(log'[w]), i <= Len(log'[0]) PROVE log'[w][i] = log'[0][i]
    <3>1. i = 1 \/ i = 2 \/ (i \in 3..Len(log'[w]) /\ i \in 3..Len(log'[0]))
      BY <2>2, <2>4
    <3>2. i = 1 => log'[w][i] = Coll("dup", 0) /\ log'[0][i] = Coll("dup", 0)
      BY <1>1, <1>10, <2>2, <2>4
    <3>3. i = 2 => log'[w][i] = Coll("aslr", 0) /\ log'[0][i] = Coll("aslr", 0)
      BY <1>1, <1>10, <2>2, <2>4
    <3>4. i \in 3..Len(log'[w]) /\ i \in 3..Len(log'[0]) =>
             log'[w][i] = Coll("barrier", 0) /\ log'[0][i] = Coll("barrier", 0)
      BY <1>1, <1>10, <2>2
    <3> QED
      BY <3>1, <3>2, <3>3, <3>4
  <2>5. Ahead(w)' => MayBeAhead(w)'
    <3>1. ~Running(0)'
      BY <1>1, <1>11, <1>e, <1>l
    <3>2. Ahead(w)' => Len(log'[w]) \in 1..Len(log'[w])
      BY <2>2 DEF Ahead
    <3> QED
      BY <1>14, <2>2, <3>1, <3>2 DEF MayBeAhead, Last
  <2> QED
    BY <2>3, <2>4, <2>5 DEF Prefix
<1>17. QED
  BY <1>4, <1>12, <1>13, <1>14, <1>15, <1>16

-----------------------------------------------------------------------------
(***************************************************************************)
(* The steps.                                                              *)
(***************************************************************************)

\* What the steps other than OpenRegion leave, or change for one rank.
LEMMA TypeKept ==
    ASSUME TypeOK, NEW r \in Rank,
           pc' \in [Rank -> LeaderPC \union WorkerPC],
           \A q \in Rank \ {r} : pc'[q] = pc[q],
           pc'[r] \in IF r = 0 THEN LeaderPC ELSE WorkerPC,
           log' \in [Rank -> Seq(Collective)], UNCHANGED kinds,
           region' \in [Rank -> 0..Len(kinds)], inParallel' \in [Rank -> BOOLEAN],
           begun' = begun \/ begun' = [begun EXCEPT ![r] = @ \union {region[r]}],
           ended' = ended \/ ended' = [ended EXCEPT ![r] = @ \union {region[r]}],
           UNCHANGED <<begun, ended>> \/ region[r] >= 1,
           faults' \subseteq Fault
    PROVE  TypeOK'
<1>1. Len(kinds) \in Nat /\ region[r] \in 0..Len(kinds)
  BY DEF TypeOK
<1>2. UNCHANGED <<begun, ended>> \/ region[r] \in 1..Len(kinds)
  BY <1>1
<1>3. begun' \in [Rank -> SUBSET (1..Len(kinds))]
  <2>1. begun \in [Rank -> SUBSET (1..Len(kinds))]
    BY DEF TypeOK
  <2>2. CASE region[r] \in 1..Len(kinds)
    <3> DEFINE S == 1..Len(kinds)
    <3>1. region[r] \in S /\ begun \in [Rank -> SUBSET S]
      BY <2>1, <2>2
    <3> HIDE DEF S
    <3>2. begun' \in [Rank -> SUBSET S]
      <4>1. begun[r] \union {region[r]} \in SUBSET S
        BY <3>1
      <4>2. CASE begun' = begun
        BY <3>1, <4>2
      <4>3. CASE begun' = [begun EXCEPT ![r] = @ \union {region[r]}]
        BY <3>1, <4>1, <4>3
      <4> QED
        BY <4>2, <4>3
    <3> QED
      BY <3>2 DEF S
  <2> QED
    BY <1>2, <2>1, <2>2
<1>4. ended' \in [Rank -> SUBSET (1..Len(kinds))]
  <2>1. ended \in [Rank -> SUBSET (1..Len(kinds))]
    BY DEF TypeOK
  <2>2. CASE region[r] \in 1..Len(kinds)
    <3> DEFINE S == 1..Len(kinds)
    <3>1. region[r] \in S /\ ended \in [Rank -> SUBSET S]
      BY <2>1, <2>2
    <3> HIDE DEF S
    <3>2. ended' \in [Rank -> SUBSET S]
      <4>1. ended[r] \union {region[r]} \in SUBSET S
        BY <3>1
      <4>2. CASE ended' = ended
        BY <3>1, <4>2
      <4>3. CASE ended' = [ended EXCEPT ![r] = @ \union {region[r]}]
        BY <3>1, <4>1, <4>3
      <4> QED
        BY <4>2, <4>3
    <3> QED
      BY <3>2 DEF S
  <2> QED
    BY <1>2, <2>1, <2>2
<1>5. 0 \in Rank /\ \A w \in Worker : w \in Rank /\ w # 0
  BY NumWorkersAssumption DEF Rank, Worker
<1>6. pc'[0] \in LeaderPC
  BY <1>5 DEF TypeOK
<1>7. \A w \in Worker : pc'[w] \in WorkerPC
  BY <1>5 DEF TypeOK
<1>8. QED
  BY <1>3, <1>4, <1>6, <1>7 DEF TypeOK

\* No worker is ahead of a leader that is not in a region to be reduced.
LEMMA InLockstep ==
    ASSUME PrefixInv, Running(0),
           \/ pc[0] \notin {"clear", "body"} \/ Kind(0) # "reduce"
           \/ Last(0).op # BodyOp
    PROVE  \A w \in Worker : ~Ahead(w)
  BY DEF PrefixInv, Prefix, MayBeAhead, Coll

LEMMA LeaderIsNoWorker == 0 \in Rank /\ \A w \in Worker : w \in Rank /\ w # 0
  BY NumWorkersAssumption DEF Worker, Rank

LEMMA PastStartup ==
    ASSUME TypeOK, StartInv, NEW r \in Rank, Running(r)
    PROVE  AllRankAslrDisabled /\ \A q \in Rank : Len(log[q]) \in Nat /\ Len(log[q]) >= 2
<1>1. \A q \in Rank : Len(log[q]) \in Nat
  BY DEF TypeOK
<1>2. Started(r)
  BY DEF StartInv
<1>3. QED
  BY <1>1, <1>2 DEF Started

\* A rank in the startup has no place in a region.
LEMMA StartPlace ==
    ASSUME IInv, NEW r \in Rank, Moves(r), pc[r] \in StartPC,
           pc'[r] \in StartPC \union {"finalize"},
           UNCHANGED <<kinds, region, inParallel, begun, ended>>,
           \A i \in 1..Len(log'[r]) : log'[r][i].op \in Setup,
           Len(log'[r]) \in Nat
    PROVE  /\ LeaderInv' /\ (OutOfStep \/ LeaderInStep)' /\ WorkerInv'
           /\ ContributedInv' /\ ReductionInv'
<1>1. Len(log'[r]) >= 1 => Last(r)'.op \in Setup
  BY DEF Last
<1>2. LeaderInv' /\ (OutOfStep \/ LeaderInStep)'
  <2>1. CASE r = 0
    <3>1. pc'[0] \in StartPC \union {"finalize"} /\ ~Running(0)'
      BY <2>1 DEF Running, StartPC
    <3>2. LeaderInStep'
      BY <3>1 DEF LeaderInStep, StartPC
    <3>3. Len(log'[0]) >= 1 => Last(0)'.op # "context" /\ Last(0)'.op # BodyOp
      BY <1>1, <2>1 DEF Setup, BodyOp
    <3>4. LeaderInv'
      BY <3>1, <3>3 DEF LeaderInv, StartPC, Entry, BodyOp
    <3> QED
      BY <3>2, <3>4
  <2>2. CASE r # 0
    <3>1. r \in Worker
      BY <2>2, NumWorkersAssumption DEF Rank, Worker
    <3> QED
      BY <3>1, LeaderKept DEF IInv
  <2> QED
    BY <2>1, <2>2
<1>3. \A q \in Rank : q # r => pc'[q] = pc[q] /\ log'[q] = log[q]
  BY DEF Moves
<1>4. WorkerInv'
  <2>1. SUFFICES ASSUME NEW w \in Worker PROVE WorkerPlace(w)'
    BY DEF WorkerInv
  <2>2. WorkerPlace(w) /\ w \in Rank
    BY LeaderIsNoWorker DEF IInv, WorkerInv
  <2>3. CASE w = r
    BY <2>3 DEF WorkerPlace, StartPC
  <2>4. CASE w # r
    <3>1. Last(w)' = Last(w) /\ Kind(w)' = Kind(w) /\ pc'[w] = pc[w] /\ region'[w] = region[w]
      BY <1>3, <2>2, <2>4 DEF Last, Kind
    <3>2. Closed(Last(w))' <=> Closed(Last(w))
      BY <3>1 DEF Closed, Successors, AfterBody
    <3>3. OutOfStep => OutOfStep'
      BY FaultStays DEF Moves
    <3> QED
      BY <2>2, <3>1, <3>2, <3>3 DEF WorkerPlace
  <2> QED
    BY <2>3, <2>4
<1>5. ContributedInv'
  <2>1. SUFFICES ASSUME NEW w \in Worker, NEW i \in 1..Len(log'[w]), log'[w][i].op = "reduce"
                 PROVE  log'[w][i].region \in ended[w]
    BY DEF ContributedInv
  <2>2. w # r /\ w \in Rank
    BY <2>1, LeaderIsNoWorker DEF Setup
  <2> QED
    BY <1>3, <2>1, <2>2 DEF IInv, ContributedInv
<1>6. ReductionInv'
  <2>1. pc[0] = "reduce" <=> pc'[0] = "reduce"
    BY <1>3, LeaderIsNoWorker DEF StartPC
  <2> QED
    BY <2>1 DEF IInv, ReductionInv
<1>7. QED
  BY <1>2, <1>4, <1>5, <1>6

\* A check throws on rank r.
LEMMA CheckThrowsKeeps ==
    ASSUME IInv, NEW r \in Rank, NEW what \in {"pagesize", "binding", "personality"},
           pc[r] = (IF what = "pagesize" THEN "pagesize" ELSE "dup"), Throws(what, r),
           UNCHANGED <<log, kinds, region, inParallel, begun, ended>>
    PROVE  IInv'
<1>1. /\ pc' = [pc EXCEPT ![r] = "finalize"] /\ log' = log
      /\ faults' = faults \union {<<what, r>>} /\ what \in Checks
  BY DEF Throws, Blame, GoTo, Checks
<1>2. TypeOK /\ StartInv /\ RegionInv /\ GrammarInv /\ PrefixInv /\ Started(r)
  BY DEF IInv, StartInv
<1>3. pc'[r] = "finalize" /\ \A q \in Rank : q # r => pc'[q] = pc[q]
  BY <1>1, <1>2 DEF TypeOK
<1>4. Moves(r) /\ pc[r] \in StartPC
  BY <1>1, <1>3 DEF Moves, StartPC
<1>5. Len(log[r]) = IF what = "pagesize" THEN 0 ELSE 1
  BY <1>2, <1>4, StartCallsAre DEF Started
<1>6. \A i \in 1..Len(log[r]) : i = 1 /\ log[r][i].op \in Setup
  BY <1>2, <1>5 DEF Started, Coll, Setup
<1>7. TypeOK'
  <2>1. pc' \in [Rank -> LeaderPC \union WorkerPC] /\ "finalize" \in LeaderPC \intersect WorkerPC
    BY <1>1, <1>2 DEF TypeOK, LeaderPC, WorkerPC
  <2>2. faults' \subseteq Fault
    BY <1>1, <1>2 DEF TypeOK, Fault
  <2> QED
    BY <1>1, <1>2, <1>3, <2>1, <2>2, TypeKept DEF TypeOK
<1>8. \A q \in Rank : Running(q)' => Running(q)
  BY <1>3 DEF Running
<1>9. AllRankAslrDisabled' <=> AllRankAslrDisabled
  BY <1>1 DEF AllRankAslrDisabled
<1>10. StartInv'
  <2>1. SUFFICES ASSUME NEW q \in Rank PROVE Started(q)'
    BY DEF StartInv
  <2>2. Started(q)
    BY <1>2 DEF StartInv
  <2>3. CASE q = r
    <3>1. Len(log[r]) <= 1 /\ ~Running(r)' /\ pc'[r] \notin StartPC
      BY <1>3, <1>5 DEF Running, StartPC
    <3>2. ~(<<"aslr", r>> \in faults')
      BY <1>1, <1>2, <3>1, <1>5 DEF Started
    <3>3. /\ <<"pagesize", r>> \in faults' => Len(log[r]) = 0
          /\ ~(Len(log[r]) >= 2) /\ \A i \in 3..Len(log[r]) : FALSE
      BY <1>1, <1>2, <1>5, <1>4 DEF Started, StartPC
    <3> QED
      BY <1>1, <1>2, <1>3, <2>3, <3>1, <3>2, <3>3 DEF Started, StartPC
  <2>4. CASE q # r
    <3>1. pc'[q] = pc[q] /\ \A c \in Checks : <<c, q>> \in faults' <=> <<c, q>> \in faults
      BY <1>1, <1>3, <2>4
    <3> QED
      BY <1>1, <1>8, <1>9, <2>2, <3>1 DEF Started, Checks
  <2> QED
    BY <2>3, <2>4
<1>11. RegionInv'
  BY <1>1, <1>2 DEF RegionInv
<1>12. GrammarInv'
  BY <1>1, <1>2, <1>4, GrammarKept DEF Moves
<1>13. PrefixInv'
  <2>1. pc'[0] = pc[0] \/ (~Running(0) /\ ~Running(0)')
    <3>1. CASE r = 0
      BY <1>3, <1>4, <3>1 DEF Running
    <3>2. CASE r # 0
      BY <1>3, <3>2, LeaderIsNoWorker
    <3> QED
      BY <3>1, <3>2
  <2> QED
    BY <1>1, <1>2, <2>1, PrefixKept
<1>14. LeaderInv' /\ (OutOfStep \/ LeaderInStep)' /\ WorkerInv' /\ ContributedInv' /\ ReductionInv'
  <2>1. \A i \in 1..Len(log'[r]) : log'[r][i].op \in Setup
    BY <1>1, <1>6
  <2>2. Len(log'[r]) \in Nat
    BY <1>1, <1>5
  <2> QED
    BY <1>3, <1>4, <2>1, <2>2, StartPlace
<1>15. QED
  BY <1>7, <1>10, <1>11, <1>12, <1>13, <1>14 DEF IInv

\* A call of the startup.
LEMMA StartCallKeeps ==
    ASSUME IInv, NEW r \in Rank, NEW c \in Setup, NEW to \in StartPC,
           pc[r] \in StartPC, Call(r, c, 0), GoTo(r, to),
           UNCHANGED <<kinds, region, inParallel, begun, ended>>,
           Len(log[r]) >= 1 => AllCalled(r), StartCalls[to] = Len(log[r]) + 1,
           Len(log[r]) = 0 => c = "dup", Len(log[r]) = 1 => c = "aslr",
           Len(log[r]) >= 2 => c = "barrier",
           to \in {"report", "barrier"} => ~AllRankAslrDisabled,
           \/ UNCHANGED faults
           \/ c = "aslr" /\ faults' = faults \union {<<"aslr", r>>}
    PROVE  IInv'
<1>1. TypeOK /\ StartInv /\ RegionInv /\ GrammarInv /\ PrefixInv
  BY DEF IInv
<1>2. pc'[r] = to /\ (\A q \in Rank : q # r => pc'[q] = pc[q]) /\ pc' \in [Rank -> LeaderPC \union WorkerPC]
  BY <1>1 DEF TypeOK, GoTo, LeaderPC
<1>3. Moves(r)
  <2>1. \A q \in Rank : q # r => log'[q] = log[q]
    BY <1>1 DEF TypeOK, Call
  <2> QED
    BY <1>2, <2>1 DEF Moves
<1>4. /\ StartInv' /\ RegionInv' /\ GrammarInv' /\ PrefixInv'
      /\ log' \in [Rank -> Seq(Collective)] /\ Last(r)' = Coll(c, 0)
      /\ \A i \in 1..Len(log'[r]) : log'[r][i].op \in Setup
  <2>1. \A f \in faults' : f \in faults \/ (f = <<"aslr", r>> /\ c = "aslr")
    <3>1. CASE UNCHANGED faults
      BY <3>1
    <3>2. CASE c = "aslr" /\ faults' = faults \union {<<"aslr", r>>}
      BY <3>2
    <3> QED
      BY <3>1, <3>2
  <2>2. /\ pc'[r] \in StartPC /\ StartCalls[pc'[r]] = Len(log[r]) + 1
        /\ pc'[r] \in {"report", "barrier"} => ~AllRankAslrDisabled
    BY <1>2
  <2>3. (Len(log[r]) >= 1 => AllCalled(r)) /\ UNCHANGED kinds
    OBVIOUS
  <2> HIDE DEF AllCalled
  <2> QED
    BY <1>1, <1>3, <2>1, <2>2, <2>3, StartCalling
<1>5. TypeOK'
  <2>1. faults' \subseteq Fault
    BY <1>1 DEF TypeOK, Fault, Checks
  <2>2. to \in LeaderPC /\ to \in WorkerPC
    BY DEF LeaderPC, WorkerPC
  <2> QED
    BY <1>1, <1>2, <1>4, <2>1, <2>2, TypeKept DEF TypeOK
<1>6. LeaderInv' /\ (OutOfStep \/ LeaderInStep)' /\ WorkerInv' /\ ContributedInv' /\ ReductionInv'
  <2>1. Len(log'[r]) \in Nat
    BY <1>4
  <2> QED
    BY <1>2, <1>3, <1>4, <2>1, StartPlace
<1>7. QED
  BY <1>4, <1>5, <1>6 DEF IInv

\* The checks have passed on every rank: main, or worker().
LEMMA ChecksPassedKeeps ==
    ASSUME IInv, NEW r \in Rank, pc[r] = "aslr", AllCalled(r), AllRankAslrDisabled,
           GoTo(r, IF r = 0 THEN "main" ELSE "reserve"), UNCHANGED log,
           UNCHANGED <<kinds, region, inParallel, begun, ended, faults>>
    PROVE  IInv'
<1>1. TypeOK /\ StartInv /\ RegionInv /\ GrammarInv /\ PrefixInv /\ Started(r)
  BY DEF IInv, StartInv
<1>2. /\ pc'[r] = IF r = 0 THEN "main" ELSE "reserve"
      /\ \A q \in Rank : q # r => pc'[q] = pc[q]
      /\ pc' \in [Rank -> LeaderPC \union WorkerPC]
  BY <1>1 DEF TypeOK, GoTo, LeaderPC, WorkerPC
<1>3. Moves(r)
  BY <1>2 DEF Moves
<1>4. Len(log[r]) = 2 /\ log[r][2] = Coll("aslr", 0)
  BY <1>1, StartCallsAre DEF Started, StartPC
<1>5. \A q \in Rank : Len(log[q]) >= 2
  BY <1>4 DEF AllCalled
<1>6. Last(r)' = Coll("aslr", 0) /\ Last(r) = Coll("aslr", 0)
  BY <1>4 DEF Last
<1>7. Closed(Coll("aslr", 0))' /\ Closed(Coll("aslr", 0))
  BY DEF Closed, Successors, Coll
<1>8. TypeOK'
  <2>1. pc'[r] \in IF r = 0 THEN LeaderPC ELSE WorkerPC
    BY <1>2 DEF LeaderPC, WorkerPC
  <2> QED
    BY <1>1, <1>2, <2>1, TypeKept DEF TypeOK
<1>9. StartInv'
  <2>1. SUFFICES ASSUME NEW q \in Rank PROVE Started(q)'
    BY DEF StartInv
  <2>2. Started(q) /\ (AllRankAslrDisabled' <=> AllRankAslrDisabled)
    BY <1>1 DEF StartInv, AllRankAslrDisabled
  <2>3. CASE q = r
    <3>1. pc'[r] \notin StartPC /\ pc[r] \notin {"finalize", "stopped"}
      BY <1>2 DEF StartPC
    <3> QED
      BY <1>4, <1>5, <2>2, <2>3, <3>1 DEF Started, StartPC
  <2>4. CASE q # r
    BY <1>2, <2>2, <2>4 DEF Started, Running
  <2> QED
    BY <2>3, <2>4
<1>10. RegionInv' /\ GrammarInv'
  BY <1>1, GrammarKept DEF RegionInv
<1>11. PrefixInv'
  <2>1. CASE r # 0
    BY <1>1, <1>2, <2>1, LeaderIsNoWorker, PrefixKept
  <2>2. CASE r = 0
    <3>1. \A w \in Worker : ~Ahead(w)
      <4>1. SUFFICES ASSUME NEW w \in Worker, Ahead(w) PROVE FALSE
        OBVIOUS
      <4>2. w \in Rank /\ Len(log[w]) \in Nat /\ Prefix(w) /\ Started(w)
        BY <1>1, LeaderIsNoWorker DEF TypeOK, PrefixInv, StartInv
      <4>3. Len(log[w]) = 3
        <5>1. Len(log[0]) = 2 /\ Len(log[w]) > Len(log[0]) /\ Len(log[w]) <= Len(log[0]) + 1
          BY <1>4, <2>2, <4>1, <4>2 DEF Ahead, Prefix
        <5>2. Len(log[w]) \in Nat /\ Len(log[w]) > 2 /\ Len(log[w]) <= 3
          BY <4>2, <5>1
        <5>3. \A n \in Nat : n > 2 /\ n <= 3 => n = 3
          OBVIOUS
        <5> QED
          BY <5>2, <5>3
      <4>4. Last(w).op \notin Setup
        BY <4>2, <4>3 DEF Started, Last
      <4>5. ~Running(0)
        BY <2>2 DEF Running, StartPC
      <4> QED
        BY <2>2, <4>1, <4>2, <4>4 DEF Prefix, MayBeAhead
    <3> QED
      BY <1>1, <3>1, PrefixKept
  <2> QED
    BY <2>1, <2>2
<1>12. LeaderInv' /\ (OutOfStep \/ LeaderInStep)'
  <2>1. CASE r # 0
    <3>1. r \in Worker
      BY <2>1, NumWorkersAssumption DEF Rank, Worker
    <3> QED
      BY <1>3, <3>1, LeaderKept DEF IInv
  <2>2. CASE r = 0
    <3>1. LeaderInStep'
      BY <1>2, <1>6, <1>7, <2>2 DEF LeaderInStep
    <3>2. Last(0)'.op # "context" /\ Last(0)'.op # BodyOp
      BY <1>6, <2>2 DEF Coll, BodyOp
    <3>3. LeaderInv'
      BY <1>2, <2>2, <3>2 DEF LeaderInv, Entry, BodyOp
    <3> QED
      BY <3>1, <3>3
  <2> QED
    BY <2>1, <2>2
<1>13. WorkerInv' /\ ContributedInv'
  <2>1. CASE r = 0
    BY <1>3, <2>1, WorkersKept DEF IInv
  <2>2. CASE r # 0
    <3>1. SUFFICES ASSUME NEW w \in Worker PROVE WorkerPlace(w)'
      BY DEF WorkerInv, IInv, ContributedInv
    <3>2. CASE w = r
      BY <1>2, <1>6, <1>7, <2>2, <3>2 DEF WorkerPlace
    <3>3. CASE w # r
      <4>1. pc'[w] = pc[w] /\ WorkerPlace(w)
        BY <1>2, <3>3, LeaderIsNoWorker DEF IInv, WorkerInv
      <4> QED
        BY <4>1 DEF WorkerPlace, Closed, Successors, AfterBody, Last, Kind, OutOfStep, Happened
    <3> QED
      BY <3>2, <3>3
  <2> QED
    BY <2>1, <2>2
<1>14. ReductionInv'
  <2>1. pc[0] = "reduce" <=> pc'[0] = "reduce"
    BY <1>2, LeaderIsNoWorker
  <2> QED
    BY <2>1 DEF IInv, ReductionInv
<1>15. QED
  BY <1>8, <1>9, <1>10, <1>11, <1>12, <1>13, <1>14 DEF IInv

\* Every rank is ended.
LEMMA AbortKeeps ==
    ASSUME IInv, NEW r \in Rank, Abort(r)
    PROVE  IInv'
<1>1. /\ TypeOK /\ StartInv /\ RegionInv /\ GrammarInv /\ PrefixInv /\ ReductionInv
      /\ ContributedInv /\ LeaderInv
  BY DEF IInv
<1>2. /\ \A q \in Rank : pc'[q] = "stopped"
      /\ UNCHANGED <<log, kinds, region, inParallel, begun, ended, faults>>
  BY DEF Abort
<1>3. \A q \in Rank : ~Running(q) /\ ~Running(q)'
  <2>1. ~AllRankAslrDisabled
    BY <1>1 DEF StartInv, Started, Abort
  <2> QED
    BY <1>1, <1>2, <2>1 DEF StartInv, Started, Running
<1>4. TypeOK'
  <2>1. pc' \in [Rank -> LeaderPC \union WorkerPC] /\ "stopped" \in LeaderPC /\ "stopped" \in WorkerPC
    BY DEF Abort, LeaderPC, WorkerPC
  <2> QED
    BY <1>1, <1>2, <2>1, LeaderIsNoWorker DEF TypeOK
<1>5. StartInv'
  BY <1>1, <1>2, <1>3 DEF StartInv, Started, StartPC, AllRankAslrDisabled
<1>6. RegionInv' /\ GrammarInv' /\ ContributedInv'
  BY <1>1, <1>2, GrammarKept DEF RegionInv, ContributedInv
<1>7. PrefixInv'
  BY <1>1, <1>2, <1>3, LeaderIsNoWorker, PrefixKept
<1>8. LeaderInv'
  <2>1. pc'[0] = "stopped" /\ pc[0] \notin {"clear", "fortran", "body"}
    BY <1>2, <1>3, LeaderIsNoWorker DEF Running, StartPC
  <2>2. Last(0)' = Last(0) /\ ~Running(0)'
    BY <1>2, <1>3, LeaderIsNoWorker DEF Last
  <2> QED
    BY <1>1, <1>2, <2>1, <2>2 DEF LeaderInv, Entry
<1>9. LeaderInStep' /\ WorkerInv'
  BY <1>2, LeaderIsNoWorker DEF LeaderInStep, WorkerInv, WorkerPlace
<1>10. ReductionInv'
  <2>1. pc[0] # "reduce"
    BY <1>3, LeaderIsNoWorker DEF Running, StartPC
  <2> QED
    BY <1>1, <1>2, <2>1 DEF ReductionInv
<1>11. QED
  BY <1>4, <1>5, <1>6, <1>7, <1>8, <1>9, <1>10 DEF IInv

\* The startup.
LEMMA StartupKeeps ==
    ASSUME IInv, NEW r \in Rank, Startup(r)
    PROVE  IInv'
<1>1. Started(r) /\ TypeOK
  BY DEF IInv, StartInv
<1>2. CASE CheckPagesize(r)
  <2>1. pc[r] \in StartPC /\ Len(log[r]) = 0
    BY <1>1, <1>2, StartCallsAre DEF CheckPagesize, Started, StartPC
  <2>2. CASE Throws("pagesize", r) /\ UNCHANGED log
    BY <1>2, <2>2, CheckThrowsKeeps DEF CheckPagesize
  <2>3. CASE Call(r, "dup", 0) /\ GoTo(r, "dup") /\ UNCHANGED faults
    <3>1. "dup" \in Setup /\ "dup" \in StartPC /\ StartCalls["dup"] = 0 + 1
      BY StartCallsAre DEF Setup, StartPC
    <3>2. /\ (Len(log[r]) >= 1 => AllCalled(r)) /\ (Len(log[r]) = 0 => "dup" = "dup")
          /\ (Len(log[r]) = 1 => "dup" = "aslr") /\ (Len(log[r]) >= 2 => "dup" = "barrier")
          /\ StartCalls["dup"] = Len(log[r]) + 1
      BY <2>1, <3>1
    <3> QED
      BY <1>2, <2>1, <2>3, <3>1, <3>2, StartCallKeeps DEF CheckPagesize
  <2> QED
    BY <1>2, <2>2, <2>3 DEF CheckPagesize
<1>3. CASE CheckBinding(r)
  <2>1. pc[r] \in StartPC /\ Len(log[r]) = 1
    BY <1>1, <1>3, StartCallsAre DEF CheckBinding, Started, StartPC
  <2>2. CASE \E what \in {"binding", "personality"} : Throws(what, r) /\ UNCHANGED log
    <3>1. PICK what \in {"binding", "personality"} : Throws(what, r) /\ UNCHANGED log
      BY <2>2
    <3>2. pc[r] = (IF what = "pagesize" THEN "pagesize" ELSE "dup")
      BY <1>3 DEF CheckBinding
    <3> QED
      BY <1>3, <3>1, <3>2, CheckThrowsKeeps DEF CheckBinding
  <2>3. CASE Call(r, "aslr", 0) /\ GoTo(r, "aslr") /\
             (UNCHANGED faults \/ ("aslr" \in MayFail /\ Blame("aslr", r)))
    <3>1. "aslr" \in Setup /\ "aslr" \in StartPC /\ StartCalls["aslr"] = 1 + 1
      BY StartCallsAre DEF Setup, StartPC
    <3>2. /\ (Len(log[r]) >= 1 => AllCalled(r)) /\ (Len(log[r]) = 0 => "aslr" = "dup")
          /\ (Len(log[r]) = 1 => "aslr" = "aslr") /\ (Len(log[r]) >= 2 => "aslr" = "barrier")
          /\ StartCalls["aslr"] = Len(log[r]) + 1
      BY <2>1, <3>1, <1>3 DEF CheckBinding
    <3>3. UNCHANGED faults \/ ("aslr" = "aslr" /\ faults' = faults \union {<<"aslr", r>>})
      BY <2>3 DEF Blame
    <3> QED
      BY <1>3, <2>1, <2>3, <3>1, <3>2, <3>3, StartCallKeeps DEF CheckBinding
  <2> QED
    BY <1>3, <2>2, <2>3 DEF CheckBinding
<1>4. CASE CheckAslrDisabled(r)
  <2>1. CASE AllRankAslrDisabled
    BY <1>4, <2>1, ChecksPassedKeeps DEF CheckAslrDisabled
  <2>2. CASE ~AllRankAslrDisabled
    <3>1. pc[r] \in StartPC /\ Len(log[r]) = 2
      BY <1>1, <1>4, StartCallsAre DEF CheckAslrDisabled, Started, StartPC
    <3>2. "barrier" \in Setup /\ "report" \in StartPC /\ StartCalls["report"] = 2 + 1
      BY StartCallsAre DEF Setup, StartPC
    <3>3. /\ (Len(log[r]) >= 1 => AllCalled(r)) /\ (Len(log[r]) = 0 => "barrier" = "dup")
          /\ (Len(log[r]) = 1 => "barrier" = "aslr") /\ (Len(log[r]) >= 2 => "barrier" = "barrier")
          /\ StartCalls["report"] = Len(log[r]) + 1
      BY <3>1, <3>2, <1>4 DEF CheckAslrDisabled
    <3> QED
      BY <1>4, <2>2, <3>1, <3>2, <3>3, StartCallKeeps DEF CheckAslrDisabled
  <2> QED
    BY <2>1, <2>2
<1>5. CASE ReportAslr(r)
  <2>1. pc[r] \in StartPC /\ Len(log[r]) = 3 /\ ~AllRankAslrDisabled
    BY <1>1, <1>5, StartCallsAre DEF ReportAslr, Started, StartPC
  <2>2. "barrier" \in Setup /\ "barrier" \in StartPC /\ StartCalls["barrier"] = 3 + 1
    BY StartCallsAre DEF Setup, StartPC
  <2>3. /\ (Len(log[r]) >= 1 => AllCalled(r)) /\ (Len(log[r]) = 0 => "barrier" = "dup")
        /\ (Len(log[r]) = 1 => "barrier" = "aslr") /\ (Len(log[r]) >= 2 => "barrier" = "barrier")
        /\ StartCalls["barrier"] = Len(log[r]) + 1
    BY <2>1, <2>2, <1>5 DEF ReportAslr
  <2> QED
    BY <1>5, <2>1, <2>2, <2>3, StartCallKeeps DEF ReportAslr
<1>6. QED
  BY <1>2, <1>3, <1>4, <1>5, AbortKeeps DEF Startup

\* What every step of the leader past the startup does, but OpenRegion.
LeaderGoes(to) ==
    /\ Running(0) \/ (pc[0] = "finalize" /\ to = "stopped")
    /\ GoTo(0, to)
    /\ UNCHANGED <<kinds, region>>
    /\ inParallel' \in [Rank -> BOOLEAN]
    /\ begun' = begun \/ begun' = [begun EXCEPT ![0] = @ \union {region[0]}]
    /\ ended' = ended \/ ended' = [ended EXCEPT ![0] = @ \union {region[0]}]
    /\ UNCHANGED <<begun, ended>> \/ region[0] >= 1
    /\ faults' = faults \/ \E what \in {"send", "throw", "symbols"} : faults' = faults \union {<<what, 0>>}

LEMMA LeaderGoesQuietly ==
    ASSUME IInv, NEW to \in LeaderPC \ StartPC, LeaderGoes(to), UNCHANGED log
    PROVE  /\ TypeOK' /\ StartInv' /\ RegionInv' /\ GrammarInv' /\ WorkerInv' /\ ContributedInv'
           /\ pc'[0] = to /\ Last(0)' = Last(0) /\ Moves(0)
<1>1. TypeOK /\ StartInv /\ RegionInv /\ GrammarInv /\ WorkerInv /\ ContributedInv /\ 0 \in Rank
  BY LeaderIsNoWorker DEF IInv
<1>2. /\ pc'[0] = to /\ \A q \in Rank : q # 0 => pc'[q] = pc[q]
      /\ pc' \in [Rank -> LeaderPC \union WorkerPC]
  BY <1>1 DEF TypeOK, LeaderGoes, GoTo
<1>3. Moves(0)
  <2>1. \A q \in Rank : q # 0 => begun'[q] = begun[q] /\ ended'[q] = ended[q]
    BY <1>1 DEF TypeOK, LeaderGoes
  <2>2. ended[0] \subseteq ended'[0] /\ faults \subseteq faults'
    BY <1>1 DEF TypeOK, LeaderGoes
  <2> QED
    BY <1>2, <2>1, <2>2 DEF Moves, LeaderGoes
<1>4. faults' \subseteq Fault /\ \A f \in faults' : f \in faults \/ f[1] \notin Checks
  BY <1>1 DEF TypeOK, LeaderGoes, Fault, Checks, Throwing
<1>5. TypeOK'
  BY <1>1, <1>2, <1>4, TypeKept DEF TypeOK, LeaderGoes
<1>6. StartInv'
  <2>1. pc[0] \notin StartPC /\ pc'[0] \notin StartPC
    BY <1>2 DEF LeaderGoes, Running, StartPC
  <2>2. /\ Running(0)' => Running(0)
        /\ pc[0] \in {"finalize", "stopped"} => pc'[0] \in {"finalize", "stopped"}
    BY <1>2 DEF LeaderGoes, Running
  <2> QED
    BY <1>1, <1>3, <1>4, <2>1, <2>2, StartKept
<1>7. RegionInv' /\ Last(0)' = Last(0)
  BY <1>1 DEF RegionInv, LeaderGoes, Last
<1>8. UNCHANGED kinds /\ faults \subseteq faults'
  BY <1>3 DEF Moves, LeaderGoes
<1>9. GrammarInv' /\ WorkerInv' /\ ContributedInv'
  BY <1>1, <1>3, <1>8, GrammarKept, WorkersKept
<1>10. QED
  BY <1>2, <1>3, <1>5, <1>6, <1>7, <1>9

LEMMA LeaderGoesCalling ==
    ASSUME IInv, Running(0), NEW to \in LeaderPC \ StartPC, LeaderGoes(to), UNCHANGED faults,
           NEW c \in Op \ Setup, NEW k \in 0..Len(kinds), c # "exitTag" => k >= 1, Call(0, c, k),
           Meets(Last(0), Coll(c, k)), OutOfStep \/ c \in Successors(Last(0)),
           \A w \in Worker : Ahead(w) => Last(w) = Coll(c, k)
    PROVE  /\ TypeOK' /\ StartInv' /\ RegionInv' /\ GrammarInv' /\ WorkerInv' /\ ContributedInv'
           /\ PrefixInv' /\ pc'[0] = to /\ Last(0)' = Coll(c, k) /\ Moves(0)
<1>1. /\ TypeOK /\ StartInv /\ RegionInv /\ GrammarInv /\ PrefixInv /\ WorkerInv
      /\ ContributedInv /\ 0 \in Rank
  BY LeaderIsNoWorker DEF IInv
<1>2. /\ pc'[0] = to /\ \A q \in Rank : q # 0 => pc'[q] = pc[q]
      /\ pc' \in [Rank -> LeaderPC \union WorkerPC]
  BY <1>1 DEF TypeOK, LeaderGoes, GoTo
<1>3. Moves(0)
  <2>1. \A q \in Rank : q # 0 => begun'[q] = begun[q] /\ ended'[q] = ended[q]
    BY <1>1 DEF TypeOK, LeaderGoes
  <2>2. ended[0] \subseteq ended'[0] /\ faults \subseteq faults'
    BY <1>1 DEF TypeOK, LeaderGoes
  <2>3. \A q \in Rank : q # 0 => log'[q] = log[q]
    BY <1>1 DEF TypeOK, Call
  <2> QED
    BY <1>2, <2>1, <2>2, <2>3 DEF Moves, LeaderGoes
<1>4. pc'[0] \notin StartPC /\ UNCHANGED <<kinds, faults>>
  BY <1>2 DEF LeaderGoes
<1>5. StartInv' /\ RegionInv' /\ GrammarInv' /\ PrefixInv'
  BY <1>1, <1>3, <1>4, LeaderCalls
<1>6. log' \in [Rank -> Seq(Collective)] /\ Last(0)' = Coll(c, k)
  BY <1>1, <1>3, <1>4, RunningCalls
<1>7. TypeOK'
  BY <1>1, <1>2, <1>6, TypeKept DEF TypeOK, LeaderGoes
<1>8. WorkerInv' /\ ContributedInv'
  BY <1>1, <1>3, <1>4, WorkersKept
<1>9. QED
  BY <1>2, <1>3, <1>5, <1>6, <1>7, <1>8

\* Where the leader is tells that it is past the startup, and in a region.
LEMMA LeaderRuns ==
    ASSUME IInv, pc[0] \in LeaderPC \ (StartPC \union {"finalize", "stopped"})
    PROVE  /\ Running(0) /\ Len(log[0]) \in Nat /\ Len(log[0]) >= 2
           /\ pc[0] # "main" => region[0] \in 1..Len(kinds) /\ region[0] >= 1
           /\ region[0] \in 0..Len(kinds) /\ inParallel \in [Rank -> BOOLEAN] /\ 0 \in Rank
<1>1. Running(0)
  BY DEF Running
<1>2. TypeOK /\ StartInv /\ LeaderInv /\ 0 \in Rank
  BY LeaderIsNoWorker DEF IInv
<1>3. Len(log[0]) \in Nat /\ Len(log[0]) >= 2
  BY <1>1, <1>2, PastStartup
<1>4. region[0] \in 0..Len(kinds) /\ Len(kinds) \in Nat /\ inParallel \in [Rank -> BOOLEAN]
  BY <1>2 DEF TypeOK
<1>5. pc[0] # "main" => region[0] >= 1
  BY <1>1, <1>2 DEF LeaderInv
<1>6. QED
  BY <1>1, <1>2, <1>3, <1>4, <1>5

\* What is said of a leader that goes on within or out of a region without a call.
LEMMA QuietPlace ==
    ASSUME IInv, NEW to \in {"main", "bodyEnd", "refused", "finalize", "stopped", "fortran", "body"},
           Last(0)' = Last(0), UNCHANGED <<kinds, region>>, pc'[0] = to,
           Running(0), (\A w \in Worker : ~Ahead(w)) \/ to = "body",
           UNCHANGED log,
           to \in {"bodyEnd", "refused", "fortran", "body"} => region[0] >= 1,
           to = "fortran" => Fortran /\ inParallel'[0],
           pc[0] \in {"main", "serial", "refused"} =>
               /\ inParallel'[0] = inParallel[0]
               /\ to = "main" \/ (pc[0] = "refused" /\ region[0] \in begun[0]),
           pc[0] = "body" => Kind(0) # "reduce",
           to = "body" => ~Fortran,
           pc[0] = "clear" => to = IF Fortran THEN "fortran" ELSE "body",
           pc[0] # "fortran"
    PROVE  LeaderInv' /\ PrefixInv'
<1>1. LeaderInv /\ PrefixInv
  BY DEF IInv
<1>2. PrefixInv'
  BY <1>1, PrefixKept
<1>3. pc[0] = "clear" => Last(0).op = "context"
  BY <1>1 DEF LeaderInv, Coll
<1>4. LeaderInv'
  <2>1. Len(log[0]) >= 1 /\ Last(0).op = "context" /\ Fortran =>
          \/ pc'[0] = "fortran" /\ region[0] = Last(0).region
          \/ pc'[0] = "main" /\ inParallel'[0]
    BY <1>1 DEF LeaderInv, Running
  <2>2. Len(log[0]) >= 1 /\ Last(0).op = BodyOp /\ kinds[Last(0).region] = "reduce" =>
          pc'[0] \in {"clear", "body"} /\ region[0] = Last(0).region
    <3>1. SUFFICES ASSUME Len(log[0]) >= 1, Last(0).op = BodyOp, kinds[Last(0).region] = "reduce"
                   PROVE  pc'[0] \in {"clear", "body"} /\ region[0] = Last(0).region
      OBVIOUS
    <3>2. pc[0] \in {"clear", "body"} /\ region[0] = Last(0).region
      BY <1>1, <3>1 DEF LeaderInv
    <3>3. pc[0] = "clear"
      BY <3>1, <3>2 DEF Kind
    <3> QED
      BY <1>3, <3>1, <3>2, <3>3 DEF BodyOp
  <2>3. pc'[0] \notin Entry \union {"clear", "reduce", "serial"}
    BY DEF Entry
  <2>4. Running(0)' /\ pc'[0] # "main" => region[0] >= 1
    BY DEF Running
  <2> QED
    BY <1>1, <2>1, <2>2, <2>3, <2>4 DEF LeaderInv
<1>5. QED
  BY <1>2, <1>4

\* The leader goes on where no reduction is under way.
LEMMA ReductionKept ==
    ASSUME ReductionInv, UNCHANGED <<kinds, region>>, Moves(0), pc[0] # "reduce",
           \A k \in ended'[0] : \/ k \in ended[0]
                               \/ (k = region[0] /\ (Kind(0) # "reduce" \/ pc'[0] = "reduce"))
    PROVE  ReductionInv'
<1>1. \A w \in Worker : ended'[w] = ended[w]
  BY LeaderIsNoWorker DEF Moves
<1>2. QED
  BY <1>1 DEF ReductionInv, Kind

\* The faults of a step that has none.
LEMMA StepsKept ==
    ASSUME UNCHANGED faults, (OutOfStep \/ LeaderInStep), LeaderInStep => LeaderInStep'
    PROVE  (OutOfStep \/ LeaderInStep)'
  BY DEF OutOfStep, Happened

LEMMA RefusedKeeps == ASSUME IInv, Refused PROVE IInv'
<1> DEFINE to == IF region[0] \in begun[0] THEN "bodyEnd" ELSE "main"
<1>1. pc[0] = "refused" /\ GoTo(0, to) /\ UNCHANGED <<log, kinds, region, inParallel, begun, ended, faults>>
  BY DEF Refused
<1>2. to \in LeaderPC \ StartPC /\ to \in {"bodyEnd", "main"} /\ (to = "main" \/ region[0] \in begun[0])
  BY DEF LeaderPC, StartPC
<1> HIDE DEF to
<1>3. /\ Running(0) /\ Len(log[0]) >= 2 /\ region[0] >= 1 /\ inParallel' \in [Rank -> BOOLEAN]
  BY <1>1, LeaderRuns DEF LeaderPC, StartPC
<1>4. LeaderGoes(to)
  BY <1>1, <1>3 DEF LeaderGoes
<1>5. /\ TypeOK' /\ StartInv' /\ RegionInv' /\ GrammarInv' /\ WorkerInv' /\ ContributedInv'
      /\ pc'[0] = to /\ Last(0)' = Last(0) /\ Moves(0)
  BY <1>1, <1>2, <1>4, LeaderGoesQuietly
<1>6. LeaderInv' /\ PrefixInv'
  <2>1. \A w \in Worker : ~Ahead(w)
    BY <1>1, <1>3, InLockstep DEF IInv
  <2> QED
    BY <1>1, <1>2, <1>3, <1>5, <2>1, QuietPlace
<1>7. (OutOfStep \/ LeaderInStep)'
  <2>1. Closed(Last(0))' <=> Closed(Last(0))
    BY <1>1, <1>5 DEF Closed, Successors, AfterBody
  <2>2. LeaderInStep => LeaderInStep'
    BY <1>1, <1>5, <2>1 DEF LeaderInStep, Kind, to
  <2> QED
    BY <1>1, <2>2, StepsKept DEF IInv
<1>8. ReductionInv'
  BY <1>1, <1>5, ReductionKept DEF IInv
<1>9. QED
  BY <1>5, <1>6, <1>7, <1>8 DEF IInv

LEMMA SerialBodyKeeps == ASSUME IInv, SerialBody PROVE IInv'
<1>1. /\ pc[0] = "serial" /\ GoTo(0, "main") /\ UNCHANGED <<log, kinds, region, inParallel, faults>>
      /\ begun' = [begun EXCEPT ![0] = @ \union {region[0]}]
      /\ ended' = [ended EXCEPT ![0] = @ \union {region[0]}]
  BY DEF SerialBody
<1>2. "main" \in LeaderPC \ StartPC
  BY DEF LeaderPC, StartPC
<1>3. /\ Running(0) /\ Len(log[0]) >= 2 /\ region[0] >= 1 /\ inParallel' \in [Rank -> BOOLEAN]
  BY <1>1, LeaderRuns DEF LeaderPC, StartPC
<1>4. LeaderGoes("main")
  BY <1>1, <1>3 DEF LeaderGoes
<1>5. /\ TypeOK' /\ StartInv' /\ RegionInv' /\ GrammarInv' /\ WorkerInv' /\ ContributedInv'
      /\ pc'[0] = "main" /\ Last(0)' = Last(0) /\ Moves(0)
  BY <1>1, <1>2, <1>4, LeaderGoesQuietly
<1>6. LeaderInv' /\ PrefixInv'
  <2>1. \A w \in Worker : ~Ahead(w)
    BY <1>1, <1>3, InLockstep DEF IInv
  <2> QED
    BY <1>1, <1>3, <1>5, <2>1, QuietPlace
<1>7. (OutOfStep \/ LeaderInStep)'
  <2>1. Closed(Last(0))' <=> Closed(Last(0))
    BY <1>1, <1>5 DEF Closed, Successors, AfterBody
  <2>2. LeaderInStep => LeaderInStep'
    BY <1>1, <1>5, <2>1 DEF LeaderInStep
  <2> QED
    BY <1>1, <2>2, StepsKept DEF IInv
<1>8. ReductionInv'
  <2>1. Kind(0) # "reduce"
    BY <1>1 DEF IInv, LeaderInv
  <2>2. \A k \in ended'[0] : k \in ended[0] \/ k = region[0]
    BY <1>1 DEF IInv, TypeOK
  <2> QED
    BY <1>1, <1>5, <2>1, <2>2, ReductionKept DEF IInv
<1>9. QED
  BY <1>5, <1>6, <1>7, <1>8 DEF IInv

LEMMA SendKeeps == ASSUME IInv, NEW c \in Entry, Send(c) PROVE IInv'
<1> DEFINE to == AfterSend(c)
<1>1. pc[0] = c /\ GoTo(0, to) /\ Call(0, c, region[0]) /\ UNCHANGED <<kinds, region, inParallel, begun, ended, faults>>
  BY DEF Send
<1>2. to \in LeaderPC \ StartPC /\ c \in Op \ Setup /\ c # "exitTag"
  BY DEF AfterSend, Entry, LeaderPC, StartPC, Op, Setup
<1>3. /\ Running(0) /\ Len(log[0]) >= 2 /\ region[0] >= 1 /\ inParallel' \in [Rank -> BOOLEAN]
      /\ region[0] \in 0..Len(kinds)
  BY <1>1, LeaderRuns DEF LeaderPC, StartPC, Entry
<1>s. /\ c = "enterTag" => to = "memOps"
      /\ c = "memOps" => to = "stack"
      /\ c = "stack" => to = "heap"
      /\ c = "heap" => to = "context"
      /\ c = "context" => to = "clear"
  BY DEF AfterSend
<1> HIDE DEF to
<1>4. LeaderGoes(to)
  BY <1>1, <1>3 DEF LeaderGoes
<1>5. Meets(Last(0), Coll(c, region[0]))
  <2>1. c # "enterTag" => Last(0) = Coll(Before(c), region[0])
    BY <1>1 DEF IInv, LeaderInv
  <2>2. ~(Last(0).op = "context" /\ Fortran) /\ ~(Last(0).op = BodyOp /\ kinds[Last(0).region] = "reduce")
    BY <1>1, <1>3 DEF IInv, LeaderInv, Entry
  <2> QED
    BY <2>1, <2>2 DEF Meets, Coll
<1>6. OutOfStep \/ c \in Successors(Last(0))
  <2>1. CASE c = "enterTag"
    BY <1>1, <2>1 DEF IInv, LeaderInStep, Closed
  <2>2. CASE c # "enterTag"
    BY <1>1, <2>2 DEF IInv, LeaderInv, Successors, Before, Coll, Entry
  <2> QED
    BY <2>1, <2>2
<1>7. \A w \in Worker : ~Ahead(w)
  BY <1>1, <1>3, InLockstep DEF IInv, Entry
<1>8. /\ TypeOK' /\ StartInv' /\ RegionInv' /\ GrammarInv' /\ WorkerInv' /\ ContributedInv'
      /\ PrefixInv' /\ pc'[0] = to /\ Last(0)' = Coll(c, region[0]) /\ Moves(0)
  BY <1>1, <1>2, <1>3, <1>4, <1>5, <1>6, <1>7, LeaderGoesCalling
<1>9. LeaderInv'
  <2>1. to \in Entry \ {"enterTag"} => c = Before(to)
    BY <1>s DEF Before, Entry
  <2>2. to \in {"memOps", "stack", "heap", "context", "clear"} /\ (to = "clear" <=> c = "context")
    BY <1>s DEF Entry
  <2>3. BodyOp \in {"fortran", "context"}
    BY DEF BodyOp
  <2>5. inParallel'[0]
    BY <1>1 DEF IInv, LeaderInv
  <2>4. Last(0)'.op = c /\ Last(0)'.region = region[0] /\ c # "fortran"
    BY <1>8 DEF Coll, Entry
  <2> QED
    BY <1>1, <1>3, <1>8, <2>1, <2>2, <2>3, <2>4, <2>5 DEF LeaderInv, BodyOp
<1>10. LeaderInStep'
  BY <1>8, <1>s DEF LeaderInStep, Entry
<1>11. ReductionInv'
  BY <1>1, <1>8, ReductionKept DEF IInv, Entry
<1>12. QED
  BY <1>8, <1>9, <1>10, <1>11 DEF IInv

LEMMA ClearSoftDirtyKeeps == ASSUME IInv, ClearSoftDirty \/ SendFails PROVE IInv'
<1> DEFINE to == IF Fortran THEN "fortran" ELSE "body"
<1>1. /\ pc[0] \in {"enterTag", "memOps", "stack", "heap", "context", "clear"}
      /\ GoTo(0, to) /\ UNCHANGED <<log, kinds, region, inParallel, ended>>
      /\ begun' = IF Fortran THEN begun ELSE [begun EXCEPT ![0] = @ \union {region[0]}]
      /\ \/ pc[0] = "clear" /\ UNCHANGED faults
         \/ faults' = faults \union {<<"send", 0>>}
  BY DEF ClearSoftDirty, SendFails, Resume, BeginBody, Blame
<1>2. to \in LeaderPC \ StartPC /\ to = IF Fortran THEN "fortran" ELSE "body"
  BY DEF LeaderPC, StartPC
<1> HIDE DEF to
<1>3. /\ Running(0) /\ Len(log[0]) >= 2 /\ region[0] >= 1 /\ inParallel' \in [Rank -> BOOLEAN]
  BY <1>1, LeaderRuns DEF LeaderPC, StartPC
<1>4. LeaderGoes(to)
  BY <1>1, <1>3 DEF LeaderGoes
<1>5. /\ TypeOK' /\ StartInv' /\ RegionInv' /\ GrammarInv' /\ WorkerInv' /\ ContributedInv'
      /\ pc'[0] = to /\ Last(0)' = Last(0) /\ Moves(0)
  BY <1>1, <1>2, <1>4, LeaderGoesQuietly
<1>p. inParallel'[0]
  BY <1>1 DEF IInv, LeaderInv, Entry
<1>6. LeaderInv' /\ PrefixInv'
  <2>1. CASE Fortran
    <3>1. pc[0] = "clear" => Last(0).op # BodyOp
      BY <2>1 DEF IInv, LeaderInv, Coll, BodyOp
    <3>2. \A w \in Worker : ~Ahead(w)
      BY <1>1, <1>3, <3>1, InLockstep DEF IInv
    <3> QED
      BY <1>1, <1>2, <1>3, <1>5, <1>p, <2>1, <3>2, QuietPlace
  <2>2. CASE ~Fortran
    BY <1>1, <1>2, <1>3, <1>5, <1>p, <2>2, QuietPlace
  <2> QED
    BY <2>1, <2>2
<1>7. (OutOfStep \/ LeaderInStep)'
  <2>1. CASE pc[0] = "clear" /\ UNCHANGED faults
    <3>1. Last(0) = Coll("context", region[0])
      BY <2>1 DEF IInv, LeaderInv
    <3>2. ~Fortran => region'[0] \in begun'[0] /\ Coll(BodyOp, region[0]) = Coll("context", region[0])
      BY <1>1, LeaderIsNoWorker DEF IInv, TypeOK, BodyOp
    <3> QED
      BY <1>1, <1>2, <1>5, <3>1, <3>2 DEF LeaderInStep
  <2>2. CASE faults' = faults \union {<<"send", 0>>}
    <3>1. <<"send", 0>> \in faults' /\ <<"send", 0>>[1] \in {"send", "nested", "symbols"}
      BY <2>2
    <3> QED
      BY <3>1 DEF OutOfStep, Happened
  <2> QED
    BY <1>1, <2>1, <2>2
<1>8. ReductionInv'
  BY <1>1, <1>5, ReductionKept DEF IInv
<1>9. QED
  BY <1>5, <1>6, <1>7, <1>8 DEF IInv

LEMMA LeaderFortranKeeps == ASSUME IInv, LeaderFortran PROVE IInv'
<1>1. /\ pc[0] = "fortran" /\ GoTo(0, "body") /\ Call(0, "fortran", region[0])
      /\ begun' = [begun EXCEPT ![0] = @ \union {region[0]}]
      /\ UNCHANGED <<kinds, region, inParallel, ended, faults>>
  BY DEF LeaderFortran, BeginBody
<1>2. "body" \in LeaderPC \ StartPC /\ "fortran" \in Op \ Setup /\ "fortran" # "exitTag"
  BY DEF LeaderPC, StartPC, Op, Setup
<1>3. /\ Running(0) /\ Len(log[0]) >= 2 /\ region[0] >= 1 /\ inParallel' \in [Rank -> BOOLEAN]
      /\ region[0] \in 0..Len(kinds)
  BY <1>1, LeaderRuns DEF LeaderPC, StartPC
<1>4. LeaderGoes("body") /\ Fortran
  BY <1>1, <1>3 DEF LeaderGoes, IInv, LeaderInv
<1>5. Meets(Last(0), Coll("fortran", region[0]))
  <2>1. Last(0).op = "context" => region[0] = Last(0).region
    BY <1>1, <1>3, <1>4 DEF IInv, LeaderInv
  <2>2. ~(Last(0).op = BodyOp /\ kinds[Last(0).region] = "reduce")
    BY <1>1, <1>3 DEF IInv, LeaderInv
  <2> QED
    BY <2>1, <2>2 DEF Meets, Coll, Entry
<1>6. OutOfStep \/ "fortran" \in Successors(Last(0))
  BY <1>1, <1>4 DEF IInv, LeaderInStep, Successors, Coll
<1>7. \A w \in Worker : ~Ahead(w)
  BY <1>1, <1>3, InLockstep DEF IInv
<1>8. /\ TypeOK' /\ StartInv' /\ RegionInv' /\ GrammarInv' /\ WorkerInv' /\ ContributedInv'
      /\ PrefixInv' /\ pc'[0] = "body" /\ Last(0)' = Coll("fortran", region[0]) /\ Moves(0)
  BY <1>1, <1>2, <1>3, <1>4, <1>5, <1>6, <1>7, LeaderGoesCalling
<1>9. LeaderInv'
  BY <1>1, <1>3, <1>8 DEF LeaderInv, Coll, Entry
<1>10. (OutOfStep \/ LeaderInStep)'
  <2>1. region'[0] \in begun'[0]
    BY <1>1, LeaderIsNoWorker DEF IInv, TypeOK
  <2> QED
    BY <1>1, <1>4, <1>8, <2>1 DEF LeaderInStep, BodyOp
<1>11. ReductionInv'
  BY <1>1, <1>8, ReductionKept DEF IInv
<1>12. QED
  BY <1>8, <1>9, <1>10, <1>11 DEF IInv

LEMMA LeaderSymbolsFailKeeps == ASSUME IInv, LeaderSymbolsFail PROVE IInv'
<1>1. /\ pc[0] = "fortran" /\ GoTo(0, "main") /\ faults' = faults \union {<<"symbols", 0>>}
      /\ UNCHANGED <<log, kinds, region, inParallel, begun, ended>>
  BY DEF LeaderSymbolsFail, Blame
<1>2. "main" \in LeaderPC \ StartPC
  BY DEF LeaderPC, StartPC
<1>3. Running(0) /\ Len(log[0]) >= 2 /\ region[0] >= 1 /\ inParallel' \in [Rank -> BOOLEAN]
  BY <1>1, LeaderRuns DEF LeaderPC, StartPC
<1>4. LeaderGoes("main")
  BY <1>1, <1>3 DEF LeaderGoes
<1>5. /\ TypeOK' /\ StartInv' /\ RegionInv' /\ GrammarInv' /\ WorkerInv' /\ ContributedInv'
      /\ pc'[0] = "main" /\ Last(0)' = Last(0) /\ Moves(0)
  BY <1>1, <1>2, <1>4, LeaderGoesQuietly
<1>6. LeaderInv'
  <2>1. inParallel'[0] /\ ~(Last(0).op = BodyOp /\ kinds[Last(0).region] = "reduce")
    BY <1>1, <1>3 DEF IInv, LeaderInv
  <2> QED
    BY <1>1, <1>5, <2>1 DEF LeaderInv, Entry
<1>7. PrefixInv'
  <2>1. \A w \in Worker : ~Ahead(w)
    BY <1>1, <1>3, InLockstep DEF IInv
  <2> QED
    BY <1>1, <2>1, PrefixKept DEF IInv
<1>8. OutOfStep'
  <2>1. <<"symbols", 0>> \in faults' /\ <<"symbols", 0>>[1] \in {"send", "nested", "symbols"}
    BY <1>1
  <2> QED
    BY <2>1 DEF OutOfStep, Happened
<1>9. ReductionInv'
  BY <1>1, <1>5, ReductionKept DEF IInv
<1>10. QED
  BY <1>5, <1>6, <1>7, <1>8, <1>9 DEF IInv

LEMMA LeaderOpensInnerKeeps == ASSUME IInv, LeaderOpensInner PROVE IInv'
<1>1. /\ pc[0] = "body" /\ Kind(0) = "nested" /\ GoTo(0, "refused")
      /\ UNCHANGED <<log, kinds, region, inParallel, begun, ended, faults>>
  BY DEF LeaderOpensInner
<1>2. "refused" \in LeaderPC \ StartPC
  BY DEF LeaderPC, StartPC
<1>3. /\ Running(0) /\ Len(log[0]) >= 2 /\ region[0] >= 1 /\ inParallel' \in [Rank -> BOOLEAN]
  BY <1>1, LeaderRuns DEF LeaderPC, StartPC
<1>4. LeaderGoes("refused")
  BY <1>1, <1>3 DEF LeaderGoes
<1>5. /\ TypeOK' /\ StartInv' /\ RegionInv' /\ GrammarInv' /\ WorkerInv' /\ ContributedInv'
      /\ pc'[0] = "refused" /\ Last(0)' = Last(0) /\ Moves(0)
  BY <1>1, <1>2, <1>4, LeaderGoesQuietly
<1>6. LeaderInv' /\ PrefixInv'
  <2>1. \A w \in Worker : ~Ahead(w)
    BY <1>1, <1>3, InLockstep DEF IInv
  <2> QED
    BY <1>1, <1>3, <1>5, <2>1, QuietPlace
<1>7. (OutOfStep \/ LeaderInStep)'
  <2>1. LeaderInStep => LeaderInStep'
    BY <1>1, <1>5 DEF LeaderInStep, Kind
  <2> QED
    BY <1>1, <2>1, StepsKept DEF IInv
<1>8. ReductionInv'
  BY <1>1, <1>5, ReductionKept DEF IInv
<1>9. QED
  BY <1>5, <1>6, <1>7, <1>8 DEF IInv

\* The exit tag, sent from main or from the body of a region.
LEMMA ExitTagKeeps ==
    ASSUME IInv, LeaderCallsExit \/ MainReturns
    PROVE  IInv'
<1> DEFINE k == IF pc[0] = "main" THEN 0 ELSE region[0]
<1>1. /\ pc[0] = "main" \/ (pc[0] = "body" /\ Kind(0) = "exit")
      /\ GoTo(0, "finalize") /\ Call(0, "exitTag", k)
      /\ \/ UNCHANGED ended
         \/ pc[0] = "body" /\ ended' = [ended EXCEPT ![0] = @ \union {region[0]}]
      /\ UNCHANGED <<kinds, region, inParallel, begun, faults>>
  BY DEF LeaderCallsExit, MainReturns
<1>2. "finalize" \in LeaderPC \ StartPC /\ "exitTag" \in Op \ Setup
  BY DEF LeaderPC, StartPC, Op, Setup
<1>3. /\ Running(0) /\ Len(log[0]) >= 2 /\ (pc[0] # "main" => region[0] >= 1)
      /\ inParallel' \in [Rank -> BOOLEAN] /\ k \in 0..Len(kinds)
  <2>1. pc[0] \in LeaderPC \ (StartPC \union {"finalize", "stopped"})
    BY <1>1 DEF LeaderPC, StartPC
  <2>2. 0 \in 0..Len(kinds)
    BY DEF IInv, TypeOK
  <2> QED
    BY <1>1, <2>1, <2>2, LeaderRuns
<1> HIDE DEF k
<1>4. LeaderGoes("finalize")
  BY <1>1, <1>3 DEF LeaderGoes
<1>5. Meets(Last(0), Coll("exitTag", k))
  <2>1. ~(Last(0).op = BodyOp /\ kinds[Last(0).region] = "reduce")
    BY <1>1, <1>3 DEF IInv, LeaderInv, Kind
  <2> QED
    BY <2>1 DEF Meets, Coll, Entry
<1>6. OutOfStep \/ "exitTag" \in Successors(Last(0))
  <2>1. CASE pc[0] = "main"
    BY <2>1 DEF IInv, LeaderInStep, Closed
  <2>2. CASE pc[0] = "body" /\ Kind(0) = "exit"
    <3>1. OutOfStep \/ Last(0) = Coll(BodyOp, region[0])
      BY <2>2 DEF IInv, LeaderInStep
    <3>2. "exitTag" \in Successors(Coll(BodyOp, region[0]))
      BY <2>2 DEF Successors, AfterBody, Coll, BodyOp, Kind
    <3> QED
      BY <3>1, <3>2
  <2> QED
    BY <1>1, <2>1, <2>2
<1>7. \A w \in Worker : ~Ahead(w)
  BY <1>1, <1>3, InLockstep DEF IInv
<1>8. /\ TypeOK' /\ StartInv' /\ RegionInv' /\ GrammarInv' /\ WorkerInv' /\ ContributedInv'
      /\ PrefixInv' /\ pc'[0] = "finalize" /\ Last(0)' = Coll("exitTag", k) /\ Moves(0)
  BY <1>1, <1>2, <1>3, <1>4, <1>5, <1>6, <1>7, LeaderGoesCalling
<1>9. LeaderInv'
  BY <1>8 DEF LeaderInv, Coll, Entry, Running, BodyOp
<1>10. LeaderInStep'
  BY <1>8 DEF LeaderInStep
<1>11. ReductionInv'
  <2>1. \A j \in ended'[0] : j \in ended[0] \/ (j = region[0] /\ Kind(0) # "reduce")
    BY <1>1 DEF IInv, TypeOK
  <2> QED
    BY <1>1, <1>8, <2>1, ReductionKept DEF IInv
<1>12. QED
  BY <1>8, <1>9, <1>10, <1>11 DEF IInv

LEMMA LeaderExitKeeps == ASSUME IInv, LeaderExit PROVE IInv'
<1>1. /\ pc[0] = "bodyEnd" \/ (pc[0] = "body" /\ Kind(0) \notin {"nested", "exit"})
      /\ ended' = [ended EXCEPT ![0] = @ \union {region[0]}]
      /\ inParallel' = [inParallel EXCEPT ![0] = FALSE]
      /\ UNCHANGED <<kinds, region, begun, faults>>
  BY DEF LeaderExit
<1>2. {"main", "reduce"} \subseteq LeaderPC \ StartPC /\ "reduce" \in Op \ Setup /\ "reduce" # "exitTag"
  BY DEF LeaderPC, StartPC, Op, Setup
<1>3. /\ Running(0) /\ Len(log[0]) >= 2 /\ region[0] >= 1 /\ inParallel' \in [Rank -> BOOLEAN]
      /\ region[0] \in 0..Len(kinds)
  <2>1. pc[0] \in LeaderPC \ (StartPC \union {"finalize", "stopped"}) /\ pc[0] # "main"
    BY <1>1 DEF LeaderPC, StartPC
  <2> QED
    BY <1>1, <2>1, LeaderRuns
<1>4. /\ OutOfStep \/ Last(0) = Coll(BodyOp, region[0])
      /\ OutOfStep \/ pc[0] = "body" \/ Kind(0) = "nested"
  BY <1>1 DEF IInv, LeaderInStep
<1>5. \A k \in ended'[0] : k \in ended[0] \/ k = region[0]
  BY <1>1 DEF IInv, TypeOK
<1>6. CASE Kind(0) \in {"reduce", "badType"}
  <2>1. Call(0, "reduce", region[0]) /\ GoTo(0, "reduce")
    BY <1>6 DEF LeaderExit
  <2>2. LeaderGoes("reduce")
    BY <1>1, <1>3, <2>1 DEF LeaderGoes
  <2>3. Meets(Last(0), Coll("reduce", region[0]))
    <3>1. ~(Last(0).op = "context" /\ Fortran)
      BY <1>1, <1>3 DEF IInv, LeaderInv
    <3>2. Last(0).op = BodyOp /\ kinds[Last(0).region] = "reduce" => region[0] = Last(0).region
      BY <1>1, <1>3 DEF IInv, LeaderInv
    <3> QED
      BY <3>1, <3>2 DEF Meets, Coll, Entry
  <2>4. OutOfStep \/ "reduce" \in Successors(Last(0))
    <3>1. "reduce" \in Successors(Coll(BodyOp, region[0]))
      BY <1>6 DEF Successors, AfterBody, Coll, BodyOp, Kind
    <3> QED
      BY <1>4, <3>1
  <2>5. \A w \in Worker : Ahead(w) => Last(w) = Coll("reduce", region[0])
    BY <1>3 DEF IInv, PrefixInv, Prefix, MayBeAhead
  <2>6. /\ TypeOK' /\ StartInv' /\ RegionInv' /\ GrammarInv' /\ WorkerInv' /\ ContributedInv'
        /\ PrefixInv' /\ pc'[0] = "reduce" /\ Last(0)' = Coll("reduce", region[0]) /\ Moves(0)
    BY <1>1, <1>2, <1>3, <2>1, <2>2, <2>3, <2>4, <2>5, LeaderGoesCalling
  <2>7. LeaderInv'
    BY <1>1, <1>3, <2>6 DEF LeaderInv, Coll, Entry, BodyOp
  <2>8. LeaderInStep'
    BY <2>6 DEF LeaderInStep
  <2>9. ReductionInv'
    BY <1>1, <1>5, <2>6, ReductionKept DEF IInv
  <2> QED
    BY <2>6, <2>7, <2>8, <2>9 DEF IInv
<1>7. CASE Kind(0) \notin {"reduce", "badType"}
  <2>1. UNCHANGED log /\ GoTo(0, "main")
    BY <1>7 DEF LeaderExit
  <2>2. LeaderGoes("main")
    BY <1>1, <1>3, <2>1 DEF LeaderGoes
  <2>3. /\ TypeOK' /\ StartInv' /\ RegionInv' /\ GrammarInv' /\ WorkerInv' /\ ContributedInv'
        /\ pc'[0] = "main" /\ Last(0)' = Last(0) /\ Moves(0)
    BY <1>2, <2>1, <2>2, LeaderGoesQuietly
  <2>4. LeaderInv' /\ PrefixInv'
    <3>1. \A w \in Worker : ~Ahead(w)
      BY <1>3, <1>7, InLockstep DEF IInv
    <3> QED
      BY <1>1, <1>3, <1>7, <2>1, <2>3, <3>1, QuietPlace
  <2>5. (OutOfStep \/ LeaderInStep)'
    <3>1. OutOfStep \/ Kind(0) # "exit"
      BY <1>1, <1>4
    <3>2. Kind(0) # "exit" => Closed(Coll(BodyOp, region[0]))
      BY <1>7 DEF Closed, Successors, AfterBody, Coll, BodyOp, Kind
    <3>3. Closed(Last(0))' <=> Closed(Last(0))
      BY <1>1, <2>3 DEF Closed, Successors, AfterBody
    <3>4. ~OutOfStep => LeaderInStep'
      BY <1>4, <2>3, <3>1, <3>2, <3>3 DEF LeaderInStep
    <3> QED
      BY <1>1, <3>4 DEF OutOfStep, Happened
  <2>6. ReductionInv'
    BY <1>1, <1>5, <1>7, <2>3, ReductionKept DEF IInv
  <2> QED
    BY <2>3, <2>4, <2>5, <2>6 DEF IInv
<1>8. QED
  BY <1>6, <1>7

LEMMA LeaderReducedKeeps == ASSUME IInv, LeaderReduced PROVE IInv'
<1>1. /\ pc[0] = "reduce" /\ GoTo(0, "main")
      /\ \A w \in Worker : Len(log[w]) >= Len(log[0]) /\ log[w][Len(log[0])].op = "reduce"
      /\ UNCHANGED <<log, kinds, region, inParallel, begun, ended, faults>>
  BY DEF LeaderReduced
<1>2. "main" \in LeaderPC \ StartPC
  BY DEF LeaderPC, StartPC
<1>3. /\ Running(0) /\ Len(log[0]) >= 2 /\ Len(log[0]) \in Nat /\ region[0] >= 1
      /\ inParallel' \in [Rank -> BOOLEAN]
  BY <1>1, LeaderRuns DEF LeaderPC, StartPC
<1>4. LeaderGoes("main")
  BY <1>1, <1>3 DEF LeaderGoes
<1>5. /\ TypeOK' /\ StartInv' /\ RegionInv' /\ GrammarInv' /\ WorkerInv' /\ ContributedInv'
      /\ pc'[0] = "main" /\ Last(0)' = Last(0) /\ Moves(0)
  BY <1>1, <1>2, <1>4, LeaderGoesQuietly
<1>6. LeaderInv' /\ PrefixInv'
  <2>1. \A w \in Worker : ~Ahead(w)
    BY <1>1, <1>3, InLockstep DEF IInv
  <2> QED
    BY <1>1, <1>3, <1>5, <2>1, QuietPlace
<1>7. Last(0) = Coll("reduce", region[0])
  BY <1>1 DEF IInv, LeaderInv
<1>8. LeaderInStep'
  <2>1. Closed(Last(0))'
    <3>1. Closed(Last(0))
      <4>1. Closed(Coll("reduce", region[0]))
        BY DEF Closed, Successors, Coll
      <4> QED
        BY <1>7, <4>1
    <3>2. Closed(Last(0))' <=> Closed(Last(0))
      BY <1>1, <1>5 DEF Closed, Successors, AfterBody
    <3> QED
      BY <3>1, <3>2
  <2> QED
    BY <1>5, <2>1 DEF LeaderInStep
<1>9. ReductionInv'
  <2>1. \A w \in Worker : region[0] \in ended[w]
    <3>1. TAKE w \in Worker
    <3>2. Len(log[w]) \in Nat /\ Prefix(w)
      BY LeaderIsNoWorker DEF IInv, TypeOK, PrefixInv
    <3>3. Len(log[0]) \in 1..Len(log[w])
      BY <1>1, <1>3, <3>2
    <3>4. log[w][Len(log[0])] = Coll("reduce", region[0])
      BY <1>3, <1>7, <3>2, <3>3 DEF Prefix, Last
    <3> QED
      BY <3>3, <3>4 DEF IInv, ContributedInv, Coll
  <2> QED
    BY <1>1, <2>1 DEF IInv, ReductionInv
<1>10. QED
  BY <1>5, <1>6, <1>8, <1>9 DEF IInv

LEMMA MainThrowsKeeps == ASSUME IInv, MainThrows \/ Finalize(0) PROVE IInv'
<1> DEFINE to == IF pc[0] = "main" THEN "finalize" ELSE "stopped"
<1>1. /\ pc[0] \in {"main", "finalize"} /\ GoTo(0, to)
      /\ UNCHANGED <<log, kinds, region, inParallel, begun, ended>>
      /\ faults' = faults \/ faults' = faults \union {<<"throw", 0>>}
  BY DEF MainThrows, Finalize, Blame
<1>2. to \in LeaderPC \ StartPC /\ to \in {"finalize", "stopped"}
  BY DEF LeaderPC, StartPC
<1>3. (pc[0] = "main" => Running(0)) /\ (pc[0] # "main" => to = "stopped") /\ inParallel' \in [Rank -> BOOLEAN]
  BY <1>1 DEF Running, StartPC, IInv, TypeOK
<1> HIDE DEF to
<1>4. LeaderGoes(to)
  BY <1>1, <1>3 DEF LeaderGoes
<1>5. /\ TypeOK' /\ StartInv' /\ RegionInv' /\ GrammarInv' /\ WorkerInv' /\ ContributedInv'
      /\ pc'[0] = to /\ Last(0)' = Last(0) /\ Moves(0)
  BY <1>1, <1>2, <1>4, LeaderGoesQuietly
<1>6. PrefixInv'
  <2>1. CASE pc[0] = "main"
    <3>1. \A w \in Worker : ~Ahead(w)
      BY <1>3, <2>1, InLockstep DEF IInv
    <3> QED
      BY <1>1, <3>1, PrefixKept DEF IInv
  <2>2. CASE pc[0] # "main"
    <3>1. ~Running(0) /\ ~Running(0)'
      BY <1>1, <1>2, <1>5, <2>2 DEF Running
    <3> QED
      BY <1>1, <3>1, PrefixKept DEF IInv
  <2> QED
    BY <2>1, <2>2
<1>7. LeaderInv'
  <2>1. ~(Len(log[0]) >= 1 /\ Last(0).op = BodyOp /\ kinds[Last(0).region] = "reduce")
    BY <1>1 DEF IInv, LeaderInv
  <2> QED
    BY <1>1, <1>2, <1>5, <2>1 DEF LeaderInv, Running, Entry
<1>8. LeaderInStep'
  BY <1>2, <1>5 DEF LeaderInStep
<1>9. ReductionInv'
  BY <1>1, <1>5, ReductionKept DEF IInv
<1>10. QED
  BY <1>5, <1>6, <1>7, <1>8, <1>9 DEF IInv

\* A region is opened: what is said of the calls does not change.
LEMMA OpenRegionKeeps == ASSUME IInv, OpenRegion PROVE IInv'
<1>1. /\ TypeOK /\ StartInv /\ RegionInv /\ GrammarInv /\ PrefixInv /\ WorkerInv /\ LeaderInv
      /\ ContributedInv /\ ReductionInv /\ (OutOfStep \/ LeaderInStep) /\ 0 \in Rank
  BY LeaderIsNoWorker DEF IInv
<1>2. pc[0] = "main" /\ Len(kinds) < MaxRegions /\ UNCHANGED <<log, begun, ended, faults>>
  BY DEF OpenRegion
<1>3. PICK k \in Kinds :
        /\ kinds' = Append(kinds, k)
        /\ region' = [region EXCEPT ![0] = Len(kinds) + 1]
        /\ \/ pc' = [pc EXCEPT ![0] = "serial"] /\ k = "serial" /\ UNCHANGED inParallel
           \/ /\ inParallel' = inParallel \/ inParallel' = [inParallel EXCEPT ![0] = TRUE]
              /\ \E to \in {"refused", "main", "enterTag"} : pc' = [pc EXCEPT ![0] = to]
  BY DEF OpenRegion, GoTo
<1>4. /\ Len(kinds) \in Nat /\ kinds' \in Seq(Kinds) /\ Len(kinds') = Len(kinds) + 1
      /\ kinds'[Len(kinds) + 1] = k /\ \A i \in 1..Len(kinds) : kinds'[i] = kinds[i]
  <2>1. kinds \in Seq(Kinds)
    BY <1>1 DEF TypeOK
  <2> QED
    BY <1>3, <2>1
<1>5. /\ pc'[0] \in {"serial", "refused", "main", "enterTag"} /\ (pc'[0] = "serial" => k = "serial")
      /\ region'[0] = Len(kinds) + 1
      /\ \A q \in Rank : q # 0 => pc'[q] = pc[q] /\ region'[q] = region[q]
  BY <1>1, <1>3 DEF TypeOK
<1>6. Running(0) /\ Len(log[0]) >= 2 /\ \A q \in Rank : Len(log[q]) \in Nat /\ Len(log[q]) >= 2
  <2>1. Running(0)
    BY <1>2 DEF Running, StartPC
  <2> QED
    BY <1>1, <2>1, PastStartup
<1>7. TypeOK'
  <2>1. pc' \in [Rank -> LeaderPC \union WorkerPC] /\ pc'[0] \in LeaderPC
    BY ZenonT(30), <1>1, <1>3, <1>5 DEF TypeOK, LeaderPC
  <2>2. \A w \in Worker : pc'[w] \in WorkerPC
    BY <1>1, <1>5, LeaderIsNoWorker DEF TypeOK
  <2>3. Len(kinds') <= MaxRegions
    BY <1>2, <1>4, MaxRegionsAssumption
  <2>4. 0..Len(kinds) \subseteq 0..Len(kinds') /\ 1..Len(kinds) \subseteq 1..Len(kinds')
        /\ Len(kinds) + 1 \in 0..Len(kinds')
    BY <1>4
  <2>5. region' \in [Rank -> 0..Len(kinds')]
    BY <1>1, <1>3, <2>4 DEF TypeOK
  <2>6. begun' \in [Rank -> SUBSET (1..Len(kinds'))] /\ ended' \in [Rank -> SUBSET (1..Len(kinds'))]
    <3>1. begun \in [Rank -> SUBSET (1..Len(kinds))] /\ ended \in [Rank -> SUBSET (1..Len(kinds))]
      BY <1>1 DEF TypeOK
    <3> QED
      BY <1>2, <2>4, <3>1
  <2>7. inParallel' \in [Rank -> BOOLEAN]
    BY <1>1, <1>3 DEF TypeOK
  <2> QED
    BY <1>1, <1>2, <1>4, <2>1, <2>2, <2>3, <2>5, <2>6, <2>7 DEF TypeOK
<1>8. StartInv'
  <2>1. pc[0] \notin StartPC /\ pc'[0] \notin StartPC
    BY <1>2, <1>5 DEF StartPC
  <2>2. SUFFICES ASSUME NEW q \in Rank PROVE Started(q)'
    BY DEF StartInv
  <2>3. Started(q) /\ (AllRankAslrDisabled' <=> AllRankAslrDisabled) /\ AllRankAslrDisabled
    BY <1>1, <1>2, <1>6, PastStartup DEF StartInv, AllRankAslrDisabled
  <2>4. CASE q = 0
    BY <1>2, <1>5, <1>6, <2>1, <2>3, <2>4 DEF Started, StartPC
  <2>5. CASE q # 0
    BY <1>2, <1>5, <1>6, <2>3, <2>5 DEF Started, Running
  <2> QED
    BY <2>4, <2>5
<1>9. RegionInv'
  BY <1>1, <1>2, <1>4, RegionKept
<1>10. \A q \in Rank : \A i \in 1..Len(log[q]) :
          \/ log[q][i].op \in Setup \union {"exitTag"}
          \/ log[q][i].region \in 1..Len(kinds)
  <2>1. TAKE q \in Rank
  <2>2. TAKE i \in 1..Len(log[q])
  <2>3. log[q][i].region \in Nat
    <3>1. log[q] \in Seq(Collective)
      BY <1>1 DEF TypeOK
    <3>2. \A c \in Collective : c.region \in Nat
      BY MaxRegionsAssumption DEF Collective
    <3> QED
      BY <3>1, <3>2
  <2> QED
    BY <1>1, <1>4, <2>3 DEF RegionInv
<1>11. \A q \in Rank : \A i \in 1..Len(log[q]) :
          \/ log[q][i].op \in Setup \union {"exitTag"}
          \/ kinds'[log[q][i].region] = kinds[log[q][i].region]
  BY <1>4, <1>10
<1>12. \A q \in Rank : Len(log[q]) \in 1..Len(log[q])
  BY <1>6
<1>13. \A q \in Rank : Last(q).op \in Setup \union {"exitTag"} \/ kinds'[Last(q).region] = kinds[Last(q).region]
  BY <1>11, <1>12 DEF Last
<1>14. \A q \in Rank : Last(q)' = Last(q) /\ (Closed(Last(q))' <=> Closed(Last(q)))
  <2>1. TAKE q \in Rank
  <2>2. Last(q)' = Last(q)
    BY <1>2 DEF Last
  <2> QED
    BY <1>13, <2>2 DEF Closed, Successors, AfterBody, Setup
<1>15. GrammarInv'
  <2>1. SUFFICES ASSUME NEW i \in 1..(Len(log[0]) - 1)
                 PROVE  (/\ Meets(log[0][i], log[0][i + 1])
                         /\ OutOfStep \/ log[0][i + 1].op \in Successors(log[0][i]))'
    BY <1>2 DEF GrammarInv
  <2>2. i \in 1..Len(log[0])
    BY <1>6
  <2>3. /\ Meets(log[0][i], log[0][i + 1])
        /\ OutOfStep \/ log[0][i + 1].op \in Successors(log[0][i])
        /\ \/ log[0][i].op \in Setup \union {"exitTag"}
           \/ kinds'[log[0][i].region] = kinds[log[0][i].region]
    BY <1>1, <1>11, <2>2 DEF GrammarInv
  <2>4. Meets(log[0][i], log[0][i + 1])'
    BY <1>2, <2>3 DEF Meets, Setup, BodyOp
  <2>5. Successors(log[0][i])' = Successors(log[0][i])
    BY <1>2, <2>3 DEF Successors, AfterBody, Setup
  <2> QED
    BY <1>2, <2>3, <2>4, <2>5 DEF OutOfStep, Happened
<1>16. LeaderInv'
  <2>1. ~(Last(0).op = BodyOp /\ kinds[Last(0).region] = "reduce")
    BY <1>1, <1>2, <1>6 DEF LeaderInv
  <2>2. ~(Last(0).op = BodyOp /\ kinds'[Last(0).region] = "reduce")
    BY <1>1, <1>13, <2>1 DEF Setup, BodyOp
  <2>3. region'[0] >= 1
    BY <1>4, <1>5
  <2>4. pc'[0] = "serial" => Kind(0)' = "serial"
    BY <1>4, <1>5 DEF Kind
  <2>5. Last(0).op = "context" /\ Fortran =>
          /\ inParallel[0] /\ inParallel'[0] /\ pc'[0] \in {"serial", "refused", "main"}
          /\ region'[0] \notin begun'[0]
    <3>1. SUFFICES ASSUME Last(0).op = "context", Fortran
                   PROVE  /\ inParallel[0] /\ inParallel'[0] /\ pc'[0] \in {"serial", "refused", "main"}
                          /\ region'[0] \notin begun'[0]
      OBVIOUS
    <3>2. inParallel[0]
      BY <1>1, <1>2, <1>6, <3>1 DEF LeaderInv
    <3>3. UNCHANGED inParallel /\ pc'[0] \in {"serial", "refused"}
      BY <1>1, <3>2 DEF OpenRegion, GoTo, TypeOK
    <3>4. region'[0] \notin begun'[0]
      BY <1>1, <1>2, <1>4, <1>5 DEF TypeOK
    <3> QED
      BY <3>2, <3>3, <3>4
  <2>6. pc'[0] = "enterTag" => inParallel'[0]
    BY <1>1 DEF OpenRegion, GoTo, TypeOK
  <2> QED
    BY <1>1, <1>5, <1>14, <2>2, <2>3, <2>4, <2>5, <2>6 DEF LeaderInv, Entry
<1>17. (OutOfStep \/ LeaderInStep)'
  <2>1. region'[0] \notin begun'[0]
    BY <1>1, <1>2, <1>4, <1>5 DEF TypeOK
  <2>2. LeaderInStep => LeaderInStep'
    BY <1>1, <1>2, <1>5, <1>14, <2>1 DEF LeaderInStep
  <2> QED
    BY <1>1, <1>2, <2>2, StepsKept
<1>18. WorkerInv'
  <2>1. SUFFICES ASSUME NEW w \in Worker PROVE WorkerPlace(w)'
    BY DEF WorkerInv
  <2>2. w \in Rank /\ w # 0 /\ WorkerPlace(w) /\ pc'[w] = pc[w] /\ region'[w] = region[w]
    BY <1>1, <1>5, LeaderIsNoWorker DEF WorkerInv
  <2>3. pc[w] \in {"fortran", "body"} => Kind(w)' = Kind(w)
    <3>1. pc[w] \in {"fortran", "body"} => Last(w).op \notin Setup \union {"exitTag"} /\ Last(w).region = region[w]
      BY <2>2 DEF WorkerPlace, Coll, BodyOp, Setup
    <3> QED
      BY <1>13, <2>2, <3>1 DEF Kind
  <2> QED
    BY <1>2, <1>14, <2>2, <2>3 DEF WorkerPlace, OutOfStep, Happened
<1>19. PrefixInv'
  <2>1. \A w \in Worker : ~Ahead(w)
    BY <1>1, <1>2, <1>6, InLockstep
  <2> QED
    BY <1>1, <1>2, <2>1 DEF PrefixInv, Prefix, Ahead
<1>20. ContributedInv'
  BY <1>1, <1>2 DEF ContributedInv
<1>21. ReductionInv'
  <2>1. ended[0] \subseteq 1..Len(kinds)
    BY <1>1 DEF TypeOK
  <2>2. \A j \in ended[0] : kinds'[j] = kinds[j]
    BY <1>4, <2>1
  <2> QED
    BY <1>1, <1>2, <2>2 DEF ReductionInv
<1>22. QED
  BY <1>7, <1>8, <1>9, <1>15, <1>16, <1>17, <1>18, <1>19, <1>20, <1>21 DEF IInv

-----------------------------------------------------------------------------
\* What every step of worker w past the startup does.
WorkerGoes(w, to) ==
    /\ Running(w) \/ (pc[w] = "finalize" /\ to = "stopped")
    /\ GoTo(w, to)
    /\ UNCHANGED kinds
    /\ inParallel' \in [Rank -> BOOLEAN] /\ inParallel'[0] = inParallel[0]
    /\ begun' = begun \/ begun' = [begun EXCEPT ![w] = @ \union {region[w]}]
    /\ ended' = ended \/ ended' = [ended EXCEPT ![w] = @ \union {region[w]}]
    /\ UNCHANGED <<begun, ended>> \/ region[w] >= 1
    /\ \/ faults' = faults
       \/ \E what \in {"reserve", "replay", "symbols", "badType", "nested"} :
              faults' = faults \union {<<what, w>>}

\* A worker that moves, whatever it calls, leaves the reductions complete.
LEMMA WorkerReductionKept ==
    ASSUME ReductionInv, NEW w \in Worker, Moves(w), UNCHANGED kinds
    PROVE  ReductionInv'
<1>1. /\ pc'[0] = pc[0] /\ region'[0] = region[0] /\ ended'[0] = ended[0]
      /\ \A v \in Worker : ended[v] \subseteq ended'[v]
  BY LeaderIsNoWorker DEF Moves
<1>2. QED
  BY <1>1 DEF ReductionInv

\* A worker that moves leaves the places of the others.
LEMMA OtherPlacesKept ==
    ASSUME NEW w \in Worker, Moves(w), UNCHANGED kinds, WorkerInv, WorkerPlace(w)'
    PROVE  WorkerInv'
<1>1. SUFFICES ASSUME NEW v \in Worker, v # w PROVE WorkerPlace(v)'
  BY DEF WorkerInv
<1>2. WorkerPlace(v) /\ pc'[v] = pc[v] /\ region'[v] = region[v] /\ log'[v] = log[v]
  BY <1>1, LeaderIsNoWorker DEF WorkerInv, Moves
<1>3. Last(v)' = Last(v) /\ Kind(v)' = Kind(v)
  BY <1>2 DEF Last, Kind
<1>4. Closed(Last(v))' <=> Closed(Last(v))
  BY <1>3 DEF Closed, Successors, AfterBody
<1>5. OutOfStep => OutOfStep'
  BY FaultStays DEF Moves
<1>6. QED
  BY <1>2, <1>3, <1>4, <1>5 DEF WorkerPlace

\* A worker moves without a call: what is left to show is its place.
LEMMA WorkerGoesQuietly ==
    ASSUME IInv, NEW w \in Worker, NEW to \in WorkerPC \ StartPC, WorkerGoes(w, to),
           UNCHANGED <<log, region>>, WorkerPlace(w)'
    PROVE  IInv'
<1>1. /\ TypeOK /\ StartInv /\ RegionInv /\ GrammarInv /\ WorkerInv /\ ContributedInv /\ PrefixInv
      /\ LeaderInv /\ (OutOfStep \/ LeaderInStep) /\ ReductionInv /\ w \in Rank /\ w # 0
  BY LeaderIsNoWorker DEF IInv
<1>2. /\ pc'[w] = to /\ \A q \in Rank : q # w => pc'[q] = pc[q]
      /\ pc' \in [Rank -> LeaderPC \union WorkerPC]
  BY <1>1 DEF TypeOK, WorkerGoes, GoTo
<1>3. Moves(w)
  <2>1. \A q \in Rank : q # w => begun'[q] = begun[q] /\ ended'[q] = ended[q]
    BY <1>1 DEF TypeOK, WorkerGoes
  <2>2. ended[w] \subseteq ended'[w] /\ faults \subseteq faults'
    BY <1>1 DEF TypeOK, WorkerGoes
  <2> QED
    BY <1>2, <2>1, <2>2 DEF Moves
<1>4. faults' \subseteq Fault /\ \A f \in faults' : f \in faults \/ f[1] \notin Checks
  BY <1>1 DEF TypeOK, WorkerGoes, Fault, Checks, Throwing
<1>5. TypeOK'
  BY <1>1, <1>2, <1>4, TypeKept DEF TypeOK, WorkerGoes
<1>6. StartInv'
  <2>1. pc[w] \notin StartPC /\ pc'[w] \notin StartPC
    BY <1>2 DEF WorkerGoes, Running, StartPC
  <2>2. /\ Running(w)' => Running(w)
        /\ pc[w] \in {"finalize", "stopped"} => pc'[w] \in {"finalize", "stopped"}
    BY <1>2 DEF WorkerGoes, Running
  <2> QED
    BY <1>1, <1>3, <1>4, <2>1, <2>2, StartKept
<1>7. RegionInv' /\ UNCHANGED kinds /\ inParallel'[0] = inParallel[0]
  BY <1>1 DEF RegionInv, WorkerGoes
<1>8. GrammarInv' /\ LeaderInv' /\ (OutOfStep \/ LeaderInStep)'
  BY <1>1, <1>3, <1>7, LeaderKept
<1>9. WorkerInv' /\ ReductionInv'
  BY <1>1, <1>3, <1>7, OtherPlacesKept, WorkerReductionKept
<1>10. PrefixInv'
  BY <1>1, <1>2, <1>7, LeaderIsNoWorker, PrefixKept
<1>11. ContributedInv'
  <2>1. \A v \in Worker : ended[v] \subseteq ended'[v]
    BY <1>3, LeaderIsNoWorker DEF Moves
  <2> QED
    BY <1>1, <2>1 DEF ContributedInv
<1>12. QED
  BY <1>5, <1>6, <1>7, <1>8, <1>9, <1>10, <1>11 DEF IInv

\* A worker calls what the leader has called: what is left to show is its place,
\* and that a contribution to a reduction is one of the region it ends.
LEMMA WorkerGoesReceiving ==
    ASSUME IInv, NEW w \in Worker, Running(w), NEW to \in WorkerPC \ StartPC, WorkerGoes(w, to),
           NEW c \in Op \ Setup, Receive(w, c),
           region' = region \/ region' = [region EXCEPT ![w] = Root(w).region]
    PROVE  /\ Root(w) = Coll(c, Root(w).region) /\ Last(w)' = Root(w) /\ pc'[w] = to
           /\ Root(w).region \in 0..Len(kinds)
           /\ Meets(Last(w), Root(w)) /\ (OutOfStep \/ Root(w).op \in Successors(Last(w)))
           /\ UNCHANGED kinds
           /\ WorkerPlace(w)' /\ (c = "reduce" => Root(w).region \in ended'[w]) => IInv'
<1>1. /\ TypeOK /\ StartInv /\ RegionInv /\ GrammarInv /\ WorkerInv /\ ContributedInv /\ PrefixInv
      /\ LeaderInv /\ (OutOfStep \/ LeaderInStep) /\ ReductionInv /\ w \in Rank /\ w # 0
  BY LeaderIsNoWorker DEF IInv
<1>2. /\ pc'[w] = to /\ \A q \in Rank : q # w => pc'[q] = pc[q]
      /\ pc' \in [Rank -> LeaderPC \union WorkerPC]
  BY <1>1 DEF TypeOK, WorkerGoes, GoTo
<1>3. Moves(w)
  <2>1. \A q \in Rank : q # w => begun'[q] = begun[q] /\ ended'[q] = ended[q]
    BY <1>1 DEF TypeOK, WorkerGoes
  <2>2. ended[w] \subseteq ended'[w] /\ faults \subseteq faults'
    BY <1>1 DEF TypeOK, WorkerGoes
  <2>3. \A q \in Rank : q # w => log'[q] = log[q] /\ region'[q] = region[q]
    BY <1>1 DEF TypeOK, Receive, Call
  <2> QED
    BY <1>2, <2>1, <2>2, <2>3 DEF Moves
<1>4. /\ UNCHANGED kinds /\ inParallel'[0] = inParallel[0] /\ pc'[w] \notin StartPC
      /\ faults' \subseteq Fault /\ \A f \in faults' : f \in faults \/ f[1] \notin Checks
  BY <1>1, <1>2 DEF WorkerGoes, TypeOK, Fault, Checks, Throwing
<1>5. /\ StartInv' /\ RegionInv' /\ PrefixInv'
      /\ Root(w).op = c /\ Root(w).region \in 0..Len(kinds)
      /\ Last(w)' = Root(w) /\ Root(w) = Coll(c, Root(w).region)
      /\ Meets(Last(w), Root(w)) /\ (OutOfStep \/ Root(w).op \in Successors(Last(w)))
      /\ \A i \in 1..Len(log'[w]) : \/ i \in 1..Len(log[w]) /\ log'[w][i] = log[w][i]
                                    \/ log'[w][i] = Root(w)
  BY <1>1, <1>3, <1>4, WorkerReceives
<1>6. ASSUME WorkerPlace(w)', c = "reduce" => Root(w).region \in ended'[w]
      PROVE  IInv'
  <2>1. log' \in [Rank -> Seq(Collective)]
    <3>1. Root(w).region \in 0..MaxRegions /\ Call(w, c, Root(w).region) /\ c \in Op
      BY <1>1, <1>5, MaxRegionsAssumption DEF TypeOK, Receive
    <3> QED
      BY <1>1, <3>1, CallFacts
  <2>2. TypeOK'
    <3>1. region' \in [Rank -> 0..Len(kinds)]
      BY <1>1, <1>5 DEF TypeOK
    <3> QED
      BY <1>1, <1>2, <1>4, <2>1, <3>1, TypeKept DEF TypeOK, WorkerGoes
  <2>3. GrammarInv' /\ LeaderInv' /\ (OutOfStep \/ LeaderInStep)'
    BY <1>1, <1>3, <1>4, LeaderKept
  <2>4. WorkerInv' /\ ReductionInv'
    BY <1>1, <1>3, <1>4, <1>6, OtherPlacesKept, WorkerReductionKept
  <2>5. ContributedInv'
    <3>1. SUFFICES ASSUME NEW v \in Worker, NEW i \in 1..Len(log'[v]), log'[v][i].op = "reduce"
                   PROVE  log'[v][i].region \in ended'[v]
      BY DEF ContributedInv
    <3>2. CASE v # w
      <4>1. log'[v] = log[v] /\ ended'[v] = ended[v]
        BY <1>3, <3>2, LeaderIsNoWorker DEF Moves
      <4> QED
        BY <1>1, <3>1, <4>1 DEF ContributedInv
    <3>3. CASE v = w
      <4>1. CASE i \in 1..Len(log[w]) /\ log'[w][i] = log[w][i]
        BY <1>1, <1>3, <3>1, <3>3, <4>1 DEF ContributedInv, Moves
      <4>2. CASE log'[w][i] = Root(w)
        BY <1>5, <1>6, <3>1, <3>3, <4>2
      <4> QED
        BY <1>5, <3>3, <4>1, <4>2
    <3> QED
      BY <3>2, <3>3
  <2> QED
    BY <1>5, <2>2, <2>3, <2>4, <2>5 DEF IInv
<1>7. QED
  BY <1>2, <1>4, <1>5, <1>6

\* A worker past the startup, and in a region.
LEMMA WorkerRuns ==
    ASSUME IInv, NEW w \in Worker, pc[w] \notin StartPC \union {"finalize", "stopped"}
    PROVE  /\ Running(w) /\ Len(log[w]) \in Nat /\ Len(log[w]) >= 2
           /\ pc[w] \in {"init", "fortran", "body"} => region[w] >= 1
           /\ inParallel \in [Rank -> BOOLEAN] /\ w \in Rank /\ w # 0 /\ WorkerPlace(w)
<1>1. Running(w) /\ w \in Rank /\ w # 0
  BY LeaderIsNoWorker DEF Running
<1>2. Len(log[w]) \in Nat /\ Len(log[w]) >= 2 /\ inParallel \in [Rank -> BOOLEAN] /\ WorkerPlace(w)
  BY <1>1, PastStartup DEF IInv, TypeOK, WorkerInv
<1>3. ASSUME pc[w] \in {"init", "fortran", "body"} PROVE region[w] >= 1
  <2>1. Last(w).op \notin Setup \union {"exitTag"} /\ Last(w).region = region[w]
    BY <1>2, <1>3 DEF WorkerPlace, Coll, BodyOp, Setup
  <2>2. Len(log[w]) \in 1..Len(log[w])
    BY <1>2
  <2> QED
    BY <1>1, <2>1, <2>2 DEF IInv, RegionInv, Last
<1>4. QED
  BY <1>1, <1>2, <1>3

LEMMA GetTagKeeps == ASSUME IInv, NEW w \in Worker, GetTag(w) PROVE IInv'
<1>1. /\ pc[w] = "loop" /\ UNCHANGED <<kinds, region, inParallel, begun, ended, faults>>
      /\ \/ Receive(w, "enterTag") /\ GoTo(w, "memOps")
         \/ Receive(w, "exitTag") /\ GoTo(w, "finalize")
  BY DEF GetTag
<1>2. Running(w) /\ inParallel' \in [Rank -> BOOLEAN]
  BY <1>1, WorkerRuns DEF StartPC
<1>3. ASSUME NEW c \in {"enterTag", "exitTag"}, NEW to \in {"memOps", "finalize"},
             Receive(w, c), GoTo(w, to), to = "memOps" => c = "enterTag"
      PROVE  IInv'
  <2>1. c \in Op \ Setup /\ to \in WorkerPC \ StartPC /\ c # "reduce"
    BY DEF Op, Entry, Setup, WorkerPC, StartPC
  <2>2. WorkerGoes(w, to)
    BY <1>1, <1>2, <1>3 DEF WorkerGoes
  <2>3. /\ Root(w) = Coll(c, Root(w).region) /\ Last(w)' = Root(w) /\ pc'[w] = to
        /\ WorkerPlace(w)' /\ (c = "reduce" => Root(w).region \in ended'[w]) => IInv'
    BY <1>1, <1>2, <1>3, <2>1, <2>2, WorkerGoesReceiving
  <2>4. WorkerPlace(w)'
    BY <1>3, <2>3 DEF WorkerPlace, Coll
  <2> QED
    BY <2>1, <2>3, <2>4
<1>4. QED
  BY <1>1, <1>3

\* The heap and the context.
LEMMA GetKeeps ==
    ASSUME IInv, NEW w \in Worker, NEW c \in {"heap", "context"}, NEW to \in {"context", "init"},
           Get(w, c, to), to = IF c = "heap" THEN "context" ELSE "init"
    PROVE  IInv'
<1>1. /\ pc[w] = c /\ UNCHANGED <<kinds, region, inParallel, begun, ended, faults>>
      /\ Receive(w, c) /\ GoTo(w, to)
  BY DEF Get
<1>2. Running(w) /\ inParallel' \in [Rank -> BOOLEAN] /\ WorkerPlace(w)
  BY <1>1, WorkerRuns DEF StartPC
<1>3. c \in Op \ Setup /\ to \in WorkerPC \ StartPC /\ c # "reduce"
  BY DEF Op, Entry, Setup, WorkerPC, StartPC
<1>4. WorkerGoes(w, to)
  BY <1>1, <1>2 DEF WorkerGoes
<1>5. /\ Root(w) = Coll(c, Root(w).region) /\ Last(w)' = Root(w) /\ pc'[w] = to
      /\ Meets(Last(w), Root(w))
      /\ WorkerPlace(w)' /\ (c = "reduce" => Root(w).region \in ended'[w]) => IInv'
  BY <1>1, <1>2, <1>3, <1>4, WorkerGoesReceiving
<1>6. Root(w) = Coll(c, region[w])
  <2>1. Last(w) = Coll(Before(c), Root(w).region)
    BY <1>5 DEF Meets, Entry, Coll
  <2>2. Last(w).region = region[w]
    BY <1>1, <1>2 DEF WorkerPlace, Coll
  <2> QED
    BY <1>5, <2>1, <2>2 DEF Coll
<1>7. WorkerPlace(w)'
  BY <1>1, <1>5, <1>6 DEF WorkerPlace
<1>8. QED
  BY <1>3, <1>5, <1>7

\* The operations, replayed or not.
LEMMA GetMemOpsKeeps == ASSUME IInv, NEW w \in Worker, GetMemOps(w) PROVE IInv'
<1>1. pc[w] = "memOps" /\ Receive(w, "memOps") /\ UNCHANGED <<kinds, region, inParallel, begun, ended>>
  BY DEF GetMemOps
<1>2. PICK to \in {"finalize", "stack"} :
          /\ GoTo(w, to)
          /\ faults' = faults \/ faults' = faults \union {<<"replay", w>>}
  BY DEF GetMemOps, Throws, Blame
<1>3. Running(w) /\ inParallel' \in [Rank -> BOOLEAN]
  BY <1>1, WorkerRuns DEF StartPC
<1>4. "memOps" \in Op \ Setup /\ to \in WorkerPC \ StartPC /\ "memOps" # "reduce"
  BY DEF Op, Entry, Setup, WorkerPC, StartPC
<1>5. WorkerGoes(w, to)
  BY <1>1, <1>2, <1>3 DEF WorkerGoes
<1>6. /\ Root(w) = Coll("memOps", Root(w).region) /\ Last(w)' = Root(w) /\ pc'[w] = to
      /\ WorkerPlace(w)' /\ ("memOps" = "reduce" => Root(w).region \in ended'[w]) => IInv'
  BY <1>1, <1>3, <1>4, <1>5, WorkerGoesReceiving
<1>7. WorkerPlace(w)'
  BY <1>6 DEF WorkerPlace, Coll
<1>8. QED
  BY <1>4, <1>6, <1>7

\* worker() begins, or its range cannot be reserved.
LEMMA ReserveKeeps == ASSUME IInv, NEW w \in Worker, ReserveHeapArea(w) PROVE IInv'
<1>1. /\ pc[w] = "reserve" /\ UNCHANGED <<log, kinds, region, inParallel, begun, ended>>
      /\ \E to \in {"finalize", "loop"} : GoTo(w, to)
      /\ faults' = faults \/ faults' = faults \union {<<"reserve", w>>}
  BY DEF ReserveHeapArea, Throws, Blame
<1>2. PICK to \in {"finalize", "loop"} : GoTo(w, to)
  BY <1>1
<1>3. Running(w) /\ inParallel' \in [Rank -> BOOLEAN] /\ WorkerPlace(w) /\ w \in Rank
  BY <1>1, WorkerRuns DEF StartPC
<1>4. WorkerGoes(w, to) /\ to \in WorkerPC \ StartPC
  BY <1>1, <1>2, <1>3 DEF WorkerGoes, WorkerPC, StartPC
<1>5. WorkerPlace(w)'
  <2>1. pc'[w] = to
    BY <1>2, <1>3 DEF GoTo, IInv, TypeOK
  <2>2. Closed(Last(w))' <=> Closed(Last(w))
    BY <1>1 DEF Closed, Successors, AfterBody, Last
  <2> QED
    BY <1>1, <1>3, <2>1, <2>2 DEF WorkerPlace
<1>6. QED
  BY <1>1, <1>4, <1>5, WorkerGoesQuietly

LEMMA GetStackKeeps == ASSUME IInv, NEW w \in Worker, GetStack(w) PROVE IInv'
<1>1. /\ pc[w] = "stack" /\ UNCHANGED <<kinds, inParallel, begun, ended, faults>>
      /\ Receive(w, "stack") /\ GoTo(w, "heap") /\ region' = [region EXCEPT ![w] = Root(w).region]
  BY DEF GetStack
<1>2. Running(w) /\ inParallel' \in [Rank -> BOOLEAN] /\ w \in Rank
  BY <1>1, WorkerRuns DEF StartPC
<1>3. "stack" \in Op \ Setup /\ "heap" \in WorkerPC \ StartPC /\ "stack" # "reduce"
  BY DEF Op, Entry, Setup, WorkerPC, StartPC
<1>4. WorkerGoes(w, "heap")
  BY <1>1, <1>2 DEF WorkerGoes
<1>5. /\ Root(w) = Coll("stack", Root(w).region) /\ Last(w)' = Root(w) /\ pc'[w] = "heap"
      /\ WorkerPlace(w)' /\ ("stack" = "reduce" => Root(w).region \in ended'[w]) => IInv'
  BY <1>1, <1>2, <1>3, <1>4, WorkerGoesReceiving
<1>6. region'[w] = Root(w).region
  BY <1>1, <1>2 DEF IInv, TypeOK
<1>7. WorkerPlace(w)'
  BY <1>5, <1>6 DEF WorkerPlace
<1>8. QED
  BY <1>3, <1>5, <1>7

LEMMA WorkerFortranKeeps == ASSUME IInv, NEW w \in Worker, WorkerFortran(w) PROVE IInv'
<1>1. /\ pc[w] = "fortran" /\ UNCHANGED <<kinds, region, inParallel, ended, faults>>
      /\ Receive(w, "fortran") /\ GoTo(w, "body")
      /\ begun' = [begun EXCEPT ![w] = @ \union {region[w]}]
  BY DEF WorkerFortran, BeginBody
<1>2. Running(w) /\ inParallel' \in [Rank -> BOOLEAN] /\ WorkerPlace(w) /\ region[w] >= 1
  BY <1>1, WorkerRuns DEF StartPC
<1>3. "fortran" \in Op \ Setup /\ "body" \in WorkerPC \ StartPC /\ "fortran" # "reduce"
  BY DEF Op, Setup, WorkerPC, StartPC
<1>4. WorkerGoes(w, "body")
  BY <1>1, <1>2 DEF WorkerGoes
<1>5. /\ Root(w) = Coll("fortran", Root(w).region) /\ Last(w)' = Root(w) /\ pc'[w] = "body"
      /\ Meets(Last(w), Root(w))
      /\ WorkerPlace(w)' /\ ("fortran" = "reduce" => Root(w).region \in ended'[w]) => IInv'
  BY <1>1, <1>2, <1>3, <1>4, WorkerGoesReceiving
<1>6. Fortran /\ Last(w) = Coll("context", region[w]) /\ Kind(w) # "badType"
  BY <1>1, <1>2 DEF WorkerPlace
<1>7. Root(w) = Coll(BodyOp, region[w])
  BY <1>5, <1>6 DEF Meets, Coll, BodyOp
<1>8. WorkerPlace(w)'
  BY <1>1, <1>5, <1>6, <1>7 DEF WorkerPlace, Kind
<1>9. QED
  BY <1>3, <1>5, <1>8

LEMMA WorkerCallsExitKeeps == ASSUME IInv, NEW w \in Worker, WorkerCallsExit(w) PROVE IInv'
<1>1. /\ pc[w] = "body" /\ UNCHANGED <<kinds, region, inParallel, begun, faults>>
      /\ Receive(w, "exitTag") /\ GoTo(w, "finalize")
      /\ ended' = [ended EXCEPT ![w] = @ \union {region[w]}]
  BY DEF WorkerCallsExit
<1>2. Running(w) /\ inParallel' \in [Rank -> BOOLEAN] /\ region[w] >= 1
  BY <1>1, WorkerRuns DEF StartPC
<1>3. "exitTag" \in Op \ Setup /\ "finalize" \in WorkerPC \ StartPC /\ "exitTag" # "reduce"
  BY DEF Op, Setup, WorkerPC, StartPC
<1>4. WorkerGoes(w, "finalize")
  BY <1>1, <1>2 DEF WorkerGoes
<1>5. /\ pc'[w] = "finalize"
      /\ WorkerPlace(w)' /\ ("exitTag" = "reduce" => Root(w).region \in ended'[w]) => IInv'
  BY <1>1, <1>2, <1>3, <1>4, WorkerGoesReceiving
<1>6. WorkerPlace(w)'
  BY <1>5 DEF WorkerPlace
<1>7. QED
  BY <1>3, <1>5, <1>6

LEMMA InitReduceAreasKeeps == ASSUME IInv, NEW w \in Worker, InitReduceAreas(w) PROVE IInv'
<1> DEFINE to == IF Kind(w) = "badType" THEN "lost" ELSE IF Fortran THEN "fortran" ELSE "body"
<1>1. /\ pc[w] = "init" /\ GoTo(w, to) /\ UNCHANGED <<log, kinds, region, inParallel, ended>>
      /\ begun' = begun \/ begun' = [begun EXCEPT ![w] = @ \union {region[w]}]
      /\ faults' = faults \/ faults' = faults \union {<<"badType", w>>}
  BY DEF InitReduceAreas, Resume, BeginBody, Blame
<1>2. to \in WorkerPC \ StartPC /\ to \in {"lost", "fortran", "body"} /\ (to = "fortran" => Fortran)
      /\ (to = "body" => ~Fortran) /\ (to # "lost" => Kind(w) # "badType")
  BY DEF WorkerPC, StartPC
<1> HIDE DEF to
<1>3. Running(w) /\ inParallel' \in [Rank -> BOOLEAN] /\ WorkerPlace(w) /\ region[w] >= 1 /\ w \in Rank
  BY <1>1, WorkerRuns DEF StartPC
<1>4. WorkerGoes(w, to)
  BY <1>1, <1>3 DEF WorkerGoes
<1>5. WorkerPlace(w)'
  <2>1. pc'[w] = to
    BY <1>1, <1>3 DEF GoTo, IInv, TypeOK
  <2>2. Last(w)' = Coll("context", region[w]) /\ Kind(w)' = Kind(w)
    BY <1>1, <1>3 DEF WorkerPlace, Last, Kind
  <2> QED
    BY <1>1, <1>2, <2>1, <2>2 DEF WorkerPlace, BodyOp
<1>6. QED
  BY <1>1, <1>2, <1>4, <1>5, WorkerGoesQuietly

LEMMA WorkerSymbolsFailKeeps == ASSUME IInv, NEW w \in Worker, WorkerSymbolsFail(w) PROVE IInv'
<1>1. /\ pc[w] = "fortran" /\ GoTo(w, "lost") /\ faults' = faults \union {<<"symbols", w>>}
      /\ UNCHANGED <<log, kinds, region, inParallel, begun, ended>>
  BY DEF WorkerSymbolsFail, Blame
<1>2. Running(w) /\ inParallel' \in [Rank -> BOOLEAN] /\ w \in Rank
  BY <1>1, WorkerRuns DEF StartPC
<1>3. WorkerGoes(w, "lost") /\ "lost" \in WorkerPC \ StartPC
  BY <1>1, <1>2 DEF WorkerGoes, WorkerPC, StartPC
<1>4. WorkerPlace(w)'
  <2>1. pc'[w] = "lost"
    BY <1>1, <1>2 DEF GoTo, IInv, TypeOK
  <2> QED
    BY <2>1 DEF WorkerPlace
<1>5. QED
  BY <1>1, <1>3, <1>4, WorkerGoesQuietly

LEMMA WorkerOpensInnerKeeps == ASSUME IInv, NEW w \in Worker, WorkerOpensInner(w) PROVE IInv'
<1>1. /\ pc[w] = "body" /\ GoTo(w, "nested") /\ UNCHANGED <<log, kinds, region, begun, ended>>
      /\ faults' = faults \union {<<"nested", w>>} /\ inParallel' = [inParallel EXCEPT ![w] = TRUE]
  BY DEF WorkerOpensInner, Blame
<1>2. Running(w) /\ inParallel' \in [Rank -> BOOLEAN] /\ w \in Rank
  BY <1>1, WorkerRuns DEF StartPC
<1>p. inParallel'[0] = inParallel[0]
  BY <1>1, LeaderIsNoWorker DEF IInv, TypeOK
<1>3. WorkerGoes(w, "nested") /\ "nested" \in WorkerPC \ StartPC
  BY <1>1, <1>2, <1>p DEF WorkerGoes, WorkerPC, StartPC
<1>4. WorkerPlace(w)'
  <2>1. pc'[w] = "nested"
    BY <1>1, <1>2 DEF GoTo, IInv, TypeOK
  <2>2. <<"nested", w>> \in faults' /\ <<"nested", w>>[1] \in {"send", "nested", "symbols"}
    BY <1>1
  <2>3. OutOfStep'
    BY <2>2 DEF OutOfStep, Happened
  <2> QED
    BY <2>1, <2>3 DEF WorkerPlace
<1>5. QED
  BY <1>1, <1>3, <1>4, WorkerGoesQuietly

LEMMA WorkerFinalizes == ASSUME IInv, NEW w \in Worker, Finalize(w) PROVE IInv'
<1>1. /\ pc[w] = "finalize" /\ GoTo(w, "stopped")
      /\ UNCHANGED <<log, kinds, region, inParallel, begun, ended, faults>>
  BY DEF Finalize
<1>2. WorkerGoes(w, "stopped") /\ "stopped" \in WorkerPC \ StartPC
  BY <1>1 DEF WorkerGoes, WorkerPC, StartPC, IInv, TypeOK
<1>3. WorkerPlace(w)'
  <2>1. pc'[w] = "stopped"
    BY <1>1, LeaderIsNoWorker DEF GoTo, IInv, TypeOK
  <2> QED
    BY <2>1 DEF WorkerPlace
<1>4. QED
  BY <1>1, <1>2, <1>3, WorkerGoesQuietly

\* The worker contributes before the leader has called the reduction: the leader
\* is about to begin or in the body of the same region.
LEMMA WorkerContributesFirst ==
    ASSUME IInv, NEW w \in Worker, pc[w] = "body", Kind(w) = "reduce",
           Len(log[w]) = Len(log[0]), Call(w, "reduce", region[w]), WorkerGoes(w, "loop"),
           region[w] \in ended'[w], UNCHANGED <<region, faults>>
    PROVE  IInv'
<1> DEFINE k == region[w]
<1>1. /\ TypeOK /\ StartInv /\ RegionInv /\ GrammarInv /\ WorkerInv /\ ContributedInv /\ PrefixInv
      /\ LeaderInv /\ (OutOfStep \/ LeaderInStep) /\ ReductionInv /\ w \in Rank /\ w # 0
      /\ 0 \in Rank
  BY LeaderIsNoWorker DEF IInv
<1>2. /\ Running(w) /\ Len(log[w]) \in Nat /\ Len(log[w]) >= 2 /\ k >= 1 /\ Last(w) = Coll(BodyOp, k)
  BY WorkerRuns DEF WorkerPlace, StartPC
<1>3. k \in 0..Len(kinds) /\ "reduce" \in Op \ Setup /\ "loop" \in WorkerPC \ StartPC
  BY <1>1 DEF TypeOK, Op, Setup, WorkerPC, StartPC
<1> HIDE DEF k
<1>4. /\ pc'[w] = "loop" /\ \A q \in Rank : q # w => pc'[q] = pc[q]
      /\ pc' \in [Rank -> LeaderPC \union WorkerPC] /\ UNCHANGED kinds
  BY <1>1, <1>3 DEF TypeOK, WorkerGoes, GoTo
<1>5. Moves(w)
  <2>1. \A q \in Rank : q # w => begun'[q] = begun[q] /\ ended'[q] = ended[q]
    BY <1>1 DEF TypeOK, WorkerGoes
  <2>2. ended[w] \subseteq ended'[w] /\ faults \subseteq faults'
    BY <1>1 DEF TypeOK, WorkerGoes
  <2>3. \A q \in Rank : q # w => log'[q] = log[q]
    BY <1>1 DEF TypeOK, Call
  <2> QED
    BY <1>4, <2>1, <2>2, <2>3 DEF Moves
<1>6. /\ StartInv' /\ RegionInv'
      /\ log' \in [Rank -> Seq(Collective)]
      /\ Len(log'[w]) = Len(log[w]) + 1
      /\ log'[w][Len(log[w]) + 1] = Coll("reduce", k) /\ Last(w)' = Coll("reduce", k)
      /\ \A i \in 1..Len(log[w]) : log'[w][i] = log[w][i]
      /\ \A i \in 1..Len(log'[w]) : i \in 1..Len(log[w]) \/ i = Len(log[w]) + 1
      /\ \A q \in Rank \ {w} : log'[q] = log[q]
  <2>1. Call(w, "reduce", k) /\ pc'[w] \notin StartPC
    BY <1>3, <1>4 DEF k
  <2> QED
    BY <1>1, <1>2, <1>3, <1>4, <1>5, <2>1, RunningCalls
<1>7. TypeOK'
  <2>1. log' \in [Rank -> Seq(Collective)] /\ pc'[w] \in WorkerPC /\ w \in Rank
    BY <1>1, <1>3, <1>4, <1>6
  <2>2. region' \in [Rank -> 0..Len(kinds)] /\ faults' \subseteq Fault
    BY <1>1 DEF TypeOK
  <2> QED
    BY <1>1, <1>4, <2>1, <2>2, TypeKept DEF WorkerGoes
<1>8. GrammarInv' /\ LeaderInv' /\ (OutOfStep \/ LeaderInStep)'
  <2>1. inParallel'[0] = inParallel[0]
    BY DEF WorkerGoes
  <2> QED
    BY <1>1, <1>4, <1>5, <2>1, LeaderKept
<1>9. WorkerInv' /\ ReductionInv'
  <2>1. Last(w)'.op = "reduce"
    BY <1>6 DEF Coll
  <2>2. WorkerPlace(w)'
    BY <1>4, <2>1 DEF WorkerPlace, Closed, Successors, AfterBody
  <2> QED
    BY <1>1, <1>4, <1>5, <2>2, OtherPlacesKept, WorkerReductionKept
<1>10. ContributedInv'
  <2>1. SUFFICES ASSUME NEW v \in Worker, NEW i \in 1..Len(log'[v]), log'[v][i].op = "reduce"
                 PROVE  log'[v][i].region \in ended'[v]
    BY DEF ContributedInv
  <2>2. CASE v # w
    <3>1. log'[v] = log[v] /\ ended'[v] = ended[v]
      BY <1>5, <2>2, LeaderIsNoWorker DEF Moves
    <3> QED
      BY <1>1, <2>1, <3>1 DEF ContributedInv
  <2>3. CASE v = w
    <3>1. CASE i \in 1..Len(log[w])
      BY <1>1, <1>5, <1>6, <2>1, <2>3, <3>1 DEF ContributedInv, Moves
    <3>2. CASE i = Len(log[w]) + 1
      BY <1>6, <2>3, <3>2 DEF Coll, k
    <3> QED
      BY <1>6, <2>3, <3>1, <3>2
  <2> QED
    BY <2>2, <2>3
<1>11. PrefixInv'
  <2>1. SUFFICES ASSUME NEW v \in Worker PROVE Prefix(v)'
    BY DEF PrefixInv
  <2>2. /\ log'[0] = log[0] /\ pc'[0] = pc[0] /\ region'[0] = region[0]
        /\ Last(0)' = Last(0) /\ Kind(0)' = Kind(0)
    BY <1>1, <1>4, <1>6 DEF Last, Kind
  <2>3. Prefix(v) /\ v \in Rank
    BY <1>1, LeaderIsNoWorker DEF PrefixInv
  <2>4. CASE v = w
    <3>1. Last(0) = Last(w)
      BY <1>2, <2>3, <2>4 DEF Prefix, Last
    <3>2. pc[0] \in {"clear", "body"} /\ region[0] = k /\ Kind(0) = "reduce"
      <4>1. Len(log[0]) >= 1 /\ Last(0).op = BodyOp /\ Last(0).region = k /\ kinds[k] = "reduce"
        BY <1>2, <3>1 DEF Coll, Kind, k
      <4> QED
        BY <1>1, <4>1 DEF LeaderInv, Kind
    <3>3. MayBeAhead(w)'
      BY <1>2, <1>6, <2>2, <3>1, <3>2 DEF MayBeAhead
    <3>4. \A i \in 1..Len(log'[w]) : i <= Len(log[0]) => log'[w][i] = log[0][i]
      BY <1>2, <1>6, <2>3, <2>4 DEF Prefix
    <3>5. Len(log'[w]) <= Len(log'[0]) + 1
      BY <1>6, <2>2
    <3> QED
      BY <2>2, <2>4, <3>3, <3>4, <3>5 DEF Prefix
  <2>5. CASE v # w
    <3>1. log'[v] = log[v] /\ Last(v)' = Last(v)
      BY <1>6, <2>3, <2>5 DEF Last
    <3> QED
      BY <2>2, <2>3, <3>1 DEF Prefix, Ahead, MayBeAhead, Running
  <2> QED
    BY <2>4, <2>5
<1>12. QED
  BY <1>6, <1>7, <1>8, <1>9, <1>10, <1>11 DEF IInv

LEMMA WorkerExitKeeps == ASSUME IInv, NEW w \in Worker, WorkerExit(w) PROVE IInv'
<1>1. /\ pc[w] = "body" /\ Kind(w) \notin {"nested", "exit"} /\ GoTo(w, "loop")
      /\ ended' = [ended EXCEPT ![w] = @ \union {region[w]}]
      /\ inParallel' = [inParallel EXCEPT ![w] = FALSE]
      /\ UNCHANGED <<kinds, region, begun, faults>>
  BY DEF WorkerExit
<1>2. /\ Running(w) /\ Len(log[w]) \in Nat /\ Len(log[w]) >= 2 /\ inParallel' \in [Rank -> BOOLEAN]
      /\ w \in Rank /\ region[w] >= 1
      /\ Last(w) = Coll(BodyOp, region[w]) /\ Kind(w) # "badType"
  BY <1>1, WorkerRuns DEF WorkerPlace, StartPC
<1>3. "loop" \in WorkerPC \ StartPC /\ WorkerGoes(w, "loop") /\ region[w] \in ended'[w]
  BY <1>1, <1>2, LeaderIsNoWorker DEF WorkerPC, StartPC, WorkerGoes, IInv, TypeOK
<1>4. pc'[w] = "loop"
  BY <1>1, <1>2 DEF GoTo, IInv, TypeOK
<1>5. CASE Kind(w) # "reduce"
  <2>1. UNCHANGED log
    BY <1>5 DEF WorkerExit
  <2>2. Closed(Last(w))
    <3>1. Closed(Coll(BodyOp, region[w]))
      BY <1>1, <1>2, <1>5 DEF Closed, Successors, AfterBody, Coll, BodyOp, Kind
    <3> QED
      BY <1>2, <3>1
  <2>3. Closed(Last(w))'
    <3>1. Last(w)' = Last(w)
      BY <2>1 DEF Last
    <3> QED
      BY <1>1, <2>2, <3>1 DEF Closed, Successors, AfterBody
  <2>4. WorkerPlace(w)'
    BY <1>4, <2>3 DEF WorkerPlace
  <2> QED
    BY <1>1, <1>3, <2>1, <2>4, WorkerGoesQuietly
<1>6. CASE Kind(w) = "reduce"
  <2>1. Call(w, "reduce", region[w])
    BY <1>6 DEF WorkerExit
  <2>2. /\ Prefix(w) /\ Len(log[0]) \in Nat /\ GrammarInv
        /\ ~Ahead(w) \/ MayBeAhead(w)
    BY LeaderIsNoWorker DEF IInv, PrefixInv, TypeOK, Prefix
  <2>3. ~Ahead(w)
    BY <1>2, <2>2 DEF MayBeAhead, Coll, BodyOp, Setup
  <2>4. CASE Len(log[w]) = Len(log[0])
    BY <1>1, <1>3, <1>6, <2>1, <2>4, WorkerContributesFirst
  <2>5. CASE Len(log[w]) < Len(log[0])
    <3>1. Len(log[w]) \in 1..(Len(log[0]) - 1) /\ log[w][Len(log[w])] = log[0][Len(log[w])]
      BY <1>2, <2>2, <2>5 DEF Prefix
    <3>2. Meets(Last(w), Root(w))
      BY <2>2, <3>1 DEF GrammarInv, Last, Root
    <3>3. Root(w) = Coll("reduce", region[w])
      BY <1>2, <1>6, <3>2 DEF Meets, Coll, Kind
    <3>4. Receive(w, "reduce")
      BY <2>1, <2>5, <3>3 DEF Receive, Called, Coll
    <3>5. "reduce" \in Op \ Setup
      BY DEF Op, Setup
    <3>6. /\ Last(w)' = Root(w)
          /\ WorkerPlace(w)' /\ ("reduce" = "reduce" => Root(w).region \in ended'[w]) => IInv'
      BY <1>1, <1>2, <1>3, <3>4, <3>5, WorkerGoesReceiving
    <3>7. WorkerPlace(w)'
      <4>1. Closed(Coll("reduce", region[w]))'
        BY DEF Closed, Successors, Coll
      <4>2. Last(w)' = Coll("reduce", region[w])'
        BY <1>1, <3>3, <3>6 DEF Coll
      <4> QED
        BY <1>4, <4>1, <4>2 DEF WorkerPlace, Closed, Successors, AfterBody
    <3> QED
      BY <1>3, <3>3, <3>6, <3>7 DEF Coll
  <2> QED
    BY <1>2, <2>2, <2>3, <2>4, <2>5 DEF Ahead
<1>7. QED
  BY <1>5, <1>6

-----------------------------------------------------------------------------
LEMMA InitHolds == Init => IInv
<1>1. SUFFICES ASSUME Init PROVE IInv
  OBVIOUS
<1>2. /\ \A r \in Rank : pc[r] = "pagesize" /\ log[r] = << >> /\ Len(log[r]) = 0 /\ ended[r] = {}
      /\ faults = {} /\ kinds = << >> /\ 0 \in Rank /\ \A w \in Worker : w \in Rank
  BY <1>1, LeaderIsNoWorker DEF Init
<1>3. TypeOK
  <2>1. kinds \in Seq(Kinds) /\ Len(kinds) = 0 /\ Len(kinds) <= MaxRegions
    BY <1>2, MaxRegionsAssumption
  <2> QED
    BY <1>1, <1>2, <2>1 DEF Init, TypeOK, LeaderPC, WorkerPC, StartPC
<1>4. StartInv
  BY <1>2, StartCallsAre DEF StartInv, Started, Running, StartPC
<1>5. RegionInv /\ GrammarInv /\ PrefixInv /\ ContributedInv /\ ReductionInv
  BY <1>2 DEF RegionInv, GrammarInv, PrefixInv, Prefix, Ahead, ContributedInv, ReductionInv
<1>6. LeaderInv /\ LeaderInStep /\ WorkerInv
  BY <1>2 DEF LeaderInv, LeaderInStep, WorkerInv, WorkerPlace, Running, StartPC, Entry
<1>7. QED
  BY <1>3, <1>4, <1>5, <1>6 DEF IInv

LEMMA StepKeeps == IInv /\ [Next]_vars => IInv'
<1>1. SUFFICES ASSUME IInv, [Next]_vars PROVE IInv'
  OBVIOUS
<1>2. CASE UNCHANGED vars
  <2>1. /\ pc' = pc /\ log' = log /\ kinds' = kinds /\ region' = region /\ inParallel' = inParallel
        /\ begun' = begun /\ ended' = ended /\ faults' = faults
    BY <1>2 DEF vars
  <2>2. TypeOK' /\ RegionInv' /\ ContributedInv' /\ ReductionInv'
    BY <1>1, <2>1 DEF IInv, TypeOK, RegionInv, ContributedInv, ReductionInv
  <2>3. StartInv'
    BY <1>1, <2>1 DEF IInv, StartInv, Started, Running, AllRankAslrDisabled
  <2>4. Moves(0) /\ 0 \in Rank
    BY <2>1, LeaderIsNoWorker DEF Moves
  <2>5. GrammarInv' /\ WorkerInv'
    BY <1>1, <2>1, <2>4, GrammarKept, WorkersKept DEF IInv
  <2>6. LeaderInv'
    BY <1>1, <2>1 DEF IInv, LeaderInv, Last, Running, Kind
  <2>7. (OutOfStep \/ LeaderInStep)'
    <3>1. LeaderInStep => LeaderInStep'
      BY <2>1 DEF LeaderInStep, Closed, Successors, AfterBody, Last, Kind
    <3> QED
      BY <1>1, <2>1, <3>1, StepsKept DEF IInv
  <2>8. PrefixInv'
    BY <1>1, <2>1, PrefixKept DEF IInv
  <2> QED
    BY <2>2, <2>3, <2>5, <2>6, <2>7, <2>8 DEF IInv
<1>3. CASE LeaderStep
  BY <1>1, <1>3, LeaderIsNoWorker, StartupKeeps, OpenRegionKeeps, RefusedKeeps, SerialBodyKeeps, SendKeeps,
     ClearSoftDirtyKeeps, LeaderFortranKeeps, LeaderSymbolsFailKeeps, LeaderOpensInnerKeeps, ExitTagKeeps, LeaderExitKeeps,
     LeaderReducedKeeps, MainThrowsKeeps DEF LeaderStep
<1>4. CASE \E w \in Worker : WorkerStep(w)
  <2>1. PICK w \in Worker : WorkerStep(w)
    BY <1>4
  <2>2. CASE Startup(w)
    BY <1>1, <2>2, LeaderIsNoWorker, StartupKeeps
  <2>3. CASE Get(w, "heap", "context") \/ Get(w, "context", "init")
    BY <1>1, <2>3, GetKeeps
  <2> QED
    BY <1>1, <2>1, <2>2, <2>3, ReserveKeeps, GetTagKeeps, GetMemOpsKeeps, GetStackKeeps,
       InitReduceAreasKeeps, WorkerFortranKeeps, WorkerSymbolsFailKeeps, WorkerOpensInnerKeeps, WorkerCallsExitKeeps, WorkerExitKeeps, WorkerFinalizes DEF WorkerStep
<1>5. CASE Stopped
  BY <1>2, <1>5 DEF Stopped
<1>6. QED
  BY <1>1, <1>2, <1>3, <1>4, <1>5 DEF Next

-----------------------------------------------------------------------------
(***************************************************************************)
(* What follows from the invariant.                                        *)
(***************************************************************************)

THEOREM RegionInvariance == Spec => []IInv
<1>1. IInv /\ [Next]_vars => IInv'
  BY StepKeeps
<1> QED
  BY InitHolds, <1>1, PTL DEF Spec

THEOREM RegionTypeCorrect == Spec => []TypeOK
<1>1. IInv => TypeOK
  BY DEF IInv
<1> QED
  BY <1>1, RegionInvariance, PTL

\* No code of the user runs where a check has failed, on whatever rank.
THEOREM OnlyChecked == Spec => []OnlyCheckedRanksRun
<1>1. IInv => OnlyCheckedRanksRun
  <2>1. SUFFICES ASSUME IInv, NEW r \in Rank, pc[r] \notin StartPC \union {"finalize", "stopped"},
                        NEW f \in faults, f[1] \in Checks
                 PROVE  FALSE
    BY DEF OnlyCheckedRanksRun, Happened
  <2>2. PICK q \in Rank : f = <<f[1], q>>
    BY <2>1 DEF IInv, TypeOK, Fault
  <2>3. AllRankAslrDisabled /\ Len(log[q]) \in Nat /\ Len(log[q]) >= 2
    BY <2>1, PastStartup DEF IInv, Running
  <2>4. Started(q)
    BY <2>1 DEF IInv, StartInv
  <2> QED
    BY <2>1, <2>2, <2>3, <2>4 DEF Started, AllRankAslrDisabled, Checks
<1> QED
  BY <1>1, RegionInvariance, PTL

\* The leader goes on from a reduction with the contribution of every worker, whatever
\* throws and wherever; only a worker that opens a region in a region is excluded.
THEOREM ReductionsComplete == Spec => []ReductionIsComplete
<1>1. IInv => ReductionIsComplete
  BY DEF IInv, ReductionInv, ReductionIsComplete
<1> QED
  BY <1>1, RegionInvariance, PTL

\* In step, what a worker waits for is what the leader has called.
LEMMA WaitsForTheCall ==
    ASSUME IInv, ~OutOfStep, NEW w \in Worker, Called(w), Expected(w) # {}
    PROVE  Root(w).op \in Expected(w)
<1>1. pc[w] \in {"loop", "memOps", "stack", "heap", "context", "fortran", "nested"}
         \/ (pc[w] = "body" /\ Kind(w) = "exit")
  BY DEF Expected
<1>2. /\ Running(w) /\ Len(log[w]) \in Nat /\ Len(log[w]) >= 2 /\ WorkerPlace(w) /\ w \in Rank /\ 0 \in Rank
  BY <1>1, WorkerRuns, LeaderIsNoWorker DEF StartPC
<1>3. Len(log[0]) \in Nat /\ Prefix(w) /\ GrammarInv /\ StartInv
  BY LeaderIsNoWorker DEF IInv, PrefixInv, TypeOK
<1>4. Len(log[w]) \in 1..(Len(log[0]) - 1) /\ log[w][Len(log[w])] = log[0][Len(log[w])]
  BY <1>2, <1>3 DEF Called, Prefix
<1>5. Root(w).op \in Successors(Last(w))
  BY <1>3, <1>4 DEF GrammarInv, Last, Root
<1>6. Root(w).op \notin Setup
  <2>1. Len(log[w]) + 1 \in 3..Len(log[0]) /\ Started(0) /\ AllRankAslrDisabled
    BY <1>2, <1>3, <1>4, PastStartup DEF IInv, StartInv
  <2> QED
    BY <2>1 DEF Started, Root
<1>7. CASE pc[w] = "loop"
  <2> DEFINE c == Last(w)
  <2>1. {"enterTag", "exitTag"} \subseteq Successors(c) /\ c.op \in Op
    <3>1. c \in Collective
      BY <1>2 DEF IInv, TypeOK, Last
    <3> QED
      BY <1>2, <1>7, <3>1 DEF WorkerPlace, Closed, Collective
  <2> HIDE DEF c
  <2>2. Successors(c) \subseteq {"enterTag", "exitTag", "barrier"}
    <3>1. CASE c.op \in Setup \union (Entry \ {"context"})
      BY <2>1, <3>1 DEF Successors, Setup, Entry
    <3>2. CASE c.op \in {"exitTag", "reduce"}
      BY <3>2 DEF Successors
    <3>3. CASE c.op \in {"context", "fortran"}
      <4>1. Successors(c) = AfterBody(c) \/ Successors(c) = {"fortran"}
        BY <3>3 DEF Successors
      <4> QED
        BY <2>1, <4>1 DEF AfterBody
    <3> QED
      BY <2>1, <3>1, <3>2, <3>3 DEF Op
  <2> QED
    BY <1>5, <1>6, <1>7, <2>2 DEF Expected, Setup, c
<1>8. CASE pc[w] \in {"memOps", "stack", "heap", "context", "fortran"}
  BY <1>2, <1>5, <1>8 DEF WorkerPlace, Expected, Successors, Coll
<1>9. CASE pc[w] = "body" /\ Kind(w) = "exit"
  <2>1. Successors(Coll(BodyOp, region[w])) = {"exitTag"}
    BY <1>9 DEF Successors, AfterBody, Coll, BodyOp, Kind
  <2> QED
    BY <1>2, <1>5, <1>9, <2>1 DEF WorkerPlace, Expected
<1>10. CASE pc[w] = "nested"
  BY <1>2, <1>10 DEF WorkerPlace
<1> QED
  BY <1>1, <1>7, <1>8, <1>9, <1>10

\* The collective calls of all ranks line up.
THEOREM CallsAgree == Spec => []CollectivesAgree
<1>1. IInv => CollectivesAgree
  <2>1. SUFFICES ASSUME IInv, ~OutOfStep PROVE CollectivesAgree
    BY DEF OutOfStep, CollectivesAgree
  <2>2. ASSUME NEW q \in Rank, NEW k \in 1..Len(log[0]), k <= Len(log[q])
        PROVE  log[q][k] = log[0][k]
    <3>1. CASE q = 0
      BY <3>1
    <3>2. CASE q # 0
      <4>1. q \in Worker
        BY <3>2, NumWorkersAssumption DEF Rank, Worker
      <4>2. k \in 1..Len(log[q])
        BY <2>1, <2>2 DEF IInv, TypeOK
      <4> QED
        BY <2>1, <2>2, <4>1, <4>2 DEF IInv, PrefixInv, Prefix
    <3> QED
      BY <3>1, <3>2
  <2>3. \A q, r \in Rank, k \in 1..Len(log[0]) :
           k <= Len(log[q]) /\ k <= Len(log[r]) => log[q][k] = log[r][k]
    BY <2>2
  <2> QED
    BY <2>1, <2>3, WaitsForTheCall DEF CollectivesAgree
<1> QED
  BY <1>1, RegionInvariance, PTL

-----------------------------------------------------------------------------
(***************************************************************************)
(* How the ranks end.                                                      *)
(***************************************************************************)

\* MPI_Finalize returns where every rank has called it; a rank with address
\* space randomization never calls it.
StopInv ==
    /\ (\E r \in Rank : pc[r] = "stopped") => \A q \in Rank : pc[q] \in {"finalize", "stopped"}
    /\ \A r \in Rank : <<"aslr", r>> \in faults => pc[r] # "finalize"
    /\ (\E r \in Rank : pc[r] = "stopped") /\ ~AllRankAslrDisabled
          => \A q \in Rank : pc[q] = "stopped" /\ Len(log[q]) = 4

\* A step of one rank that is no end of it.
GoesOn(r) ==
    /\ pc[r] \notin {"finalize", "stopped"} /\ pc'[r] # "stopped"
    /\ \A q \in Rank : q # r => pc'[q] = pc[q]
    /\ \A q \in Rank : <<"aslr", q>> \in faults' => <<"aslr", q>> \in faults \/ (q = r /\ pc'[r] = "aslr")
    /\ pc'[r] = "finalize" => Running(r) \/ Len(log[r]) <= 1

LEMMA GoesOnKeeps ==
    ASSUME IInv, StopInv, NEW r \in Rank, GoesOn(r)
    PROVE  StopInv'
<1>1. \A q \in Rank : pc[q] # "stopped" /\ pc'[q] # "stopped"
  BY DEF StopInv, GoesOn
<1>2. ASSUME NEW q \in Rank, <<"aslr", q>> \in faults', pc'[q] = "finalize" PROVE FALSE
  <2>1. q = r /\ <<"aslr", r>> \in faults
    BY <1>2 DEF StopInv, GoesOn
  <2>2. Started(r) /\ ~AllRankAslrDisabled /\ Len(log[r]) \in Nat
    BY <2>1 DEF IInv, TypeOK, StartInv, AllRankAslrDisabled
  <2> QED
    BY <1>2, <2>1, <2>2 DEF GoesOn, Started
<1>3. QED
  BY <1>1, <1>2 DEF StopInv

LEMMA StepGoesOn ==
    ASSUME IInv, Next
    PROVE  \/ UNCHANGED vars
           \/ \E r \in Rank : GoesOn(r) \/ Abort(r) \/ Finalize(r)
<1>1. ASSUME NEW r \in Rank, NEW to \in (LeaderPC \union WorkerPC) \ {"stopped"}, GoTo(r, to),
             pc[r] \notin {"finalize", "stopped"},
             \/ faults' = faults
             \/ \E what \in (Checks \ {"aslr"}) \union Throwing \union {"send", "throw", "badType", "nested"} :
                   faults' = faults \union {<<what, r>>}
             \/ to = "aslr" /\ faults' = faults \union {<<"aslr", r>>},
             to = "finalize" => Running(r) \/ Len(log[r]) <= 1
      PROVE  GoesOn(r)
  <2>1. pc'[r] = to /\ \A q \in Rank : q # r => pc'[q] = pc[q]
    BY <1>1 DEF IInv, TypeOK, GoTo
  <2> QED
    BY <1>1, <2>1 DEF GoesOn, Checks, Throwing
<1>2. ASSUME NEW r \in Rank, Startup(r)
      PROVE  GoesOn(r) \/ Abort(r)
  <2>1. Started(r)
    BY DEF IInv, StartInv
  <2>2. CASE CheckPagesize(r)
    <3>1. Len(log[r]) <= 1
      BY <2>1, <2>2, StartCallsAre DEF CheckPagesize, Started, StartPC
    <3> QED
      BY <1>1, <2>2, <3>1 DEF CheckPagesize, Throws, Blame, LeaderPC, StartPC, Checks
  <2>3. CASE CheckBinding(r)
    <3>1. Len(log[r]) <= 1
      BY <2>1, <2>3, StartCallsAre DEF CheckBinding, Started, StartPC
    <3> QED
      BY <1>1, <2>3, <3>1 DEF CheckBinding, Throws, Blame, LeaderPC, StartPC, Checks
  <2>4. CASE CheckAslrDisabled(r)
    BY <1>1, <2>4 DEF CheckAslrDisabled, LeaderPC, WorkerPC, StartPC
  <2>5. CASE ReportAslr(r)
    BY <1>1, <2>5 DEF ReportAslr, LeaderPC, StartPC
  <2> QED
    BY <1>2, <2>2, <2>3, <2>4, <2>5 DEF Startup
<1>3. ASSUME LeaderStep, ~Startup(0), ~Finalize(0) PROVE GoesOn(0)
  <2>0. 0 \in Rank
    BY LeaderIsNoWorker
  <2>1. CASE OpenRegion
    BY <1>1, <2>0, <2>1 DEF OpenRegion, LeaderPC
  <2>2. CASE Refused \/ SerialBody \/ LeaderOpensInner \/ LeaderExit \/ LeaderReduced
    BY <1>1, <2>0, <2>2 DEF Refused, SerialBody, LeaderOpensInner, LeaderExit, LeaderReduced, LeaderPC
  <2>3. CASE \E c \in Entry : Send(c)
    BY <1>1, <2>0, <2>3 DEF Send, AfterSend, Entry, LeaderPC
  <2>4. CASE ClearSoftDirty \/ SendFails \/ LeaderFortran \/ LeaderSymbolsFail
    BY <1>1, <2>0, <2>4 DEF ClearSoftDirty, SendFails, LeaderFortran, LeaderSymbolsFail, Throwing, Resume, BeginBody, Blame, LeaderPC
  <2>5. CASE LeaderCallsExit \/ MainReturns \/ MainThrows
    <3>1. Running(0)
      BY <2>5 DEF LeaderCallsExit, MainReturns, MainThrows, Running, StartPC
    <3> QED
      BY <1>1, <2>0, <2>5, <3>1 DEF LeaderCallsExit, MainReturns, MainThrows, Blame, LeaderPC
  <2> QED
    BY <1>3, <2>1, <2>2, <2>3, <2>4, <2>5 DEF LeaderStep
<1>4. ASSUME NEW w \in Worker, WorkerStep(w), ~Startup(w), ~Finalize(w) PROVE GoesOn(w)
  <2>0. w \in Rank
    BY LeaderIsNoWorker
  <2>1. CASE ReserveHeapArea(w) \/ GetTag(w) \/ GetMemOps(w) \/ WorkerCallsExit(w)
    <3>1. Running(w) /\ pc[w] \notin {"finalize", "stopped"}
      BY <2>1 DEF ReserveHeapArea, GetTag, GetMemOps, WorkerCallsExit, Running, StartPC
    <3>2. CASE ReserveHeapArea(w) \/ GetMemOps(w)
      BY <1>1, <2>0, <3>1, <3>2 DEF ReserveHeapArea, GetMemOps, Throws, Throwing, Blame, WorkerPC
    <3> QED
      BY <1>1, <2>0, <2>1, <3>1, <3>2 DEF GetTag, WorkerCallsExit, WorkerPC
  <2>2. CASE Get(w, "heap", "context") \/ Get(w, "context", "init") \/ GetStack(w)
    BY <1>1, <2>0, <2>2 DEF Get, GetStack, WorkerPC
  <2>3. CASE InitReduceAreas(w)
    BY <1>1, <2>0, <2>3 DEF InitReduceAreas, Resume, BeginBody, Blame, WorkerPC
  <2>4. CASE WorkerFortran(w) \/ WorkerSymbolsFail(w) \/ WorkerOpensInner(w) \/ WorkerExit(w)
    BY <1>1, <2>0, <2>4 DEF WorkerFortran, WorkerSymbolsFail, Throwing, WorkerOpensInner, WorkerExit, BeginBody, Blame, WorkerPC
  <2> QED
    BY <1>4, <2>1, <2>2, <2>3, <2>4 DEF WorkerStep
<1>5. QED
  <2>1. ASSUME LeaderStep PROVE \E r \in Rank : GoesOn(r) \/ Abort(r) \/ Finalize(r)
    BY <1>2, <1>3, <2>1, LeaderIsNoWorker
  <2>2. ASSUME NEW w \in Worker, WorkerStep(w) PROVE \E r \in Rank : GoesOn(r) \/ Abort(r) \/ Finalize(r)
    BY <1>2, <1>4, <2>2, LeaderIsNoWorker
  <2> QED
    BY <2>1, <2>2 DEF Next, Stopped

\* MPI_Abort ends a rank only when all have passed both barriers of check_aslr_disabled.
THEOREM AbortsAfterReports == Spec => []AbortAfterReports
<1>1. Init => StopInv
  BY DEF Init, StopInv
<1>2. IInv /\ StopInv /\ [Next]_vars => StopInv'
  <2>1. SUFFICES ASSUME IInv, StopInv, [Next]_vars PROVE StopInv'
    OBVIOUS
  <2>2. CASE UNCHANGED vars
    BY <2>1, <2>2 DEF vars, StopInv, AllRankAslrDisabled
  <2>3. ASSUME NEW r \in Rank, Abort(r) PROVE StopInv'
    <3>1. /\ \A q \in Rank : pc'[q] = "stopped" /\ log'[q] = log[q] /\ Len(log[q]) \in Nat
          /\ Started(r)
      BY <2>1, <2>3 DEF Abort, IInv, TypeOK, StartInv
    <3>2. Len(log[r]) = 4 /\ ~AllRankAslrDisabled
      BY <2>3, <3>1, StartCallsAre DEF Abort, Started, StartPC
    <3>3. \A q \in Rank : Len(log[q]) = 4
      <4>1. TAKE q \in Rank
      <4>2. Len(log[q]) >= 4
        BY <2>3, <3>2 DEF Abort, AllCalled
      <4>3. Len(log[q]) \in 3..Len(log[q]) => Len(log[q]) <= 4
        BY <2>1, <3>2 DEF IInv, StartInv, Started
      <4> DEFINE n == Len(log[q])
      <4>4. n \in Nat /\ n >= 4 /\ (n \in 3..n => n <= 4)
        BY <3>1, <4>2, <4>3
      <4> HIDE DEF n
      <4>5. n = 4
        BY <4>4
      <4> QED
        BY <4>5 DEF n
    <3> QED
      BY <3>1, <3>3 DEF StopInv
  <2>4. ASSUME NEW r \in Rank, Finalize(r) PROVE StopInv'
    <3>1. /\ \A q \in Rank : pc[q] \in {"finalize", "stopped"} /\ pc'[q] = IF q = r THEN "stopped" ELSE pc[q]
          /\ pc[r] = "finalize" /\ UNCHANGED faults
      BY <2>1, <2>4 DEF Finalize, GoTo, IInv, TypeOK
    <3>2. AllRankAslrDisabled
      BY <2>1, <3>1 DEF StopInv, AllRankAslrDisabled
    <3>3. AllRankAslrDisabled'
      BY <3>1, <3>2 DEF AllRankAslrDisabled
    <3> QED
      BY <3>1, <3>2, <3>3 DEF StopInv, AllRankAslrDisabled
  <2> QED
    BY <2>1, <2>2, <2>3, <2>4, StepGoesOn, GoesOnKeeps
<1>3. IInv /\ StopInv => AbortAfterReports
  <2>1. SUFFICES ASSUME IInv, StopInv, NEW r \in Rank, pc[r] = "stopped",
                        NEW f \in faults, f[1] \in {"aslr"}
                 PROVE  Len(log[r]) = 4
    BY DEF AbortAfterReports, Happened
  <2>2. PICK q \in Rank : f = <<f[1], q>>
    BY <2>1 DEF IInv, TypeOK, Fault
  <2>3. ~AllRankAslrDisabled
    BY <2>1, <2>2 DEF AllRankAslrDisabled
  <2> QED
    BY <2>1, <2>3 DEF StopInv
<1> QED
  BY <1>1, <1>2, <1>3, RegionInvariance, PTL DEF Spec

-----------------------------------------------------------------------------
(***************************************************************************)
(* in_parallel of the leader.                                              *)
(***************************************************************************)

InRegionPC == Entry \union {"clear", "fortran", "body", "bodyEnd"}

\* The constructor of par_ctx has thrown with in_parallel set.
ConstructorThrew ==
    (\E k \in 1..Len(kinds) : kinds[k] = "overlap") \/ <<"symbols", 0>> \in faults

\* in_parallel is set only while a region is open, unless a constructor has thrown;
\* the region the leader is in is the last one opened.
FlagInv ==
    /\ region[0] = Len(kinds)
    /\ inParallel[0] => pc[0] \in InRegionPC \union {"refused", "finalize", "stopped"} \/ ConstructorThrew
    /\ pc[0] \in InRegionPC => region[0] \notin ended[0]
    /\ pc[0] \in {"body", "bodyEnd"} => region[0] \in begun[0]
    /\ pc[0] = "refused" => IF region[0] \in begun[0] THEN region[0] \notin ended[0] ELSE ConstructorThrew

\* A step of another rank, or of the leader out of the regions.
LEMMA FlagKept ==
    ASSUME FlagInv,
           \/ pc'[0] = pc[0] \/ pc'[0] \in {"finalize", "stopped"}
           \/ pc[0] \in StartPC /\ pc'[0] \in StartPC \union {"main"},
           region'[0] = region[0], inParallel'[0] = inParallel[0], begun'[0] = begun[0],
           pc'[0] \in {"finalize", "stopped"} \/ ended'[0] = ended[0], UNCHANGED kinds,
           faults \subseteq faults'
    PROVE  FlagInv'
<1>1. ConstructorThrew => ConstructorThrew'
  BY DEF ConstructorThrew
<1>2. QED
  BY <1>1 DEF FlagInv, InRegionPC, Entry, StartPC

LEMMA FlagSteps ==
    ASSUME IInv, FlagInv, Next
    PROVE  FlagInv'
<1>1. TypeOK /\ LeaderInv /\ 0 \in Rank /\ \A w \in Worker : w \in Rank /\ w # 0
  BY LeaderIsNoWorker DEF IInv
<1>2. ASSUME NEW r \in Rank, Startup(r) PROVE FlagInv'
  <2>1. region'[0] = region[0] /\ inParallel'[0] = inParallel[0] /\ begun'[0] = begun[0]
        /\ ended'[0] = ended[0] /\ UNCHANGED kinds /\ faults \subseteq faults'
    BY <1>2 DEF Startup, CheckPagesize, CheckBinding, CheckAslrDisabled, ReportAslr, Abort, Throws, Blame
  <2>2. \/ \A q \in Rank : pc'[q] = "stopped"
        \/ pc[r] \in StartPC /\ \E to \in StartPC \union {"main", "reserve", "finalize"} :
               (r = 0 => to # "reserve") /\ GoTo(r, to)
    BY <1>2 DEF Startup, CheckPagesize, CheckBinding, Throws, CheckAslrDisabled, ReportAslr, Abort, StartPC
  <2>3. \/ pc'[0] = pc[0] \/ pc'[0] = "stopped"
        \/ pc[0] \in StartPC /\ pc'[0] \in StartPC \union {"main", "finalize"}
    BY <1>1, <2>2 DEF GoTo, TypeOK
  <2> QED
    BY <2>1, <2>3, FlagKept
<1>3. ASSUME NEW w \in Worker, WorkerStep(w), ~Startup(w) PROVE FlagInv'
  <2>1. pc'[0] = pc[0] /\ UNCHANGED kinds
    BY <1>1, <1>3 DEF WorkerStep, ReserveHeapArea, GetTag, GetMemOps, Get, GetStack,
       InitReduceAreas, WorkerFortran, WorkerSymbolsFail, WorkerOpensInner, Throws,
       WorkerCallsExit, WorkerExit, Finalize, Resume, BeginBody, GoTo, TypeOK
  <2>2. region'[0] = region[0]
    BY <1>1, <1>3 DEF WorkerStep, ReserveHeapArea, GetTag, GetMemOps, Get, GetStack,
       InitReduceAreas, WorkerFortran, WorkerSymbolsFail, WorkerOpensInner, Throws,
       WorkerCallsExit, WorkerExit, Finalize, TypeOK
  <2>3. begun'[0] = begun[0]
    BY <1>1, <1>3 DEF WorkerStep, ReserveHeapArea, GetTag, GetMemOps, Get, GetStack,
       InitReduceAreas, WorkerFortran, WorkerSymbolsFail, WorkerOpensInner, Throws,
       WorkerCallsExit, WorkerExit, Finalize, Resume, BeginBody, TypeOK
  <2>4. ended'[0] = ended[0] /\ inParallel'[0] = inParallel[0]
    BY <1>1, <1>3 DEF WorkerStep, ReserveHeapArea, GetTag, GetMemOps, Get, GetStack,
       InitReduceAreas, WorkerFortran, WorkerSymbolsFail, WorkerOpensInner, Throws,
       WorkerCallsExit, WorkerExit, Finalize, TypeOK
  <2>5. faults \subseteq faults'
    BY <1>3 DEF WorkerStep, ReserveHeapArea, GetTag, GetMemOps, Get, GetStack, InitReduceAreas,
       WorkerFortran, WorkerSymbolsFail, WorkerOpensInner, WorkerCallsExit, WorkerExit, Finalize,
       Throws, Blame
  <2> QED
    BY <2>1, <2>2, <2>3, <2>4, <2>5, FlagKept
<1>4. CASE OpenRegion
  <2>1. pc[0] = "main" /\ UNCHANGED <<begun, ended>>
    BY <1>4 DEF OpenRegion
  <2>2. PICK k \in Kinds :
          /\ kinds' = Append(kinds, k) /\ region' = [region EXCEPT ![0] = Len(kinds) + 1]
          /\ \/ GoTo(0, "serial") /\ UNCHANGED inParallel
             \/ GoTo(0, "refused") /\ UNCHANGED inParallel /\ inParallel[0]
             \/ GoTo(0, "main") /\ k = "overlap"
             \/ GoTo(0, "enterTag")
    BY <1>4 DEF OpenRegion
  <2>3. /\ Len(kinds) \in Nat /\ Len(kinds') = Len(kinds) + 1 /\ kinds'[Len(kinds) + 1] = k
        /\ \A i \in 1..Len(kinds) : kinds'[i] = kinds[i]
    <3>1. kinds \in Seq(Kinds)
      BY <1>1 DEF TypeOK
    <3> QED
      BY <2>2, <3>1
  <2>4. region'[0] = Len(kinds')
    BY <1>1, <2>2, <2>3 DEF TypeOK
  <2>5. region'[0] \notin begun'[0] /\ region'[0] \notin ended'[0]
    BY <1>1, <2>1, <2>3, <2>4 DEF TypeOK
  <2>6. ConstructorThrew \/ k = "overlap" => ConstructorThrew'
    <3>f. UNCHANGED faults
      BY <1>4 DEF OpenRegion
    <3>1. CASE k = "overlap"
      <4>1. Len(kinds) + 1 \in 1..Len(kinds') /\ kinds'[Len(kinds) + 1] = "overlap"
        BY <2>3, <3>1
      <4> QED
        BY <4>1 DEF ConstructorThrew
    <3>2. CASE ConstructorThrew
      <4>1. CASE <<"symbols", 0>> \in faults
        BY <3>f, <4>1 DEF ConstructorThrew
      <4>2. ASSUME NEW j \in 1..Len(kinds), kinds[j] = "overlap" PROVE ConstructorThrew'
        <5>1. j \in 1..Len(kinds') /\ kinds'[j] = "overlap"
          BY <2>3, <4>2
        <5> QED
          BY <5>1 DEF ConstructorThrew
      <4> QED
        BY <3>2, <4>1, <4>2 DEF ConstructorThrew
    <3> QED
      BY <3>1, <3>2
  <2>7. inParallel[0] => ConstructorThrew
    BY <2>1 DEF FlagInv, InRegionPC, Entry
  <2>8. \/ pc'[0] = "serial" /\ inParallel' = inParallel
        \/ pc'[0] = "refused" /\ inParallel' = inParallel /\ inParallel[0]
        \/ pc'[0] = "main" /\ k = "overlap"
        \/ pc'[0] = "enterTag"
    BY <1>1, <2>2 DEF GoTo, TypeOK
  <2>9. pc'[0] \in {"serial", "refused", "main", "enterTag"}
    BY <2>8
  <2>10. inParallel'[0] => pc'[0] \in InRegionPC \union {"refused", "finalize", "stopped"} \/ ConstructorThrew'
    BY <2>6, <2>7, <2>8 DEF InRegionPC, Entry
  <2> QED
    BY <2>4, <2>5, <2>6, <2>7, <2>8, <2>9, <2>10 DEF FlagInv
<1>5. CASE Refused \/ SerialBody \/ LeaderReduced
  <2>1. /\ UNCHANGED <<kinds, region, inParallel>> /\ (ConstructorThrew => ConstructorThrew')
        /\ \/ pc'[0] = "main" /\ pc[0] \in {"serial", "reduce"}
           \/ /\ pc[0] = "refused" /\ UNCHANGED <<begun, ended>>
              /\ pc'[0] = IF region[0] \in begun[0] THEN "bodyEnd" ELSE "main"
    BY <1>1, <1>5 DEF Refused, SerialBody, LeaderReduced, ConstructorThrew, GoTo, TypeOK
  <2> QED
    BY <2>1 DEF FlagInv, InRegionPC, Entry
<1>6. CASE \/ \E c \in Entry : Send(c)
           \/ ClearSoftDirty \/ SendFails \/ LeaderFortran \/ LeaderOpensInner
  <2>1. /\ UNCHANGED <<kinds, region, inParallel, ended>> /\ (ConstructorThrew => ConstructorThrew')
        /\ pc[0] \in InRegionPC
    BY <1>6 DEF Send, ClearSoftDirty, SendFails, LeaderFortran, LeaderOpensInner, Blame, ConstructorThrew,
       InRegionPC, Entry
  <2>2. \/ pc'[0] \in InRegionPC \ {"body", "bodyEnd"}
        \/ pc'[0] = "body" /\ region[0] \in begun'[0]
        \/ pc'[0] = "refused" /\ begun' = begun /\ pc[0] = "body"
    BY <1>1, <1>6 DEF Send, AfterSend, ClearSoftDirty, SendFails, LeaderFortran, LeaderOpensInner, Resume,
       BeginBody, GoTo, TypeOK, InRegionPC, Entry
  <2> QED
    BY <2>1, <2>2 DEF FlagInv, InRegionPC, Entry
<1>s. CASE LeaderSymbolsFail
  <2>1. /\ UNCHANGED <<kinds, region, inParallel, begun, ended>> /\ pc'[0] = "main"
        /\ <<"symbols", 0>> \in faults'
    BY <1>1, <1>s DEF LeaderSymbolsFail, Blame, GoTo, TypeOK
  <2> QED
    BY <2>1 DEF FlagInv, ConstructorThrew, InRegionPC, Entry
<1>7. CASE LeaderExit
  <2>1. /\ UNCHANGED <<kinds, region, begun>> /\ (ConstructorThrew => ConstructorThrew')
        /\ pc'[0] \in {"main", "reduce"} /\ ~inParallel'[0]
    BY <1>1, <1>7 DEF LeaderExit, ConstructorThrew, GoTo, TypeOK
  <2> QED
    BY <2>1 DEF FlagInv, InRegionPC, Entry
<1>8. CASE LeaderCallsExit \/ MainReturns \/ MainThrows \/ Finalize(0)
  <2>1. /\ UNCHANGED <<kinds, region, begun, inParallel>> /\ pc'[0] \in {"finalize", "stopped"}
        /\ faults \subseteq faults'
    BY <1>1, <1>8 DEF LeaderCallsExit, MainReturns, MainThrows, Finalize, Blame, GoTo, TypeOK
  <2> QED
    BY <2>1, FlagKept
<1>9. QED
  BY <1>1, <1>2, <1>3, <1>4, <1>5, <1>6, <1>s, <1>7, <1>8 DEF Next, LeaderStep, Stopped, vars, FlagInv, ConstructorThrew

LEMMA FlagInvariance == Spec => []FlagInv
<1>1. Init => FlagInv
  BY LeaderIsNoWorker DEF Init, FlagInv, InRegionPC, Entry, ConstructorThrew
<1>2. IInv /\ FlagInv /\ [Next]_vars => FlagInv'
  <2>1. SUFFICES ASSUME IInv, FlagInv, UNCHANGED vars PROVE FlagInv'
    BY FlagSteps
  <2> QED
    BY <2>1 DEF vars, FlagInv, ConstructorThrew
<1> QED
  BY <1>1, <1>2, RegionInvariance, PTL DEF Spec

\* "nested parallel is not supported" is said of a region inside a region only, unless a
\* constructor has thrown with in_parallel set.
THEOREM NestedIsNested == Spec => []RefusedMeansNested
<1>1. FlagInv => RefusedMeansNested
  BY DEF FlagInv, RefusedMeansNested, ConstructorThrew
<1> QED
  BY <1>1, FlagInvariance, PTL

-----------------------------------------------------------------------------
(***************************************************************************)
(* Forks and joins.  A region is known by the broadcast of its context: in *)
(* the log of the leader these come in the order of the regions, one for   *)
(* each that is entered, and a worker, whose log is a prefix, has run what *)
(* it has received the context of.                                         *)
(***************************************************************************)

\* Where rank r has called the broadcast of a context, and for which region.
Contexts(r) ==
    {<<i, log[r][i].region>> : i \in {j \in 1..Len(log[r]) : log[r][j].op = "context"}}

\* The leader's contexts are those of the forked regions, but for the one it enters.
ContextInv ==
    /\ \A c \in Contexts(0) : c[2] \in Forked /\ (pc[0] \in Entry => c[2] # region[0])
    /\ \A c, d \in Contexts(0) : c[1] < d[1] => c[2] < d[2]
    /\ \/ OutOfStep
       \/ \A k \in Forked : (pc[0] \in Entry /\ k = region[0]) \/ \E c \in Contexts(0) : c[2] = k

\* The leader is in one region at most, and has begun it only in its body.
LeaderBodies ==
    /\ ended[0] \subseteq begun[0]
    /\ \A k \in begun[0] \ ended[0] : k = region[0] /\ pc[0] \in {"body", "bodyEnd", "refused"}
    /\ pc[0] \in Entry \union {"serial", "clear", "fortran"} => region[0] \notin begun[0]
    /\ pc[0] \in InRegionPC \/ (pc[0] = "refused" /\ region[0] \in begun[0]) => region[0] \in Forked
    /\ pc[0] = "serial" => region[0] \notin Forked
    /\ pc[0] \in {"serial", "reduce"} => region[0] >= 1
    /\ pc[0] = "reduce" => region[0] \in Reducing \intersect ended[0]

\* A worker has run the regions whose contexts it has, but for the one it is in.
WorkerBodies(w) ==
    /\ ended[w] \subseteq begun[w]
    /\ \A k \in begun[w] \ ended[w] : k = region[w] /\ pc[w] \in {"body", "nested"}
    /\ pc[w] = "body" => region[w] \in begun[w] \ ended[w]
    /\ pc[w] \in {"init", "fortran"} => region[w] \notin begun[w]
    /\ \A c \in Contexts(w) :
          c[2] \in ended[w]
             \/ (c[2] = region[w] /\ pc[w] \in {"init", "fortran", "body", "nested", "lost"})
    /\ \A k \in begun[w] : \E c \in Contexts(w) : c[2] = k

JoinInv == ContextInv /\ LeaderBodies /\ \A w \in Worker : WorkerBodies(w)

\* A call that is no broadcast of a context leaves the contexts as they are.
LEMMA ContextsSame ==
    ASSUME TypeOK, NEW r \in Rank,
           \/ log'[r] = log[r]
           \/ \E c \in Op \ {"context"}, k \in 0..MaxRegions : Call(r, c, k)
    PROVE  Contexts(r)' = Contexts(r)
<1>1. CASE log'[r] = log[r]
  BY <1>1 DEF Contexts
<1>2. ASSUME NEW c \in Op \ {"context"}, NEW k \in 0..MaxRegions, Call(r, c, k)
      PROVE  Contexts(r)' = Contexts(r)
  <2>1. /\ Len(log[r]) \in Nat /\ Len(log'[r]) = Len(log[r]) + 1
        /\ log'[r][Len(log[r]) + 1] = Coll(c, k)
        /\ \A i \in 1..Len(log[r]) : log'[r][i] = log[r][i]
    BY <1>2, CallFacts
  <2>2. {j \in 1..Len(log'[r]) : log'[r][j].op = "context"} = {j \in 1..Len(log[r]) : log[r][j].op = "context"}
    <3>1. log'[r][Len(log[r]) + 1].op # "context"
      BY <2>1 DEF Coll
    <3>2. \A j \in 1..Len(log'[r]) : j \in 1..Len(log[r]) \/ j = Len(log[r]) + 1
      BY <2>1
    <3>3. \A j \in 1..Len(log[r]) : j \in 1..Len(log'[r])
      BY <2>1
    <3> QED
      BY <2>1, <3>1, <3>2, <3>3
  <2> QED
    BY <2>1, <2>2 DEF Contexts
<1>3. QED
  BY <1>1, <1>2

\* The broadcast of a context adds one.
LEMMA ContextsMore ==
    ASSUME TypeOK, NEW r \in Rank, NEW k \in 0..MaxRegions, Call(r, "context", k)
    PROVE  Contexts(r)' = Contexts(r) \union {<<Len(log[r]) + 1, k>>}
<1>1. "context" \in Op
  BY DEF Op, Entry
<1>2. /\ Len(log[r]) \in Nat /\ Len(log'[r]) = Len(log[r]) + 1
      /\ log'[r][Len(log[r]) + 1] = Coll("context", k)
      /\ \A i \in 1..Len(log[r]) : log'[r][i] = log[r][i]
  BY <1>1, CallFacts
<1>3. {j \in 1..Len(log'[r]) : log'[r][j].op = "context"}
         = {j \in 1..Len(log[r]) : log[r][j].op = "context"} \union {Len(log[r]) + 1}
  BY <1>2 DEF Coll
<1>4. log'[r][Len(log[r]) + 1].region = k
  BY <1>2 DEF Coll
<1>5. \A x : x \in Contexts(r)' => x \in Contexts(r) \union {<<Len(log[r]) + 1, k>>}
  BY <1>2, <1>3, <1>4 DEF Contexts
<1>6. Contexts(r) \subseteq Contexts(r)'
  BY <1>2, <1>3 DEF Contexts
<1>7. <<Len(log[r]) + 1, k>> \in Contexts(r)'
  BY <1>3, <1>4 DEF Contexts
<1>8. QED
  BY <1>5, <1>6, <1>7

\* The contexts a worker has are the leader's first ones.
LEMMA ContextsPrefix ==
    ASSUME IInv, NEW w \in Worker
    PROVE  /\ Contexts(w) \subseteq Contexts(0)
           /\ \A c \in Contexts(0) : c[1] <= Len(log[w]) => c \in Contexts(w)
           /\ \A c \in Contexts(w) : c[1] \in 1..Len(log[w])
<1>1. /\ Len(log[w]) \in Nat /\ Len(log[0]) \in Nat /\ w \in Rank /\ 0 \in Rank
      /\ Len(log[w]) <= Len(log[0]) + 1 /\ (Ahead(w) => MayBeAhead(w))
      /\ \A i \in 1..Len(log[w]) : i <= Len(log[0]) => log[w][i] = log[0][i]
  BY LeaderIsNoWorker DEF IInv, TypeOK, PrefixInv, Prefix
<1>2. ASSUME NEW i \in 1..Len(log[w]), log[w][i].op = "context" PROVE i <= Len(log[0])
  <2>1. SUFFICES ASSUME i > Len(log[0]) PROVE FALSE
    BY <1>1
  <2>2. Ahead(w) /\ i = Len(log[w])
    BY <1>1, <2>1 DEF Ahead
  <2> QED
    BY <1>1, <1>2, <2>2 DEF MayBeAhead, Last, Coll, Setup
<1>3. Contexts(w) \subseteq Contexts(0)
  BY <1>1, <1>2 DEF Contexts
<1>4. \A c \in Contexts(0) : c[1] <= Len(log[w]) => c \in Contexts(w)
  <2>1. TAKE c \in Contexts(0)
  <2>2. PICK i \in 1..Len(log[0]) : log[0][i].op = "context" /\ c = <<i, log[0][i].region>>
    BY DEF Contexts
  <2>3. ASSUME c[1] <= Len(log[w]) PROVE c \in Contexts(w)
    <3>1. i \in 1..Len(log[w]) /\ log[w][i] = log[0][i]
      BY <1>1, <2>2, <2>3
    <3> QED
      BY <2>2, <3>1 DEF Contexts
  <2> QED
    BY <2>3
<1>5. \A c \in Contexts(w) : c[1] \in 1..Len(log[w])
  BY DEF Contexts
<1>6. QED
  BY <1>3, <1>4, <1>5

\* A step of another rank leaves what is said of the leader.
LEMMA LeaderBodiesKept ==
    ASSUME ContextInv, LeaderBodies, UNCHANGED <<kinds, pc[0], region[0], begun[0], ended[0]>>,
           Contexts(0)' = Contexts(0), faults \subseteq faults'
    PROVE  ContextInv' /\ LeaderBodies'
<1>1. Forked' = Forked /\ Reducing' = Reducing
  BY DEF Forked, Reducing
<1>2. OutOfStep => OutOfStep'
  BY DEF OutOfStep, Happened
<1>3. ContextInv'
  BY <1>1, <1>2 DEF ContextInv
<1>4. LeaderBodies'
  BY <1>1 DEF LeaderBodies
<1>5. QED
  BY <1>3, <1>4

\* A step of another rank leaves what is said of a worker.
LEMMA WorkerBodiesKept ==
    ASSUME NEW w \in Worker, WorkerBodies(w), UNCHANGED <<pc[w], region[w], begun[w], ended[w]>>,
           Contexts(w)' = Contexts(w)
    PROVE  WorkerBodies(w)'
BY DEF WorkerBodies

-----------------------------------------------------------------------------
\* Places where a rank has no region on its hands.
Quiet == StartPC \union {"main", "reserve", "loop", "finalize", "stopped"}

\* A worker has none either until it gets the context.
WorkerQuiet == Quiet \union {"memOps", "stack", "heap", "context"}

LEMMA WorkerQuietKept ==
    ASSUME NEW w \in Worker, WorkerBodies(w), UNCHANGED <<begun[w], ended[w]>>,
           Contexts(w)' = Contexts(w), pc[w] \in WorkerQuiet, pc'[w] \in WorkerQuiet
    PROVE  WorkerBodies(w)'
BY DEF WorkerBodies, WorkerQuiet, Quiet, StartPC

\* The leader makes no forked region its own, and does not leave one.
LEMMA ContextInvKept ==
    ASSUME ContextInv, UNCHANGED <<kinds, region[0]>>, Contexts(0)' = Contexts(0), faults \subseteq faults',
           pc'[0] \in Entry => pc[0] \in Entry,
           OutOfStep' \/ (pc[0] \in Entry => pc'[0] \in Entry)
    PROVE  ContextInv'
<1>1. Forked' = Forked
  BY DEF Forked
<1>2. OutOfStep => OutOfStep'
  BY DEF OutOfStep, Happened
<1>3. QED
  BY <1>1, <1>2 DEF ContextInv

LEMMA LeaderQuietKept ==
    ASSUME ContextInv, LeaderBodies, UNCHANGED <<kinds, region[0], begun[0], ended[0]>>,
           Contexts(0)' = Contexts(0), faults \subseteq faults', pc[0] \in Quiet, pc'[0] \in Quiet
    PROVE  ContextInv' /\ LeaderBodies'
<1>1. pc[0] \notin Entry /\ pc'[0] \notin Entry
  BY DEF Quiet, StartPC, Entry
<1>2. ContextInv'
  BY <1>1, ContextInvKept
<1>3. Forked' = Forked /\ Reducing' = Reducing
  BY DEF Forked, Reducing
<1>4. LeaderBodies'
  BY <1>3 DEF LeaderBodies, Quiet, StartPC, Entry, InRegionPC
<1>5. QED
  BY <1>2, <1>4

\* The pool of regions does not see the step.
LEMMA RegionsStutter ==
    ASSUME UNCHANGED <<kinds, region[0], begun, ended>>, pc'[0] = "reduce" <=> pc[0] = "reduce"
    PROVE  UNCHANGED Regions!vars
BY DEF Regions!vars, Forked, Reducing, LeftByLeader

\* What the step of one rank leaves of the others.
LEMMA WorkersAlone ==
    ASSUME IInv, \A w \in Worker : WorkerBodies(w), Moves(0)
    PROVE  \A w \in Worker : WorkerBodies(w)'
<1>1. TAKE w \in Worker
<1>2. w \in Rank \ {0} /\ TypeOK
  BY LeaderIsNoWorker DEF IInv
<1>3. Contexts(w)' = Contexts(w)
  BY <1>2, ContextsSame DEF Moves
<1>4. QED
  BY <1>2, <1>3, WorkerBodiesKept DEF Moves

LEMMA OthersAlone ==
    ASSUME IInv, JoinInv, NEW w \in Worker, Moves(w), UNCHANGED kinds, WorkerBodies(w)'
    PROVE  JoinInv'
<1>1. /\ TypeOK /\ 0 \in Rank \ {w} /\ w \in Rank /\ \A v \in Worker : v \in Rank
      /\ ContextInv /\ LeaderBodies /\ \A v \in Worker : WorkerBodies(v)
  BY LeaderIsNoWorker DEF IInv, JoinInv
<1>2. \A q \in Rank \ {w} : Contexts(q)' = Contexts(q)
  BY <1>1, ContextsSame DEF Moves
<1>3. ContextInv' /\ LeaderBodies'
  BY <1>1, <1>2, LeaderBodiesKept DEF Moves
<1>4. \A v \in Worker \ {w} : WorkerBodies(v)'
  BY <1>1, <1>2, WorkerBodiesKept DEF Moves
<1>5. QED
  BY <1>3, <1>4 DEF JoinInv

LEMMA WorkerMoves ==
    ASSUME TypeOK, NEW w \in Worker, WorkerStep(w), ~Startup(w)
    PROVE  Moves(w) /\ UNCHANGED kinds
<1>1. w \in Rank
  BY LeaderIsNoWorker
<1>2. UNCHANGED kinds /\ \A q \in Rank \ {w} : pc'[q] = pc[q]
  BY <1>1 DEF WorkerStep, ReserveHeapArea, GetTag, GetMemOps, Get, GetStack, WorkerSymbolsFail, Throws,
     InitReduceAreas, WorkerFortran, WorkerOpensInner,
     WorkerCallsExit, WorkerExit, Finalize, Resume, BeginBody, GoTo, TypeOK
<1>3. \A q \in Rank \ {w} : log'[q] = log[q]
  BY <1>1 DEF WorkerStep, ReserveHeapArea, GetTag, GetMemOps, Get, GetStack, WorkerSymbolsFail, Throws,
     InitReduceAreas, WorkerFortran, WorkerOpensInner,
     WorkerCallsExit, WorkerExit, Finalize, Receive, Call, TypeOK
<1>4. \A q \in Rank \ {w} : region'[q] = region[q]
  BY <1>1 DEF WorkerStep, ReserveHeapArea, GetTag, GetMemOps, Get, GetStack, WorkerSymbolsFail, Throws,
     InitReduceAreas, WorkerFortran, WorkerOpensInner,
     WorkerCallsExit, WorkerExit, Finalize, TypeOK
<1>5. \A q \in Rank \ {w} : begun'[q] = begun[q]
  BY <1>1 DEF WorkerStep, ReserveHeapArea, GetTag, GetMemOps, Get, GetStack, WorkerSymbolsFail, Throws,
     InitReduceAreas, WorkerFortran, WorkerOpensInner,
     WorkerCallsExit, WorkerExit, Finalize, Resume, BeginBody, TypeOK
<1>6. ended[w] \subseteq ended'[w] /\ \A q \in Rank \ {w} : ended'[q] = ended[q]
  BY <1>1 DEF WorkerStep, ReserveHeapArea, GetTag, GetMemOps, Get, GetStack, WorkerSymbolsFail, Throws,
     InitReduceAreas, WorkerFortran, WorkerOpensInner,
     WorkerCallsExit, WorkerExit, Finalize, TypeOK
<1>7. faults \subseteq faults'
  BY DEF WorkerStep, ReserveHeapArea, GetTag, GetMemOps, Get, GetStack, WorkerSymbolsFail, Throws,
     InitReduceAreas, WorkerFortran, WorkerOpensInner,
     WorkerCallsExit, WorkerExit, Finalize, Blame
<1>8. QED
  BY <1>2, <1>3, <1>4, <1>5, <1>6, <1>7 DEF Moves

LEMMA LeaderMoves ==
    ASSUME TypeOK, LeaderStep, ~Startup(0)
    PROVE  Moves(0)
<1>1. 0 \in Rank
  BY LeaderIsNoWorker
<1>2. \A q \in Rank \ {0} : pc'[q] = pc[q]
  BY <1>1 DEF LeaderStep, OpenRegion, Refused, SerialBody, Send, ClearSoftDirty, SendFails, LeaderFortran, LeaderSymbolsFail,
     LeaderOpensInner, LeaderCallsExit, LeaderExit, LeaderReduced, MainReturns, MainThrows, Finalize,
     Resume, BeginBody, GoTo, TypeOK
<1>3. \A q \in Rank \ {0} : log'[q] = log[q]
  BY <1>1 DEF LeaderStep, OpenRegion, Refused, SerialBody, Send, ClearSoftDirty, SendFails, LeaderFortran, LeaderSymbolsFail,
     LeaderOpensInner, LeaderCallsExit, LeaderExit, LeaderReduced, MainReturns, MainThrows, Finalize,
     Call, TypeOK
<1>4. \A q \in Rank \ {0} : region'[q] = region[q]
  BY <1>1 DEF LeaderStep, OpenRegion, Refused, SerialBody, Send, ClearSoftDirty, SendFails, LeaderFortran, LeaderSymbolsFail,
     LeaderOpensInner, LeaderCallsExit, LeaderExit, LeaderReduced, MainReturns, MainThrows, Finalize, TypeOK
<1>5. \A q \in Rank \ {0} : begun'[q] = begun[q]
  BY <1>1 DEF LeaderStep, OpenRegion, Refused, SerialBody, Send, ClearSoftDirty, SendFails, LeaderFortran, LeaderSymbolsFail,
     LeaderOpensInner, LeaderCallsExit, LeaderExit, LeaderReduced, MainReturns, MainThrows, Finalize,
     Resume, BeginBody, TypeOK
<1>6. ended[0] \subseteq ended'[0] /\ \A q \in Rank \ {0} : ended'[q] = ended[q]
  BY <1>1 DEF LeaderStep, OpenRegion, Refused, SerialBody, Send, ClearSoftDirty, SendFails, LeaderFortran, LeaderSymbolsFail,
     LeaderOpensInner, LeaderCallsExit, LeaderExit, LeaderReduced, MainReturns, MainThrows, Finalize, TypeOK
<1>7. faults \subseteq faults'
  BY DEF LeaderStep, OpenRegion, Refused, SerialBody, Send, ClearSoftDirty, SendFails, LeaderFortran, LeaderSymbolsFail,
     LeaderOpensInner, LeaderCallsExit, LeaderExit, LeaderReduced, MainReturns, MainThrows, Finalize, Blame
<1>8. QED
  BY <1>2, <1>3, <1>4, <1>5, <1>6, <1>7 DEF Moves

-----------------------------------------------------------------------------
\* The startup.
LEMMA StartupJoins ==
    ASSUME IInv, JoinInv, NEW r \in Rank, Startup(r)
    PROVE  JoinInv' /\ UNCHANGED Regions!vars
<1>1. /\ TypeOK /\ 0 \in Rank /\ \A w \in Worker : w \in Rank
      /\ ContextInv /\ LeaderBodies /\ \A w \in Worker : WorkerBodies(w)
  BY LeaderIsNoWorker DEF IInv, JoinInv
<1>2. UNCHANGED <<kinds, region, begun, ended>> /\ faults \subseteq faults'
  BY DEF Startup, CheckPagesize, CheckBinding, Throws, CheckAslrDisabled, ReportAslr, Abort, Blame
<1>3. \A q \in Rank : Contexts(q)' = Contexts(q)
  <2>1. TAKE q \in Rank
  <2>2. log' = log \/ \E c \in Setup : Call(r, c, 0)
    BY DEF Startup, CheckPagesize, CheckBinding, Throws, CheckAslrDisabled, ReportAslr, Abort, Setup
  <2>3. CASE log' = log
    BY <1>1, <2>3, ContextsSame
  <2>4. ASSUME NEW c \in Setup, Call(r, c, 0) PROVE Contexts(q)' = Contexts(q)
    <3>1. q # r => log'[q] = log[q]
      BY <1>1, <2>4 DEF Call, TypeOK
    <3>2. c \in Op \ {"context"} /\ 0 \in 0..MaxRegions
      BY MaxRegionsAssumption DEF Op, Setup
    <3> QED
      BY <1>1, <2>4, <3>1, <3>2, ContextsSame
  <2> QED
    BY <2>2, <2>3, <2>4
<1>4. \A q \in Rank : pc'[q] = pc[q] \/ (pc[q] \in Quiet /\ pc'[q] \in Quiet)
  <2>1. CASE Abort(r)
    <3>1. Started(r) /\ ~AllRankAslrDisabled
      BY <1>1, <2>1 DEF IInv, StartInv, Started, Abort
    <3>2. \A q \in Rank : ~Running(q)
      BY <3>1 DEF IInv, StartInv, Started
    <3> QED
      BY <2>1, <3>2 DEF Abort, Running, Quiet
  <2>2. CASE ~Abort(r)
    <3>1. pc[r] \in StartPC /\ \E to \in StartPC \union {"main", "reserve", "finalize"} : GoTo(r, to)
      BY <2>2 DEF Startup, CheckPagesize, CheckBinding, Throws, CheckAslrDisabled, ReportAslr, StartPC
    <3> QED
      BY <1>1, <3>1 DEF GoTo, TypeOK, Quiet
  <2> QED
    BY <2>1, <2>2
<1>5. ContextInv' /\ LeaderBodies'
  <2>1. CASE pc'[0] = pc[0]
    BY <1>1, <1>2, <1>3, <2>1, LeaderBodiesKept
  <2>2. CASE pc[0] \in Quiet /\ pc'[0] \in Quiet
    BY <1>1, <1>2, <1>3, <2>2, LeaderQuietKept
  <2> QED
    BY <1>1, <1>4, <2>1, <2>2
<1>6. \A w \in Worker : WorkerBodies(w)'
  <2>1. TAKE w \in Worker
  <2>2. CASE pc'[w] = pc[w]
    BY <1>1, <1>2, <1>3, <2>2, WorkerBodiesKept
  <2>3. CASE pc[w] \in Quiet /\ pc'[w] \in Quiet
    BY <1>1, <1>2, <1>3, <2>3, WorkerQuietKept DEF WorkerQuiet
  <2> QED
    BY <1>1, <1>4, <2>2, <2>3
<1>7. UNCHANGED Regions!vars
  <2>1. pc'[0] = "reduce" <=> pc[0] = "reduce"
    BY <1>1, <1>4 DEF Quiet, StartPC
  <2> QED
    BY <1>2, <2>1, RegionsStutter
<1>8. QED
  BY <1>5, <1>6, <1>7 DEF JoinInv

\* A worker that receives a broadcast of the entry other than the context, or
\* an exit tag in its loop, or stops; it may throw.
LEMMA WorkerWaitsJoins ==
    ASSUME IInv, JoinInv, NEW w \in Worker,
           \/ ReserveHeapArea(w) \/ GetTag(w) \/ GetMemOps(w) \/ GetStack(w) \/ Get(w, "heap", "context")
           \/ Finalize(w),
           Moves(w), UNCHANGED kinds
    PROVE  JoinInv' /\ UNCHANGED Regions!vars
<1>1. /\ TypeOK /\ w \in Rank /\ w # 0 /\ 0 \in Rank /\ WorkerBodies(w)
  BY LeaderIsNoWorker DEF IInv, JoinInv
<1>2. UNCHANGED <<begun, ended>>
  BY DEF ReserveHeapArea, GetTag, GetMemOps, Get, GetStack, Finalize
<1>3. pc[w] \in WorkerQuiet /\ pc'[w] \in WorkerQuiet
  BY <1>1 DEF ReserveHeapArea, GetTag, GetMemOps, Get, GetStack, Finalize, Throws, GoTo, TypeOK, WorkerQuiet, Quiet
<1>4. Contexts(w)' = Contexts(w)
  <2>1. CASE ReserveHeapArea(w) \/ Finalize(w)
    BY <1>1, <2>1, ContextsSame DEF ReserveHeapArea, Finalize
  <2>2. CASE ~(ReserveHeapArea(w) \/ Finalize(w))
    <3>1. PICK c \in {"enterTag", "exitTag", "memOps", "stack", "heap"} : Receive(w, c)
      BY <2>2 DEF GetTag, GetMemOps, Get, GetStack
    <3>2. Len(log[w]) + 1 \in 1..Len(log[0]) /\ log[0] \in Seq(Collective)
      BY <1>1, <3>1 DEF TypeOK, Receive, Called
    <3>3. Root(w).region \in 0..MaxRegions
      <4>1. Root(w) \in Collective
        BY <3>2 DEF Root
      <4> QED
        BY <4>1 DEF Collective
    <3>4. c \in Op \ {"context"}
      BY DEF Op, Entry
    <3> QED
      BY <1>1, <3>1, <3>3, <3>4, ContextsSame DEF Receive
  <2> QED
    BY <2>1, <2>2
<1>5. WorkerBodies(w)'
  BY <1>1, <1>2, <1>3, <1>4, WorkerQuietKept
<1>6. JoinInv'
  BY <1>5, OthersAlone
<1>7. UNCHANGED Regions!vars
  <2>1. pc'[0] = pc[0] /\ region'[0] = region[0]
    BY <1>1 DEF Moves
  <2> QED
    BY <1>2, <2>1, RegionsStutter
<1>8. QED
  BY <1>6, <1>7

\* The context a worker gets is of a region whose body it has not begun.
LEMMA GetContextJoins ==
    ASSUME IInv, IInv', JoinInv, NEW w \in Worker, Get(w, "context", "init"), Moves(w), UNCHANGED kinds
    PROVE  JoinInv' /\ UNCHANGED Regions!vars
<1>1. /\ TypeOK /\ w \in Rank /\ w # 0 /\ 0 \in Rank /\ WorkerBodies(w) /\ ContextInv
  BY LeaderIsNoWorker DEF IInv, JoinInv
<1>2. /\ pc[w] = "context" /\ pc'[w] = "init" /\ UNCHANGED <<begun, ended, region>>
      /\ Called(w) /\ Root(w).op = "context" /\ Call(w, "context", Root(w).region)
      /\ pc'[0] = pc[0] /\ log'[0] = log[0]
  BY <1>1 DEF Get, Receive, GoTo, TypeOK, Moves
<1>3. /\ Len(log[w]) \in Nat /\ Len(log[0]) \in Nat
      /\ Len(log[w]) + 1 \in 1..Len(log[0]) /\ log[0] \in Seq(Collective)
  BY <1>1, <1>2 DEF TypeOK, Called
<1>4. Root(w).region \in 0..MaxRegions
  <2>1. Root(w) \in Collective
    BY <1>3 DEF Root
  <2> QED
    BY <2>1 DEF Collective
<1> DEFINE c == <<Len(log[w]) + 1, Root(w).region>>
<1>5. Contexts(w)' = Contexts(w) \union {c}
  BY <1>1, <1>2, <1>4, ContextsMore
<1>6. c \in Contexts(0)
  BY <1>2, <1>3 DEF Contexts, Root
<1>7. Root(w).region = region[w]
  <2>1. "context" \in Op
    BY DEF Op, Entry
  <2>2. Last(w)' = Coll("context", Root(w).region)
    BY <1>1, <1>2, <1>4, <2>1, CallFacts
  <2>3. Last(w)' = Coll("context", region[w])
    BY <1>2 DEF IInv, WorkerInv, WorkerPlace, Coll
  <2> QED
    BY <2>2, <2>3 DEF Coll
<1>8. \A k \in begun[w] : k # region[w]
  <2>1. TAKE k \in begun[w]
  <2>2. PICK d \in Contexts(w) : d[2] = k
    BY <1>1 DEF WorkerBodies
  <2>3. d \in Contexts(0) /\ d[1] \in 1..Len(log[w])
    BY <2>2, ContextsPrefix
  <2>4. d[1] < c[1]
    BY <1>3, <2>3
  <2>5. d[2] < c[2]
    BY <1>1, <1>6, <2>3, <2>4 DEF ContextInv
  <2>6. c[2] = region[w] /\ region[w] \in Nat
    BY <1>1, <1>7 DEF TypeOK
  <2> QED
    BY <2>2, <2>5, <2>6
<1>9. WorkerBodies(w)'
  <2>1. c[2] = region[w] /\ region'[w] = region[w] /\ begun'[w] = begun[w] /\ ended'[w] = ended[w]
    BY <1>2, <1>7
  <2> HIDE DEF c
  <2> QED
    BY <1>1, <1>2, <1>5, <1>8, <2>1 DEF WorkerBodies
<1>10. JoinInv'
  BY <1>9, OthersAlone
<1>11. UNCHANGED Regions!vars
  BY <1>2, RegionsStutter
<1>12. QED
  BY <1>10, <1>11

\* A worker begins the body of the first forked region that it has not run.
LEMMA WorkerBegins ==
    ASSUME IInv, FlagInv, JoinInv, ~OutOfStep, NEW w \in Worker, pc[w] \in {"init", "fortran"},
           begun' = [begun EXCEPT ![w] = @ \union {region[w]}], UNCHANGED <<kinds, ended>>,
           region'[0] = region[0], pc'[0] = pc[0]
    PROVE  Regions!WorkerBegins(w)
<1>1. /\ w \in Rank /\ w # 0 /\ 0 \in Rank /\ WorkerBodies(w) /\ ContextInv /\ LeaderBodies
      /\ TypeOK /\ WorkerPlace(w)
  BY LeaderIsNoWorker DEF IInv, JoinInv, WorkerInv
<1> DEFINE n == Len(log[w])
           m == region[w]
           c == <<n, m>>
<1>2. Last(w) = Coll("context", m) /\ Running(w)
  BY <1>1 DEF WorkerPlace, Running, StartPC
<1>3. n \in Nat /\ n >= 1 /\ \A q \in Rank : Len(log[q]) \in Nat
  <2>1. Started(w) /\ \A q \in Rank : Len(log[q]) \in Nat
    BY <1>1 DEF IInv, StartInv, TypeOK
  <2> QED
    BY <1>1, <1>2, <2>1 DEF Started
<1>4. c \in Contexts(w)
  BY <1>2, <1>3 DEF Contexts, Last, Coll
<1>5. c \in Contexts(0) /\ m \in Forked
  BY <1>1, <1>4, ContextsPrefix DEF ContextInv
<1>6. begun[w] = ended[w] /\ m \notin begun[w]
  BY <1>1 DEF WorkerBodies
<1>7. \A j \in Forked : j < m => j \in ended[w]
  <2>1. SUFFICES ASSUME NEW j \in Forked, j < m PROVE j \in ended[w]
    OBVIOUS
  <2>2. m \in Nat /\ j \in Nat /\ m <= Len(kinds) /\ Len(kinds) \in Nat
    BY <1>1 DEF TypeOK, Forked
  <2>3. PICK d \in Contexts(0) : d[2] = j
    <3>1. CASE pc[0] \in Entry /\ j = region[0]
      <4>1. region[0] = Len(kinds) /\ m # region[0]
        BY <1>1, <1>5, <3>1 DEF FlagInv, ContextInv
      <4> QED
        BY <2>1, <2>2, <3>1, <4>1
    <3> QED
      BY <1>1, <3>1 DEF ContextInv
  <2>4. d[1] \in Nat /\ ~(n < d[1])
    <3>1. d[1] \in Nat
      BY <1>1, <1>3 DEF Contexts
    <3>2. n < d[1] => m < j
      BY <1>1, <1>5, <2>3 DEF ContextInv
    <3> QED
      BY <2>1, <2>2, <3>1, <3>2
  <2>5. d \in Contexts(w)
    BY <1>3, <2>3, <2>4, ContextsPrefix
  <2> QED
    BY <1>1, <2>1, <2>2, <2>3, <2>5 DEF WorkerBodies
<1>8. Forked' = Forked /\ Reducing' = Reducing /\ LeftByLeader' = LeftByLeader
  BY DEF Forked, Reducing, LeftByLeader
<1>9. QED
  BY <1>1, <1>5, <1>6, <1>7, <1>8 DEF Regions!WorkerBegins, Regions!Begin

\* The worker begins the body, with the broadcast of the Fortran globals or without, or is lost.
LEMMA WorkerBodyJoins ==
    ASSUME IInv, FlagInv, JoinInv, NEW w \in Worker,
           InitReduceAreas(w) \/ WorkerFortran(w) \/ WorkerSymbolsFail(w), Moves(w), UNCHANGED kinds
    PROVE  JoinInv' /\ (OutOfStep \/ [Regions!Next]_(Regions!vars))
<1>1. /\ TypeOK /\ w \in Rank /\ w # 0 /\ 0 \in Rank \ {w} /\ WorkerBodies(w)
  BY LeaderIsNoWorker DEF IInv, JoinInv
<1>2. /\ UNCHANGED <<region, ended>> /\ pc'[0] = pc[0] /\ pc[w] \in {"init", "fortran"}
      /\ \/ pc'[w] \in {"fortran", "lost"} /\ begun' = begun
         \/ pc'[w] = "body" /\ begun' = [begun EXCEPT ![w] = @ \union {region[w]}]
  BY <1>1 DEF InitReduceAreas, WorkerFortran, WorkerSymbolsFail, Resume, BeginBody, GoTo, TypeOK
<1>3. Contexts(w)' = Contexts(w)
  <2>1. CASE InitReduceAreas(w) \/ WorkerSymbolsFail(w)
    BY <1>1, <2>1, ContextsSame DEF InitReduceAreas, WorkerSymbolsFail
  <2>2. CASE WorkerFortran(w)
    <3>1. Len(log[w]) + 1 \in 1..Len(log[0]) /\ log[0] \in Seq(Collective)
      BY <1>1, <2>2 DEF TypeOK, WorkerFortran, Receive, Called
    <3>2. Root(w) \in Collective
      BY <3>1 DEF Root
    <3>3. Root(w).region \in 0..MaxRegions /\ "fortran" \in Op \ {"context"}
      BY <3>2 DEF Collective, Op
    <3> QED
      BY <1>1, <2>2, <3>3, ContextsSame DEF WorkerFortran, Receive
  <2> QED
    BY <2>1, <2>2
<1>4. WorkerBodies(w)'
  <2>1. CASE pc'[w] \in {"fortran", "lost"}
    BY <1>1, <1>2, <1>3, <2>1 DEF WorkerBodies
  <2>2. CASE pc'[w] = "body" /\ begun' = [begun EXCEPT ![w] = @ \union {region[w]}]
    <3>1. begun'[w] = begun[w] \union {region[w]} /\ ended'[w] = ended[w] /\ region'[w] = region[w]
      BY <1>1, <1>2, <2>2 DEF TypeOK
    <3>2. \E c \in Contexts(w) : c[2] = region[w]
      <4> DEFINE n == Len(log[w])
      <4>1. Last(w) = Coll("context", region[w]) /\ Running(w) /\ Started(w) /\ n \in Nat
        BY <1>1, <1>2 DEF IInv, TypeOK, StartInv, WorkerInv, WorkerPlace, Running, StartPC
      <4>2. n >= 1
        BY <1>1, <4>1 DEF Started
      <4>3. <<n, region[w]>> \in Contexts(w)
        BY <4>1, <4>2 DEF Contexts, Last, Coll
      <4> QED
        BY <4>3
    <3>3. region[w] \notin begun[w] /\ region[w] \notin ended[w]
      BY <1>1, <1>2 DEF WorkerBodies
    <3> QED
      BY <1>1, <1>2, <1>3, <2>2, <3>1, <3>2, <3>3 DEF WorkerBodies
  <2> QED
    BY <1>2, <2>1, <2>2
<1>5. JoinInv'
  BY <1>4, OthersAlone
<1>6. CASE begun' = begun
  <2>1. UNCHANGED Regions!vars
    BY <1>2, <1>6, RegionsStutter
  <2> QED
    BY <1>5, <2>1
<1>7. CASE begun' = [begun EXCEPT ![w] = @ \union {region[w]}]
  <2>1. OutOfStep \/ Regions!WorkerBegins(w)
    BY <1>2, <1>7, WorkerBegins
  <2> QED
    BY <1>5, <2>1 DEF Regions!Next
<1>8. QED
  BY <1>2, <1>6, <1>7

\* A body opens a region on a worker, which stays there.
LEMMA WorkerInnerJoins ==
    ASSUME IInv, JoinInv, NEW w \in Worker, WorkerOpensInner(w), Moves(w), UNCHANGED kinds
    PROVE  JoinInv' /\ UNCHANGED Regions!vars
<1>1. /\ TypeOK /\ w \in Rank /\ 0 \in Rank \ {w} /\ WorkerBodies(w)
  BY LeaderIsNoWorker DEF IInv, JoinInv
<1>2. /\ UNCHANGED <<region, begun, ended, log>> /\ pc[w] = "body" /\ pc'[w] = "nested" /\ pc'[0] = pc[0]
  BY <1>1 DEF WorkerOpensInner, GoTo, TypeOK
<1>3. Contexts(w)' = Contexts(w)
  BY <1>1, <1>2, ContextsSame
<1>4. WorkerBodies(w)'
  BY <1>1, <1>2, <1>3 DEF WorkerBodies
<1>5. QED
  BY <1>2, <1>4, OthersAlone, RegionsStutter

\* A worker ends its body.
LEMMA WorkerEndJoins ==
    ASSUME IInv, JoinInv, NEW w \in Worker, WorkerExit(w) \/ WorkerCallsExit(w), Moves(w), UNCHANGED kinds
    PROVE  JoinInv' /\ Regions!End(w)
<1>1. /\ TypeOK /\ w \in Rank /\ w # 0 /\ 0 \in Rank \ {w} /\ WorkerBodies(w)
  BY LeaderIsNoWorker DEF IInv, JoinInv
<1>2. /\ UNCHANGED <<region, begun>> /\ pc[w] = "body" /\ pc'[w] \in {"loop", "finalize"} /\ pc'[0] = pc[0]
      /\ ended' = [ended EXCEPT ![w] = @ \union {region[w]}]
  BY <1>1 DEF WorkerExit, WorkerCallsExit, GoTo, TypeOK
<1>3. Contexts(w)' = Contexts(w)
  <2>1. log' = log \/ \E c \in {"reduce", "exitTag"}, k \in 0..MaxRegions : Call(w, c, k)
    <3>1. CASE WorkerExit(w)
      <4>1. region[w] \in 0..MaxRegions
        <5>1. region[w] \in 0..Len(kinds) /\ Len(kinds) \in Nat /\ Len(kinds) <= MaxRegions
          BY <1>1 DEF TypeOK
        <5> QED
          BY <5>1, MaxRegionsAssumption
      <4> QED
        BY <3>1, <4>1 DEF WorkerExit
    <3>2. CASE WorkerCallsExit(w)
      <4>1. Len(log[w]) + 1 \in 1..Len(log[0]) /\ log[0] \in Seq(Collective)
        BY <1>1, <3>2 DEF TypeOK, WorkerCallsExit, Receive, Called
      <4>2. Root(w) \in Collective
        BY <4>1 DEF Root
      <4>3. Root(w).region \in 0..MaxRegions
        BY <4>2 DEF Collective
      <4> QED
        BY <3>2, <4>3 DEF WorkerCallsExit, Receive
    <3> QED
      BY <3>1, <3>2
  <2>2. {"reduce", "exitTag"} \subseteq Op \ {"context"}
    BY DEF Op
  <2> QED
    BY <1>1, <2>1, <2>2, ContextsSame
<1>4. ended'[w] = ended[w] \union {region[w]} /\ region[w] \in begun[w] \ ended[w]
  BY <1>1, <1>2 DEF TypeOK, WorkerBodies
<1>5. WorkerBodies(w)'
  BY <1>1, <1>2, <1>3, <1>4 DEF WorkerBodies
<1>6. JoinInv'
  BY <1>5, OthersAlone
<1>7. Forked' = Forked /\ Reducing' = Reducing /\ LeftByLeader' = LeftByLeader
  <2>1. ended'[0] = ended[0] /\ region'[0] = region[0]
    BY <1>1, <1>2 DEF Moves
  <2> QED
    BY <1>2, <2>1 DEF Forked, Reducing, LeftByLeader
<1>8. Regions!End(w)
  BY <1>1, <1>2, <1>4, <1>7 DEF Regions!End
<1>9. QED
  BY <1>6, <1>8

\* When a constructor has thrown the leader enters no region.
ThrewInv ==
    ConstructorThrew => /\ inParallel[0]
                        /\ pc[0] \in {"main", "serial", "refused", "finalize", "stopped"}
                        /\ pc[0] = "refused" => region[0] \notin begun[0]

LEMMA ThrewSteps ==
    ASSUME IInv, FlagInv, JoinInv, ThrewInv, Next
    PROVE  ThrewInv'
<1>1. TypeOK /\ LeaderBodies /\ 0 \in Rank /\ \A w \in Worker : w \in Rank /\ w # 0
  BY LeaderIsNoWorker DEF IInv, JoinInv
<1>2. ASSUME UNCHANGED kinds, <<"symbols", 0>> \in faults' => <<"symbols", 0>> \in faults,
             \/ ~ConstructorThrew
             \/ /\ inParallel'[0] = inParallel[0]
                /\ \/ pc'[0] \in {"main", "serial", "finalize", "stopped"}
                   \/ pc'[0] = pc[0] /\ region'[0] = region[0] /\ begun'[0] = begun[0]
      PROVE  ThrewInv'
  <2>1. ConstructorThrew' => ConstructorThrew
    BY <1>2 DEF ConstructorThrew
  <2> QED
    BY <1>2, <2>1 DEF ThrewInv
<1>3. ASSUME NEW r \in Rank, Startup(r) PROVE ThrewInv'
  <2>1. UNCHANGED <<kinds, inParallel, region, begun>>
    BY <1>3 DEF Startup, CheckPagesize, CheckBinding, CheckAslrDisabled, ReportAslr, Abort
  <2>2. \/ \A q \in Rank : pc'[q] = "stopped"
        \/ pc[r] \in StartPC /\ \E to : GoTo(r, to)
    BY <1>3 DEF Startup, CheckPagesize, CheckBinding, Throws, CheckAslrDisabled, ReportAslr, Abort, StartPC
  <2>3. pc'[0] \in {pc[0], "stopped"} \/ pc[0] \in StartPC
    BY <1>1, <2>2 DEF GoTo, TypeOK
  <2>4. <<"symbols", 0>> \in faults' => <<"symbols", 0>> \in faults
    BY <1>3 DEF Startup, CheckPagesize, CheckBinding, CheckAslrDisabled, ReportAslr, Abort, Throws, Blame
  <2> QED
    BY <1>2, <2>1, <2>3, <2>4 DEF ThrewInv, StartPC
<1>4. ASSUME NEW w \in Worker, WorkerStep(w), ~Startup(w) PROVE ThrewInv'
  <2>1. UNCHANGED kinds /\ pc'[0] = pc[0] /\ region'[0] = region[0] /\ begun'[0] = begun[0]
    BY <1>1, <1>4, WorkerMoves DEF Moves
  <2>2. inParallel'[0] = inParallel[0]
    BY <1>1, <1>4 DEF WorkerStep, ReserveHeapArea, GetTag, GetMemOps, Get, GetStack, WorkerSymbolsFail, Throws,
       InitReduceAreas, WorkerFortran, WorkerOpensInner, WorkerCallsExit, WorkerExit, Finalize, TypeOK
  <2>3. <<"symbols", 0>> \in faults' => <<"symbols", 0>> \in faults
    BY <1>1, <1>4 DEF WorkerStep, ReserveHeapArea, GetTag, GetMemOps, Get, GetStack, WorkerSymbolsFail, Throws,
       InitReduceAreas, WorkerFortran, WorkerOpensInner, WorkerCallsExit, WorkerExit, Finalize, Blame
  <2> QED
    BY <1>2, <2>1, <2>2, <2>3
<1>5. CASE OpenRegion
  <2>1. PICK k \in Kinds :
           /\ kinds' = Append(kinds, k)
           /\ \/ k = "serial" /\ GoTo(0, "serial") /\ UNCHANGED inParallel
              \/ GoTo(0, "refused") /\ UNCHANGED inParallel /\ inParallel[0]
              \/ k = "overlap" /\ GoTo(0, "main") /\ inParallel' = [inParallel EXCEPT ![0] = TRUE]
              \/ k # "serial" /\ k # "overlap" /\ GoTo(0, "enterTag") /\ ~inParallel[0]
    BY <1>5 DEF OpenRegion
  <2>2. kinds \in Seq(Kinds) /\ Len(kinds) \in Nat /\ inParallel \in [Rank -> BOOLEAN]
    BY <1>1 DEF TypeOK
  <2>3. ConstructorThrew' => ConstructorThrew \/ k = "overlap"
    <3>1. /\ Len(kinds') = Len(kinds) + 1 /\ kinds'[Len(kinds) + 1] = k
          /\ \A i \in 1..Len(kinds) : kinds'[i] = kinds[i]
      BY <2>1, <2>2
    <3>2. \A i \in 1..(Len(kinds) + 1) : i \in 1..Len(kinds) \/ i = Len(kinds) + 1
      BY <2>2
    <3>3. UNCHANGED faults
      BY <1>5 DEF OpenRegion
    <3> QED
      BY <3>1, <3>2, <3>3 DEF ConstructorThrew
  <2>4. \/ k = "serial" /\ pc'[0] = "serial" /\ UNCHANGED inParallel
        \/ pc'[0] = "refused" /\ UNCHANGED inParallel /\ inParallel[0]
        \/ k = "overlap" /\ pc'[0] = "main" /\ inParallel'[0]
        \/ k # "serial" /\ k # "overlap" /\ ~inParallel[0]
    BY <1>1, <2>1, <2>2 DEF GoTo, TypeOK
  <2>5. region'[0] \notin begun'[0]
    <3>1. region'[0] = Len(kinds) + 1 /\ begun'[0] = begun[0]
      BY <1>1, <1>5 DEF OpenRegion, TypeOK
    <3>2. begun[0] \subseteq 1..Len(kinds)
      BY <1>1 DEF TypeOK
    <3> QED
      BY <2>2, <3>1, <3>2
  <2> QED
    BY <2>3, <2>4, <2>5 DEF ThrewInv
<1>6. CASE Refused
  <2>1. /\ UNCHANGED <<kinds, inParallel, faults>>
        /\ pc[0] = "refused" /\ pc'[0] = IF region[0] \in begun[0] THEN "bodyEnd" ELSE "main"
    BY <1>1, <1>6 DEF Refused, GoTo, TypeOK
  <2>2. region[0] \in begun[0] => ~ConstructorThrew
    BY <2>1 DEF ThrewInv
  <2> QED
    BY <1>2, <2>1, <2>2
<1>7. CASE SerialBody \/ MainReturns \/ MainThrows \/ Finalize(0)
  <2>1. UNCHANGED <<kinds, inParallel>> /\ pc'[0] \in {"main", "finalize", "stopped"}
    BY <1>1, <1>7 DEF SerialBody, MainReturns, MainThrows, Finalize, GoTo, TypeOK
  <2>2. <<"symbols", 0>> \in faults' => <<"symbols", 0>> \in faults
    BY <1>7 DEF SerialBody, MainReturns, MainThrows, Finalize, Blame
  <2> QED
    BY <1>2, <2>1, <2>2
<1>8. CASE \/ \E c \in Entry : Send(c)
           \/ ClearSoftDirty \/ SendFails \/ LeaderFortran \/ LeaderOpensInner
           \/ LeaderCallsExit \/ LeaderExit \/ LeaderReduced
  <2>1. UNCHANGED kinds /\ pc[0] \in InRegionPC \union {"reduce"}
    BY <1>8 DEF Send, ClearSoftDirty, SendFails, LeaderFortran, LeaderOpensInner, LeaderCallsExit, LeaderExit,
       LeaderReduced, InRegionPC, Entry
  <2>2. ~ConstructorThrew
    BY <2>1 DEF ThrewInv, InRegionPC, Entry
  <2>3. <<"symbols", 0>> \in faults' => <<"symbols", 0>> \in faults
    BY <1>8 DEF Send, ClearSoftDirty, SendFails, LeaderFortran, LeaderOpensInner, LeaderCallsExit, LeaderExit,
       LeaderReduced, Blame
  <2> QED
    BY <1>2, <2>1, <2>2, <2>3
<1>s. CASE LeaderSymbolsFail
  <2>1. pc[0] = "fortran" /\ pc'[0] = "main" /\ UNCHANGED inParallel
    BY <1>1, <1>s DEF LeaderSymbolsFail, GoTo, TypeOK
  <2>2. inParallel[0]
    BY <2>1 DEF IInv, LeaderInv
  <2> QED
    BY <2>1, <2>2 DEF ThrewInv
<1>9. QED
  <2>1. UNCHANGED vars => ThrewInv'
    BY DEF ThrewInv, ConstructorThrew, vars
  <2> QED
    BY <1>1, <1>3, <1>4, <1>5, <1>6, <1>7, <1>8, <1>s, <2>1 DEF Next, LeaderStep, Stopped

-----------------------------------------------------------------------------
\* The leader opens a region.
LEMMA OpenRegionJoins ==
    ASSUME IInv, FlagInv, JoinInv, ThrewInv, OpenRegion, Moves(0)
    PROVE  JoinInv' /\ Regions!Open
<1>1. /\ TypeOK /\ 0 \in Rank /\ ContextInv /\ LeaderBodies /\ (\A w \in Worker : WorkerBodies(w))
      /\ kinds \in Seq(Kinds) /\ Len(kinds) \in Nat
  BY LeaderIsNoWorker DEF IInv, JoinInv, TypeOK
<1> DEFINE n == Len(kinds) + 1
<1>2. PICK k \in Kinds :
         /\ kinds' = Append(kinds, k) /\ region' = [region EXCEPT ![0] = n]
         /\ \/ k = "serial" /\ GoTo(0, "serial")
            \/ k # "serial" /\ GoTo(0, "refused") /\ inParallel[0]
            \/ k = "overlap" /\ GoTo(0, "main")
            \/ k # "serial" /\ k # "overlap" /\ GoTo(0, "enterTag") /\ ~inParallel[0]
  BY DEF OpenRegion
<1>3. pc[0] = "main" /\ UNCHANGED <<log, begun, ended, faults>>
  BY DEF OpenRegion
<1>4. /\ Len(kinds') = n /\ kinds'[n] = k /\ \A i \in 1..Len(kinds) : kinds'[i] = kinds[i]
      /\ region'[0] = n
  BY <1>1, <1>2 DEF TypeOK
<1>5. \/ k = "serial" /\ pc'[0] = "serial"
      \/ k # "serial" /\ pc'[0] = "refused" /\ inParallel[0]
      \/ k = "overlap" /\ pc'[0] = "main"
      \/ k # "serial" /\ k # "overlap" /\ pc'[0] = "enterTag" /\ ~inParallel[0]
  BY <1>1, <1>2 DEF GoTo, TypeOK
<1>6. inParallel[0] => ConstructorThrew
  BY <1>3 DEF FlagInv, InRegionPC, Entry
<1>7. Forked \subseteq 1..Len(kinds) /\ n \notin 1..Len(kinds) /\ n \notin Forked /\ n \in Nat /\ n >= 1
  BY <1>1 DEF Forked
<1>8. Forked \subseteq Forked' /\ Forked' \subseteq Forked \union {n}
  <2>1. \A j \in 1..n : j \in 1..Len(kinds) \/ j = n
    BY <1>1
  <2>2. ASSUME NEW j \in 1..Len(kinds) PROVE j \in Forked' <=> j \in Forked
    <3>1. j \in 1..n /\ 1..j \subseteq 1..Len(kinds)
      BY <1>1
    <3> QED
      BY <1>4, <2>2, <3>1 DEF Forked
  <2>3. Forked' \subseteq 1..n
    BY <1>4 DEF Forked
  <2> QED
    BY <1>7, <2>1, <2>2, <2>3
<1>9. /\ pc'[0] \in {"serial", "main"} => n \notin Forked'
      /\ pc'[0] = "refused" => n \notin Forked' \/ OutOfStep
  <2>1. 1..n \subseteq 1..Len(kinds') /\ n \in 1..n
    BY <1>1, <1>4
  <2>2. k \in {"serial", "overlap"} => n \notin Forked'
    BY <1>4, <2>1 DEF Forked
  <2>3. ASSUME NEW j \in 1..Len(kinds), kinds[j] = "overlap" PROVE n \notin Forked'
    <3>1. j \in 1..n /\ kinds'[j] = "overlap"
      BY <1>1, <1>4, <2>3
    <3> QED
      BY <3>1 DEF Forked
  <2>4. <<"symbols", 0>> \in faults => OutOfStep
    <3>1. <<"symbols", 0>>[1] \in {"send", "nested", "symbols"}
      OBVIOUS
    <3> QED
      BY <3>1 DEF OutOfStep, Happened
  <2>5. ConstructorThrew => n \notin Forked' \/ OutOfStep
    BY <2>3, <2>4 DEF ConstructorThrew
  <2> QED
    BY <1>5, <1>6, <2>2, <2>5

<1>10. Forked' = Forked \/ (n \in Forked' /\ Forked' = Forked \union {n})
  BY <1>8
<1>11. Reducing' = Reducing \/ (n \in Forked' /\ Reducing' = Reducing \union {n})
  <2>1. \A j \in Forked : kinds'[j] = kinds[j]
    BY <1>4, <1>7
  <2>2. \A x : x \in Reducing' <=> x \in Reducing \/ (x = n /\ x \in Reducing')
    BY <1>7, <1>8, <1>10, <2>1 DEF Reducing
  <2>3. n \in Reducing' => n \in Forked'
    BY DEF Reducing
  <2> QED
    BY <2>2, <2>3

<1>12. k \notin {"serial", "overlap"} /\ pc'[0] = "enterTag" => n \in Forked'
  <2>1. SUFFICES ASSUME k \notin {"serial", "overlap"}, pc'[0] = "enterTag" PROVE n \in Forked'
    OBVIOUS
  <2>2. ~ConstructorThrew
    BY <1>5, <2>1 DEF ThrewInv
  <2>3. \A j \in 1..n : kinds'[j] # "overlap"
    <3>1. \A j \in 1..n : j \in 1..Len(kinds) \/ j = n
      BY <1>1
    <3> QED
      BY <1>4, <2>1, <2>2, <3>1 DEF ConstructorThrew
  <2>4. n \in 1..Len(kinds')
    BY <1>4, <1>7
  <2> QED
    BY <1>4, <2>1, <2>3, <2>4 DEF Forked
<1>13. Contexts(0)' = Contexts(0)
  BY <1>1, <1>3, ContextsSame
<1>14. ContextInv'
  <2>1. \A c \in Contexts(0) : c[2] \in Forked' /\ c[2] # n
    BY <1>1, <1>7, <1>8 DEF ContextInv
  <2>2. n \in Forked' => (pc'[0] \in Entry /\ region'[0] = n) \/ OutOfStep
    BY <1>4, <1>5, <1>9 DEF Entry
  <2>3. pc[0] \notin Entry
    BY <1>3 DEF Entry
  <2>4. OutOfStep' <=> OutOfStep
    BY <1>3 DEF OutOfStep, Happened
  <2> QED
    BY <1>1, <1>4, <1>10, <1>13, <2>1, <2>2, <2>3, <2>4 DEF ContextInv
<1>15. begun[0] = ended[0] /\ n \notin begun[0] /\ begun'[0] = begun[0] /\ ended'[0] = ended[0]
  BY <1>1, <1>3, <1>7 DEF LeaderBodies, TypeOK
<1>16. LeaderBodies'
  <2>1. pc'[0] \in InRegionPC => n \in Forked'
    BY <1>5, <1>12 DEF InRegionPC, Entry
  <2> QED
    BY <1>4, <1>5, <1>7, <1>9, <1>15, <2>1 DEF LeaderBodies
<1>17. LeftByLeader' = ended[0] /\ LeftByLeader = ended[0]
  BY <1>3, <1>5, <1>15 DEF LeftByLeader
<1>18. Regions!Open
  BY <1>3, <1>4, <1>10, <1>11, <1>15, <1>17 DEF Regions!Open
<1>19. QED
  BY <1>1, <1>14, <1>16, <1>18, WorkersAlone DEF JoinInv

\* The leader between a region and the next, and when it stops.
LEMMA LeaderQuietJoins ==
    ASSUME IInv, JoinInv, MainReturns \/ MainThrows \/ Finalize(0), Moves(0)
    PROVE  JoinInv' /\ UNCHANGED Regions!vars
<1>1. TypeOK /\ 0 \in Rank /\ ContextInv /\ LeaderBodies /\ \A w \in Worker : WorkerBodies(w)
  BY LeaderIsNoWorker DEF IInv, JoinInv
<1>2. /\ UNCHANGED <<kinds, region, begun, ended>> /\ faults \subseteq faults'
      /\ pc[0] \in {"main", "finalize"} /\ pc'[0] \in {"finalize", "stopped"}
      /\ log' = log \/ Call(0, "exitTag", 0)
  BY <1>1 DEF MainReturns, MainThrows, Finalize, Blame, GoTo, TypeOK
<1>3. Contexts(0)' = Contexts(0)
  <2>1. "exitTag" \in Op \ {"context"} /\ 0 \in 0..MaxRegions
    BY MaxRegionsAssumption DEF Op
  <2> QED
    BY <1>1, <1>2, <2>1, ContextsSame
<1>4. ContextInv' /\ LeaderBodies'
  BY <1>1, <1>2, <1>3, LeaderQuietKept DEF Quiet
<1>5. UNCHANGED Regions!vars
  BY <1>2, RegionsStutter
<1>6. QED
  BY <1>1, <1>4, <1>5, WorkersAlone DEF JoinInv

\* A region is refused, in main or in a body.
LEMMA RefusedJoins ==
    ASSUME IInv, FlagInv, JoinInv, Refused \/ LeaderOpensInner, Moves(0)
    PROVE  JoinInv' /\ UNCHANGED Regions!vars
<1>1. TypeOK /\ 0 \in Rank /\ ContextInv /\ LeaderBodies /\ \A w \in Worker : WorkerBodies(w)
  BY LeaderIsNoWorker DEF IInv, JoinInv
<1>2. /\ UNCHANGED <<log, kinds, region, begun, ended, faults>>
      /\ \/ pc[0] = "refused" /\ pc'[0] = IF region[0] \in begun[0] THEN "bodyEnd" ELSE "main"
         \/ pc[0] = "body" /\ pc'[0] = "refused"
  BY <1>1 DEF Refused, LeaderOpensInner, GoTo, TypeOK
<1>3. Contexts(0)' = Contexts(0) /\ Forked' = Forked
  BY <1>1, <1>2, ContextsSame DEF Forked
<1>4. ContextInv'
  BY <1>1, <1>2, <1>3, ContextInvKept DEF Entry
<1>5. LeaderBodies'
  BY <1>1, <1>2, <1>3 DEF LeaderBodies, InRegionPC, Entry
<1>6. UNCHANGED Regions!vars
  BY <1>2, RegionsStutter
<1>7. QED
  BY <1>1, <1>4, <1>5, <1>6, WorkersAlone DEF JoinInv

\* A region that is not entered.
LEMMA SerialBodyJoins ==
    ASSUME IInv, FlagInv, JoinInv, SerialBody, Moves(0)
    PROVE  JoinInv' /\ Regions!RunAlone
<1>1. TypeOK /\ 0 \in Rank /\ ContextInv /\ LeaderBodies /\ \A w \in Worker : WorkerBodies(w)
  BY LeaderIsNoWorker DEF IInv, JoinInv
<1>2. /\ UNCHANGED <<log, kinds, region, faults>> /\ pc[0] = "serial" /\ pc'[0] = "main"
      /\ begun' = [begun EXCEPT ![0] = @ \union {region[0]}]
      /\ ended' = [ended EXCEPT ![0] = @ \union {region[0]}]
  BY <1>1 DEF SerialBody, GoTo, TypeOK
<1>3. Contexts(0)' = Contexts(0) /\ Forked' = Forked /\ Reducing' = Reducing
  BY <1>1, <1>2, ContextsSame DEF Forked, Reducing
<1>4. ContextInv'
  BY <1>1, <1>2, <1>3, ContextInvKept DEF Entry
<1>5. begun'[0] = begun[0] \union {region[0]} /\ ended'[0] = ended[0] \union {region[0]}
  BY <1>1, <1>2 DEF TypeOK
<1>6. begun[0] = ended[0] /\ region[0] \notin begun[0] \union Forked /\ region[0] >= 1
  BY <1>1, <1>2 DEF LeaderBodies
<1>7. LeaderBodies'
  BY <1>2, <1>3, <1>5, <1>6 DEF LeaderBodies, InRegionPC, Entry
<1>8. LeftByLeader = begun[0] /\ LeftByLeader' = LeftByLeader \union {region[0]}
  BY <1>2, <1>5, <1>6 DEF LeftByLeader
<1>9. region[0] = Len(kinds) /\ Len(kinds) \in Nat
  BY <1>1 DEF FlagInv, TypeOK
<1>10. Regions!RunAlone
  BY <1>2, <1>3, <1>6, <1>8, <1>9 DEF Regions!RunAlone
<1>11. QED
  BY <1>1, <1>4, <1>7, <1>10, WorkersAlone DEF JoinInv

\* A broadcast of the entry, the context among them.
LEMMA SendJoins ==
    ASSUME IInv, FlagInv, JoinInv, NEW c \in Entry, Send(c), Moves(0)
    PROVE  JoinInv' /\ UNCHANGED Regions!vars
<1>1. TypeOK /\ 0 \in Rank /\ ContextInv /\ LeaderBodies /\ \A w \in Worker : WorkerBodies(w)
  BY LeaderIsNoWorker DEF IInv, JoinInv
<1>2. /\ UNCHANGED <<kinds, region, begun, ended, faults>> /\ pc[0] = c /\ Call(0, c, region[0])
      /\ pc'[0] = AfterSend(c)
  BY <1>1 DEF Send, GoTo, TypeOK, AfterSend, Entry
<1>3. region[0] \in 0..MaxRegions /\ region[0] \in Nat
  <2>1. region[0] \in 0..Len(kinds) /\ Len(kinds) \in Nat /\ Len(kinds) <= MaxRegions
    BY <1>1 DEF TypeOK
  <2> QED
    BY <2>1, MaxRegionsAssumption
<1>4. Forked' = Forked /\ Reducing' = Reducing /\ region[0] \in Forked
  BY <1>1, <1>2 DEF Forked, Reducing, LeaderBodies, InRegionPC
<1>5. pc'[0] = IF c = "context" THEN "clear" ELSE AfterSend(c)
  BY <1>2 DEF AfterSend, Entry
<1>6. LeaderBodies'
  BY <1>1, <1>2, <1>4 DEF LeaderBodies, InRegionPC, Entry, AfterSend
<1>7. ContextInv'
  <2>1. CASE c # "context"
    <3>1. Contexts(0)' = Contexts(0)
      BY <1>1, <1>2, <1>3, <2>1, ContextsSame DEF Op
    <3>2. pc[0] \in Entry /\ pc'[0] \in Entry
      BY <1>2, <2>1 DEF Entry, AfterSend
    <3> QED
      BY <1>1, <1>2, <3>1, <3>2, ContextInvKept
  <2>2. CASE c = "context"
    <3> DEFINE x == <<Len(log[0]) + 1, region[0]>>
    <3>1. Contexts(0)' = Contexts(0) \union {x}
      BY <1>1, <1>2, <1>3, <2>2, ContextsMore
    <3>2. pc[0] \in Entry /\ pc'[0] \notin Entry
      BY <1>2, <1>5, <2>2 DEF Entry
    <3>3. \A d \in Contexts(0) : d[1] < x[1] /\ d[2] < x[2] /\ ~(x[1] < d[1])
      <4>1. TAKE d \in Contexts(0)
      <4>2. d[1] \in 1..Len(log[0]) /\ Len(log[0]) \in Nat
        BY <1>1 DEF Contexts, TypeOK
      <4>3. d[2] \in Forked /\ d[2] # region[0]
        BY <1>1, <3>2 DEF ContextInv
      <4>4. d[2] \in 1..Len(kinds) /\ region[0] = Len(kinds) /\ Len(kinds) \in Nat
        BY <1>1, <4>3 DEF Forked, FlagInv, TypeOK
      <4> QED
        BY <4>2, <4>3, <4>4
    <3>4. x[2] = region[0] /\ ~(x[1] < x[1]) /\ (OutOfStep' <=> OutOfStep)
      BY <1>1, <1>2 DEF TypeOK, OutOfStep, Happened
    <3> HIDE DEF x
    <3>5. \A d \in Contexts(0)' : d[2] \in Forked
      BY <1>1, <1>4, <3>1, <3>4 DEF ContextInv
    <3>6. \A d, e \in Contexts(0)' : d[1] < e[1] => d[2] < e[2]
      BY <1>1, <3>1, <3>3, <3>4 DEF ContextInv
    <3>7. OutOfStep \/ \A k \in Forked : \E d \in Contexts(0)' : d[2] = k
      BY <1>1, <3>1, <3>4 DEF ContextInv
    <3> QED
      BY <1>4, <3>2, <3>4, <3>5, <3>6, <3>7 DEF ContextInv
  <2> QED
    BY <2>1, <2>2
<1>8. UNCHANGED Regions!vars
  BY <1>2, <1>5, RegionsStutter DEF AfterSend, Entry
<1>9. QED
  BY <1>1, <1>6, <1>7, <1>8, WorkersAlone DEF JoinInv

\* The leader resumes in the region, and begins its body.
LEMMA LeaderBodyJoins ==
    ASSUME IInv, FlagInv, JoinInv, ClearSoftDirty \/ SendFails \/ LeaderFortran, Moves(0)
    PROVE  JoinInv' /\ [Regions!Next]_(Regions!vars)
<1>1. TypeOK /\ 0 \in Rank /\ ContextInv /\ LeaderBodies /\ \A w \in Worker : WorkerBodies(w)
  BY LeaderIsNoWorker DEF IInv, JoinInv
<1>2. /\ UNCHANGED <<kinds, region, ended>> /\ faults \subseteq faults'
      /\ pc[0] \in Entry \union {"clear", "fortran"}
      /\ \/ pc'[0] = "fortran" /\ begun' = begun
         \/ pc'[0] = "body" /\ begun' = [begun EXCEPT ![0] = @ \union {region[0]}]
  BY <1>1 DEF ClearSoftDirty, SendFails, LeaderFortran, Resume, BeginBody, Blame, GoTo, TypeOK, Entry
<1>3. pc[0] \in Entry => OutOfStep'
  <2>1. SendFails => <<"send", 0>> \in faults' /\ <<"send", 0>>[1] \in {"send", "nested", "symbols"}
    BY DEF SendFails, Blame
  <2>2. pc[0] \in Entry => SendFails
    BY DEF ClearSoftDirty, LeaderFortran, Entry
  <2> QED
    BY <2>1, <2>2 DEF OutOfStep, Happened
<1>4. Contexts(0)' = Contexts(0)
  <2>1. region[0] \in 0..MaxRegions
    <3>1. region[0] \in 0..Len(kinds) /\ Len(kinds) \in Nat /\ Len(kinds) <= MaxRegions
      BY <1>1 DEF TypeOK
    <3> QED
      BY <3>1, MaxRegionsAssumption
  <2>2. log' = log \/ Call(0, "fortran", region[0])
    BY DEF ClearSoftDirty, SendFails, LeaderFortran
  <2>3. "fortran" \in Op \ {"context"}
    BY DEF Op
  <2> QED
    BY <1>1, <2>1, <2>2, <2>3, ContextsSame
<1>5. ContextInv'
  BY <1>1, <1>2, <1>3, <1>4, ContextInvKept DEF Entry
<1>6. Forked' = Forked /\ Reducing' = Reducing
  BY <1>2 DEF Forked, Reducing
<1>7. region[0] \in Forked /\ region[0] \notin begun[0] /\ begun[0] = ended[0]
  BY <1>1, <1>2 DEF LeaderBodies, InRegionPC, Entry
<1>8. LeftByLeader = ended[0] /\ LeftByLeader' = ended[0]
  BY <1>2 DEF LeftByLeader, Entry
<1>9. CASE pc'[0] = "fortran" /\ begun' = begun
  <2>1. LeaderBodies'
    BY <1>2, <1>6, <1>7, <1>9 DEF LeaderBodies, InRegionPC, Entry
  <2>2. UNCHANGED Regions!vars
    BY <1>2, <1>6, <1>8, <1>9 DEF Regions!vars
  <2> QED
    BY <1>1, <1>5, <2>1, <2>2, WorkersAlone DEF JoinInv
<1>10. CASE pc'[0] = "body" /\ begun' = [begun EXCEPT ![0] = @ \union {region[0]}]
  <2>1. begun'[0] = begun[0] \union {region[0]}
    BY <1>1, <1>10 DEF TypeOK
  <2>2. LeaderBodies'
    BY <1>2, <1>6, <1>7, <1>10, <2>1 DEF LeaderBodies, InRegionPC, Entry
  <2>3. region[0] = Len(kinds)
    BY DEF FlagInv
  <2>4. Regions!LeaderBegins
    BY <1>2, <1>6, <1>7, <1>8, <1>10, <2>3 DEF Regions!LeaderBegins, Regions!Begin
  <2> QED
    BY <1>1, <1>5, <2>2, <2>4, WorkersAlone DEF JoinInv, Regions!Next
<1>11. QED
  BY <1>2, <1>9, <1>10

\* The symbols of the Fortran globals are not read: the leader does not begin the body.
LEMMA LeaderSymbolsJoins ==
    ASSUME IInv, JoinInv, LeaderSymbolsFail, Moves(0)
    PROVE  JoinInv' /\ UNCHANGED Regions!vars
<1>1. TypeOK /\ 0 \in Rank /\ ContextInv /\ LeaderBodies /\ \A w \in Worker : WorkerBodies(w)
  BY LeaderIsNoWorker DEF IInv, JoinInv
<1>2. /\ UNCHANGED <<log, kinds, region, begun, ended>> /\ faults \subseteq faults'
      /\ pc[0] = "fortran" /\ pc'[0] = "main"
  BY <1>1 DEF LeaderSymbolsFail, Blame, GoTo, TypeOK
<1>3. Contexts(0)' = Contexts(0) /\ Forked' = Forked
  BY <1>1, <1>2, ContextsSame DEF Forked
<1>4. ContextInv'
  BY <1>1, <1>2, <1>3, ContextInvKept DEF Entry
<1>5. LeaderBodies'
  BY <1>1, <1>2, <1>3 DEF LeaderBodies, InRegionPC, Entry
<1>6. UNCHANGED Regions!vars
  BY <1>2, RegionsStutter
<1>7. QED
  BY <1>1, <1>4, <1>5, <1>6, WorkersAlone DEF JoinInv

\* The leader ends the body, and leaves the region if there is nothing to reduce.
LEMMA LeaderEndJoins ==
    ASSUME IInv, FlagInv, JoinInv, LeaderExit \/ LeaderCallsExit, Moves(0)
    PROVE  JoinInv' /\ Regions!End(0)
<1>1. TypeOK /\ 0 \in Rank /\ ContextInv /\ LeaderBodies /\ \A w \in Worker : WorkerBodies(w)
  BY LeaderIsNoWorker DEF IInv, JoinInv
<1>2. /\ UNCHANGED <<kinds, region, begun, faults>> /\ pc[0] \in {"body", "bodyEnd"}
      /\ ended' = [ended EXCEPT ![0] = @ \union {region[0]}]
      /\ IF kinds[region[0]] \in {"reduce", "badType"} THEN pc'[0] = "reduce" ELSE pc'[0] \in {"main", "finalize"}
  BY <1>1 DEF LeaderExit, LeaderCallsExit, Kind, GoTo, TypeOK
<1>3. Contexts(0)' = Contexts(0)
  <2>1. region[0] \in 0..MaxRegions
    <3>1. region[0] \in 0..Len(kinds) /\ Len(kinds) \in Nat /\ Len(kinds) <= MaxRegions
      BY <1>1 DEF TypeOK
    <3> QED
      BY <3>1, MaxRegionsAssumption
  <2>2. log' = log \/ \E c \in {"reduce", "exitTag"} : Call(0, c, region[0])
    BY DEF LeaderExit, LeaderCallsExit
  <2>3. {"reduce", "exitTag"} \subseteq Op \ {"context"}
    BY DEF Op
  <2> QED
    BY <1>1, <2>1, <2>2, <2>3, ContextsSame
<1>4. Forked' = Forked /\ Reducing' = Reducing
  BY <1>2 DEF Forked, Reducing
<1>5. ContextInv'
  BY <1>1, <1>2, <1>3, ContextInvKept DEF Entry
<1>6. /\ region[0] \in Forked /\ region[0] \in begun[0] /\ region[0] \notin ended[0]
      /\ (region[0] \in Reducing <=> kinds[region[0]] \in {"reduce", "badType"})
      /\ region[0] >= 1
  <2>1. region[0] \in Forked /\ region[0] \in begun[0] /\ region[0] \notin ended[0]
    BY <1>1, <1>2 DEF LeaderBodies, FlagInv, InRegionPC
  <2> QED
    BY <2>1 DEF Reducing, Forked
<1>7. ended'[0] = ended[0] \union {region[0]}
  BY <1>1, <1>2 DEF TypeOK
<1>8. LeaderBodies'
  BY <1>1, <1>2, <1>4, <1>6, <1>7 DEF LeaderBodies, InRegionPC, Entry
<1>9. LeftByLeader = ended[0]
      /\ LeftByLeader' = IF region[0] \in Reducing THEN ended[0] ELSE ended[0] \union {region[0]}
  BY <1>2, <1>6, <1>7 DEF LeftByLeader
<1>10. Regions!End(0)
  BY <1>2, <1>4, <1>6, <1>9 DEF Regions!End
<1>11. QED
  BY <1>1, <1>5, <1>8, <1>10, WorkersAlone DEF JoinInv

\* The leader leaves a reduction: every worker has ended the body of that region.
LEMMA LeaderReducedJoins ==
    ASSUME IInv, FlagInv, JoinInv, LeaderReduced, Moves(0)
    PROVE  JoinInv' /\ Regions!Join
<1>1. TypeOK /\ 0 \in Rank /\ ContextInv /\ LeaderBodies /\ \A w \in Worker : WorkerBodies(w)
  BY LeaderIsNoWorker DEF IInv, JoinInv
<1>2. /\ UNCHANGED <<log, kinds, region, begun, ended, faults>> /\ pc[0] = "reduce" /\ pc'[0] = "main"
      /\ \A w \in Worker : Len(log[w]) >= Len(log[0]) /\ log[w][Len(log[0])].op = "reduce"
  BY <1>1 DEF LeaderReduced, GoTo, TypeOK
<1>3. Contexts(0)' = Contexts(0) /\ Forked' = Forked /\ Reducing' = Reducing
  BY <1>1, <1>2, ContextsSame DEF Forked, Reducing
<1>4. ContextInv'
  BY <1>1, <1>2, <1>3, ContextInvKept DEF Entry
<1>5. LeaderBodies'
  BY <1>1, <1>2, <1>3 DEF LeaderBodies, InRegionPC, Entry
<1>6. region[0] \in ended[0] /\ LeftByLeader = ended[0] \ {region[0]} /\ LeftByLeader' = ended[0]
  BY <1>1, <1>2 DEF LeaderBodies, LeftByLeader
<1>7. \A w \in Worker : region[0] \in ended[w]
  <2>1. TAKE w \in Worker
  <2>2. Running(0) /\ Started(0) /\ Len(log[0]) \in Nat /\ Len(log[w]) \in Nat
    BY <1>1, <1>2, LeaderIsNoWorker DEF IInv, StartInv, Running, StartPC, TypeOK
  <2>3. Len(log[0]) \in 1..Len(log[w]) /\ Len(log[0]) \in 1..Len(log[0])
    BY <1>1, <1>2, <2>2 DEF Started
  <2>4. Last(0) = Coll("reduce", region[0]) /\ log[w][Len(log[0])] = Last(0)
    BY <1>2, <2>3 DEF IInv, LeaderInv, PrefixInv, Prefix, Last
  <2> QED
    BY <2>3, <2>4 DEF IInv, ContributedInv, Coll
<1>8. Regions!Join
  BY <1>2, <1>3, <1>6, <1>7 DEF Regions!Join
<1>9. QED
  BY <1>1, <1>4, <1>5, <1>8, WorkersAlone DEF JoinInv

-----------------------------------------------------------------------------
LEMMA JoinStutters ==
    ASSUME TypeOK, JoinInv, UNCHANGED vars
    PROVE  JoinInv' /\ UNCHANGED Regions!vars
<1>1. 0 \in Rank /\ \A w \in Worker : w \in Rank
  BY LeaderIsNoWorker
<1>2. \A r \in Rank : Contexts(r)' = Contexts(r)
  BY ContextsSame DEF vars
<1>3. ContextInv' /\ LeaderBodies'
  BY <1>1, <1>2, LeaderBodiesKept DEF vars, JoinInv
<1>4. \A w \in Worker : WorkerBodies(w)'
  BY <1>1, <1>2, WorkerBodiesKept DEF vars, JoinInv
<1>5. UNCHANGED Regions!vars
  BY RegionsStutter DEF vars
<1>6. QED
  BY <1>3, <1>4, <1>5 DEF JoinInv

LEMMA JoinSteps ==
    ASSUME IInv, IInv', FlagInv, JoinInv, ThrewInv, Next
    PROVE  JoinInv' /\ (OutOfStep \/ [Regions!Next]_(Regions!vars))
<1>1. TypeOK /\ 0 \in Rank /\ \A w \in Worker : w \in Rank
  BY LeaderIsNoWorker DEF IInv
<1>2. ASSUME NEW r \in Rank, Startup(r) PROVE JoinInv' /\ UNCHANGED Regions!vars
  BY <1>2, StartupJoins
<1>3. CASE LeaderStep /\ ~Startup(0)
  <2>1. Moves(0)
    BY <1>1, <1>3, LeaderMoves
  <2>2. CASE OpenRegion
    BY <2>1, <2>2, OpenRegionJoins DEF Regions!Next
  <2>3. CASE Refused \/ LeaderOpensInner
    BY <2>1, <2>3, RefusedJoins
  <2>4. CASE SerialBody
    BY <2>1, <2>4, SerialBodyJoins DEF Regions!Next
  <2>5. CASE \E c \in Entry : Send(c)
    BY <2>1, <2>5, SendJoins
  <2>6. CASE ClearSoftDirty \/ SendFails \/ LeaderFortran
    BY <2>1, <2>6, LeaderBodyJoins
  <2>s. CASE LeaderSymbolsFail
    BY <2>1, <2>s, LeaderSymbolsJoins
  <2>7. CASE LeaderExit \/ LeaderCallsExit
    BY <2>1, <2>7, LeaderEndJoins DEF Regions!Next
  <2>8. CASE LeaderReduced
    BY <2>1, <2>8, LeaderReducedJoins DEF Regions!Next
  <2>9. CASE MainReturns \/ MainThrows \/ Finalize(0)
    BY <2>1, <2>9, LeaderQuietJoins
  <2> QED
    BY <1>3, <2>2, <2>3, <2>4, <2>5, <2>6, <2>s, <2>7, <2>8, <2>9 DEF LeaderStep
<1>4. ASSUME NEW w \in Worker, WorkerStep(w), ~Startup(w)
      PROVE  JoinInv' /\ (OutOfStep \/ [Regions!Next]_(Regions!vars))
  <2>1. Moves(w) /\ UNCHANGED kinds
    BY <1>1, <1>4, WorkerMoves
  <2>2. CASE \/ ReserveHeapArea(w) \/ GetTag(w) \/ GetMemOps(w) \/ GetStack(w)
             \/ Get(w, "heap", "context") \/ Finalize(w)
    BY <2>1, <2>2, WorkerWaitsJoins
  <2>3. CASE Get(w, "context", "init")
    BY <2>1, <2>3, GetContextJoins
  <2>4. CASE InitReduceAreas(w) \/ WorkerFortran(w) \/ WorkerSymbolsFail(w)
    BY <2>1, <2>4, WorkerBodyJoins
  <2>5. CASE WorkerOpensInner(w)
    BY <2>1, <2>5, WorkerInnerJoins
  <2>6. CASE WorkerExit(w) \/ WorkerCallsExit(w)
    BY <2>1, <2>6, WorkerEndJoins DEF Regions!Next
  <2> QED
    BY <1>4, <2>2, <2>3, <2>4, <2>5, <2>6 DEF WorkerStep
<1>5. CASE Stopped
  BY <1>1, <1>5, JoinStutters DEF Stopped
<1>6. QED
  BY <1>1, <1>2, <1>3, <1>4, <1>5 DEF Next, LeaderStep, WorkerStep

LEMMA JoinStarts == Init => JoinInv /\ ThrewInv /\ Regions!Init
<1> SUFFICES ASSUME Init PROVE JoinInv /\ ThrewInv /\ Regions!Init
  OBVIOUS
<1>1. /\ \A r \in Rank : /\ pc[r] = "pagesize" /\ log[r] = << >> /\ begun[r] = {} /\ ended[r] = {}
                         /\ region[r] = 0
      /\ kinds = << >> /\ Len(kinds) = 0 /\ 0 \in Rank /\ \A w \in Worker : w \in Rank
      /\ begun = [r \in Rank |-> {}] /\ ended = [r \in Rank |-> {}]
  BY LeaderIsNoWorker DEF Init
<1>2. Forked = {} /\ Reducing = {} /\ ~ConstructorThrew
  BY <1>1 DEF Forked, Reducing, ConstructorThrew
<1>3. \A r \in Rank : Contexts(r) = {}
  BY <1>1 DEF Contexts
<1>4. ContextInv /\ LeaderBodies
  BY <1>1, <1>2, <1>3 DEF ContextInv, LeaderBodies, Entry, InRegionPC
<1>5. \A w \in Worker : WorkerBodies(w)
  BY <1>1, <1>3 DEF WorkerBodies
<1>6. Rank = Worker \union {0}
  BY NumWorkersAssumption DEF Rank, Worker
<1>7. Regions!Init
  BY <1>1, <1>2, <1>6 DEF Regions!Init, LeftByLeader
<1>8. QED
  BY <1>2, <1>4, <1>5, <1>7 DEF JoinInv, ThrewInv

\* A program of regions is one of forks and joins, for any number of workers and any
\* regions, as long as the ranks are in step: no body is run twice, skipped or run out
\* of order on any rank.
THEOREM RegionsAreForksAndJoins == Spec => RegionsForkAndJoin
<1>1. Init => JoinInv /\ ThrewInv /\ Regions!Init
  BY JoinStarts
<1>2. IInv /\ IInv' /\ FlagInv /\ JoinInv /\ ThrewInv /\ [Next]_vars
        => /\ JoinInv' /\ ThrewInv'
           /\ [OutOfStep \/ [Regions!Next]_(Regions!vars)]_vars
  <2>1. SUFFICES ASSUME IInv, IInv', FlagInv, JoinInv, ThrewInv, [Next]_vars
                 PROVE  /\ JoinInv' /\ ThrewInv'
                        /\ [OutOfStep \/ [Regions!Next]_(Regions!vars)]_vars
    OBVIOUS
  <2>2. CASE Next
    BY <2>1, <2>2, JoinSteps, ThrewSteps
  <2>3. CASE UNCHANGED vars
    <3>1. TypeOK
      BY <2>1 DEF IInv
    <3>2. ThrewInv'
      BY <2>1, <2>3 DEF vars, ThrewInv, ConstructorThrew
    <3> QED
      BY <2>1, <2>3, <3>1, <3>2, JoinStutters
  <2> QED
    BY <2>1, <2>2, <2>3
<1> QED
  BY <1>1, <1>2, RegionInvariance, FlagInvariance, PTL DEF Spec, RegionsForkAndJoin, OutOfStep

=============================================================================
