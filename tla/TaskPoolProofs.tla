---------------------------- MODULE TaskPoolProofs ----------------------------
(***************************************************************************)
(* The protocol of DynamicSchedule gives every task of a range to one rank *)
(* and runs it once: it implements TaskPool, for any number of clients,    *)
(* any buffer sizes, any ranges and both ways a send may complete.         *)
(***************************************************************************)
EXTENDS DynamicScheduleProofs

Increasing(s) == \A i, j \in 1..Len(s) : i < j => s[i] < s[j]

\* Tasks reach a client in order, and the one it runs is older than those that
\* wait.
OrderInv ==
    \A c \in Client :
        /\ Increasing(vals[c])
        /\ cli[c] = "work" => \A t \in Elements(vals[c]) : value[c] < t

\* What waits for a client has been taken from the range, and waits for no other.
WaitingInv ==
    \A c \in Client : \A t \in Waiting(c) :
        /\ t \in 1..(iter - 1)
        /\ \A d \in Client \ {c} : t \notin Waiting(d)

\* A task has run once when it has been taken from the range and waits for no
\* client, and not at all before.
RanInv ==
    \A t \in Task :
        ran[t] = IF t < iter /\ \A c \in Client : t \notin Waiting(c) THEN 1 ELSE 0

\* Where the range has been given out.
After == {"start", "notify", "waitFinished", "drain"}

AfterInv == srv \in After => Exhausted

\* The inductive invariant about tasks; it rests on the one about messages.
TaskInv == OrderInv /\ WaitingInv /\ RanInv /\ AfterInv

-----------------------------------------------------------------------------
(***************************************************************************)
(* Queues.                                                                 *)
(***************************************************************************)

\* What m_requests and the wire hold after the isend of a newer task.
LEMMA AppendElements ==
    ASSUME NEW s \in Seq(Nat), NEW x \in Nat
    PROVE  /\ Elements(Append(s, x)) = Elements(s) \union {x}
           /\ Increasing(s) /\ (\A t \in Elements(s) : t < x) => Increasing(Append(s, x))
<1>1. /\ Len(Append(s, x)) = Len(s) + 1 /\ Len(s) \in Nat
      /\ \A i \in 1..Len(s) : Append(s, x)[i] = s[i]
      /\ Append(s, x)[Len(s) + 1] = x
  OBVIOUS
<1> DEFINE a == Append(s, x)
           n == Len(s)
<1>2. Len(a) = n + 1 /\ n \in Nat /\ (\A i \in 1..n : a[i] = s[i]) /\ a[n + 1] = x
  BY <1>1
<1> HIDE DEF a, n
<1>3. Elements(a) = {a[i] : i \in 1..(n + 1)}
  BY <1>2 DEF Elements
<1>4. Elements(s) = {s[i] : i \in 1..n}
  BY DEF Elements, n
<1>5. Elements(a) = Elements(s) \union {x}
  <2>1. ASSUME NEW t \in Elements(a) PROVE t \in Elements(s) \union {x}
    <3>1. PICK i \in 1..(n + 1) : t = a[i]
      BY <1>3, <2>1
    <3>2. i = n + 1 \/ i \in 1..n
      BY <1>2
    <3> QED
      BY <1>2, <1>4, <3>1, <3>2
  <2>2. ASSUME NEW t \in Elements(s) PROVE t \in Elements(a)
    <3>1. PICK i \in 1..n : t = s[i]
      BY <1>4, <2>2
    <3>2. i \in 1..(n + 1) /\ a[i] = t
      BY <1>2, <3>1
    <3> QED
      BY <1>3, <3>2
  <2>3. x \in Elements(a)
    <3>1. n + 1 \in 1..(n + 1)
      BY <1>2
    <3> QED
      BY <1>2, <1>3, <3>1
  <2> QED
    BY <2>1, <2>2, <2>3
<1>6. ASSUME Increasing(s), \A t \in Elements(s) : t < x
      PROVE  Increasing(a)
  <2>1. SUFFICES ASSUME NEW i \in 1..(n + 1), NEW j \in 1..(n + 1), i < j
                 PROVE  a[i] < a[j]
    BY <1>2 DEF Increasing
  <2>2. i \in 1..n /\ (j \in 1..n \/ j = n + 1)
    BY <1>2, <2>1
  <2>3. j \in 1..n => s[i] < s[j]
    BY <1>6, <2>1, <2>2 DEF Increasing, n
  <2>4. s[i] < x
    BY <1>4, <1>6, <2>2
  <2> QED
    BY <1>2, <2>2, <2>3, <2>4
<1>7. QED
  BY <1>5, <1>6 DEF a

\* What remains when the oldest task has been received.
LEMMA TailElements ==
    ASSUME NEW s \in Seq(Nat), Len(s) > 0
    PROVE  /\ Elements(s) = Elements(Tail(s)) \union {Head(s)}
           /\ Increasing(s) => /\ Increasing(Tail(s))
                               /\ \A t \in Elements(Tail(s)) : Head(s) < t
<1> DEFINE a == Tail(s)
           n == Len(s)
<1>1. /\ Len(a) = n - 1 /\ n \in Nat \ {0}
      /\ \A i \in 1..(n - 1) : a[i] = s[i + 1]
      /\ Head(s) = s[1]
  OBVIOUS
<1> HIDE DEF a, n
<1>2. Elements(a) = {a[i] : i \in 1..(n - 1)} /\ Elements(s) = {s[i] : i \in 1..n}
  BY <1>1 DEF Elements, n
<1>3. \A t \in Elements(a) : \E i \in 2..n : t = s[i]
  <2>1. TAKE t \in Elements(a)
  <2>2. PICK i \in 1..(n - 1) : t = a[i]
    BY <1>2
  <2>3. i + 1 \in 2..n /\ t = s[i + 1]
    BY <1>1, <2>2
  <2> QED
    BY <2>3
<1>4. \A i \in 2..n : s[i] \in Elements(a)
  <2>1. TAKE i \in 2..n
  <2>2. i - 1 \in 1..(n - 1) /\ a[i - 1] = s[i]
    BY <1>1
  <2> QED
    BY <1>2, <2>2
<1>5. Elements(s) = Elements(a) \union {Head(s)}
  <2>1. \A i \in 1..n : i = 1 \/ i \in 2..n
    BY <1>1
  <2>2. 1 \in 1..n /\ \A i \in 2..n : i \in 1..n
    BY <1>1
  <2> QED
    BY ZenonT(30), <1>1, <1>2, <1>3, <1>4, <2>1, <2>2
<1>6. ASSUME Increasing(s) PROVE Increasing(a) /\ \A t \in Elements(a) : Head(s) < t
  <2>1. \A i, j \in 1..n : i < j => s[i] < s[j]
    BY <1>6 DEF Increasing, n
  <2>2. \A i, j \in 1..(n - 1) : i < j => a[i] < a[j]
    <3>1. TAKE i, j \in 1..(n - 1)
    <3>2. HAVE i < j
    <3>3. i + 1 \in 1..n /\ j + 1 \in 1..n /\ i + 1 < j + 1
      BY <1>1, <3>2
    <3> QED
      BY <1>1, <2>1, <3>3
  <2>3. \A i \in 2..n : 1 \in 1..n /\ i \in 1..n /\ 1 < i
    BY <1>1
  <2> QED
    BY <1>1, <1>3, <2>1, <2>2, <2>3 DEF Increasing
<1>7. QED
  BY <1>5, <1>6 DEF a

-----------------------------------------------------------------------------
(***************************************************************************)
(* What a step does to the tasks that wait for a client.                   *)
(***************************************************************************)

\* Sending a task lets it wait for the client, after all others.
LEMMA SendWaiting ==
    ASSUME TypeOK, TaskInv, NEW c \in Client, SendValue(c), UNCHANGED <<cli, value>>
    PROVE  /\ Waiting(c)' = Waiting(c) \union {iter}
           /\ \A d \in Client \ {c} : Waiting(d)' = Waiting(d)
           /\ OrderInv'
<1>1. /\ vals \in [Client -> Seq(Nat)] /\ iter \in Nat
      /\ vals' = [vals EXCEPT ![c] = Append(vals[c], iter)]
  BY DEF TypeOK, SendValue
<1>2. /\ vals'[c] = Append(vals[c], iter) /\ vals[c] \in Seq(Nat)
      /\ \A d \in Client \ {c} : vals'[d] = vals[d]
  BY <1>1
<1>3. Elements(vals'[c]) = Elements(vals[c]) \union {iter}
  BY <1>1, <1>2, AppendElements
<1>4. \A t \in Waiting(c) : t < iter
  BY <1>1 DEF TaskInv, WaitingInv
<1>5. /\ \A t \in Elements(vals[c]) : t < iter
      /\ cli[c] = "work" => value[c] < iter
  BY <1>4 DEF Waiting
<1>6. Increasing(vals'[c])
  BY <1>1, <1>2, <1>5, AppendElements DEF TaskInv, OrderInv
<1>7. OrderInv'
  <2>1. \A d \in Client \ {c} : /\ Increasing(vals'[d])
                                /\ cli[d] = "work" => \A t \in Elements(vals'[d]) : value[d] < t
    BY <1>2 DEF TaskInv, OrderInv
  <2>2. cli[c] = "work" => \A t \in Elements(vals'[c]) : value[c] < t
    BY <1>3, <1>5 DEF TaskInv, OrderInv
  <2> QED
    BY <1>6, <2>1, <2>2 DEF OrderInv
<1>8. QED
  BY <1>2, <1>3, <1>7 DEF Waiting

\* A value that is received waits as before: now in m_value.
LEMMA ReceiveWaiting ==
    ASSUME TypeOK, ChannelInv, TaskInv, NEW c \in Client, valsIn[c] > 0, Receive(c),
           cli[c] # "work"
    PROVE  (\A d \in Client : Waiting(d)' = Waiting(d)) /\ OrderInv'
<1>1. /\ vals \in [Client -> Seq(Nat)] /\ value \in [Client -> Nat]
      /\ cli \in [Client -> ClientPC]
      /\ vals' = [vals EXCEPT ![c] = Tail(vals[c])]
      /\ value' = [value EXCEPT ![c] = Head(vals[c])]
      /\ cli' = [cli EXCEPT ![c] = "work"]
  BY DEF TypeOK, Receive, GoTo
<1>2. vals[c] \in Seq(Nat) /\ Len(vals[c]) > 0
  BY <1>1 DEF TypeOK, ChannelInv
<1>3. /\ vals'[c] = Tail(vals[c]) /\ value'[c] = Head(vals[c]) /\ cli'[c] = "work"
      /\ \A d \in Client \ {c} : vals'[d] = vals[d] /\ value'[d] = value[d] /\ cli'[d] = cli[d]
  BY <1>1
<1>4. Elements(vals[c]) = Elements(vals'[c]) \union {value'[c]}
  BY <1>2, <1>3, TailElements
<1>5. Increasing(vals'[c]) /\ \A t \in Elements(vals'[c]) : value'[c] < t
  BY <1>2, <1>3, TailElements DEF TaskInv, OrderInv
<1>6. OrderInv'
  BY <1>3, <1>5 DEF TaskInv, OrderInv
<1>7. QED
  BY <1>3, <1>4, <1>6 DEF Waiting

\* The task a client runs is the oldest that waits for it, and waits no more.
LEMMA RunWaiting ==
    ASSUME TypeOK, TaskInv, NEW c \in Client, cli[c] = "work", GoTo(c, "next"),
           UNCHANGED <<vals, value>>
    PROVE  /\ value[c] \in Waiting(c) /\ \A t \in Waiting(c) : value[c] <= t
           /\ Waiting(c)' = Waiting(c) \ {value[c]}
           /\ \A d \in Client \ {c} : Waiting(d)' = Waiting(d)
           /\ OrderInv'
<1>1. /\ cli' = [cli EXCEPT ![c] = "next"] /\ cli \in [Client -> ClientPC]
      /\ value \in [Client -> Nat]
  BY DEF GoTo, TypeOK
<1>2. cli'[c] = "next" /\ \A d \in Client \ {c} : cli'[d] = cli[d]
  BY <1>1
<1>3. \A t \in Elements(vals[c]) : value[c] < t
  BY DEF TaskInv, OrderInv
<1>4. value[c] \notin Elements(vals[c])
  BY <1>1, <1>3
<1>5. OrderInv'
  BY <1>2 DEF TaskInv, OrderInv
<1>6. \A t \in Waiting(c) : value[c] <= t
  <2>1. value[c] \in Nat /\ \A t \in Waiting(c) : t \in Int
    BY <1>1 DEF TaskInv, WaitingInv
  <2> QED
    BY <1>3, <2>1 DEF Waiting
<1>7. QED
  BY <1>2, <1>4, <1>5, <1>6 DEF Waiting

\* Other steps change no queue, and no client starts or ends a body.
LEMMA QuietWaiting ==
    ASSUME TaskInv, UNCHANGED <<vals, value>>,
           \A d \in Client : cli'[d] = "work" <=> cli[d] = "work"
    PROVE  (\A d \in Client : Waiting(d)' = Waiting(d)) /\ OrderInv'
  BY DEF TaskInv, OrderInv, Waiting

-----------------------------------------------------------------------------
(***************************************************************************)
(* What it does to the invariant and to the task pool.                     *)
(***************************************************************************)

\* Nothing is given out or run.
LEMMA KeepTasks ==
    ASSUME TaskInv, \A d \in Client : Waiting(d)' = Waiting(d), OrderInv',
           UNCHANGED <<iter, nTasks, ran>>, srv' \in After => srv \in After \/ Exhausted,
           srv' \in Working <=> srv \in Working, srv' = "start" <=> srv = "start"
    PROVE  TaskInv' /\ UNCHANGED Pool!vars
<1>1. TaskInv'
  BY DEF TaskInv, WaitingInv, RanInv, AfterInv, Exhausted, Task
<1>2. Todo' = Todo /\ HaveRun' = HaveRun /\ InLoop' = InLoop
  BY DEF Todo, HaveRun, InLoop, Task
<1>3. \A r \in (0..NumClients) \ {0} : r \in Client
  BY NumClientsAssumption DEF Client
<1>4. Given' = Given
  BY <1>3 DEF Given
<1>5. QED
  BY <1>1, <1>2, <1>4 DEF Pool!vars

\* The next task of the range is given to a client.
LEMMA GiveTask ==
    ASSUME TypeOK, TaskInv, NEW c \in Client, ~Exhausted, OrderInv',
           Waiting(c)' = Waiting(c) \union {iter},
           \A d \in Client \ {c} : Waiting(d)' = Waiting(d),
           iter' = iter + 1, UNCHANGED <<srv, nTasks, ran>>,
           srv \notin After \union Working
    PROVE  TaskInv' /\ Pool!Give(c)
<1>1. iter \in Nat /\ nTasks \in Nat /\ iter \in 1..nTasks /\ Task' = Task
  BY DEF TypeOK, Exhausted, Task
<1>2. \A d \in Client : iter \notin Waiting(d)
  BY <1>1 DEF TaskInv, WaitingInv
<1>3. WaitingInv'
  BY <1>1, <1>2 DEF TaskInv, WaitingInv
<1>4. RanInv'
  <2>1. SUFFICES ASSUME NEW t \in Task
                 PROVE  ran[t] = IF t < iter + 1 /\ \A d \in Client : t \notin Waiting(d)'
                                 THEN 1 ELSE 0
    BY <1>1 DEF RanInv
  <2>2. t \in Nat /\ ran[t] = IF t < iter /\ \A d \in Client : t \notin Waiting(d) THEN 1 ELSE 0
    BY DEF TaskInv, RanInv, Task
  <2>3. CASE t = iter
    BY <1>1, <2>2, <2>3
  <2>4. CASE t # iter
    <3>1. t < iter + 1 <=> t < iter
      BY <1>1, <2>2, <2>4
    <3>2. \A d \in Client : t \in Waiting(d)' <=> t \in Waiting(d)
      BY <2>4
    <3> QED
      BY <2>2, <3>1, <3>2
  <2> QED
    BY <2>3, <2>4
<1>5. AfterInv'
  BY DEF AfterInv
<1>6. iter \in Todo /\ (\A u \in Todo : iter <= u) /\ Todo' = Todo \ {iter}
  BY <1>1 DEF Todo
<1>7. Given' = [Given EXCEPT ![c] = @ \union {iter}]
  <2>1. c \in 0..NumClients /\ c # 0 /\ \A r \in (0..NumClients) \ {0} : r \in Client
    BY NumClientsAssumption DEF Client
  <2> QED
    BY <2>1 DEF Given
<1>8. HaveRun' = HaveRun /\ InLoop /\ InLoop'
  BY <1>1 DEF HaveRun, InLoop, After
<1>9. QED
  BY <1>3, <1>4, <1>5, <1>6, <1>7, <1>8 DEF TaskInv, Pool!Give

\* The leader takes the next task of the range itself.
LEMMA TakeTask ==
    ASSUME TypeOK, TaskInv, ~Exhausted, OrderInv',
           \A d \in Client : Waiting(d)' = Waiting(d), UNCHANGED <<iter, nTasks, ran>>,
           srv \notin Working, srv # "start", srv' \in Working
    PROVE  TaskInv' /\ Pool!Give(0)
<1>1. iter \in Nat /\ nTasks \in Nat /\ iter \in 1..nTasks /\ Task' = Task
  BY DEF TypeOK, Exhausted, Task
<1>2. TaskInv'
  BY <1>1 DEF TaskInv, WaitingInv, RanInv, AfterInv, After, Working
<1>3. iter \in Todo /\ (\A u \in Todo : iter <= u) /\ Todo' = Todo \ {iter}
  BY <1>1 DEF Todo
<1>4. Given' = [Given EXCEPT ![0] = @ \union {iter}]
  <2>1. 0 \in 0..NumClients /\ \A r \in (0..NumClients) \ {0} : r \in Client
    BY NumClientsAssumption DEF Client
  <2> QED
    BY <2>1 DEF Given
<1>5. HaveRun' = HaveRun /\ InLoop /\ InLoop'
  BY <1>1 DEF HaveRun, InLoop, Working
<1>6. QED
  BY <1>2, <1>3, <1>4, <1>5 DEF Pool!Give

\* The leader runs its task.
LEMMA RunOwnTask ==
    ASSUME TypeOK, TaskInv, WorkInv, OrderInv', srv \in Working,
           \A d \in Client : Waiting(d)' = Waiting(d), UNCHANGED nTasks,
           iter' = iter + 1, ran' = [ran EXCEPT ![iter] = @ + 1],
           srv' \notin After \union Working
    PROVE  TaskInv' /\ Pool!Run(0)
<1>1. iter \in Nat /\ nTasks \in Nat /\ iter \in Task /\ Task' = Task
      /\ ran \in [Task -> Nat]
  BY DEF TypeOK, WorkInv, Working, Task
<1>2. \A d \in Client : iter \notin Waiting(d)
  BY <1>1 DEF TaskInv, WaitingInv
<1>3. WaitingInv'
  BY <1>1 DEF TaskInv, WaitingInv
<1>4. ran[iter] = 0 /\ ran'[iter] = 1 /\ \A t \in Task \ {iter} : ran'[t] = ran[t]
  BY <1>1 DEF TaskInv, RanInv
<1>5. RanInv'
  <2>1. SUFFICES ASSUME NEW t \in Task
                 PROVE  ran'[t] = IF t < iter + 1 /\ \A d \in Client : t \notin Waiting(d)
                                  THEN 1 ELSE 0
    BY <1>1 DEF RanInv
  <2>2. t \in Nat /\ ran[t] = IF t < iter /\ \A d \in Client : t \notin Waiting(d) THEN 1 ELSE 0
    BY DEF TaskInv, RanInv, Task
  <2>3. CASE t = iter
    BY <1>1, <1>2, <1>4, <2>3
  <2>4. CASE t # iter
    <3>1. t < iter + 1 <=> t < iter
      BY <1>1, <2>2, <2>4
    <3> QED
      BY <1>4, <2>2, <2>4, <3>1
  <2> QED
    BY <2>3, <2>4
<1>6. AfterInv'
  BY DEF AfterInv
<1>7. Todo' = Todo
  BY <1>1 DEF Todo
<1>8. Given[0] = {iter} /\ Given' = [Given EXCEPT ![0] = @ \ {iter}]
  <2>1. 0 \in 0..NumClients /\ \A r \in (0..NumClients) \ {0} : r \in Client
    BY NumClientsAssumption DEF Client
  <2> QED
    BY <2>1 DEF Given
<1>9. HaveRun' = HaveRun \union {iter} /\ InLoop /\ InLoop'
  BY <1>1, <1>4 DEF HaveRun, InLoop, After, Working
<1>10. QED
  BY <1>1, <1>3, <1>5, <1>6, <1>7, <1>8, <1>9 DEF TaskInv, Pool!Run

\* A client runs the oldest of its tasks.
LEMMA RunTask ==
    ASSUME TypeOK, TaskInv, OrderInv', NEW c \in Client, NEW v \in Waiting(c),
           \A t \in Waiting(c) : v <= t, Waiting(c)' = Waiting(c) \ {v},
           \A d \in Client \ {c} : Waiting(d)' = Waiting(d),
           UNCHANGED <<srv, iter, nTasks>>, ran' = [ran EXCEPT ![v] = @ + 1],
           srv # "start"
    PROVE  TaskInv' /\ Pool!Run(c)
<1>1. iter \in 1..(nTasks + 1) /\ nTasks \in Nat /\ v \in 1..(iter - 1) /\ Task' = Task
      /\ ran \in [Task -> Nat]
  BY DEF TypeOK, TaskInv, WaitingInv, Task
<1>2. v \in Task /\ v < iter
  BY <1>1 DEF Task
<1>3. WaitingInv'
  BY DEF TaskInv, WaitingInv
<1>4. \A d \in Client : v \notin Waiting(d)'
  BY DEF TaskInv, WaitingInv
<1>5. ran[v] = 0 /\ ran'[v] = 1 /\ \A t \in Task \ {v} : ran'[t] = ran[t]
  BY <1>1, <1>2 DEF TaskInv, RanInv
<1>6. RanInv'
  <2>1. SUFFICES ASSUME NEW t \in Task
                 PROVE  ran'[t] = IF t < iter /\ \A d \in Client : t \notin Waiting(d)'
                                  THEN 1 ELSE 0
    BY <1>1 DEF RanInv
  <2>2. CASE t = v
    BY <1>2, <1>4, <1>5, <2>2
  <2>3. CASE t # v
    <3>1. \A d \in Client : t \in Waiting(d)' <=> t \in Waiting(d)
      BY <2>3
    <3> QED
      BY <1>5, <2>3, <3>1 DEF TaskInv, RanInv
  <2> QED
    BY <2>2, <2>3
<1>7. AfterInv' /\ Todo' = Todo /\ InLoop /\ InLoop'
  BY DEF TaskInv, AfterInv, Exhausted, Todo, InLoop
<1>8. Given[c] = Waiting(c) /\ Given' = [Given EXCEPT ![c] = @ \ {v}]
  <2>1. c \in 0..NumClients /\ c # 0 /\ \A r \in (0..NumClients) \ {0} : r \in Client
    BY NumClientsAssumption DEF Client
  <2> QED
    BY <2>1 DEF Given
<1>9. HaveRun' = HaveRun \union {v}
  BY <1>1, <1>2, <1>5 DEF HaveRun
<1>10. QED
  BY <1>3, <1>6, <1>7, <1>8, <1>9 DEF TaskInv, Pool!Run

\* A loop over a new range begins.
LEMMA OpenLoop ==
    ASSUME TypeOK, TaskInv, OrderInv', \A d \in Client : Waiting(d)' = {} /\ Waiting(d) = {},
           NEW n \in TaskCounts, StartLoop(n), srv = "start", srv' \notin After \union Working
    PROVE  TaskInv' /\ Pool!Open
<1>1. n \in Nat /\ nTasks' = n /\ iter' = 1 /\ ran' = [t \in 1..n |-> 0] /\ Task' = 1..n
  BY TaskCountsAssumption DEF StartLoop, Task
<1>2. TaskInv'
  BY <1>1 DEF TaskInv, WaitingInv, RanInv, AfterInv
<1>3. Todo' = 1..n /\ HaveRun' = {} /\ ~InLoop /\ InLoop' = TRUE
  BY <1>1 DEF Todo, HaveRun, InLoop, After
<1>4. \A r \in (0..NumClients) \ {0} : r \in Client
  BY NumClientsAssumption DEF Client
<1>5. Given' = Given
  BY <1>4 DEF Given, Working
<1>6. QED
  BY <1>2, <1>3, <1>5 DEF Pool!Open

\* The leader leaves a loop whose tasks have all run.
LEMMA CloseLoop ==
    ASSUME TypeOK, TaskInv, OrderInv', \A d \in Client : Waiting(d)' = {} /\ Waiting(d) = {},
           UNCHANGED <<iter, nTasks, ran>>, Exhausted, srv \notin Working, srv # "start",
           srv' = "start"
    PROVE  TaskInv' /\ Pool!Close
<1>1. iter = nTasks + 1 /\ nTasks \in Nat
  BY DEF TypeOK, Exhausted
<1>2. TaskInv'
  BY DEF TaskInv, WaitingInv, RanInv, AfterInv, Exhausted, Task
<1>3. Todo = {} /\ Todo' = Todo /\ HaveRun' = HaveRun /\ InLoop /\ InLoop' = FALSE
  BY <1>1 DEF Todo, HaveRun, InLoop, Task, Working
<1>4. \A r \in (0..NumClients) \ {0} : r \in Client
  BY NumClientsAssumption DEF Client
<1>5. Given' = Given /\ \A r \in 0..NumClients : Given[r] = {}
  BY <1>4 DEF Given, Working
<1>6. QED
  BY <1>2, <1>3, <1>5 DEF Pool!Close

-----------------------------------------------------------------------------
(***************************************************************************)
(* The protocol.                                                           *)
(***************************************************************************)

\* A step that leaves queues, iterator and history alone, and no client starts or
\* ends a body.
LEMMA QuietStep ==
    ASSUME TaskInv, UNCHANGED <<vals, value, iter, nTasks, ran>>,
           \A d \in Client : cli'[d] = "work" <=> cli[d] = "work",
           srv' \in After => srv \in After \/ Exhausted,
           srv' \in Working <=> srv \in Working, srv' = "start" <=> srv = "start"
    PROVE  TaskInv' /\ UNCHANGED Pool!vars
  BY QuietWaiting, KeepTasks

\* No task waits for a client that is out of its loop and has no value coming.
LEMMA NoneWaiting ==
    ASSUME TypeOK, \A d \in Client : vals[d] = << >> /\ cli[d] # "work"
    PROVE  \A d \in Client : Waiting(d) = {}
  BY DEF Waiting, Elements

\* Every step preserves the invariant, and is one of the task pool or leaves it
\* alone.
LEMMA StepTasks ==
    ASSUME IInv, TaskInv, [Next]_vars
    PROVE  TaskInv' /\ [Pool!Next]_(Pool!vars)
<1> DEFINE Goal == TaskInv' /\ [Pool!Next]_(Pool!vars)
<1> USE DEF leaderVars, clientVars, reqVars, valVars, endVars
<1>r. 0 \in 0..NumClients /\ \A d \in Client : d \in 0..NumClients
  BY NumClientsAssumption DEF Client
<1>t. TypeOK /\ ChannelInv /\ WorkInv /\ cli \in [Client -> ClientPC]
  BY DEF IInv, TypeOK
<1>1. ASSUME Gather PROVE Goal
  <2>1. PICK n \in TaskCounts : StartLoop(n)
    BY <1>1 DEF Gather
  <2>2. /\ srv = "start" /\ srv' = "barrier" /\ UNCHANGED vals
        /\ \A d \in Client : vals[d] = << >> /\ cli[d] = "start" /\ cli'[d] = "post"
    BY <1>1 DEF Gather, IInv, NothingLeftOver
  <2>3. \A d \in Client : Waiting(d)' = {} /\ Waiting(d) = {}
    BY <2>2 DEF Waiting, Elements
  <2>4. OrderInv'
    BY <2>2 DEF TaskInv, OrderInv
  <2> QED
    BY <1>t, <2>1, <2>2, <2>3, <2>4, OpenLoop DEF After, Working, Pool!Next
<1>2. ASSUME StartSingle PROVE Goal
  <2>1. PICK n \in TaskCounts : StartLoop(n)
    BY <1>2 DEF StartSingle
  <2>2. /\ srv = "start" /\ srv' = "single" /\ UNCHANGED <<vals, value, cli>>
        /\ \A d \in Client : vals[d] = << >> /\ cli[d] # "work"
    BY <1>2 DEF StartSingle, IInv, NothingLeftOver, PhaseInv, Outside
  <2>3. (\A d \in Client : Waiting(d)' = {} /\ Waiting(d) = {}) /\ OrderInv'
    BY <1>t, <2>2, NoneWaiting, QuietWaiting
  <2> QED
    BY <1>t, <2>1, <2>2, <2>3, OpenLoop DEF After, Working, Pool!Next
<1>3. ASSUME SingleTest PROVE Goal
  <2>1. /\ srv = "single" /\ UNCHANGED <<vals, value, cli, iter, nTasks, ran>>
        /\ \A d \in Client : vals[d] = << >> /\ cli[d] # "work"
        /\ srv' = IF Exhausted THEN "start" ELSE "singleWork"
    BY <1>3 DEF SingleTest, LeaderGoTo, IInv, NothingLeftOver, PhaseInv, Outside
  <2>2. (\A d \in Client : Waiting(d)' = {} /\ Waiting(d) = {}) /\ OrderInv'
    BY <1>t, <2>1, NoneWaiting, QuietWaiting
  <2>3. CASE Exhausted
    BY <1>t, <2>1, <2>2, <2>3, CloseLoop DEF Working, Pool!Next
  <2>4. CASE ~Exhausted
    BY <1>r, <1>t, <2>1, <2>2, <2>4, TakeTask DEF Working, Pool!Next
  <2> QED
    BY <2>3, <2>4
<1>4. ASSUME SingleWork PROVE Goal
  <2>1. /\ srv = "singleWork" /\ srv' = "single" /\ UNCHANGED <<vals, value, cli, nTasks>>
        /\ iter' = iter + 1 /\ ran' = [ran EXCEPT ![iter] = @ + 1]
    BY <1>4 DEF SingleWork
  <2>2. (\A d \in Client : Waiting(d)' = Waiting(d)) /\ OrderInv'
    BY <2>1, QuietWaiting
  <2> QED
    BY <1>r, <1>t, <2>1, <2>2, RunOwnTask DEF After, Working, Pool!Next
<1>5. ASSUME LeaderBarrier PROVE Goal
  <2>1. /\ UNCHANGED <<vals, value, iter, nTasks, ran>>
        /\ \A d \in Client : cli'[d] = "work" <=> cli[d] = "work"
        /\ srv' \in After => srv \in After \/ Exhausted
        /\ srv' \in Working <=> srv \in Working
        /\ srv' = "start" <=> srv = "start"
    BY <1>t, <1>5 DEF LeaderBarrier, LeaderGoTo, After, Working
  <2> QED
    BY <1>t, <2>1, QuietStep
<1>6. ASSUME NEW c \in Client, FirstRound(c) PROVE Goal
  <2>1. /\ srv = "first" /\ ~Exhausted /\ SendValue(c)
        /\ UNCHANGED <<srv, cli, value, nTasks, ran>>
    BY <1>6 DEF FirstRound
  <2>2. iter' = iter + 1
    BY <2>1 DEF SendValue
  <2>3. /\ Waiting(c)' = Waiting(c) \union {iter}
        /\ \A d \in Client \ {c} : Waiting(d)' = Waiting(d)
        /\ OrderInv'
    BY <1>t, <2>1, SendWaiting
  <2> QED
    BY <1>r, <1>t, <2>1, <2>2, <2>3, GiveTask DEF After, Working, Pool!Next
<1>7. ASSUME FirstRoundOver PROVE Goal
  <2>1. /\ UNCHANGED <<vals, value, iter, nTasks, ran>>
        /\ \A d \in Client : cli'[d] = "work" <=> cli[d] = "work"
        /\ srv' \in After => srv \in After \/ Exhausted
        /\ srv' \in Working <=> srv \in Working
        /\ srv' = "start" <=> srv = "start"
    BY <1>t, <1>7 DEF FirstRoundOver, LeaderGoTo, After, Working
  <2> QED
    BY <1>t, <2>1, QuietStep
<1>8. ASSUME NEW c \in Client, Handle(c) PROVE Goal
  <2>1. /\ srv = "handle" /\ ~Exhausted /\ SendValue(c)
        /\ UNCHANGED <<srv, cli, value, nTasks, ran>>
    BY <1>8 DEF Handle
  <2>2. iter' = iter + 1
    BY <2>1 DEF SendValue
  <2>3. /\ Waiting(c)' = Waiting(c) \union {iter}
        /\ \A d \in Client \ {c} : Waiting(d)' = Waiting(d)
        /\ OrderInv'
    BY <1>t, <2>1, SendWaiting
  <2> QED
    BY <1>r, <1>t, <2>1, <2>2, <2>3, GiveTask DEF After, Working, Pool!Next
<1>9. ASSUME HandleNone PROVE Goal
  <2>1. /\ srv = "handle" /\ srv' = "work" /\ ~Exhausted
        /\ UNCHANGED <<vals, value, cli, iter, nTasks, ran>>
    BY <1>9 DEF HandleNone, LeaderGoTo
  <2>2. (\A d \in Client : Waiting(d)' = Waiting(d)) /\ OrderInv'
    BY <2>1, QuietWaiting
  <2> QED
    BY <1>r, <1>t, <2>1, <2>2, TakeTask DEF Working, Pool!Next
<1>10. ASSUME HandleDone PROVE Goal
  <2>1. /\ UNCHANGED <<vals, value, iter, nTasks, ran>>
        /\ \A d \in Client : cli'[d] = "work" <=> cli[d] = "work"
        /\ srv' \in After => srv \in After \/ Exhausted
        /\ srv' \in Working <=> srv \in Working
        /\ srv' = "start" <=> srv = "start"
    BY <1>t, <1>10 DEF HandleDone, LeaderGoTo, After, Working
  <2> QED
    BY <1>t, <2>1, QuietStep
<1>11. ASSUME LeaderWork PROVE Goal
  <2>1. /\ srv = "work" /\ srv' = "handle" /\ UNCHANGED <<vals, value, cli, nTasks>>
        /\ iter' = iter + 1 /\ ran' = [ran EXCEPT ![iter] = @ + 1]
    BY <1>11 DEF LeaderWork
  <2>2. (\A d \in Client : Waiting(d)' = Waiting(d)) /\ OrderInv'
    BY <2>1, QuietWaiting
  <2> QED
    BY <1>r, <1>t, <2>1, <2>2, RunOwnTask DEF After, Working, Pool!Next
<1>12. ASSUME Notify PROVE Goal
  <2>1. /\ UNCHANGED <<vals, value, iter, nTasks, ran>>
        /\ \A d \in Client : cli'[d] = "work" <=> cli[d] = "work"
        /\ srv' \in After => srv \in After \/ Exhausted
        /\ srv' \in Working <=> srv \in Working
        /\ srv' = "start" <=> srv = "start"
    BY <1>t, <1>12 DEF Notify, After, Working
  <2> QED
    BY <1>t, <2>1, QuietStep
<1>13. ASSUME NEW c \in Client, RecvFinished(c) PROVE Goal
  <2>1. /\ UNCHANGED <<vals, value, iter, nTasks, ran>>
        /\ \A d \in Client : cli'[d] = "work" <=> cli[d] = "work"
        /\ srv' \in After => srv \in After \/ Exhausted
        /\ srv' \in Working <=> srv \in Working
        /\ srv' = "start" <=> srv = "start"
    BY <1>t, <1>13 DEF RecvFinished, After, Working
  <2> QED
    BY <1>t, <2>1, QuietStep
<1>14. ASSUME AllFinished PROVE Goal
  <2>1. /\ UNCHANGED <<vals, value, iter, nTasks, ran>>
        /\ \A d \in Client : cli'[d] = "work" <=> cli[d] = "work"
        /\ srv' \in After => srv \in After \/ Exhausted
        /\ srv' \in Working <=> srv \in Working
        /\ srv' = "start" <=> srv = "start"
    BY <1>t, <1>14 DEF AllFinished, LeaderGoTo, After, Working
  <2> QED
    BY <1>t, <2>1, QuietStep
<1>15. ASSUME NEW c \in Client, Drain(c) PROVE Goal
  <2>1. /\ UNCHANGED <<vals, value, iter, nTasks, ran>>
        /\ \A d \in Client : cli'[d] = "work" <=> cli[d] = "work"
        /\ srv' \in After => srv \in After \/ Exhausted
        /\ srv' \in Working <=> srv \in Working
        /\ srv' = "start" <=> srv = "start"
    BY <1>t, <1>15 DEF Drain, After, Working
  <2> QED
    BY <1>t, <2>1, QuietStep
<1>16. ASSUME LeaderEnd PROVE Goal
  <2>1. /\ srv = "drain" /\ srv' = "start" /\ UNCHANGED <<vals, value, cli, iter, nTasks, ran>>
    BY <1>16 DEF LeaderEnd, LeaderGoTo
  <2>2. \A d \in Client : vals[d] = << >> /\ cli[d] # "work"
    BY <2>1 DEF IInv, EndInv
  <2>3. (\A d \in Client : Waiting(d)' = {} /\ Waiting(d) = {}) /\ OrderInv'
    BY <1>t, <2>1, <2>2, NoneWaiting, QuietWaiting
  <2>4. Exhausted
    BY <2>1 DEF TaskInv, AfterInv, After
  <2> QED
    BY <1>t, <2>1, <2>3, <2>4, CloseLoop DEF Working, Pool!Next
<1>17. ASSUME NEW c \in Client, Post(c) PROVE Goal
  <2>1. /\ UNCHANGED <<vals, value, iter, nTasks, ran>>
        /\ \A d \in Client : cli'[d] = "work" <=> cli[d] = "work"
        /\ srv' \in After => srv \in After \/ Exhausted
        /\ srv' \in Working <=> srv \in Working
        /\ srv' = "start" <=> srv = "start"
    BY <1>t, <1>17 DEF Post, GoTo, After, Working
  <2> QED
    BY <1>t, <2>1, QuietStep
<1>18. ASSUME NEW c \in Client, ClientBarrier(c) PROVE Goal
  <2>1. /\ UNCHANGED <<vals, value, iter, nTasks, ran>>
        /\ \A d \in Client : cli'[d] = "work" <=> cli[d] = "work"
        /\ srv' \in After => srv \in After \/ Exhausted
        /\ srv' \in Working <=> srv \in Working
        /\ srv' = "start" <=> srv = "start"
    BY <1>t, <1>18 DEF ClientBarrier, GoTo, After, Working
  <2> QED
    BY <1>t, <2>1, QuietStep
<1>19. ASSUME NEW c \in Client, ProbeValue(c) PROVE Goal
  <2>1. CASE valsIn[c] > 0
    <3>1. Receive(c) /\ cli[c] # "work" /\ UNCHANGED <<srv, iter, nTasks, ran>>
      BY <1>19, <2>1 DEF ProbeValue
    <3>2. (\A d \in Client : Waiting(d)' = Waiting(d)) /\ OrderInv'
      BY <1>t, <2>1, <3>1, ReceiveWaiting
    <3> QED
      BY <3>1, <3>2, KeepTasks
  <2>2. CASE ~(valsIn[c] > 0)
    <3>1. /\ UNCHANGED <<vals, value, iter, nTasks, ran, srv>>
          /\ \A d \in Client : cli'[d] = "work" <=> cli[d] = "work"
      BY <1>t, <1>19, <2>2 DEF ProbeValue, GoTo
    <3> QED
      BY <3>1, QuietStep
  <2> QED
    BY <2>1, <2>2
<1>20. ASSUME NEW c \in Client, CheckDone(c) PROVE Goal
  <2>1. /\ UNCHANGED <<vals, value, iter, nTasks, ran>>
        /\ \A d \in Client : cli'[d] = "work" <=> cli[d] = "work"
        /\ srv' \in After => srv \in After \/ Exhausted
        /\ srv' \in Working <=> srv \in Working
        /\ srv' = "start" <=> srv = "start"
    BY <1>t, <1>20 DEF CheckDone, GoTo, After, Working
  <2> QED
    BY <1>t, <2>1, QuietStep
<1>21. ASSUME NEW c \in Client, Recheck(c) PROVE Goal
  <2>1. CASE valsIn[c] > 0
    <3>1. Receive(c) /\ cli[c] # "work" /\ UNCHANGED <<srv, iter, nTasks, ran>>
      BY <1>21, <2>1 DEF Recheck
    <3>2. (\A d \in Client : Waiting(d)' = Waiting(d)) /\ OrderInv'
      BY <1>t, <2>1, <3>1, ReceiveWaiting
    <3> QED
      BY <3>1, <3>2, KeepTasks
  <2>2. CASE ~(valsIn[c] > 0)
    <3>1. /\ UNCHANGED <<vals, value, iter, nTasks, ran, srv>>
          /\ \A d \in Client : cli'[d] = "work" <=> cli[d] = "work"
      BY <1>t, <1>21, <2>2 DEF Recheck, GoTo
    <3> QED
      BY <3>1, QuietStep
  <2> QED
    BY <2>1, <2>2
<1>22. ASSUME NEW c \in Client, ClientWork(c) PROVE Goal
  <2>1. /\ cli[c] = "work" /\ GoTo(c, "next") /\ UNCHANGED <<vals, value, srv, iter, nTasks>>
        /\ ran' = [ran EXCEPT ![value[c]] = @ + 1]
    BY <1>22 DEF ClientWork
  <2>2. srv # "start"
    BY <2>1 DEF IInv, PhaseInv, Outside
  <2>3. /\ value[c] \in Waiting(c) /\ \A t \in Waiting(c) : value[c] <= t
        /\ Waiting(c)' = Waiting(c) \ {value[c]}
        /\ \A d \in Client \ {c} : Waiting(d)' = Waiting(d)
        /\ OrderInv'
    BY <1>t, <2>1, RunWaiting
  <2> QED
    BY <1>r, <1>t, <2>1, <2>2, <2>3, RunTask DEF Pool!Next
<1>23. ASSUME NEW c \in Client, ClientEnd(c) PROVE Goal
  <2>1. /\ UNCHANGED <<vals, value, iter, nTasks, ran>>
        /\ \A d \in Client : cli'[d] = "work" <=> cli[d] = "work"
        /\ srv' \in After => srv \in After \/ Exhausted
        /\ srv' \in Working <=> srv \in Working
        /\ srv' = "start" <=> srv = "start"
    BY <1>t, <1>23 DEF ClientEnd, GoTo, After, Working
  <2> QED
    BY <1>t, <2>1, QuietStep
<1>24. ASSUME NEW c \in Client, DeliverRequest(c) PROVE Goal
  <2>1. /\ UNCHANGED <<vals, value, iter, nTasks, ran>>
        /\ \A d \in Client : cli'[d] = "work" <=> cli[d] = "work"
        /\ srv' \in After => srv \in After \/ Exhausted
        /\ srv' \in Working <=> srv \in Working
        /\ srv' = "start" <=> srv = "start"
    BY <1>t, <1>24 DEF DeliverRequest, After, Working
  <2> QED
    BY <1>t, <2>1, QuietStep
<1>25. ASSUME NEW c \in Client, DeliverValue(c) PROVE Goal
  <2>1. /\ UNCHANGED <<vals, value, iter, nTasks, ran>>
        /\ \A d \in Client : cli'[d] = "work" <=> cli[d] = "work"
        /\ srv' \in After => srv \in After \/ Exhausted
        /\ srv' \in Working <=> srv \in Working
        /\ srv' = "start" <=> srv = "start"
    BY <1>t, <1>25 DEF DeliverValue, After, Working
  <2> QED
    BY <1>t, <2>1, QuietStep
<1>26. ASSUME NEW c \in Client, DeliverDone(c) PROVE Goal
  <2>1. /\ UNCHANGED <<vals, value, iter, nTasks, ran>>
        /\ \A d \in Client : cli'[d] = "work" <=> cli[d] = "work"
        /\ srv' \in After => srv \in After \/ Exhausted
        /\ srv' \in Working <=> srv \in Working
        /\ srv' = "start" <=> srv = "start"
    BY <1>t, <1>26 DEF DeliverDone, After, Working
  <2> QED
    BY <1>t, <2>1, QuietStep
<1>27. ASSUME NEW c \in Client, DeliverFinished(c) PROVE Goal
  <2>1. /\ UNCHANGED <<vals, value, iter, nTasks, ran>>
        /\ \A d \in Client : cli'[d] = "work" <=> cli[d] = "work"
        /\ srv' \in After => srv \in After \/ Exhausted
        /\ srv' \in Working <=> srv \in Working
        /\ srv' = "start" <=> srv = "start"
    BY <1>t, <1>27 DEF DeliverFinished, After, Working
  <2> QED
    BY <1>t, <2>1, QuietStep
<1>28. CASE UNCHANGED vars
  BY <1>28, QuietStep DEF vars
<1>29. QED
  BY <1>1, <1>2, <1>3, <1>4, <1>5, <1>6, <1>7, <1>8, <1>9, <1>10, <1>11, <1>12,
     <1>13, <1>14, <1>15, <1>16, <1>17, <1>18, <1>19, <1>20, <1>21, <1>22,
     <1>23, <1>24, <1>25, <1>26, <1>27, <1>28 DEF Next, LeaderStep, ClientStep,
     Deliver

\* The program starts with an empty range that has been given out.
LEMMA InitTasks == Init => TaskInv /\ Pool!Init
<1> SUFFICES ASSUME Init PROVE TaskInv /\ Pool!Init
  OBVIOUS
<1>1. /\ srv = "start" /\ nTasks = 0 /\ iter = 1 /\ Task = {}
      /\ \A c \in Client : vals[c] = << >> /\ cli[c] = "start"
  BY DEF Init, Task
<1>2. \A c \in Client : Waiting(c) = {} /\ Increasing(vals[c])
  BY <1>1 DEF Waiting, Elements, Increasing
<1>3. TaskInv
  BY <1>1, <1>2 DEF TaskInv, OrderInv, WaitingInv, RanInv, AfterInv, Exhausted
<1>4. Todo = {} /\ HaveRun = {} /\ InLoop = FALSE
  BY <1>1 DEF Todo, Working, HaveRun, InLoop
<1>5. \A r \in (0..NumClients) \ {0} : r \in Client
  BY NumClientsAssumption DEF Client
<1>6. Given = [r \in 0..NumClients |-> {}]
  BY <1>1, <1>2, <1>5 DEF Given, Working
<1>7. QED
  BY <1>3, <1>4, <1>6 DEF Pool!Init

\* Every reachable state satisfies the invariant about tasks.
THEOREM TaskInvariance == Spec => [](IInv /\ TaskInv)
<1>1. IInv /\ TaskInv /\ [Next]_vars => IInv' /\ TaskInv'
  BY StepInv, StepTasks
<1>2. QED
  BY <1>1, InitInv, InitTasks, PTL DEF Spec

\* m_iter advances once per task wherever it is taken: the body runs at most once
\* for each, whatever the order of requests, values and the leader's own work.
THEOREM TasksRunAtMostOnce == Spec => []AtMostOnce
<1>1. IInv /\ TaskInv => AtMostOnce
  BY DEF TaskInv, RanInv, AtMostOnce
<1>2. QED
  BY <1>1, TaskInvariance, PTL

\* What follows the loop on the leader may use the results of all tasks: when
\* finish_cleanup has received client_finished from every client, all have run.
THEOREM TasksRunBeforeLeaderLeaves == Spec => []AllRanWhenLeaderLeaves
<1>1. ASSUME IInv, TaskInv PROVE AllRanWhenLeaderLeaves
  <2>1. SUFFICES ASSUME srv \in {"drain", "start"}, NEW t \in Task PROVE ran[t] = 1
    BY DEF AllRanWhenLeaderLeaves
  <2>2. \A d \in Client : vals[d] = << >> /\ cli[d] # "work"
    BY <1>1, <2>1 DEF IInv, NothingLeftOver, PhaseInv, EndInv, Outside
  <2>3. \A d \in Client : Waiting(d) = {}
    BY <1>1, <2>2, NoneWaiting DEF IInv
  <2>4. t < iter
    BY <1>1, <2>1 DEF IInv, TypeOK, TaskInv, AfterInv, After, Exhausted, Task
  <2> QED
    BY <1>1, <2>3, <2>4 DEF TaskInv, RanInv
<1>2. QED
  BY <1>1, TaskInvariance, PTL

\* dynamic_schedule implements the task pool: tasks leave the range in order, each
\* for one rank, which runs its oldest first, and the leader leaves last.
THEOREM DynamicScheduleImplementsTaskPool == Spec => ImplementsTaskPool
<1>1. Init => Pool!Init
  BY InitTasks
<1>2. IInv /\ TaskInv /\ [Next]_vars => [Pool!Next]_(Pool!vars)
  BY StepTasks
<1>3. QED
  BY <1>1, <1>2, TaskInvariance, PTL DEF Spec, ImplementsTaskPool, Pool!Spec

=============================================================================
