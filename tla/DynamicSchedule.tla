--------------------------- MODULE DynamicSchedule ---------------------------
(***************************************************************************)
(* The task distribution protocol of simple_parallel::dynamic_schedule     *)
(* (include/simple_parallel/cxx/dynamic_schedule.h).                       *)
(*                                                                         *)
(* Rank 0 (the leader, server_handler) owns the iterator over the range.   *)
(* Every other rank (client_handler) keeps some requests outstanding; the  *)
(* leader answers them between two tasks of its own.  Consecutive parallel *)
(* loops run on the same communicator, so a message that outlives its loop *)
(* would be taken for one of the next.                                     *)
(*                                                                         *)
(* A task is its position in the range: 1, 2, ..., nTasks.                 *)
(*                                                                         *)
(* Messages between two ranks of one communicator arrive in the order they *)
(* were sent (Open MPI orders them by sequence number whatever their tag), *)
(* and a probe sees a message only once it has arrived.  A queue of        *)
(* messages is therefore one sequence (or a number, when the messages are  *)
(* empty) together with how many of its first elements have arrived.       *)
(***************************************************************************)
EXTENDS Integers, Sequences, FiniteSets

CONSTANTS
    NumClients,   \* ranks other than the leader; the clients are 1..NumClients
    BufferSizes,  \* the buffer sizes a client may pass to dynamic_schedule
    TaskCounts,   \* the lengths a range may have
    MaxLoops,     \* bound: how many loops the program runs
    Eager         \* TRUE: MPI_Isend of a task completes at once (small tasks);
                  \* FALSE: it completes when the client has received the task

ASSUME NumClientsAssumption  == NumClients \in Nat
ASSUME BufferSizesAssumption == BufferSizes \subseteq Nat
ASSUME TaskCountsAssumption  == TaskCounts \subseteq Nat
ASSUME MaxLoopsAssumption    == MaxLoops \in Nat
ASSUME EagerAssumption       == Eager \in BOOLEAN

Client == 1..NumClients

VARIABLES
    \* the leader
    srv,       \* where the leader is
    loop,      \* number of loops started
    nTasks,    \* length of the range of the current loop
    iter,      \* m_iter: the next task of the range
    buf,       \* buf[c]: buffer_sizes[c], gathered at the start of the loop
    left,      \* left[c]: first-round values still owed to c
    turn,      \* the rank the first round looks at next
    ring,      \* ring[c]: number of send requests in m_requests[c]
    \* the clients
    cli,       \* where each client is
    value,     \* m_value
    genDone,   \* m_leader_gen_finished
    \* the messages
    reqs,      \* reqs[c]: client_request_val messages sent by c, not received
    reqsIn,    \* how many of them have arrived at the leader
    vals,      \* vals[c]: server_send_val messages sent to c, not received
    valsIn,    \* how many of them have arrived at c
    doneMsg,   \* doneMsg[c]: the val_gen_done message to c
    finMsg,    \* finMsg[c]: the client_finished message of c
    \* history
    ran        \* ran[t]: how often the loop body ran for task t

leaderVars == <<srv, loop, nTasks, iter, buf, left, turn, ring>>
clientVars == <<cli, value, genDone>>
reqVars    == <<reqs, reqsIn>>
valVars    == <<vals, valsIn>>
endVars    == <<doneMsg, finMsg>>
vars       == <<leaderVars, clientVars, reqVars, valVars, endVars, ran>>

Task == 1..nTasks

\* Life of a message that is sent at most once per loop.
MsgState == {"none", "wire", "arrived", "received"}

LeaderPC == {"start", "barrier", "first", "handle", "work",
             "notify", "waitFinished", "drain", "single", "singleWork"}
ClientPC == {"start", "post", "barrier", "next", "check", "recheck",
             "work", "end"}

TypeOK ==
    /\ srv \in LeaderPC
    /\ loop \in 0..MaxLoops
    /\ nTasks \in Nat
    /\ iter \in 1..(nTasks + 1)
    /\ buf \in [Client -> Nat]
    /\ left \in [Client -> Nat]
    /\ turn \in Nat
    /\ ring \in [Client -> Nat]
    /\ cli \in [Client -> ClientPC]
    /\ value \in [Client -> Nat]
    /\ genDone \in [Client -> BOOLEAN]
    /\ reqs \in [Client -> Nat]
    /\ reqsIn \in [Client -> Nat]
    /\ vals \in [Client -> Seq(Nat)]
    /\ valsIn \in [Client -> Nat]
    /\ doneMsg \in [Client -> MsgState]
    /\ finMsg \in [Client -> MsgState]
    /\ ran \in [Task -> Nat]

Init ==
    /\ srv = "start"
    /\ loop = 0
    /\ nTasks = 0
    /\ iter = 1
    /\ buf = [c \in Client |-> 0]
    /\ left = [c \in Client |-> 0]
    /\ turn = 1
    /\ ring = [c \in Client |-> 0]
    /\ cli = [c \in Client |-> "start"]
    /\ value = [c \in Client |-> 0]
    /\ genDone = [c \in Client |-> FALSE]
    /\ reqs = [c \in Client |-> 0]
    /\ reqsIn = [c \in Client |-> 0]
    /\ vals = [c \in Client |-> << >>]
    /\ valsIn = [c \in Client |-> 0]
    /\ doneMsg = [c \in Client |-> "none"]
    /\ finMsg = [c \in Client |-> "none"]
    /\ ran = [t \in Task |-> 0]

-----------------------------------------------------------------------------
(***************************************************************************)
(* The network.                                                            *)
(***************************************************************************)

DeliverRequest(c) ==
    /\ reqsIn[c] < reqs[c]
    /\ reqsIn' = [reqsIn EXCEPT ![c] = @ + 1]
    /\ UNCHANGED <<leaderVars, clientVars, reqs, valVars, endVars, ran>>

DeliverValue(c) ==
    /\ valsIn[c] < Len(vals[c])
    /\ valsIn' = [valsIn EXCEPT ![c] = @ + 1]
    /\ UNCHANGED <<leaderVars, clientVars, reqVars, vals, endVars, ran>>

\* val_gen_done is sent after every value, so it arrives after them.
DeliverDone(c) ==
    /\ doneMsg[c] = "wire"
    /\ valsIn[c] = Len(vals[c])
    /\ doneMsg' = [doneMsg EXCEPT ![c] = "arrived"]
    /\ UNCHANGED <<leaderVars, clientVars, reqVars, valVars, finMsg, ran>>

\* client_finished is sent after every request, so it arrives after them.
DeliverFinished(c) ==
    /\ finMsg[c] = "wire"
    /\ reqsIn[c] = reqs[c]
    /\ finMsg' = [finMsg EXCEPT ![c] = "arrived"]
    /\ UNCHANGED <<leaderVars, clientVars, reqVars, valVars, doneMsg, ran>>

-----------------------------------------------------------------------------
(***************************************************************************)
(* Entering a loop: iterator(range, comm, buffer_size).                    *)
(***************************************************************************)

\* done(): m_iter == m_end
Exhausted == iter = nTasks + 1

\* A new loop over a range of n tasks begins.
StartLoop(n) ==
    /\ loop < MaxLoops
    /\ loop' = loop + 1
    /\ nTasks' = n
    /\ iter' = 1
    /\ ran' = [t \in 1..n |-> 0]

\* The ranks leave all_gather together: none can leave before all have
\* contributed their buffer size.  Each then constructs its handler.
Gather ==
    /\ srv = "start"
    /\ Client # {}
    /\ \A c \in Client : cli[c] = "start"
    /\ \E n \in TaskCounts, b \in [Client -> BufferSizes] :
          /\ StartLoop(n)
          /\ buf' = b
          /\ left' = b
    /\ srv' = "barrier"
    /\ turn' = 1
    /\ ring' = [c \in Client |-> 0]
    /\ cli' = [c \in Client |-> "post"]
    /\ value' = [c \in Client |-> 0]      \* not read before it is received
    /\ genDone' = [c \in Client |-> FALSE]
    /\ doneMsg' = [c \in Client |-> "none"]
    /\ finMsg' = [c \in Client |-> "none"]
    /\ UNCHANGED <<reqVars, valVars>>

\* The leader goes on, and nothing else changes.
LeaderGoTo(pc) ==
    /\ srv' = pc
    /\ UNCHANGED <<loop, nTasks, iter, buf, left, turn, ring,
                   clientVars, reqVars, valVars, endVars, ran>>

\* comm.size() == 1 (comm_self of a region that is not entered in parallel):
\* the leader runs the loop alone with single_rank_handler.
StartSingle ==
    /\ srv = "start"
    /\ \E n \in TaskCounts : StartLoop(n)
    /\ srv' = "single"
    /\ UNCHANGED <<buf, left, turn, ring, clientVars, reqVars, valVars, endVars>>

\* it == end: the loop goes on with *m_iter, or ends.
SingleTest ==
    /\ srv = "single"
    /\ LeaderGoTo(IF Exhausted THEN "start" ELSE "singleWork")

\* The body, then next(): ++m_iter.
SingleWork ==
    /\ srv = "singleWork"
    /\ ran' = [ran EXCEPT ![iter] = @ + 1]
    /\ iter' = iter + 1
    /\ srv' = "single"
    /\ UNCHANGED <<loop, nTasks, buf, left, turn, ring,
                   clientVars, reqVars, valVars, endVars>>

-----------------------------------------------------------------------------
(***************************************************************************)
(* The leader: server_handler.                                             *)
(***************************************************************************)

\* Slip: m_iter++ is forgotten after the isend.
SendValueNoAdvance(c) ==
    /\ vals' = [vals EXCEPT ![c] = Append(@, iter)]
    /\ UNCHANGED iter

\* isend of the task *m_iter to c, and m_iter++.
SendValue(c) ==
    /\ vals' = [vals EXCEPT ![c] = Append(@, iter)]
    /\ iter' = iter + 1

\* push_back on a circular_buffer: when it is full the oldest is overwritten.
PushBack(size, capacity) == IF size < capacity THEN size + 1 ELSE capacity

\* The constructor's barrier: every client has posted its requests.
LeaderBarrier ==
    /\ srv = "barrier"
    /\ \A c \in Client : cli[c] # "post"
    /\ LeaderGoTo("first")

\* Slip: one rank after the other gets all it asked for.
NextInRoundRankByRank(c) ==
    LET owed == {d \in Client : left[d] > 0}
    IN  c \in owed /\ \A d \in owed : c <= d

\* The rank the first round serves next: the first one from turn on that is
\* still owed a value, or else the first one of the next pass.
NextInRound(c) ==
    LET owed == {d \in Client : left[d] > 0}
        ahead == {d \in owed : d >= turn}
    IN  /\ c \in (IF ahead # {} THEN ahead ELSE owed)
        /\ \A d \in (IF ahead # {} THEN ahead ELSE owed) : c <= d

\* Slip: the test of done() inside the first round is missing.
FirstRoundNoDoneTest(c) ==
    /\ srv = "first"
    /\ NextInRound(c)
    /\ SendValue(c)
    /\ ring' = [ring EXCEPT ![c] = PushBack(@, buf[c])]
    /\ left' = [left EXCEPT ![c] = @ - 1]
    /\ turn' = c + 1
    /\ UNCHANGED <<srv, loop, nTasks, buf, clientVars, reqVars, valsIn,
                   endVars, ran>>

\* first_time_handle_client_request: one unsolicited value; the request of the
\* client stays in the queue.
FirstRound(c) ==
    /\ srv = "first"
    /\ ~Exhausted
    /\ NextInRound(c)
    /\ SendValue(c)
    /\ ring' = [ring EXCEPT ![c] = PushBack(@, buf[c])]
    /\ left' = [left EXCEPT ![c] = @ - 1]
    /\ turn' = c + 1
    /\ UNCHANGED <<srv, loop, nTasks, buf, clientVars, reqVars, valsIn,
                   endVars, ran>>

FirstRoundOver ==
    /\ srv = "first"
    /\ Exhausted \/ \A c \in Client : left[c] = 0
    /\ LeaderGoTo("handle")

\* How many sends to c are not complete.
Incomplete(c) == IF Eager THEN 0 ELSE Len(vals[c])

\* What the front of m_requests[c] may hold once the completed sends have been
\* popped: a send that is complete may not be seen as complete yet.
AfterPop(c) ==
    IF Eager THEN {0}
    ELSE {k \in 0..ring[c] : k = ring[c] \/ k >= Incomplete(c)}

\* handle_client_request, one turn of its loop: a request of c is there.
Handle(c) ==
    /\ srv = "handle"
    /\ ~Exhausted
    /\ reqsIn[c] > 0
    /\ reqs' = [reqs EXCEPT ![c] = @ - 1]
    /\ reqsIn' = [reqsIn EXCEPT ![c] = @ - 1]
    /\ \E k \in AfterPop(c) : ring' = [ring EXCEPT ![c] = PushBack(k, buf[c])]
    /\ SendValue(c)
    /\ UNCHANGED <<srv, loop, nTasks, buf, left, turn, clientVars, valsIn,
                   endVars, ran>>

\* No request is there: the leader runs the next task itself.
HandleNone ==
    /\ srv = "handle"
    /\ ~Exhausted
    /\ \A c \in Client : reqsIn[c] = 0
    /\ LeaderGoTo("work")

\* Slip: finish_cleanup is called whenever no request is left, although the
\* range is not exhausted.
HandleDoneEarly ==
    /\ srv = "handle"
    /\ Exhausted \/ \A c \in Client : reqsIn[c] = 0
    /\ LeaderGoTo("notify")

\* The range is exhausted: finish_cleanup.
HandleDone ==
    /\ srv = "handle"
    /\ Exhausted
    /\ LeaderGoTo("notify")

\* The body for the leader's own task, then next(): m_iter++.
LeaderWork ==
    /\ srv = "work"
    /\ ran' = [ran EXCEPT ![iter] = @ + 1]
    /\ iter' = iter + 1
    /\ srv' = "handle"
    /\ UNCHANGED <<loop, nTasks, buf, left, turn, ring,
                   clientVars, reqVars, valVars, endVars>>

\* Slip: the loop over the ranks stops one short.
NotifyAllButLast ==
    /\ srv = "notify"
    /\ doneMsg' = [c \in Client |-> IF c < NumClients THEN "wire" ELSE "none"]
    /\ srv' = "waitFinished"
    /\ UNCHANGED <<loop, nTasks, iter, buf, left, turn, ring,
                   clientVars, reqVars, valVars, finMsg, ran>>

\* finish_cleanup: val_gen_done to every client.
Notify ==
    /\ srv = "notify"
    /\ doneMsg' = [c \in Client |-> "wire"]
    /\ srv' = "waitFinished"
    /\ UNCHANGED <<loop, nTasks, iter, buf, left, turn, ring,
                   clientVars, reqVars, valVars, finMsg, ran>>

\* recv(i, client_finished) for i = 1, 2, ... in this order.
RecvFinished(c) ==
    /\ srv = "waitFinished"
    /\ \A d \in 1..(c - 1) : finMsg[d] = "received"
    /\ finMsg[c] = "arrived"
    /\ finMsg' = [finMsg EXCEPT ![c] = "received"]
    /\ UNCHANGED <<leaderVars, clientVars, reqVars, valVars, doneMsg, ran>>

\* Slip: the leader does not wait for client_finished.
AllFinishedNoWait ==
    /\ srv = "waitFinished"
    /\ LeaderGoTo("drain")

AllFinished ==
    /\ srv = "waitFinished"
    /\ \A c \in Client : finMsg[c] = "received"
    /\ LeaderGoTo("drain")

\* A request that will get no answer is received and dropped.
Drain(c) ==
    /\ srv = "drain"
    /\ reqsIn[c] > 0
    /\ reqs' = [reqs EXCEPT ![c] = @ - 1]
    /\ reqsIn' = [reqsIn EXCEPT ![c] = @ - 1]
    /\ UNCHANGED <<leaderVars, clientVars, valVars, endVars, ran>>

\* Slip: the leader does not receive the requests nobody answers.
LeaderEndNoDrain ==
    /\ srv = "drain"
    /\ \A c \in Client : ring[c] > 0 => Incomplete(c) = 0
    /\ LeaderGoTo("start")

\* No more requests are seen: the loop is over; ~server_handler waits for the
\* sends still in m_requests.
LeaderEnd ==
    /\ srv = "drain"
    /\ \A c \in Client : reqsIn[c] = 0
    /\ \A c \in Client : ring[c] > 0 => Incomplete(c) = 0
    /\ LeaderGoTo("start")

-----------------------------------------------------------------------------
(***************************************************************************)
(* The clients: client_handler.                                            *)
(***************************************************************************)

GoTo(c, pc) == cli' = [cli EXCEPT ![c] = pc]

\* The constructor fills m_requests.
Post(c) ==
    /\ cli[c] = "post"
    /\ reqs' = [reqs EXCEPT ![c] = @ + buf[c]]
    /\ GoTo(c, "barrier")
    /\ UNCHANGED <<leaderVars, value, genDone, reqsIn, valVars, endVars, ran>>

ClientBarrier(c) ==
    /\ cli[c] = "barrier"
    /\ \A d \in Client : cli[d] # "post"
    /\ GoTo(c, "next")
    /\ UNCHANGED <<leaderVars, value, genDone, reqVars, valVars, endVars, ran>>

\* Slip: no request is posted in the place of the one that was answered.
ReceiveNoRequest(c) ==
    /\ value' = [value EXCEPT ![c] = Head(vals[c])]
    /\ vals' = [vals EXCEPT ![c] = Tail(@)]
    /\ valsIn' = [valsIn EXCEPT ![c] = @ - 1]
    /\ UNCHANGED reqs
    /\ GoTo(c, "work")

\* next() receives a value and posts a request in its place.
Receive(c) ==
    /\ value' = [value EXCEPT ![c] = Head(vals[c])]
    /\ vals' = [vals EXCEPT ![c] = Tail(@)]
    /\ valsIn' = [valsIn EXCEPT ![c] = @ - 1]
    /\ reqs' = [reqs EXCEPT ![c] = @ + 1]
    /\ GoTo(c, "work")

\* next(): has_val_in_buffer() of the loop condition.
ProbeValue(c) ==
    /\ cli[c] = "next"
    /\ IF valsIn[c] > 0
       THEN Receive(c)
       ELSE GoTo(c, "check") /\ UNCHANGED <<value, valVars, reqs>>
    /\ UNCHANGED <<leaderVars, genDone, reqsIn, endVars, ran>>

\* next(): leader_gen_finished().
CheckDone(c) ==
    /\ cli[c] = "check"
    /\ IF genDone[c] \/ doneMsg[c] = "arrived"
       THEN /\ genDone' = [genDone EXCEPT ![c] = TRUE]
            /\ doneMsg' = [doneMsg EXCEPT ![c] = "received"]
            /\ GoTo(c, "recheck")
       ELSE /\ GoTo(c, "next")
            /\ UNCHANGED <<genDone, doneMsg>>
    /\ UNCHANGED <<leaderVars, value, reqVars, valVars, finMsg, ran>>

\* Slip: the second look at the buffer is missing.
RecheckNot(c) ==
    /\ cli[c] = "recheck"
    /\ finMsg' = [finMsg EXCEPT ![c] = "wire"]
    /\ GoTo(c, "end")
    /\ UNCHANGED <<leaderVars, value, genDone, reqVars, valVars, doneMsg, ran>>

\* next(): has_val_in_buffer() again, now that no more values can be sent;
\* if there is none, m_totally_finished and client_finished is sent.
Recheck(c) ==
    /\ cli[c] = "recheck"
    /\ IF valsIn[c] > 0
       THEN Receive(c) /\ UNCHANGED finMsg
       ELSE /\ finMsg' = [finMsg EXCEPT ![c] = "wire"]
            /\ GoTo(c, "end")
            /\ UNCHANGED <<value, valVars, reqs>>
    /\ UNCHANGED <<leaderVars, genDone, reqsIn, doneMsg, ran>>

\* The loop body for the task received.
ClientWork(c) ==
    /\ cli[c] = "work"
    /\ ran' = [ran EXCEPT ![value[c]] = @ + 1]
    /\ GoTo(c, "next")
    /\ UNCHANGED <<leaderVars, value, genDone, reqVars, valVars, endVars>>

\* done(): the client leaves its loop; ~client_handler cancels its requests,
\* which Open MPI never does for a send.
ClientEnd(c) ==
    /\ cli[c] = "end"
    /\ GoTo(c, "start")
    /\ UNCHANGED <<leaderVars, value, genDone, reqVars, valVars, endVars, ran>>

-----------------------------------------------------------------------------
\* The program has run all its loops.
Stopped ==
    /\ loop = MaxLoops
    /\ srv = "start"
    /\ \A c \in Client : cli[c] = "start"

LeaderStep ==
    \/ StartSingle \/ SingleTest \/ SingleWork
    \/ LeaderBarrier
    \/ \E c \in Client : FirstRound(c)
    \/ FirstRoundOver
    \/ \E c \in Client : Handle(c)
    \/ HandleNone \/ HandleDone \/ LeaderWork
    \/ Notify
    \/ \E c \in Client : RecvFinished(c)
    \/ AllFinished
    \/ \E c \in Client : Drain(c)
    \/ LeaderEnd

ClientStep(c) ==
    \/ Post(c) \/ ClientBarrier(c)
    \/ ProbeValue(c) \/ CheckDone(c) \/ Recheck(c)
    \/ ClientWork(c) \/ ClientEnd(c)

Deliver(c) ==
    \/ DeliverRequest(c) \/ DeliverValue(c)
    \/ DeliverDone(c) \/ DeliverFinished(c)

Next ==
    \/ Gather
    \/ LeaderStep
    \/ \E c \in Client : ClientStep(c)
    \/ \E c \in Client : Deliver(c)
    \/ Stopped /\ UNCHANGED vars

Spec == Init /\ [][Next]_vars

\* Every rank keeps running and the network keeps delivering.
Fairness ==
    /\ WF_vars(Gather)
    /\ WF_vars(LeaderStep)
    /\ \A c \in Client : WF_vars(ClientStep(c))
    /\ \A c \in Client : WF_vars(DeliverRequest(c))
    /\ \A c \in Client : WF_vars(DeliverValue(c))
    /\ \A c \in Client : WF_vars(DeliverDone(c))
    /\ \A c \in Client : WF_vars(DeliverFinished(c))

FairSpec == Spec /\ Fairness

-----------------------------------------------------------------------------
(***************************************************************************)
(* Correctness.                                                            *)
(***************************************************************************)

\* The loop body runs at most once for a task: no value is sent to two ranks,
\* sent twice, or sent to a client and kept by the leader (m_iter advances
\* exactly once per value in first_time_handle_client_request,
\* handle_client_request and next).
AtMostOnce == \A t \in Task : ran[t] <= 1

\* When the leader has left finish_cleanup's wait for client_finished, every
\* task has run, on whatever rank: what follows the loop on the leader may
\* use the results of all tasks.
AllRanWhenLeaderLeaves ==
    srv \in {"drain", "start"} => \A t \in Task : ran[t] = 1

\* A loop leaves no message behind: once the leader is out of it, no request
\* and no value is on its way, so that the next loop on the communicator
\* starts clean (the drain at the end of finish_cleanup misses nothing).
NothingLeftOver ==
    srv \in {"start", "single", "singleWork"} =>
        \A c \in Client : reqs[c] = 0 /\ vals[c] = << >>

\* Requests and values are conserved: a client that has posted its requests
\* has, between it and the leader, as many requests and values as its buffer
\* holds, plus the values of the first round, which answered no request.
\* Hence at most twice the buffer size of values wait for a client.
Conservation ==
    \A c \in Client :
        srv \in {"barrier", "first", "handle", "work", "notify", "waitFinished"}
            /\ cli[c] \notin {"start", "post"}
        => reqs[c] + Len(vals[c]) + left[c] = buf[c] + buf[c]

\* "we loop over all ranks and assign one task to each rank in each loop": in
\* the first round no client is more than one value ahead of another one that
\* still has room.
FirstRoundIsFair ==
    srv = "first" =>
        \A c, d \in Client :
            left[d] > 0 => (buf[c] - left[c]) <= (buf[d] - left[d]) + 1

\* A client that has declared itself finished has no value left to receive
\* (the assertion of ~client_handler, for the wire as well as the buffer).
FinishedClientHasNoValue ==
    \A c \in Client : cli[c] = "end" => vals[c] = << >>

\* BOOST_ASSERT(!requests.full()) of handle_client_request: once the completed
\* sends are popped there is room for one more.
RoomForSend ==
    \A c \in Client :
        srv = "handle" /\ ~Exhausted /\ reqsIn[c] > 0 =>
            ~(\A k \in AfterPop(c) : k >= buf[c])

\* BOOST_ASSERT(m_comm.iprobe(i, client_request_val).has_value()) of
\* first_time_handle_client_request: after the barrier the request of the
\* client that is served is there.
RequestIsThere ==
    \A c \in Client :
        srv = "first" /\ ~Exhausted /\ NextInRound(c) => reqsIn[c] > 0

\* A loop that is entered ends, on the leader and on every client: no rank
\* waits for a message that never comes.
LoopEnds ==
    /\ srv = "barrier" ~> srv = "start"
    /\ \A c \in Client : cli[c] = "post" ~> cli[c] = "start"

-----------------------------------------------------------------------------
(***************************************************************************)
(* The protocol implements the task pool.                                  *)
(***************************************************************************)

Elements(s) == {s[i] : i \in 1..Len(s)}

\* The leader runs the body for *m_iter.
Working == {"work", "singleWork"}

\* The tasks not given to a rank yet.
Todo == IF srv \in Working THEN (iter + 1)..nTasks ELSE iter..nTasks

\* The tasks given to client c that have not run: on the wire, in its buffer, or
\* in m_value when the body runs.
Waiting(c) ==
    Elements(vals[c]) \union (IF cli[c] = "work" THEN {value[c]} ELSE {})

\* The tasks given to each rank that have not run.
Given ==
    [r \in 0..NumClients |->
        IF r = 0 THEN IF srv \in Working THEN {iter} ELSE {} ELSE Waiting(r)]

HaveRun == {t \in Task : ran[t] > 0}

InLoop == srv # "start"

Pool == INSTANCE TaskPool WITH
    Rank <- 0..NumClients, todo <- Todo, given <- Given, ran <- HaveRun, open <- InLoop

\* Every behaviour of the protocol is one of the task pool: whatever the
\* buffers, the order of messages and the pace of the ranks, the tasks of the
\* range are given out in order, each runs once on the rank it was given to,
\* oldest first, and the leader leaves when all have run.
ImplementsTaskPool == Pool!Spec

=============================================================================
