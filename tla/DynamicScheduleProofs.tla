------------------------ MODULE DynamicScheduleProofs ------------------------
(***************************************************************************)
(* Theorems about DynamicSchedule, for any number of clients, any buffer   *)
(* sizes, any ranges and both ways a send may complete.                    *)
(***************************************************************************)
EXTENDS DynamicSchedule, TLAPS

\* The leader is not in a loop with the clients.
Outside == {"start", "single", "singleWork"}

\* The arrived messages are among those sent, and the first round gives a
\* client at most as many values as its buffer holds.
ChannelInv ==
    \A c \in Client :
        /\ reqsIn[c] <= reqs[c]
        /\ valsIn[c] <= Len(vals[c])
        /\ left[c] <= buf[c]

\* The leader runs a body only for a task of the range.
WorkInv == srv \in {"work", "singleWork"} => iter <= nTasks

\* Where a client may be while the leader is where it is.
PhaseInv ==
    \A c \in Client :
        /\ srv \in Outside => cli[c] \in {"start", "end"}
        /\ cli[c] = "post" => srv = "barrier"
        /\ srv = "barrier" => cli[c] \in {"post", "barrier", "next", "check"}
        /\ cli[c] \in {"start", "end"} => srv \in Outside \/ finMsg[c] # "none"
        /\ cli[c] = "recheck" => genDone[c]
        /\ srv = "barrier" => left[c] = buf[c] /\ vals[c] = << >>
        /\ cli[c] = "post" => reqs[c] = 0

\* The last messages of a loop, and what their arrival tells.
EndInv ==
    \A c \in Client :
        /\ doneMsg[c] # "none" =>
              srv \in Outside \union {"waitFinished", "drain"}
        /\ doneMsg[c] \in {"arrived", "received"} => valsIn[c] = Len(vals[c])
        /\ genDone[c] => doneMsg[c] = "received"
        /\ finMsg[c] # "none" =>
              /\ genDone[c]
              /\ cli[c] \in {"start", "end"}
              /\ vals[c] = << >>
        /\ finMsg[c] \in {"arrived", "received"} => reqsIn[c] = reqs[c]
        /\ srv = "drain" => finMsg[c] = "received"

\* The inductive invariant.
IInv ==
    /\ TypeOK
    /\ ChannelInv
    /\ WorkInv
    /\ PhaseInv
    /\ EndInv
    /\ NothingLeftOver
    /\ Conservation

-----------------------------------------------------------------------------
\* A value of the first round takes one credit of the client.
LEMMA Advance ==
    ASSUME NEW r \in Nat, NEW v \in Nat, NEW l \in Nat, NEW k \in Nat, NEW s,
           r + v + l = s, l = k + 1
    PROVE  r + (v + 1) + k = s
  OBVIOUS

\* An answered request becomes a value, a received value a request.
LEMMA Exchange ==
    ASSUME NEW r \in Nat, NEW v \in Nat, NEW l \in Nat, NEW s, r + v + l = s
    PROVE  /\ (r - 1) + (v + 1) + l = s
           /\ (r + 1) + (v - 1) + l = s
  OBVIOUS

\* What receiving a value changes: one value less, one request more, for the
\* receiving client only.
LEMMA ReceiveFacts ==
    ASSUME TypeOK, ChannelInv, NEW c \in Client, valsIn[c] > 0, Receive(c)
    PROVE  /\ vals' \in [Client -> Seq(Nat)]
           /\ value' \in [Client -> Nat]
           /\ valsIn' \in [Client -> Nat]
           /\ reqs' \in [Client -> Nat]
           /\ cli' = [cli EXCEPT ![c] = "work"]
           /\ Len(vals'[c]) = Len(vals[c]) - 1
           /\ valsIn'[c] = valsIn[c] - 1
           /\ reqs'[c] = reqs[c] + 1
           /\ \A d \in Client \ {c} : /\ vals'[d] = vals[d]
                                      /\ valsIn'[d] = valsIn[d]
                                      /\ reqs'[d] = reqs[d]
<1> DEFINE s == vals[c]
<1>1. s \in Seq(Nat) /\ Len(s) > 0 /\ valsIn[c] \in Nat /\ reqs[c] \in Nat
  BY DEF TypeOK, ChannelInv
<1>2. Head(s) \in Nat /\ Tail(s) \in Seq(Nat) /\ Len(Tail(s)) = Len(s) - 1
  BY <1>1
<1>3. /\ vals \in [Client -> Seq(Nat)] /\ value \in [Client -> Nat]
      /\ valsIn \in [Client -> Nat] /\ reqs \in [Client -> Nat]
  BY DEF TypeOK
<1>4. /\ vals' = [vals EXCEPT ![c] = Tail(s)]
      /\ value' = [value EXCEPT ![c] = Head(s)]
      /\ valsIn' = [valsIn EXCEPT ![c] = valsIn[c] - 1]
      /\ reqs' = [reqs EXCEPT ![c] = reqs[c] + 1]
      /\ cli' = [cli EXCEPT ![c] = "work"]
  BY DEF Receive, GoTo
<1>5. valsIn[c] - 1 \in Nat /\ reqs[c] + 1 \in Nat
  BY <1>1
<1> HIDE DEF s
<1>6. vals' \in [Client -> Seq(Nat)] /\ Len(vals'[c]) = Len(s) - 1
  BY <1>2, <1>3, <1>4
<1>7. value' \in [Client -> Nat] /\ valsIn' \in [Client -> Nat] /\ reqs' \in [Client -> Nat]
  BY <1>2, <1>3, <1>4, <1>5
<1>8. QED
  BY <1>3, <1>4, <1>6, <1>7 DEF s

\* What sending a task changes: one value more for one client.
LEMMA SendFacts ==
    ASSUME TypeOK, NEW c \in Client, SendValue(c), ~Exhausted
    PROVE  /\ vals' \in [Client -> Seq(Nat)]
           /\ Len(vals'[c]) = Len(vals[c]) + 1
           /\ \A d \in Client \ {c} : vals'[d] = vals[d]
           /\ iter' \in 1..(nTasks + 1)
<1> DEFINE s == vals[c]
<1>1. s \in Seq(Nat) /\ iter \in Nat /\ vals \in [Client -> Seq(Nat)]
  BY DEF TypeOK
<1>2. Append(s, iter) \in Seq(Nat) /\ Len(Append(s, iter)) = Len(s) + 1
  BY <1>1
<1>3. vals' = [vals EXCEPT ![c] = Append(s, iter)]
  BY DEF SendValue
<1>4. iter' \in 1..(nTasks + 1)
  BY DEF SendValue, Exhausted, TypeOK
<1> HIDE DEF s
<1>5. QED
  BY <1>1, <1>2, <1>3, <1>4 DEF s

\* Every action of the protocol preserves the inductive invariant.
LEMMA StepInv == ASSUME IInv, [Next]_vars PROVE IInv'
<1> USE DEF leaderVars, clientVars, reqVars, valVars, endVars, Outside
<1>1. ASSUME Gather
      PROVE  IInv'
  <2>1. PICK n \in TaskCounts, b \in [Client -> BufferSizes] :
            StartLoop(n) /\ buf' = b /\ left' = b
    BY <1>1 DEF Gather
  <2>2. buf' \in [Client -> Nat] /\ left' = buf'
    BY <2>1, BufferSizesAssumption
  <2>3. n \in Nat /\ nTasks' = n /\ iter' = 1 /\ loop' = loop + 1 /\ loop < MaxLoops
        /\ ran' \in [Task' -> Nat]
    BY <2>1, TaskCountsAssumption DEF StartLoop, Task
  <2>4. TypeOK'
    BY SMTT(30), <1>1, <2>2, <2>3, MaxLoopsAssumption DEF Gather, IInv, TypeOK, MsgState,
       LeaderPC, ClientPC
  <2>5. \A d \in Client : reqs[d] = 0 /\ vals[d] = << >> /\ cli[d] = "start"
    BY <1>1 DEF Gather, IInv, NothingLeftOver
  <2>6. (ChannelInv /\ WorkInv /\ PhaseInv /\ EndInv /\ NothingLeftOver /\ Conservation)'
    BY <1>1, <2>2, <2>5 DEF Gather, IInv, TypeOK, ChannelInv, WorkInv,
       PhaseInv, EndInv, NothingLeftOver, Conservation
  <2>7. QED
    BY <2>4, <2>6 DEF IInv
<1>2. ASSUME StartSingle
      PROVE  IInv'
  <2>1. TypeOK'
    BY <1>2, TaskCountsAssumption, MaxLoopsAssumption DEF StartSingle,
       StartLoop, Task, IInv, TypeOK, MsgState, LeaderPC, ClientPC
  <2>2. (ChannelInv /\ WorkInv /\ PhaseInv /\ EndInv /\ NothingLeftOver /\ Conservation)'
    BY <1>2 DEF StartSingle, StartLoop, Task, IInv, TypeOK, ChannelInv,
       WorkInv, PhaseInv, EndInv, NothingLeftOver, Conservation, MsgState,
       LeaderPC, ClientPC
  <2>3. QED
    BY <2>1, <2>2 DEF IInv
<1>3. ASSUME SingleTest
      PROVE  IInv'
  <2>1. TypeOK'
    BY <1>3 DEF SingleTest, LeaderGoTo, Exhausted, Task, IInv, TypeOK,
       MsgState, LeaderPC, ClientPC
  <2>2. (ChannelInv /\ WorkInv /\ PhaseInv /\ EndInv /\ NothingLeftOver /\ Conservation)'
    BY <1>3 DEF SingleTest, LeaderGoTo, Exhausted, IInv, TypeOK, ChannelInv,
       WorkInv, PhaseInv, EndInv, NothingLeftOver, Conservation, MsgState,
       LeaderPC, ClientPC
  <2>3. QED
    BY <2>1, <2>2 DEF IInv
<1>4. ASSUME SingleWork
      PROVE  IInv'
  <2>1. iter' \in 1..(nTasks + 1)
    BY <1>4 DEF SingleWork, IInv, WorkInv, TypeOK
  <2>2. ran' \in [Task -> Nat]
    BY <1>4 DEF SingleWork, IInv, WorkInv, TypeOK, Task
  <2>3. TypeOK'
    BY <1>4, <2>1, <2>2 DEF SingleWork, IInv, TypeOK, LeaderPC, Task
  <2>4. (ChannelInv /\ WorkInv /\ PhaseInv /\ EndInv /\ NothingLeftOver /\ Conservation)'
    BY <1>4 DEF SingleWork, IInv, TypeOK, ChannelInv, WorkInv, PhaseInv,
       EndInv, NothingLeftOver, Conservation, MsgState, LeaderPC, ClientPC
  <2>5. QED
    BY <2>3, <2>4 DEF IInv
<1>5. ASSUME LeaderBarrier
      PROVE  IInv'
  <2>1. TypeOK'
    BY <1>5 DEF LeaderBarrier, LeaderGoTo, Task, IInv, TypeOK, MsgState,
       LeaderPC, ClientPC
  <2>2. (ChannelInv /\ WorkInv /\ PhaseInv /\ EndInv /\ NothingLeftOver /\ Conservation)'
    BY <1>5 DEF LeaderBarrier, LeaderGoTo, IInv, TypeOK, ChannelInv, WorkInv,
       PhaseInv, EndInv, NothingLeftOver, Conservation, MsgState, LeaderPC,
       ClientPC
  <2>3. QED
    BY <2>1, <2>2 DEF IInv
<1>6. ASSUME NEW c \in Client, FirstRound(c)
      PROVE  IInv'
  <2>1. left[c] \in Nat \ {0} /\ left[c] - 1 \in Nat /\ c + 1 \in Nat
    BY SMTT(30), <1>6 DEF FirstRound, NextInRound, IInv, TypeOK, Client
  <2>2. SendValue(c) /\ ~Exhausted
    BY <1>6 DEF FirstRound
  <2>3. left' \in [Client -> Nat] /\ left'[c] = left[c] - 1
        /\ \A d \in Client \ {c} : left'[d] = left[d]
    BY <1>6, <2>1 DEF FirstRound, IInv, TypeOK
  <2>4. ring' \in [Client -> Nat]
    BY <1>6 DEF FirstRound, PushBack, IInv, TypeOK
  <2>5. TypeOK'
    BY <1>6, <2>1, <2>2, <2>3, <2>4, SendFacts DEF FirstRound, IInv, TypeOK,
       Task
  <2>6. doneMsg[c] = "none" /\ finMsg[c] = "none" /\ cli[c] \notin {"start", "post", "end"}
    BY <1>6 DEF FirstRound, IInv, TypeOK, MsgState, PhaseInv, EndInv
  <2>7. (ChannelInv /\ Conservation)'
    <3>1. UNCHANGED <<srv, buf, cli, reqs, reqsIn, valsIn>>
      BY <1>6 DEF FirstRound
    <3>2. \A d \in Client : /\ Len(vals[d]) \in Nat /\ valsIn[d] \in Nat
                            /\ reqs[d] \in Nat /\ reqsIn[d] \in Nat
                            /\ left[d] \in Nat /\ buf[d] \in Nat
      BY DEF IInv, TypeOK
    <3>3. /\ Len(vals'[c]) = Len(vals[c]) + 1
          /\ \A d \in Client \ {c} : vals'[d] = vals[d]
      BY <2>2, SendFacts DEF IInv
    <3>4. ChannelInv'
      <4>1. SUFFICES ASSUME NEW d \in Client
                    PROVE  /\ reqsIn'[d] <= reqs'[d]
                           /\ valsIn'[d] <= Len(vals'[d])
                           /\ left'[d] <= buf'[d]
        BY DEF ChannelInv
      <4>2. reqsIn[d] <= reqs[d] /\ valsIn[d] <= Len(vals[d]) /\ left[d] <= buf[d]
        BY DEF IInv, ChannelInv
      <4>3. CASE d = c
        BY <4>2, <4>3, <2>1, <2>3, <3>1, <3>2, <3>3
      <4>4. CASE d # c
        BY <4>2, <4>4, <2>1, <2>3, <3>1, <3>2, <3>3
      <4>5. QED
        BY <4>3, <4>4
    <3>5. Conservation'
      <4>1. SUFFICES ASSUME NEW d \in Client,
                           srv' \in {"barrier", "first", "handle", "work", "notify", "waitFinished"},
                           cli'[d] \notin {"start", "post"}
                    PROVE  reqs'[d] + Len(vals'[d]) + left'[d] = buf'[d] + buf'[d]
        BY DEF Conservation
      <4>2. CASE d = c
        <5>1. reqs[c] + Len(vals[c]) + left[c] = buf[c] + buf[c]
          BY <4>1, <4>2, <2>1, <2>3, <2>6, <3>1, <3>2, <3>3 DEF IInv,
             Conservation
        <5>2. /\ Len(vals[c]) \in Nat /\ reqs[c] \in Nat
              /\ buf[c] \in Nat /\ left[c] \in Nat
          BY <2>1, <2>3, <2>6, <3>1, <3>2, <3>3
        <5>3. /\ buf'[c] = buf[c] /\ reqs'[c] = reqs[c]
              /\ left'[c] = left[c] - 1 /\ Len(vals'[c]) = Len(vals[c]) + 1
          BY <2>1, <2>3, <2>6, <3>1, <3>2, <3>3
        <5>4. left'[c] \in Nat /\ left[c] = left'[c] + 1
          BY <2>1, <2>3
        <5>5. reqs[c] + (Len(vals[c]) + 1) + left'[c] = buf[c] + buf[c]
          BY SMTT(30), <5>1, <5>2, <5>4, Advance
        <5>6. QED
          BY <5>3, <5>5, <4>2
      <4>3. CASE d # c
        <5>1. cli'[d] = cli[d]
          BY <4>3, <2>1, <2>3, <2>6, <3>1, <3>2, <3>3 DEF IInv, TypeOK
        <5>2. reqs[d] + Len(vals[d]) + left[d] = buf[d] + buf[d]
          BY <4>1, <5>1, <2>1, <2>3, <2>6, <3>1, <3>2, <3>3 DEF IInv,
             Conservation
        <5>3. QED
          BY <5>2, <4>3, <2>1, <2>3, <2>6, <3>1, <3>2, <3>3
      <4>4. QED
        BY <4>2, <4>3
    <3>6. QED
      BY <3>4, <3>5
  <2>8. (WorkInv /\ PhaseInv /\ EndInv /\ NothingLeftOver)'
    BY <1>6, <2>2, <2>3, <2>6, SendFacts DEF FirstRound, IInv, WorkInv,
       PhaseInv, EndInv, NothingLeftOver
  <2>9. QED
    BY <2>5, <2>7, <2>8 DEF IInv
<1>7. ASSUME FirstRoundOver
      PROVE  IInv'
  <2>1. TypeOK'
    BY <1>7 DEF FirstRoundOver, LeaderGoTo, Exhausted, Task, IInv, TypeOK,
       MsgState, LeaderPC, ClientPC
  <2>2. (ChannelInv /\ WorkInv /\ PhaseInv /\ EndInv /\ NothingLeftOver /\ Conservation)'
    BY <1>7 DEF FirstRoundOver, LeaderGoTo, Exhausted, IInv, TypeOK,
       ChannelInv, WorkInv, PhaseInv, EndInv, NothingLeftOver, Conservation,
       MsgState, LeaderPC, ClientPC
  <2>3. QED
    BY <2>1, <2>2 DEF IInv
<1>8. ASSUME NEW c \in Client, Handle(c)
      PROVE  IInv'
  <2>1. reqs[c] - 1 \in Nat /\ reqsIn[c] - 1 \in Nat
    BY <1>8 DEF Handle, IInv, TypeOK, ChannelInv
  <2>2. SendValue(c) /\ ~Exhausted
    BY <1>8 DEF Handle
  <2>3. /\ reqs' \in [Client -> Nat] /\ reqs'[c] = reqs[c] - 1
        /\ reqsIn' \in [Client -> Nat] /\ reqsIn'[c] = reqsIn[c] - 1
        /\ \A d \in Client \ {c} : reqs'[d] = reqs[d] /\ reqsIn'[d] = reqsIn[d]
    BY <1>8, <2>1 DEF Handle, IInv, TypeOK
  <2>4. ring' \in [Client -> Nat]
    <3>1. PICK k \in AfterPop(c) : ring' = [ring EXCEPT ![c] = PushBack(k, buf[c])]
      BY <1>8 DEF Handle
    <3>2. k \in Nat
      BY <3>1 DEF AfterPop, IInv, TypeOK
    <3>3. PushBack(k, buf[c]) \in Nat
      BY <3>2 DEF PushBack, IInv, TypeOK
    <3>4. QED
      BY <3>1, <3>3 DEF IInv, TypeOK
  <2>5. TypeOK'
    BY <1>8, <2>2, <2>3, <2>4, SendFacts DEF Handle, IInv, TypeOK, Task
  <2>6. doneMsg[c] = "none" /\ finMsg[c] = "none" /\ cli[c] \notin {"start", "post", "end"}
    BY <1>8 DEF Handle, IInv, TypeOK, MsgState, PhaseInv, EndInv
  <2>7. (ChannelInv /\ Conservation)'
    <3>1. UNCHANGED <<srv, buf, left, cli, valsIn>>
      BY <1>8 DEF Handle
    <3>2. \A d \in Client : /\ Len(vals[d]) \in Nat /\ valsIn[d] \in Nat
                            /\ reqs[d] \in Nat /\ reqsIn[d] \in Nat
                            /\ left[d] \in Nat /\ buf[d] \in Nat
      BY DEF IInv, TypeOK
    <3>3. /\ Len(vals'[c]) = Len(vals[c]) + 1
          /\ \A d \in Client \ {c} : vals'[d] = vals[d]
      BY <2>2, SendFacts DEF IInv
    <3>4. ChannelInv'
      <4>1. SUFFICES ASSUME NEW d \in Client
                    PROVE  /\ reqsIn'[d] <= reqs'[d]
                           /\ valsIn'[d] <= Len(vals'[d])
                           /\ left'[d] <= buf'[d]
        BY DEF ChannelInv
      <4>2. reqsIn[d] <= reqs[d] /\ valsIn[d] <= Len(vals[d]) /\ left[d] <= buf[d]
        BY DEF IInv, ChannelInv
      <4>3. CASE d = c
        BY <4>2, <4>3, <2>1, <2>3, <3>1, <3>2, <3>3
      <4>4. CASE d # c
        BY <4>2, <4>4, <2>1, <2>3, <3>1, <3>2, <3>3
      <4>5. QED
        BY <4>3, <4>4
    <3>5. Conservation'
      <4>1. SUFFICES ASSUME NEW d \in Client,
                           srv' \in {"barrier", "first", "handle", "work", "notify", "waitFinished"},
                           cli'[d] \notin {"start", "post"}
                    PROVE  reqs'[d] + Len(vals'[d]) + left'[d] = buf'[d] + buf'[d]
        BY DEF Conservation
      <4>2. CASE d = c
        <5>1. reqs[c] + Len(vals[c]) + left[c] = buf[c] + buf[c]
          BY <4>1, <4>2, <2>1, <2>3, <2>6, <3>1, <3>2, <3>3 DEF IInv,
             Conservation
        <5>2. /\ Len(vals[c]) \in Nat /\ reqs[c] \in Nat
              /\ buf[c] \in Nat /\ left[c] \in Nat
          BY <2>1, <2>3, <2>6, <3>1, <3>2, <3>3
        <5>3. /\ buf'[c] = buf[c] /\ reqs'[c] = reqs[c] - 1
              /\ left'[c] = left[c] /\ Len(vals'[c]) = Len(vals[c]) + 1
          BY <2>1, <2>3, <2>6, <3>1, <3>2, <3>3
        <5>4. (reqs[c] - 1) + (Len(vals[c]) + 1) + left[c] = buf[c] + buf[c]
          BY <5>1, <5>2, Exchange
        <5>5. QED
          BY <5>3, <5>4, <4>2
      <4>3. CASE d # c
        <5>1. cli'[d] = cli[d]
          BY <4>3, <2>1, <2>3, <2>6, <3>1, <3>2, <3>3 DEF IInv, TypeOK
        <5>2. reqs[d] + Len(vals[d]) + left[d] = buf[d] + buf[d]
          BY <4>1, <5>1, <2>1, <2>3, <2>6, <3>1, <3>2, <3>3 DEF IInv,
             Conservation
        <5>3. QED
          BY <5>2, <4>3, <2>1, <2>3, <2>6, <3>1, <3>2, <3>3
      <4>4. QED
        BY <4>2, <4>3
    <3>6. QED
      BY <3>4, <3>5
  <2>8. (WorkInv /\ PhaseInv /\ EndInv /\ NothingLeftOver)'
    BY <1>8, <2>2, <2>3, <2>6, SendFacts DEF Handle, IInv, WorkInv, PhaseInv,
       EndInv, NothingLeftOver
  <2>9. QED
    BY <2>5, <2>7, <2>8 DEF IInv
<1>9. ASSUME HandleNone
      PROVE  IInv'
  <2>1. TypeOK'
    BY <1>9 DEF HandleNone, LeaderGoTo, Exhausted, Task, IInv, TypeOK,
       MsgState, LeaderPC, ClientPC
  <2>2. (ChannelInv /\ WorkInv /\ PhaseInv /\ EndInv /\ NothingLeftOver /\ Conservation)'
    BY <1>9 DEF HandleNone, LeaderGoTo, Exhausted, IInv, TypeOK, ChannelInv,
       WorkInv, PhaseInv, EndInv, NothingLeftOver, Conservation, MsgState,
       LeaderPC, ClientPC
  <2>3. QED
    BY <2>1, <2>2 DEF IInv
<1>10. ASSUME HandleDone
      PROVE  IInv'
  <2>1. TypeOK'
    BY <1>10 DEF HandleDone, LeaderGoTo, Exhausted, Task, IInv, TypeOK,
       MsgState, LeaderPC, ClientPC
  <2>2. (ChannelInv /\ WorkInv /\ PhaseInv /\ EndInv /\ NothingLeftOver /\ Conservation)'
    BY <1>10 DEF HandleDone, LeaderGoTo, Exhausted, IInv, TypeOK, ChannelInv,
       WorkInv, PhaseInv, EndInv, NothingLeftOver, Conservation, MsgState,
       LeaderPC, ClientPC
  <2>3. QED
    BY <2>1, <2>2 DEF IInv
<1>11. ASSUME LeaderWork
      PROVE  IInv'
  <2>1. iter' \in 1..(nTasks + 1)
    BY <1>11 DEF LeaderWork, IInv, WorkInv, TypeOK
  <2>2. ran' \in [Task -> Nat]
    BY <1>11 DEF LeaderWork, IInv, WorkInv, TypeOK, Task
  <2>3. TypeOK'
    BY <1>11, <2>1, <2>2 DEF LeaderWork, IInv, TypeOK, LeaderPC, Task
  <2>4. (ChannelInv /\ WorkInv /\ PhaseInv /\ EndInv /\ NothingLeftOver /\ Conservation)'
    BY <1>11 DEF LeaderWork, IInv, TypeOK, ChannelInv, WorkInv, PhaseInv,
       EndInv, NothingLeftOver, Conservation, MsgState, LeaderPC, ClientPC
  <2>5. QED
    BY <2>3, <2>4 DEF IInv
<1>12. ASSUME Notify
      PROVE  IInv'
  <2>1. TypeOK'
    BY <1>12 DEF Notify, Task, IInv, TypeOK, MsgState, LeaderPC, ClientPC
  <2>2. (ChannelInv /\ WorkInv /\ PhaseInv /\ EndInv /\ NothingLeftOver /\ Conservation)'
    BY <1>12 DEF Notify, IInv, TypeOK, ChannelInv, WorkInv, PhaseInv, EndInv,
       NothingLeftOver, Conservation, MsgState, LeaderPC, ClientPC
  <2>3. QED
    BY <2>1, <2>2 DEF IInv
<1>13. ASSUME NEW c \in Client, RecvFinished(c)
      PROVE  IInv'
  <2>1. TypeOK'
    BY <1>13 DEF RecvFinished, Task, IInv, TypeOK, MsgState, LeaderPC, ClientPC
  <2>2. (ChannelInv /\ WorkInv /\ PhaseInv /\ EndInv /\ NothingLeftOver /\ Conservation)'
    BY <1>13 DEF RecvFinished, IInv, TypeOK, ChannelInv, WorkInv, PhaseInv,
       EndInv, NothingLeftOver, Conservation, MsgState, LeaderPC, ClientPC
  <2>3. QED
    BY <2>1, <2>2 DEF IInv
<1>14. ASSUME AllFinished
      PROVE  IInv'
  <2>1. TypeOK'
    BY <1>14 DEF AllFinished, LeaderGoTo, Task, IInv, TypeOK, MsgState,
       LeaderPC, ClientPC
  <2>2. (ChannelInv /\ WorkInv /\ PhaseInv /\ EndInv /\ NothingLeftOver /\ Conservation)'
    BY <1>14 DEF AllFinished, LeaderGoTo, IInv, TypeOK, ChannelInv, WorkInv,
       PhaseInv, EndInv, NothingLeftOver, Conservation, MsgState, LeaderPC,
       ClientPC
  <2>3. QED
    BY <2>1, <2>2 DEF IInv
<1>15. ASSUME NEW c \in Client, Drain(c)
      PROVE  IInv'
  <2>1. reqs[c] - 1 \in Nat /\ reqsIn[c] - 1 \in Nat
    BY <1>15 DEF Drain, IInv, TypeOK, ChannelInv
  <2>2. reqs' \in [Client -> Nat] /\ reqsIn' \in [Client -> Nat]
    BY <1>15, <2>1 DEF Drain, IInv, TypeOK
  <2>3. TypeOK'
    BY <1>15, <2>2 DEF Drain, IInv, TypeOK, Task
  <2>4. (ChannelInv /\ WorkInv /\ PhaseInv /\ EndInv /\ NothingLeftOver /\ Conservation)'
    BY <1>15 DEF Drain, IInv, TypeOK, ChannelInv, WorkInv, PhaseInv, EndInv,
       NothingLeftOver, Conservation, MsgState, LeaderPC, ClientPC
  <2>5. QED
    BY <2>3, <2>4 DEF IInv
<1>16. ASSUME LeaderEnd
      PROVE  IInv'
  <2>1. TypeOK'
    BY <1>16 DEF LeaderEnd, LeaderGoTo, Task, IInv, TypeOK, MsgState, LeaderPC,
       ClientPC
  <2>2. (ChannelInv /\ WorkInv /\ PhaseInv /\ EndInv /\ NothingLeftOver /\ Conservation)'
    BY <1>16 DEF LeaderEnd, LeaderGoTo, IInv, TypeOK, ChannelInv, WorkInv,
       PhaseInv, EndInv, NothingLeftOver, Conservation, MsgState, LeaderPC,
       ClientPC
  <2>3. QED
    BY <2>1, <2>2 DEF IInv
<1>17. ASSUME NEW c \in Client, Post(c)
      PROVE  IInv'
  <2>1. reqs[c] = 0 /\ left[c] = buf[c] /\ vals[c] = << >> /\ buf[c] \in Nat /\ srv = "barrier"
    BY <1>17 DEF Post, IInv, TypeOK, PhaseInv
  <2>2. /\ reqs' \in [Client -> Nat] /\ reqs'[c] = buf[c]
        /\ \A d \in Client \ {c} : reqs'[d] = reqs[d]
    BY <1>17, <2>1 DEF Post, IInv, TypeOK
  <2>3. TypeOK'
    BY <1>17, <2>2 DEF Post, GoTo, IInv, TypeOK, ClientPC, Task
  <2>4. (ChannelInv /\ WorkInv /\ PhaseInv /\ EndInv /\ NothingLeftOver)'
    BY <1>17, <2>1, <2>2 DEF Post, GoTo, IInv, TypeOK, ChannelInv, WorkInv,
       PhaseInv, EndInv, NothingLeftOver, Conservation, MsgState, LeaderPC,
       ClientPC
  <2>5. Conservation'
    BY SMTT(30), <1>17, <2>1, <2>2 DEF Post, GoTo, IInv, TypeOK, Conservation
  <2>6. QED
    BY <2>3, <2>4, <2>5 DEF IInv
<1>18. ASSUME NEW c \in Client, ClientBarrier(c)
      PROVE  IInv'
  <2>1. TypeOK'
    BY <1>18 DEF ClientBarrier, GoTo, Task, IInv, TypeOK, MsgState, LeaderPC,
       ClientPC
  <2>2. (ChannelInv /\ WorkInv /\ PhaseInv /\ EndInv /\ NothingLeftOver /\ Conservation)'
    BY SMTT(30), <1>18 DEF ClientBarrier, GoTo, IInv, TypeOK, ChannelInv, WorkInv,
       PhaseInv, EndInv, NothingLeftOver, Conservation, MsgState, LeaderPC,
       ClientPC
  <2>3. QED
    BY <2>1, <2>2 DEF IInv
<1>19. ASSUME NEW c \in Client, ProbeValue(c)
      PROVE  IInv'
  <2>1. CASE valsIn[c] > 0
    <3>1. /\ vals' \in [Client -> Seq(Nat)]
          /\ value' \in [Client -> Nat]
          /\ valsIn' \in [Client -> Nat]
          /\ reqs' \in [Client -> Nat]
          /\ cli' = [cli EXCEPT ![c] = "work"]
          /\ Len(vals'[c]) = Len(vals[c]) - 1
          /\ valsIn'[c] = valsIn[c] - 1
          /\ reqs'[c] = reqs[c] + 1
          /\ \A d \in Client \ {c} : /\ vals'[d] = vals[d]
                                     /\ valsIn'[d] = valsIn[d]
                                     /\ reqs'[d] = reqs[d]
      <4>1. Receive(c)
        BY <1>19, <2>1 DEF ProbeValue
      <4>2. QED
        BY <2>1, <4>1, ReceiveFacts DEF IInv
    <3>2. UNCHANGED <<leaderVars, genDone, reqsIn, endVars, ran>>
      BY <1>19, <2>1 DEF ProbeValue
    <3>3. finMsg[c] = "none" /\ cli[c] \notin {"start", "post", "end"}
          /\ srv \notin Outside \union {"drain", "barrier"} /\ vals[c] # << >>
      BY <1>19, <2>1 DEF ProbeValue, IInv, TypeOK, MsgState, ChannelInv,
         PhaseInv, EndInv
    <3>4. \A d \in Client : /\ Len(vals[d]) \in Nat /\ valsIn[d] \in Nat
                            /\ reqs[d] \in Nat /\ reqsIn[d] \in Nat
                            /\ left[d] \in Nat /\ buf[d] \in Nat
      BY DEF IInv, TypeOK
    <3>5. TypeOK'
      BY <3>1, <3>2 DEF IInv, TypeOK, ClientPC, Task
    <3>6. ChannelInv'
      <4>1. SUFFICES ASSUME NEW d \in Client
                    PROVE  /\ reqsIn'[d] <= reqs'[d]
                           /\ valsIn'[d] <= Len(vals'[d])
                           /\ left'[d] <= buf'[d]
        BY DEF ChannelInv
      <4>2. reqsIn[d] <= reqs[d] /\ valsIn[d] <= Len(vals[d]) /\ left[d] <= buf[d]
        BY DEF IInv, ChannelInv
      <4>3. CASE d = c
        BY SMTT(30), <4>2, <4>3, <3>1, <3>2, <3>4
      <4>4. CASE d # c
        BY <4>2, <4>4, <3>1, <3>2, <3>4
      <4>5. QED
        BY <4>3, <4>4
    <3>7. (WorkInv /\ PhaseInv)'
      BY <3>1, <3>2, <3>3 DEF IInv, TypeOK, WorkInv, PhaseInv
    <3>8. EndInv'
      BY <3>1, <3>2, <3>3, <3>4 DEF IInv, TypeOK, EndInv
    <3>9. NothingLeftOver'
      BY <3>2, <3>3 DEF NothingLeftOver
    <3>10. Conservation'
      <4>1. SUFFICES ASSUME NEW d \in Client,
                           srv' \in {"barrier", "first", "handle", "work", "notify", "waitFinished"},
                           cli'[d] \notin {"start", "post"}
                    PROVE  reqs'[d] + Len(vals'[d]) + left'[d] = buf'[d] + buf'[d]
        BY DEF Conservation
      <4>2. CASE d = c
        <5>1. reqs[c] + Len(vals[c]) + left[c] = buf[c] + buf[c]
          BY <4>1, <4>2, <3>1, <3>2, <3>3, <3>4 DEF IInv, Conservation
        <5>2. /\ Len(vals[c]) \in Nat /\ reqs[c] \in Nat
              /\ buf[c] \in Nat /\ left[c] \in Nat
          BY <3>1, <3>2, <3>3, <3>4
        <5>3. /\ buf'[c] = buf[c] /\ reqs'[c] = reqs[c] + 1
              /\ left'[c] = left[c] /\ Len(vals'[c]) = Len(vals[c]) - 1
          BY <3>1, <3>2, <3>3, <3>4
        <5>4. (reqs[c] + 1) + (Len(vals[c]) - 1) + left[c] = buf[c] + buf[c]
          BY <5>1, <5>2, Exchange
        <5>5. QED
          BY <5>3, <5>4, <4>2
      <4>3. CASE d # c
        <5>1. cli'[d] = cli[d]
          BY <4>3, <3>1, <3>2, <3>3, <3>4 DEF IInv, TypeOK
        <5>2. reqs[d] + Len(vals[d]) + left[d] = buf[d] + buf[d]
          BY <4>1, <5>1, <3>1, <3>2, <3>3, <3>4 DEF IInv, Conservation
        <5>3. QED
          BY <5>2, <4>3, <3>1, <3>2, <3>3, <3>4
      <4>4. QED
        BY <4>2, <4>3
    <3>11. QED
      BY <3>5, <3>6, <3>7, <3>8, <3>9, <3>10 DEF IInv
  <2>2. CASE ~(valsIn[c] > 0)
    <3>1. TypeOK'
      BY <1>19, <2>2 DEF ProbeValue, GoTo, IInv, TypeOK, ClientPC, Task
    <3>2. /\ cli' = [cli EXCEPT ![c] = "check"] /\ cli[c] \notin {"start", "post", "end"}
          /\ UNCHANGED <<leaderVars, genDone, reqVars, valVars, endVars>>
      BY <1>19, <2>2 DEF ProbeValue, GoTo
    <3>3. (ChannelInv /\ WorkInv /\ EndInv /\ NothingLeftOver)'
      BY <3>2 DEF IInv, TypeOK, ChannelInv, WorkInv, PhaseInv, EndInv,
         NothingLeftOver
    <3>4. PhaseInv'
      BY <3>2 DEF IInv, TypeOK, PhaseInv
    <3>5. Conservation'
      BY <3>2 DEF IInv, TypeOK, Conservation
    <3>6. QED
      BY <3>1, <3>3, <3>4, <3>5 DEF IInv
  <2>3. QED
    BY <2>1, <2>2
<1>20. ASSUME NEW c \in Client, CheckDone(c)
      PROVE  IInv'
  <2>1. CASE genDone[c] \/ doneMsg[c] = "arrived"
    <3>1. /\ genDone' = [genDone EXCEPT ![c] = TRUE]
          /\ doneMsg' = [doneMsg EXCEPT ![c] = "received"]
          /\ cli' = [cli EXCEPT ![c] = "recheck"]
      BY <1>20, <2>1 DEF CheckDone, GoTo
    <3>2. TypeOK'
      BY <1>20, <3>1 DEF CheckDone, IInv, TypeOK, ClientPC, MsgState, Task
    <3>3. doneMsg[c] \in {"arrived", "received"}
      BY <2>1 DEF IInv, EndInv
    <3>4. finMsg[c] = "none" /\ srv \notin Outside \union {"barrier"}
      BY <1>20, <3>3 DEF CheckDone, IInv, PhaseInv, EndInv
    <3>5. (ChannelInv /\ WorkInv /\ NothingLeftOver /\ Conservation)'
      BY <1>20, <3>1 DEF CheckDone, IInv, TypeOK, ChannelInv, WorkInv,
         NothingLeftOver, Conservation
    <3>6. PhaseInv'
      BY <1>20, <3>1, <3>4 DEF CheckDone, IInv, TypeOK, PhaseInv
    <3>7. EndInv'
      BY <1>20, <3>1, <3>3, <3>4 DEF CheckDone, IInv, TypeOK, EndInv
    <3>8. QED
      BY <3>2, <3>5, <3>6, <3>7 DEF IInv
  <2>2. CASE ~(genDone[c] \/ doneMsg[c] = "arrived")
    <3>1. TypeOK'
      BY <1>20, <2>2 DEF CheckDone, GoTo, IInv, TypeOK, ClientPC, Task
    <3>2. /\ cli' = [cli EXCEPT ![c] = "next"] /\ cli[c] \notin {"start", "post", "end"}
          /\ UNCHANGED <<leaderVars, genDone, reqVars, valVars, endVars>>
      BY <1>20, <2>2 DEF CheckDone, GoTo
    <3>3. (ChannelInv /\ WorkInv /\ EndInv /\ NothingLeftOver)'
      BY <3>2 DEF IInv, TypeOK, ChannelInv, WorkInv, PhaseInv, EndInv,
         NothingLeftOver
    <3>4. PhaseInv'
      BY <3>2 DEF IInv, TypeOK, PhaseInv
    <3>5. Conservation'
      BY <3>2 DEF IInv, TypeOK, Conservation
    <3>6. QED
      BY <3>1, <3>3, <3>4, <3>5 DEF IInv
  <2>3. QED
    BY <2>1, <2>2
<1>21. ASSUME NEW c \in Client, Recheck(c)
      PROVE  IInv'
  <2>1. CASE valsIn[c] > 0
    <3>1. /\ vals' \in [Client -> Seq(Nat)]
          /\ value' \in [Client -> Nat]
          /\ valsIn' \in [Client -> Nat]
          /\ reqs' \in [Client -> Nat]
          /\ cli' = [cli EXCEPT ![c] = "work"]
          /\ Len(vals'[c]) = Len(vals[c]) - 1
          /\ valsIn'[c] = valsIn[c] - 1
          /\ reqs'[c] = reqs[c] + 1
          /\ \A d \in Client \ {c} : /\ vals'[d] = vals[d]
                                     /\ valsIn'[d] = valsIn[d]
                                     /\ reqs'[d] = reqs[d]
      <4>1. Receive(c)
        BY <1>21, <2>1 DEF Recheck
      <4>2. QED
        BY <2>1, <4>1, ReceiveFacts DEF IInv
    <3>2. UNCHANGED <<leaderVars, genDone, reqsIn, endVars, ran>>
      BY <1>21, <2>1 DEF Recheck
    <3>3. finMsg[c] = "none" /\ cli[c] \notin {"start", "post", "end"}
          /\ srv \notin Outside \union {"drain", "barrier"} /\ vals[c] # << >>
      BY <1>21, <2>1 DEF Recheck, IInv, TypeOK, MsgState, ChannelInv, PhaseInv,
         EndInv
    <3>4. \A d \in Client : /\ Len(vals[d]) \in Nat /\ valsIn[d] \in Nat
                            /\ reqs[d] \in Nat /\ reqsIn[d] \in Nat
                            /\ left[d] \in Nat /\ buf[d] \in Nat
      BY DEF IInv, TypeOK
    <3>5. TypeOK'
      BY <3>1, <3>2 DEF IInv, TypeOK, ClientPC, Task
    <3>6. ChannelInv'
      <4>1. SUFFICES ASSUME NEW d \in Client
                    PROVE  /\ reqsIn'[d] <= reqs'[d]
                           /\ valsIn'[d] <= Len(vals'[d])
                           /\ left'[d] <= buf'[d]
        BY DEF ChannelInv
      <4>2. reqsIn[d] <= reqs[d] /\ valsIn[d] <= Len(vals[d]) /\ left[d] <= buf[d]
        BY DEF IInv, ChannelInv
      <4>3. CASE d = c
        BY SMTT(30), <4>2, <4>3, <3>1, <3>2, <3>4
      <4>4. CASE d # c
        BY <4>2, <4>4, <3>1, <3>2, <3>4
      <4>5. QED
        BY <4>3, <4>4
    <3>7. (WorkInv /\ PhaseInv)'
      BY <3>1, <3>2, <3>3 DEF IInv, TypeOK, WorkInv, PhaseInv
    <3>8. EndInv'
      BY <3>1, <3>2, <3>3, <3>4 DEF IInv, TypeOK, EndInv
    <3>9. NothingLeftOver'
      BY <3>2, <3>3 DEF NothingLeftOver
    <3>10. Conservation'
      <4>1. SUFFICES ASSUME NEW d \in Client,
                           srv' \in {"barrier", "first", "handle", "work", "notify", "waitFinished"},
                           cli'[d] \notin {"start", "post"}
                    PROVE  reqs'[d] + Len(vals'[d]) + left'[d] = buf'[d] + buf'[d]
        BY DEF Conservation
      <4>2. CASE d = c
        <5>1. reqs[c] + Len(vals[c]) + left[c] = buf[c] + buf[c]
          BY <4>1, <4>2, <3>1, <3>2, <3>3, <3>4 DEF IInv, Conservation
        <5>2. /\ Len(vals[c]) \in Nat /\ reqs[c] \in Nat
              /\ buf[c] \in Nat /\ left[c] \in Nat
          BY <3>1, <3>2, <3>3, <3>4
        <5>3. /\ buf'[c] = buf[c] /\ reqs'[c] = reqs[c] + 1
              /\ left'[c] = left[c] /\ Len(vals'[c]) = Len(vals[c]) - 1
          BY <3>1, <3>2, <3>3, <3>4
        <5>4. (reqs[c] + 1) + (Len(vals[c]) - 1) + left[c] = buf[c] + buf[c]
          BY <5>1, <5>2, Exchange
        <5>5. QED
          BY <5>3, <5>4, <4>2
      <4>3. CASE d # c
        <5>1. cli'[d] = cli[d]
          BY <4>3, <3>1, <3>2, <3>3, <3>4 DEF IInv, TypeOK
        <5>2. reqs[d] + Len(vals[d]) + left[d] = buf[d] + buf[d]
          BY <4>1, <5>1, <3>1, <3>2, <3>3, <3>4 DEF IInv, Conservation
        <5>3. QED
          BY <5>2, <4>3, <3>1, <3>2, <3>3, <3>4
      <4>4. QED
        BY <4>2, <4>3
    <3>11. QED
      BY <3>5, <3>6, <3>7, <3>8, <3>9, <3>10 DEF IInv
  <2>2. CASE ~(valsIn[c] > 0)
    <3>1. TypeOK'
      BY <1>21, <2>2 DEF Recheck, GoTo, IInv, TypeOK, ClientPC, MsgState, Task
    <3>2. genDone[c] /\ doneMsg[c] = "received" /\ srv \notin Outside \union {"barrier"}
      BY <1>21 DEF Recheck, IInv, PhaseInv, EndInv
    <3>3. vals[c] = << >>
      <4>1. vals[c] \in Seq(Nat) /\ Len(vals[c]) = 0
        BY <2>2, <3>2 DEF IInv, TypeOK, EndInv
      <4>2. QED
        BY <4>1
    <3>4. srv # "drain"
      BY <1>21 DEF Recheck, IInv, EndInv
    <3>5. (ChannelInv /\ WorkInv /\ PhaseInv /\ EndInv /\ NothingLeftOver /\ Conservation)'
      BY SMTT(30), <1>21, <2>2, <3>2, <3>3, <3>4 DEF Recheck, GoTo, IInv, TypeOK,
         ChannelInv, WorkInv, PhaseInv, EndInv, NothingLeftOver, Conservation,
         MsgState, LeaderPC, ClientPC
    <3>6. QED
      BY <3>1, <3>5 DEF IInv
  <2>3. QED
    BY <2>1, <2>2
<1>22. ASSUME NEW c \in Client, ClientWork(c)
      PROVE  IInv'
  <2>1. ran' \in [Task -> Nat]
    <3>1. ran \in [Task -> Nat] /\ ran' = [ran EXCEPT ![value[c]] = ran[value[c]] + 1]
      BY <1>22 DEF ClientWork, IInv, TypeOK
    <3>2. CASE value[c] \in Task
      <4>1. ran[value[c]] + 1 \in Nat
        BY <3>1, <3>2
      <4>2. QED
        BY <3>1, <4>1
    <3>3. CASE value[c] \notin Task
      BY <3>1, <3>3
    <3>4. QED
      BY <3>2, <3>3
  <2>2. TypeOK'
    BY <1>22, <2>1 DEF ClientWork, GoTo, IInv, TypeOK, ClientPC, Task
  <2>3. (ChannelInv /\ WorkInv /\ PhaseInv /\ EndInv /\ NothingLeftOver /\ Conservation)'
    BY SMTT(30), <1>22 DEF ClientWork, GoTo, IInv, TypeOK, ChannelInv, WorkInv, PhaseInv,
       EndInv, NothingLeftOver, Conservation, MsgState, LeaderPC, ClientPC
  <2>4. QED
    BY <2>2, <2>3 DEF IInv
<1>23. ASSUME NEW c \in Client, ClientEnd(c)
      PROVE  IInv'
  <2>1. TypeOK'
    BY <1>23 DEF ClientEnd, GoTo, Task, IInv, TypeOK, MsgState, LeaderPC,
       ClientPC
  <2>2. (ChannelInv /\ WorkInv /\ PhaseInv /\ EndInv /\ NothingLeftOver /\ Conservation)'
    BY SMTT(30), <1>23 DEF ClientEnd, GoTo, IInv, TypeOK, ChannelInv, WorkInv, PhaseInv,
       EndInv, NothingLeftOver, Conservation, MsgState, LeaderPC, ClientPC
  <2>3. QED
    BY <2>1, <2>2 DEF IInv
<1>24. ASSUME NEW c \in Client, DeliverRequest(c)
      PROVE  IInv'
  <2>1. /\ reqsIn' \in [Client -> Nat] /\ reqsIn'[c] = reqsIn[c] + 1
        /\ \A d \in Client \ {c} : reqsIn'[d] = reqsIn[d]
    BY <1>24 DEF DeliverRequest, IInv, TypeOK
  <2>2. TypeOK'
    BY <1>24, <2>1 DEF DeliverRequest, IInv, TypeOK, Task
  <2>3. ChannelInv'
    BY <1>24, <2>1 DEF DeliverRequest, IInv, TypeOK, ChannelInv
  <2>4. finMsg[c] \notin {"arrived", "received"} /\ reqs[c] # 0
    BY <1>24 DEF DeliverRequest, IInv, TypeOK, EndInv
  <2>5. (WorkInv /\ PhaseInv /\ EndInv /\ NothingLeftOver /\ Conservation)'
    BY <1>24, <2>1, <2>4 DEF DeliverRequest, IInv, TypeOK, WorkInv, PhaseInv,
       EndInv, NothingLeftOver, Conservation
  <2>6. QED
    BY <2>2, <2>3, <2>5 DEF IInv
<1>25. ASSUME NEW c \in Client, DeliverValue(c)
      PROVE  IInv'
  <2>1. /\ valsIn' \in [Client -> Nat] /\ valsIn'[c] = valsIn[c] + 1
        /\ \A d \in Client \ {c} : valsIn'[d] = valsIn[d]
    BY <1>25 DEF DeliverValue, IInv, TypeOK
  <2>2. TypeOK'
    BY <1>25, <2>1 DEF DeliverValue, IInv, TypeOK, Task
  <2>3. ChannelInv'
    BY <1>25, <2>1 DEF DeliverValue, IInv, TypeOK, ChannelInv
  <2>4. doneMsg[c] \notin {"arrived", "received"}
    BY <1>25 DEF DeliverValue, IInv, EndInv
  <2>5. (WorkInv /\ PhaseInv /\ EndInv /\ NothingLeftOver /\ Conservation)'
    BY <1>25, <2>1, <2>4 DEF DeliverValue, IInv, TypeOK, WorkInv, PhaseInv,
       EndInv, NothingLeftOver, Conservation
  <2>6. QED
    BY <2>2, <2>3, <2>5 DEF IInv
<1>26. ASSUME NEW c \in Client, DeliverDone(c)
      PROVE  IInv'
  <2>1. TypeOK'
    BY <1>26 DEF DeliverDone, Task, IInv, TypeOK, MsgState, LeaderPC, ClientPC
  <2>2. (ChannelInv /\ WorkInv /\ PhaseInv /\ EndInv /\ NothingLeftOver /\ Conservation)'
    BY <1>26 DEF DeliverDone, IInv, TypeOK, ChannelInv, WorkInv, PhaseInv,
       EndInv, NothingLeftOver, Conservation, MsgState, LeaderPC, ClientPC
  <2>3. QED
    BY <2>1, <2>2 DEF IInv
<1>27. ASSUME NEW c \in Client, DeliverFinished(c)
      PROVE  IInv'
  <2>1. TypeOK'
    BY <1>27 DEF DeliverFinished, Task, IInv, TypeOK, MsgState, LeaderPC,
       ClientPC
  <2>2. (ChannelInv /\ WorkInv /\ PhaseInv /\ EndInv /\ NothingLeftOver /\ Conservation)'
    BY SMTT(30), <1>27 DEF DeliverFinished, IInv, TypeOK, ChannelInv, WorkInv, PhaseInv,
       EndInv, NothingLeftOver, Conservation, MsgState, LeaderPC, ClientPC
  <2>3. QED
    BY <2>1, <2>2 DEF IInv
<1>28. CASE UNCHANGED vars
  BY <1>28 DEF vars, Task, Exhausted, IInv, TypeOK, ChannelInv, WorkInv,
     PhaseInv, EndInv, NothingLeftOver, Conservation
<1>29. QED
  BY <1>1, <1>2, <1>3, <1>4, <1>5, <1>6, <1>7, <1>8, <1>9, <1>10, <1>11, <1>12,
     <1>13, <1>14, <1>15, <1>16, <1>17, <1>18, <1>19, <1>20, <1>21, <1>22,
     <1>23, <1>24, <1>25, <1>26, <1>27, <1>28 DEF Next, LeaderStep, ClientStep,
     Deliver

\* The program starts outside any loop, with nothing on its way.
LEMMA InitInv == Init => IInv
<1>1. Init => TypeOK
  BY MaxLoopsAssumption DEF Init, TypeOK, MsgState, LeaderPC, ClientPC, Task
<1>2. Init => ChannelInv /\ WorkInv /\ PhaseInv /\ EndInv
  BY DEF Init, ChannelInv, WorkInv, PhaseInv, EndInv, Outside
<1>3. Init => NothingLeftOver /\ Conservation
  BY DEF Init, NothingLeftOver, Conservation
<1>4. QED
  BY <1>1, <1>2, <1>3 DEF IInv

\* Every reachable state satisfies the inductive invariant.
THEOREM Invariance == Spec => []IInv
<1>1. IInv /\ [Next]_vars => IInv'
  BY StepInv
<1>2. QED
  BY <1>1, InitInv, PTL DEF Spec

\* Every variable keeps its type: no queue length becomes negative, m_iter
\* never passes the end of the range.
THEOREM TypeCorrect == Spec => []TypeOK
<1>1. IInv => TypeOK
  BY DEF IInv
<1>2. QED
  BY <1>1, Invariance, PTL

\* finish_cleanup leaves no request and no value behind for the next loop,
\* for any number of clients, any buffer sizes and any range.
THEOREM QuiescentBetweenLoops == Spec => []NothingLeftOver
<1>1. IInv => NothingLeftOver
  BY DEF IInv
<1>2. QED
  BY <1>1, Invariance, PTL

\* Requests and values of a client are conserved by handle_client_request and
\* next: what it asked for and what waits for it add up to its buffer plus its
\* share of the first round.
THEOREM RequestsConserved == Spec => []Conservation
<1>1. IInv => Conservation
  BY DEF IInv
<1>2. QED
  BY <1>1, Invariance, PTL

\* A client that declared itself finished has received every value sent to it:
\* the second look at the buffer in next() cannot come too early.
THEOREM FinishedClientIsServed == Spec => []FinishedClientHasNoValue
<1>1. IInv => FinishedClientHasNoValue
  BY DEF IInv, TypeOK, PhaseInv, EndInv, NothingLeftOver,
         FinishedClientHasNoValue, Outside
<1>2. QED
  BY <1>1, Invariance, PTL

-----------------------------------------------------------------------------
(***************************************************************************)
(* The first round.                                                        *)
(***************************************************************************)

\* How many values of the first round client c has got.
Got(c) == buf[c] - left[c]

\* The round is in pass n: the clients before turn have had their value of this
\* pass, the others have not, and only a client without room has got less.
Level(n, c) == IF c < turn THEN n + 1 ELSE n

InPass(n) ==
    \A c \in Client : Got(c) <= Level(n, c) /\ (left[c] > 0 => Got(c) = Level(n, c))

PassInv == srv \in {"barrier", "first"} => \E n \in Nat : InPass(n)

\* The value goes to the next client of the pass, or to the first one of the
\* next pass when no client is left in this one.
LEMMA FirstRoundPass ==
    ASSUME IInv, NEW n \in Nat, InPass(n), NEW c \in Client, FirstRound(c)
    PROVE  \E m \in Nat : InPass(m)'
<1> DEFINE owed == {d \in Client : left[d] > 0}
           ahead == {d \in owed : d >= turn}
<1>1. /\ left' = [left EXCEPT ![c] = @ - 1] /\ turn' = c + 1 /\ buf' = buf
      /\ NextInRound(c)
  BY DEF FirstRound
<1>2. /\ turn \in Nat /\ Client \subseteq Int
      /\ \A d \in Client : left[d] \in Nat /\ buf[d] \in Nat
      /\ left'[c] = left[c] - 1 /\ \A d \in Client \ {c} : left'[d] = left[d]
  BY SMTT(30), <1>1 DEF IInv, TypeOK, Client
<1>3. left[c] > 0 /\ Got(c)' = Got(c) + 1 /\ \A d \in Client \ {c} : Got(d)' = Got(d)
  BY <1>1, <1>2 DEF NextInRound, Got
<1>4. \A d \in Client : /\ Got(d) \in Int
                        /\ Got(d) <= Level(n, d)
                        /\ left[d] > 0 => Got(d) = Level(n, d)
  BY <1>2 DEF InPass, Got
<1>5. CASE ahead # {}
  <2>1. c >= turn /\ \A d \in Client : left[d] > 0 /\ d >= turn => c <= d
    BY <1>1, <1>5 DEF NextInRound
  <2>2. ASSUME NEW d \in Client
        PROVE  Got(d)' <= Level(n, d)' /\ (left'[d] > 0 => Got(d)' = Level(n, d)')
    <3>1. Level(n, d)' = IF d < c + 1 THEN n + 1 ELSE n
      BY <1>1 DEF Level
    <3>2. CASE d = c
      BY <1>2, <1>3, <1>4, <2>1, <3>1, <3>2 DEF Level
    <3>3. CASE d # c
      <4>1. Got(d)' = Got(d) /\ left'[d] = left[d] /\ left[d] \in Nat
        BY <1>2, <1>3, <3>3
      <4>2. d \in Int /\ c \in Int
        BY <1>2
      <4>3. d < turn => Level(n, d)' = n + 1 /\ Level(n, d) = n + 1
        BY <1>2, <2>1, <3>1, <4>2 DEF Level
      <4>4. d >= turn /\ d < c => left[d] = 0 /\ Level(n, d) = n /\ Level(n, d)' = n + 1
        BY <1>2, <2>1, <3>1, <4>1, <4>2 DEF Level
      <4>5. d >= turn /\ d > c => Level(n, d) = n /\ Level(n, d)' = n
        BY <1>2, <3>1, <4>2 DEF Level
      <4> QED
        BY <1>2, <1>4, <3>3, <4>1, <4>2, <4>3, <4>4, <4>5
    <3> QED
      BY <3>2, <3>3
  <2> QED
    BY <2>2 DEF InPass
<1>6. CASE ahead = {}
  <2>1. c < turn /\ \A d \in Client : left[d] > 0 => d < turn /\ c <= d
    <3>1. \A d \in Client : left[d] > 0 => ~(d >= turn)
      BY <1>6
    <3>2. \A d \in Client : left[d] > 0 => c <= d
      BY <1>1, <1>6 DEF NextInRound
    <3> QED
      BY <1>2, <1>3, <3>1, <3>2
  <2>2. ASSUME NEW d \in Client
        PROVE  /\ Got(d)' <= Level(n + 1, d)'
               /\ left'[d] > 0 => Got(d)' = Level(n + 1, d)'
    <3>1. Level(n + 1, d)' = IF d < c + 1 THEN (n + 1) + 1 ELSE n + 1
      BY <1>1 DEF Level
    <3>2. CASE d = c
      BY <1>2, <1>3, <1>4, <2>1, <3>1, <3>2 DEF Level
    <3>3. CASE d # c
      <4>1. Got(d)' = Got(d) /\ left'[d] = left[d] /\ d \in Int /\ c \in Int
        BY <1>2, <1>3, <3>3
      <4>2. left[d] > 0 => d > c /\ Level(n, d) = n + 1
        BY <1>2, <2>1, <3>3, <4>1 DEF Level
      <4>3. Level(n, d) <= n + 1 /\ Level(n + 1, d)' >= n + 1
        BY <3>1, <4>1 DEF Level
      <4>4. Got(d) <= n + 1
        BY <1>4, <4>3 DEF Level
      <4> QED
        BY <1>4, <3>1, <4>1, <4>2, <4>3, <4>4
    <3> QED
      BY <3>2, <3>3
  <2>3. n + 1 \in Nat
    OBVIOUS
  <2> QED
    BY <2>2, <2>3 DEF InPass
<1> QED
  BY <1>5, <1>6

\* Only Gather and the first round itself change what the passes are about.
LEMMA StepPass == ASSUME IInv, PassInv, [Next]_vars PROVE PassInv'
<1> USE DEF leaderVars, clientVars, reqVars, valVars, endVars
<1>1. CASE Gather
  <2>1. left' = buf' /\ turn' = 1 /\ \A c \in Client : buf'[c] \in Int
    <3>1. PICK b \in [Client -> BufferSizes] : buf' = b /\ left' = b
      BY <1>1 DEF Gather
    <3>2. b \in [Client -> Nat]
      BY BufferSizesAssumption
    <3>3. turn' = 1
      BY <1>1 DEF Gather
    <3> QED
      BY <3>1, <3>2, <3>3
  <2>2. \A c \in Client : Got(c)' = 0 /\ Level(0, c)' = 0
    BY <2>1 DEF Got, Level, Client
  <2>3. InPass(0)'
    BY <2>2 DEF InPass
  <2> QED
    BY <2>3 DEF PassInv
<1>2. ASSUME NEW c \in Client, FirstRound(c) PROVE PassInv'
  <2>1. srv = "first"
    BY <1>2 DEF FirstRound
  <2>2. PICK n \in Nat : InPass(n)
    BY <2>1 DEF PassInv
  <2> QED
    BY <1>2, <2>2, FirstRoundPass DEF PassInv
<1>3. ASSUME buf' = buf, left' = left, turn' = turn,
             srv' \in {"barrier", "first"} => srv \in {"barrier", "first"}
      PROVE  PassInv'
  <2>1. \A n \in Nat : InPass(n)' <=> InPass(n)
    BY <1>3 DEF InPass, Got, Level
  <2> QED
    BY <1>3, <2>1 DEF PassInv
<1>4. ASSUME LeaderStep PROVE PassInv'
  <2>1. ASSUME NEW c \in Client, Handle(c) \/ RecvFinished(c) \/ Drain(c) PROVE PassInv'
    BY <1>3, <2>1 DEF Handle, RecvFinished, Drain
  <2>2. ASSUME SingleTest \/ LeaderBarrier \/ FirstRoundOver \/ HandleNone \/ HandleDone
               \/ AllFinished \/ LeaderEnd
        PROVE  PassInv'
    BY <1>3, <2>2 DEF SingleTest, LeaderBarrier, FirstRoundOver, HandleNone, HandleDone,
                      AllFinished, LeaderEnd, LeaderGoTo
  <2>3. ASSUME StartSingle \/ SingleWork \/ LeaderWork \/ Notify PROVE PassInv'
    BY <1>3, <2>3 DEF StartSingle, SingleWork, LeaderWork, Notify
  <2> QED
    BY <1>2, <1>4, <2>1, <2>2, <2>3 DEF LeaderStep
<1>5. ASSUME NEW c \in Client, ClientStep(c) \/ Deliver(c) PROVE PassInv'
  BY <1>3, <1>5 DEF ClientStep, Post, ClientBarrier, ProbeValue, CheckDone, Recheck,
     ClientWork, ClientEnd, Receive, GoTo, Deliver, DeliverRequest, DeliverValue,
     DeliverDone, DeliverFinished
<1>6. CASE UNCHANGED vars
  BY <1>3, <1>6 DEF vars
<1> QED
  BY <1>1, <1>4, <1>5, <1>6 DEF Next

\* "we loop over all ranks and assign one task to each rank in each loop": in
\* first_time_handle_client_request no client gets ahead of one that still has
\* room by more than one value, whatever the buffers and however the range ends.
THEOREM FirstRoundFair == Spec => []FirstRoundIsFair
<1>1. Init => PassInv
  BY DEF Init, PassInv
<1>2. IInv /\ PassInv => FirstRoundIsFair
  <2> SUFFICES ASSUME IInv, PassInv, srv = "first", NEW c \in Client, NEW d \in Client,
                      left[d] > 0
               PROVE  Got(c) <= Got(d) + 1
    BY DEF FirstRoundIsFair, Got
  <2>1. PICK n \in Nat : InPass(n)
    BY DEF PassInv
  <2>2. Got(c) \in Int /\ Got(d) \in Int /\ Got(c) <= Level(n, c) /\ Got(d) = Level(n, d)
    <3>1. buf[c] \in Nat /\ left[c] \in Nat /\ buf[d] \in Nat /\ left[d] \in Nat
      BY DEF IInv, TypeOK
    <3> QED
      BY <2>1, <3>1 DEF InPass, Got
  <2> QED
    BY <2>2 DEF Level
<1> QED
  BY <1>1, <1>2, Invariance, StepPass, PTL DEF Spec

=============================================================================
