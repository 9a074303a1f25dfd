-------------------------- MODULE PlayerLoop_proofs --------------------------
(***************************************************************************)
(* The game time a player keeps never runs ahead of the server's cycle and *)
(* never goes back to an earlier cycle, whatever is lost and whenever the  *)
(* referee calls; no end of the game that reaches a running player goes    *)
(* without a bye.  As long as nothing is lost and the referee calls        *)
(* between the steps only, each step is decided once and the client keeps  *)
(* the promise of DecisionCycle.                                           *)
(***************************************************************************)
EXTENDS PlayerLoop, SequenceTheorems, FunctionTheorems, FiniteSetTheorems,
        TLAPS

\* The datagrams in the socket are in the order of the server's cycles: what
\* makes FollowsServer inductive, since each one received leaves the others.
InOrder ==
    \A i, j \in 1 .. Len(net) : i <= j => net[i].cycle <= net[j].cycle

IInv == TypeOK /\ FollowsServer /\ InOrder

\* What the socket holds.
LEMMA InSocket ==
    ASSUME net \in Seq(Messages), NEW i \in 1 .. Len(net)
    PROVE  /\ net[i] \in Messages
           /\ net[i].cycle \in Nat /\ net[i].step \in Nat
           /\ net[i].call \in Calls \cup {"-"}
<1>1. net[i] \in Messages
  BY ElementOfSeq
<1> QED
  BY <1>1 DEF Messages

\* A message put into the socket keeps it a sequence of messages.
LEMMA TransmitType ==
    ASSUME NEW m \in Messages, net \in Seq(Messages), lost \in Nat, ends \in Nat,
           Transmit(m)
    PROVE  net' \in Seq(Messages) /\ lost' \in Nat /\ ends' \in Nat
<1>1. CASE net' = Append(net, m) /\ UNCHANGED lost /\ ends' \in {ends, ends + 1}
  BY <1>1
<1>2. CASE lost < MaxLost /\ lost' = lost + 1 /\ UNCHANGED <<net, ends>>
  BY <1>2
<1> QED
  BY <1>1, <1>2, Zenon DEF Transmit

\* A message of the server's present cycle may be appended to the socket.
LEMMA TransmitOrder ==
    ASSUME IInv, NEW m \in Messages, m.cycle = srv_cycle',
           srv_cycle' \in Nat, srv_cycle <= srv_cycle',
           UNCHANGED time, Transmit(m)
    PROVE  FollowsServer' /\ InOrder'
<1>0. /\ time.cycle \in Nat /\ time.cycle <= srv_cycle /\ srv_cycle \in Nat
      /\ \A i \in 1 .. Len(net) : net[i].cycle \in Nat
      /\ Len(net) \in Nat
  BY InSocket DEF IInv, TypeOK, FollowsServer, GameTimes
<1>1. CASE net' = Append(net, m) /\ UNCHANGED lost
  <2>1. /\ Len(net') = Len(net) + 1
        /\ \A i \in 1 .. Len(net) : net'[i] = net[i]
        /\ net'[Len(net) + 1] = m
    BY <1>1 DEF IInv, TypeOK
  <2>2. \A i \in 1 .. Len(net') : i \in 1 .. Len(net) \/ i = Len(net) + 1
    BY <1>0, <2>1
  <2>3. ASSUME NEW i \in 1 .. Len(net')
        PROVE  time.cycle <= net'[i].cycle /\ net'[i].cycle <= srv_cycle'
    <3>1. CASE i \in 1 .. Len(net)
      BY <1>0, <2>1, <3>1 DEF IInv, FollowsServer
    <3>2. CASE i = Len(net) + 1
      BY <1>0, <2>1, <3>2
    <3> QED
      BY <2>2, <3>1, <3>2
  <2>4. ASSUME NEW i \in 1 .. Len(net'), NEW j \in 1 .. Len(net'), i <= j
        PROVE  net'[i].cycle <= net'[j].cycle
    <3>1. CASE j \in 1 .. Len(net)
      <4>1. i \in 1 .. Len(net)
        BY <1>0, <2>2, <2>4, <3>1
      <4> QED
        BY <2>1, <2>4, <3>1, <4>1 DEF IInv, InOrder
    <3>2. CASE j = Len(net) + 1
      BY <2>1, <2>3, <3>2
    <3> QED
      BY <2>2, <3>1, <3>2
  <2> QED
    BY <1>0, <2>3, <2>4 DEF FollowsServer, InOrder
<1>2. CASE lost < MaxLost /\ lost' = lost + 1 /\ UNCHANGED net
  <2>1. \A i \in 1 .. Len(net) : net[i].cycle <= srv_cycle'
    BY <1>0 DEF IInv, FollowsServer
  <2> QED
    BY <1>0, <1>2, <2>1 DEF IInv, FollowsServer, InOrder
<1> QED
  BY <1>1, <1>2 DEF Transmit

\* Time moves to the cycle of the message received, or stays.
LEMMA UpdatedTime ==
    ASSUME TypeOK, NEW c \in Nat, NEW b \in BOOLEAN
    PROVE  /\ UpdateCurrentTime(c, b) \in GameTimes
           /\ UpdateCurrentTime(c, b).cycle = c
<1> DEFINE t == UpdateCurrentTime(c, b)
<1>0. time \in GameTimes
  BY DEF TypeOK
<1>1. CASE ~cycle_stopped \/ c # time.cycle
  BY <1>1 DEF UpdateCurrentTime, GameTime, GameTimes
<1>2. CASE cycle_stopped /\ c = time.cycle /\ b
  BY <1>0, <1>2 DEF UpdateCurrentTime, GameTime, GameTimes
<1>3. CASE cycle_stopped /\ c = time.cycle /\ ~b
  BY <1>0, <1>3 DEF UpdateCurrentTime, GameTime, GameTimes
<1> QED
  BY <1>1, <1>2, <1>3

\* What a received message leaves of the socket.
LEMMA Received ==
    ASSUME IInv, NEW type, Receive(type)
    PROVE  /\ Head(net) \in Messages /\ Head(net) = net[1]
           /\ Len(net) \in Nat \ {0}
           /\ net' \in Seq(Messages)
           /\ Len(net') = Len(net) - 1
           /\ \A i \in 1 .. Len(net') : net'[i] = net[i + 1]
           /\ \A i \in 1 .. Len(net) : net[i] \in Messages
           /\ time.cycle <= Head(net).cycle /\ Head(net).cycle <= srv_cycle
           /\ UNCHANGED <<server, lost, ends, decided_at, used>>
<1>1. net \in Seq(Messages) /\ net # <<>> /\ net' = Tail(net)
  BY DEF IInv, TypeOK, Receive
<1>2. Head(net) = net[1] /\ Len(net) \in Nat \ {0} /\ Head(net) \in Messages
  BY <1>1
<1>3. /\ net' \in Seq(Messages) /\ Len(net') = Len(net) - 1
      /\ \A i \in 1 .. Len(net') : net'[i] = net[i + 1]
      /\ \A i \in 1 .. Len(net) : net[i] \in Messages
  BY <1>1, <1>2
<1>4. time.cycle <= Head(net).cycle /\ Head(net).cycle <= srv_cycle
  BY <1>2 DEF IInv, FollowsServer
<1> QED
  BY <1>2, <1>3, <1>4 DEF Receive

\* Receiving a message keeps the order, when time follows the message.
LEMMA ReceiveOrder ==
    ASSUME IInv, NEW type, Receive(type),
           time'.cycle = time.cycle \/ time'.cycle = Head(net).cycle
    PROVE  FollowsServer' /\ InOrder'
<1>1. srv_cycle' = srv_cycle /\ srv_cycle \in Nat /\ time.cycle \in Nat
  BY DEF IInv, TypeOK, Receive, server, GameTimes
<1>2. /\ Len(net) \in Nat \ {0} /\ Len(net') = Len(net) - 1
      /\ \A i \in 1 .. Len(net') : net'[i] = net[i + 1]
      /\ time.cycle <= Head(net).cycle /\ Head(net).cycle <= srv_cycle
      /\ Head(net) = net[1]
  BY Received
<1>3. \A i \in 1 .. Len(net') : i + 1 \in 1 .. Len(net) /\ 1 <= i + 1
  BY <1>2
<1>4. \A i \in 1 .. Len(net) : net[i].cycle \in Nat
  BY InSocket DEF IInv, TypeOK
<1>5. time'.cycle <= srv_cycle
  BY <1>1, <1>2 DEF IInv, FollowsServer
<1>6. ASSUME NEW i \in 1 .. Len(net')
      PROVE  time'.cycle <= net'[i].cycle /\ net'[i].cycle <= srv_cycle'
  <2>1. /\ time.cycle <= net[i + 1].cycle /\ net[i + 1].cycle <= srv_cycle
        /\ 1 \in 1 .. Len(net)
    BY <1>2, <1>3 DEF IInv, FollowsServer
  <2>2. net[1].cycle <= net[i + 1].cycle
    BY <1>3, <2>1 DEF IInv, InOrder
  <2> QED
    BY <1>1, <1>2, <2>1, <2>2
<1>7. ASSUME NEW i \in 1 .. Len(net'), NEW j \in 1 .. Len(net'), i <= j
      PROVE  net'[i].cycle <= net'[j].cycle
  <2>1. net[i + 1].cycle <= net[j + 1].cycle
    BY <1>3, <1>7 DEF IInv, InOrder
  <2> QED
    BY <1>2, <2>1
<1> QED
  BY <1>1, <1>5, <1>6, <1>7 DEF FollowsServer, InOrder

\* The invariant holds when the agent joins.
LEMMA InitInv == Init => IInv
<1> SUFFICES ASSUME Init PROVE IInv
  OBVIOUS
<1> DEFINE first == [type |-> "init", call |-> IF srv_stopped THEN "stop" ELSE "run",
                     cycle |-> srv_cycle, step |-> 0]
<1>1. srv_cycle \in Nat /\ srv_stopped \in BOOLEAN /\ synch_mode \in BOOLEAN
  BY PlayerLoopAssumption DEF Init
<1>2. first \in Messages
  BY <1>1 DEF Messages, Calls
<1>3. net = <<first>>
  BY DEF Init
<1>4. net \in Seq(Messages) /\ Len(net) = 1 /\ net[1] = first
  BY <1>2, <1>3
<1>5. TypeOK
  <2>1. time \in GameTimes /\ used \subseteq GameTimes
    BY DEF Init, GameTime, GameTimes
  <2>2. 0 \in 0 .. ServerWait /\ -1 \in -1 .. Threshold
    BY PlayerLoopAssumption
  <2> QED
    BY <1>1, <1>4, <2>1, <2>2 DEF Init, TypeOK
<1>6. FollowsServer
  BY <1>1, <1>4 DEF Init, FollowsServer, GameTime
<1>7. InOrder
  BY <1>1, <1>4 DEF InOrder
<1> QED
  BY <1>5, <1>6, <1>7 DEF IInv

\* A message of the step, as the server composes it.
LEMMA MessageType ==
    ASSUME NEW type \in {"sense_body", "see", "hear", "referee", "think"},
           NEW call \in Calls \cup {"-"}, srv_cycle' \in Nat, srv_step' \in Nat
    PROVE  Message(type, call) \in Messages /\ Message(type, call).cycle = srv_cycle'
BY DEF Message, Messages

\* Every step of the server preserves the invariant.
LEMMA ServerInv == IInv /\ Server => IInv'
<1> SUFFICES ASSUME IInv, Server PROVE IInv'
  OBVIOUS
<1> USE DEF agent, clock, loop, history, decisions
<1>1. CASE Step
  <2>1. TypeOK'
    BY <1>1 DEF IInv, TypeOK, Step, NextStep, socket
  <2>2. srv_cycle <= srv_cycle' /\ srv_cycle \in Nat /\ srv_cycle' \in Nat
    BY <1>1 DEF IInv, TypeOK, Step, NextStep
  <2>3. \A i \in 1 .. Len(net) : net[i].cycle \in Nat
    BY InSocket DEF IInv, TypeOK
  <2>4. time.cycle \in Nat
    BY DEF IInv, TypeOK, GameTimes
  <2>5. FollowsServer' /\ InOrder'
    BY <1>1, <2>2, <2>3, <2>4
       DEF IInv, FollowsServer, InOrder, Step, NextStep, socket
  <2> QED
    BY <2>1, <2>5 DEF IInv
<1>2. ASSUME NEW call \in Calls, StepCall(call) PROVE IInv'
  <2>1. /\ srv_cycle' \in Nat /\ srv_step' \in Nat /\ srv_cycle <= srv_cycle'
        /\ UNCHANGED time
    BY <1>2 DEF IInv, TypeOK, StepCall, NextStep
  <2>2. Message("referee", call) \in Messages /\ Message("referee", call).cycle = srv_cycle'
    BY <2>1, MessageType
  <2>3. Transmit(Message("referee", call))
    BY <1>2 DEF StepCall
  <2>4. FollowsServer' /\ InOrder'
    BY <2>1, <2>2, <2>3, TransmitOrder
  <2>5. net' \in Seq(Messages) /\ lost' \in Nat /\ ends' \in Nat
    BY <2>2, <2>3, TransmitType DEF IInv, TypeOK
  <2>6. StoppedAfter(call, srv_stopped) \in BOOLEAN
    BY DEF StoppedAfter, Calls, IInv, TypeOK
  <2>7. TypeOK'
    BY <1>2, <2>1, <2>5, <2>6, PlayerLoopAssumption
       DEF IInv, TypeOK, StepCall, NextStep
  <2> QED
    BY <2>4, <2>7 DEF IInv
<1>3. CASE SendSense
  <2>1. /\ srv_cycle' \in Nat /\ srv_step' \in Nat /\ srv_cycle <= srv_cycle'
        /\ UNCHANGED time
    BY <1>3 DEF IInv, TypeOK, SendSense
  <2>2. /\ Message("sense_body", "-") \in Messages
        /\ Message("sense_body", "-").cycle = srv_cycle'
    BY <2>1, MessageType
  <2>3. Transmit(Message("sense_body", "-"))
    BY <1>3 DEF SendSense
  <2>4. FollowsServer' /\ InOrder'
    BY <2>1, <2>2, <2>3, TransmitOrder
  <2>5. net' \in Seq(Messages) /\ lost' \in Nat /\ ends' \in Nat
    BY <2>2, <2>3, TransmitType DEF IInv, TypeOK
  <2>6. TypeOK'
    BY <1>3, <2>5 DEF IInv, TypeOK, SendSense
  <2> QED
    BY <2>4, <2>6 DEF IInv
<1>4. ASSUME NEW type \in {"see", "hear", "think"}, Send(type) PROVE IInv'
  <2>1. /\ srv_cycle' \in Nat /\ srv_step' \in Nat /\ srv_cycle <= srv_cycle'
        /\ UNCHANGED time
    BY <1>4 DEF IInv, TypeOK, Send
  <2>2. Message(type, "-") \in Messages /\ Message(type, "-").cycle = srv_cycle'
    BY <2>1, MessageType
  <2>3. Transmit(Message(type, "-"))
    BY <1>4 DEF Send
  <2>4. FollowsServer' /\ InOrder'
    BY <2>1, <2>2, <2>3, TransmitOrder
  <2>5. net' \in Seq(Messages) /\ lost' \in Nat /\ ends' \in Nat
    BY <2>2, <2>3, TransmitType DEF IInv, TypeOK
  <2>6. TypeOK'
    BY <1>4, <2>5 DEF IInv, TypeOK, Send
  <2> QED
    BY <2>4, <2>6 DEF IInv
<1>5. CASE KickOff
  <2>1. /\ srv_cycle' \in Nat /\ srv_step' \in Nat /\ srv_cycle <= srv_cycle'
        /\ UNCHANGED time
    BY <1>5 DEF IInv, TypeOK, KickOff
  <2>2. Message("referee", "run") \in Messages /\ Message("referee", "run").cycle = srv_cycle'
    <3>1. "run" \in Calls \cup {"-"}
      BY DEF Calls
    <3> QED
      BY <2>1, <3>1, MessageType
  <2>3. Transmit(Message("referee", "run"))
    BY <1>5 DEF KickOff
  <2>4. FollowsServer' /\ InOrder'
    BY <2>1, <2>2, <2>3, TransmitOrder
  <2>5. net' \in Seq(Messages) /\ lost' \in Nat /\ ends' \in Nat
    BY <2>2, <2>3, TransmitType DEF IInv, TypeOK
  <2>6. /\ srv_stopped' \in BOOLEAN /\ calls' \in Nat
        /\ UNCHANGED <<synch_mode, srv_cycle, srv_step, announced, sent, agent>>
    <3>1. /\ srv_stopped' = FALSE /\ calls' = calls + 1
          /\ UNCHANGED <<synch_mode, srv_cycle, srv_step, announced, sent, agent>>
      BY <1>5, Zenon DEF KickOff
    <3>2. srv_stopped' \in BOOLEAN
      BY <3>1, Zenon
    <3>3. calls' \in Nat
      BY <3>1 DEF IInv, TypeOK
    <3> QED
      BY <3>1, <3>2, <3>3
  <2>7. TypeOK'
    BY <2>5, <2>6 DEF IInv, TypeOK
  <2> QED
    BY <2>4, <2>7 DEF IInv
<1> QED
  BY <1>1, <1>2, <1>3, <1>4, <1>5 DEF Server

\* What passes of the wait stays a count of timeouts.
LEMMA ElapsedType ==
    ASSUME TypeOK
    PROVE  /\ Passes => elapsed' \in -1 .. Threshold
           /\ Waited \in -1 .. Threshold
<1>1. elapsed \in -1 .. Threshold /\ Threshold \in Nat /\ 2 < Threshold
  BY PlayerLoopAssumption DEF TypeOK
<1> QED
  BY <1>1 DEF Passes, Waited

\* What every receipt keeps of the types.
LEMMA ReceiveType ==
    ASSUME IInv, NEW type, Receive(type)
    PROVE  /\ step' \in Nat /\ acts' \in Nat
           /\ timeouts' \in 0 .. ServerWait /\ pc' = "drain"
           /\ Head(net).cycle \in Nat /\ Head(net).call \in Calls \cup {"-"}
           /\ net' \in Seq(Messages)
           /\ UNCHANGED <<server, lost, ends, decided_at, used>>
<1>1. Head(net) \in Messages /\ net' \in Seq(Messages)
  BY Received
<1>2. Head(net).cycle \in Nat /\ Head(net).step \in Nat /\ Head(net).call \in Calls \cup {"-"}
  BY <1>1 DEF Messages
<1>3. 0 \in 0 .. ServerWait
  BY PlayerLoopAssumption
<1> QED
  BY <1>1, <1>2, <1>3 DEF Receive, IInv, TypeOK

\* Every message handled preserves the invariant.
LEMMA HandlerInv ==
    IInv /\ (GetInit \/ GetSenseBody \/ GetSee \/ GetHear \/ GetReferee \/ GetThink)
        => IInv'
<1> SUFFICES ASSUME IInv,
                    GetInit \/ GetSenseBody \/ GetSee \/ GetHear \/ GetReferee \/ GetThink
             PROVE  IInv'
  OBVIOUS
<1> USE DEF server, clock
<1>0. TypeOK
  BY DEF IInv
<1>1. CASE GetInit
  <2>1. Receive("init") /\ UNCHANGED time
    BY <1>1 DEF GetInit
  <2>2. FollowsServer' /\ InOrder'
    BY <2>1, ReceiveOrder
  <2>3. StoppedAfter(Head(net).call, FALSE) \in BOOLEAN
    BY DEF StoppedAfter
  <2>4. elapsed' \in -1 .. Threshold
    BY <1>0, <1>1, ElapsedType DEF GetInit
  <2>5. TypeOK'
    BY <1>1, <2>1, <2>3, <2>4, ReceiveType DEF GetInit, IInv, TypeOK
  <2> QED
    BY <2>2, <2>5 DEF IInv
<1>2. CASE GetSenseBody
  <2>1. Receive("sense_body")
    BY <1>2 DEF GetSenseBody
  <2>2. time' \in GameTimes /\ time'.cycle = Head(net).cycle
    BY <1>0, <1>2, <2>1, ReceiveType, UpdatedTime DEF GetSenseBody
  <2>3. FollowsServer' /\ InOrder'
    BY <2>1, <2>2, ReceiveOrder
  <2>4. elapsed' \in -1 .. Threshold
    BY <1>2, PlayerLoopAssumption DEF GetSenseBody
  <2>5. TypeOK'
    BY <1>2, <2>1, <2>2, <2>4, ReceiveType DEF GetSenseBody, IInv, TypeOK
  <2> QED
    BY <2>3, <2>5 DEF IInv
<1>3. CASE GetSee
  <2>1. Receive("see")
    BY <1>3 DEF GetSee
  <2>2. time' \in GameTimes /\ time'.cycle = Head(net).cycle
    BY <1>0, <1>3, <2>1, ReceiveType, UpdatedTime DEF GetSee
  <2>3. FollowsServer' /\ InOrder'
    BY <2>1, <2>2, ReceiveOrder
  <2>4. elapsed' \in -1 .. Threshold
    BY <1>0, <1>3, ElapsedType DEF GetSee
  <2>5. TypeOK'
    BY <1>3, <2>1, <2>2, <2>4, ReceiveType DEF GetSee, IInv, TypeOK
  <2> QED
    BY <2>3, <2>5 DEF IInv
<1>4. CASE GetHear
  <2>1. Receive("hear")
    BY <1>4 DEF GetHear
  <2>2. time' \in GameTimes /\ time'.cycle = Head(net).cycle
    BY <1>0, <1>4, <2>1, ReceiveType, UpdatedTime DEF GetHear
  <2>3. FollowsServer' /\ InOrder'
    BY <2>1, <2>2, ReceiveOrder
  <2>4. elapsed' \in -1 .. Threshold
    BY <1>0, <1>4, ElapsedType DEF GetHear
  <2>5. TypeOK'
    BY <1>4, <2>1, <2>2, <2>4, ReceiveType DEF GetHear, IInv, TypeOK
  <2> QED
    BY <2>3, <2>5 DEF IInv
<1>5. CASE GetReferee
  <2>1. Receive("referee")
    BY <1>5 DEF GetReferee
  <2>2. time' \in GameTimes /\ time'.cycle = Head(net).cycle
    BY <1>0, <1>5, <2>1, ReceiveType, UpdatedTime DEF GetReferee
  <2>3. FollowsServer' /\ InOrder'
    BY <2>1, <2>2, ReceiveOrder
  <2>4. elapsed' \in -1 .. Threshold
    BY <1>0, <1>5, ElapsedType DEF GetReferee
  <2>5. StoppedAfter(Head(net).call, cycle_stopped) \in BOOLEAN
    BY <1>0 DEF StoppedAfter, TypeOK
  <2>6. alive' \in BOOLEAN /\ byes' \in Nat
    <3>1. (alive' = FALSE /\ byes' = byes + 1) \/ UNCHANGED <<alive, byes>>
      BY <1>5, Zenon DEF GetReferee
    <3>2. alive' \in BOOLEAN
      BY <1>0, <3>1, Zenon DEF TypeOK
    <3>3. byes' \in Nat
      <4>1. byes' = byes + 1 \/ byes' = byes
        BY <3>1, Zenon
      <4> QED
        BY <1>0, <4>1 DEF TypeOK
    <3> QED
      BY <3>2, <3>3
  <2>7. TypeOK'
    BY <1>5, <2>1, <2>2, <2>4, <2>5, <2>6, ReceiveType
       DEF GetReferee, IInv, TypeOK
  <2> QED
    BY <2>3, <2>7 DEF IInv
<1>6. CASE GetThink
  <2>1. Receive("think") /\ UNCHANGED time
    BY <1>6 DEF GetThink
  <2>2. FollowsServer' /\ InOrder'
    BY <2>1, ReceiveOrder
  <2>3. elapsed' \in -1 .. Threshold
    BY <1>0, <1>6, ElapsedType DEF GetThink
  <2>4. TypeOK'
    BY <1>6, <2>1, <2>3, ReceiveType DEF GetThink, IInv, TypeOK
  <2> QED
    BY <2>2, <2>4 DEF IInv
<1> QED
  BY <1>1, <1>2, <1>3, <1>4, <1>5, <1>6

\* A step that leaves server, socket and game time alone keeps the order.
LEMMA OrderUnchanged ==
    ASSUME IInv, UNCHANGED <<srv_cycle, net, time>>
    PROVE  FollowsServer' /\ InOrder'
BY DEF IInv, FollowsServer, InOrder

\* The decision, taken or not, keeps the types.
LEMMA DecideType ==
    ASSUME TypeOK, Decide \/ UNCHANGED <<decided_at, acts, used>>
    PROVE  /\ decided_at' \in GameTimes \cup {NoTime}
           /\ acts' \in Nat /\ used' \subseteq GameTimes
BY DEF Decide, TypeOK

\* The rest of the agent's loop preserves the invariant.
LEMMA LoopInv == IInv /\ (Drained \/ Timeout \/ SelectFails) => IInv'
<1> SUFFICES ASSUME IInv, Drained \/ Timeout \/ SelectFails PROVE IInv'
  OBVIOUS
<1> USE DEF server, socket, clock, history, decisions
<1>0. TypeOK
  BY DEF IInv
<1>1. CASE Drained
  <2>1. Decide \/ UNCHANGED <<decided_at, acts, used>>
    BY <1>1 DEF Drained
  <2>2. /\ byes' \in Nat /\ pc' \in {"select", "drain", "exited"}
        /\ timeouts' \in 0 .. (IF pc' = "exited" THEN ServerWait + 1 ELSE ServerWait)
    BY <1>0, <1>1, PlayerLoopAssumption DEF Drained, ByesAfterExit, TypeOK
  <2>3. TypeOK'
    BY <1>0, <1>1, <2>1, <2>2, DecideType DEF Drained, TypeOK
  <2> QED
    BY <1>1, <2>3, OrderUnchanged DEF Drained, IInv
<1>2. CASE Timeout
  <2>0. TimeoutReady
    BY <1>2 DEF Timeout
  <2>1. Decide \/ UNCHANGED <<decided_at, acts, used>>
    BY <1>2 DEF Timeout
  <2>2. /\ byes' \in Nat /\ pc' \in {"select", "drain", "exited"}
        /\ alive' \in BOOLEAN
        /\ pc' # "exited" => timeouts' <= ServerWait
    <3>1. timeouts' \in Nat /\ ServerWait \in Nat /\ pc = "select"
      BY <1>0, <2>0, PlayerLoopAssumption DEF TimeoutReady, NextCount, TypeOK
    <3>2. CASE ServerDown(timeouts')
      BY <1>0, <1>2, <3>2, Zenon DEF Timeout, ByesAfterExit, TypeOK
    <3>3. CASE ~ServerDown(timeouts')
      <4>1. UNCHANGED <<alive, pc, byes>>
        BY <1>2, <3>3 DEF Timeout
      <4> QED
        BY <1>0, <3>1, <3>3, <4>1 DEF ServerDown, TypeOK
    <3> QED
      BY <3>2, <3>3
  <2>3. elapsed' \in -1 .. Threshold
    BY <1>0, <2>0, ElapsedType DEF TimeoutReady
  <2>4. timeouts' \in 0 .. (IF pc' = "exited" THEN ServerWait + 1 ELSE ServerWait)
    BY <1>0, <2>0, <2>2, PlayerLoopAssumption DEF TimeoutReady, NextCount, TypeOK
  <2>5. TypeOK'
    BY <1>0, <2>0, <2>1, <2>2, <2>3, <2>4, DecideType DEF TimeoutReady, NextCount, TypeOK
  <2> QED
    BY <2>0, <2>5, OrderUnchanged DEF TimeoutReady, IInv
<1>3. CASE SelectFails
  <2>0. /\ pc = "select" /\ pc' = "exited"
        /\ byes' = ByesAfterExit(alive) /\ ~alive' /\ alive' \in BOOLEAN
        /\ UNCHANGED <<server, socket, clock, timeouts, elapsed, history, decisions>>
    BY <1>3, Zenon DEF SelectFails
  <2>1. /\ byes' \in Nat
        /\ timeouts' \in 0 .. (IF pc' = "exited" THEN ServerWait + 1 ELSE ServerWait)
    BY <1>0, <2>0, PlayerLoopAssumption DEF ByesAfterExit, TypeOK
  <2>2. TypeOK'
    BY <1>0, <2>0, <2>1 DEF TypeOK
  <2> QED
    BY <1>3, <2>2, OrderUnchanged DEF SelectFails, IInv
<1> QED
  BY <1>1, <1>2, <1>3

\* The invariant is preserved by every step, and by stuttering.
LEMMA NextInv == IInv /\ [Next]_vars => IInv'
<1>1. IInv /\ UNCHANGED vars => IInv'
  BY DEF vars, server, socket, clock, loop, history, decisions,
         IInv, TypeOK, FollowsServer, InOrder
<1> QED
  BY <1>1, ServerInv, HandlerInv, LoopInv DEF Next, Agent

\* Every variable keeps its type, for all constants: in particular the wait
\* of a running loop never exceeds server_wait_seconds.
THEOREM TypeCorrect == Spec => []TypeOK
<1>1. IInv => TypeOK
  BY DEF IInv
<1> QED
  BY <1>1, InitInv, NextInv, PTL DEF Spec

\* The game time of a player is never ahead of the server's cycle, nor of any
\* message still to be received: whatever is lost, and however often or late
\* the referee stops and resumes the game.
THEOREM NeverAhead == Spec => []FollowsServer
<1>1. IInv => FollowsServer
  BY DEF IInv
<1> QED
  BY <1>1, InitInv, NextInv, PTL DEF Spec

-----------------------------------------------------------------------------
(* Saying bye                                                              *)

\* What the exits leave behind.
ByeInv ==
    /\ pc = "select" => alive
    /\ pc # "exited" => (alive <=> byes = 0)
    /\ ByesAnswerEnds

\* The ends among the datagrams of a socket.
LEMMA UnreadFinite ==
    ASSUME IInv
    PROVE  IsFiniteSet(Unread) /\ Cardinality(Unread) \in Nat
<1>1. Len(net) \in Nat
  BY DEF IInv, TypeOK
<1>2. IsFiniteSet(1 .. Len(net))
  BY <1>1, FS_Interval
<1>3. IsFiniteSet(Unread)
  BY <1>2, FS_Subset DEF Unread
<1> QED
  BY <1>3, FS_CardinalityType

\* An end is counted when it arrives.
LEMMA UnreadSent ==
    ASSUME IInv, NEW m \in Messages, Transmit(m), pc # "exited"
    PROVE  /\ ends \in Nat /\ ends' \in Nat
           /\ ends' - ends = Cardinality(Unread)' - Cardinality(Unread)
<1>0. /\ net \in Seq(Messages) /\ Len(net) \in Nat /\ ends \in Nat
      /\ IsFiniteSet(Unread) /\ Cardinality(Unread) \in Nat
  BY UnreadFinite DEF IInv, TypeOK
<1>1. CASE UNCHANGED <<net, ends>>
  <2>1. Unread' = Unread
    BY <1>1 DEF Unread
  <2> QED
    BY <1>0, <1>1, <2>1
<1>2. CASE /\ net' = Append(net, m)
           /\ ends' = IF EndsGame(m) /\ pc # "exited" THEN ends + 1 ELSE ends
  <2>1. /\ Len(net') = Len(net) + 1 /\ Len(net) + 1 \notin 1 .. Len(net)
        /\ \A i \in 1 .. Len(net) : net'[i] = net[i]
        /\ net'[Len(net) + 1] = m
        /\ 1 .. Len(net') = (1 .. Len(net)) \cup {Len(net) + 1}
    BY <1>0, <1>2
  <2>2. CASE EndsGame(m)
    <3>1. Unread' = Unread \cup {Len(net) + 1} /\ Len(net) + 1 \notin Unread
      BY <2>1, <2>2 DEF Unread
    <3>2. Cardinality(Unread)' = Cardinality(Unread) + 1
      BY <1>0, <3>1, FS_AddElement
    <3> QED
      BY <1>0, <1>2, <2>2, <3>2
  <2>3. CASE ~EndsGame(m)
    <3>1. Unread' = Unread
      BY <2>1, <2>3 DEF Unread
    <3> QED
      BY <1>0, <1>2, <2>3, <3>1
  <2> QED
    BY <2>2, <2>3
<1> QED
  BY <1>1, <1>2 DEF Transmit

\* It is no longer unread once the head of the socket is handled.
LEMMA UnreadReceived ==
    ASSUME IInv, NEW type, Receive(type)
    PROVE  /\ Cardinality(Unread) \in Nat /\ Cardinality(Unread)' \in Nat
           /\ Cardinality(Unread) =
                 Cardinality(Unread)' + (IF EndsGame(Head(net)) THEN 1 ELSE 0)
<1> DEFINE shifted == {i \in 2 .. Len(net) : EndsGame(net[i])}
           shift == [i \in Unread' |-> i + 1]
<1>1. /\ Len(net) \in Nat \ {0} /\ Len(net') = Len(net) - 1
      /\ \A i \in 1 .. Len(net') : net'[i] = net[i + 1]
      /\ Head(net) = net[1]
  BY Received
<1>2. IsFiniteSet(Unread) /\ Cardinality(Unread) \in Nat
  BY UnreadFinite
<1>3. /\ shifted \subseteq Unread /\ 1 \notin shifted
      /\ 1 .. Len(net) = {1} \cup 2 .. Len(net)
  BY <1>1 DEF Unread
<1>4. IsFiniteSet(shifted) /\ Cardinality(shifted) \in Nat
  BY <1>2, <1>3, FS_Subset, FS_CardinalityType
<1>5. Cardinality(Unread)' = Cardinality(shifted) /\ Cardinality(Unread)' \in Nat
  <2>1. ASSUME NEW i \in Unread'
        PROVE  i \in 1 .. Len(net') /\ i + 1 \in shifted
    <3>1. i \in 1 .. Len(net') /\ EndsGame(net'[i])
      BY DEF Unread
    <3>2. i + 1 \in 2 .. Len(net) /\ net'[i] = net[i + 1]
      BY <1>1, <3>1
    <3> QED
      BY <3>1, <3>2 DEF EndsGame
  <2>2. ASSUME NEW k \in shifted
        PROVE  k - 1 \in Unread' /\ (k - 1) + 1 = k
    <3>1. k \in 2 .. Len(net) /\ EndsGame(net[k])
      OBVIOUS
    <3>2. k - 1 \in 1 .. Len(net') /\ (k - 1) + 1 = k
      BY <1>1, <3>1
    <3>3. net'[k - 1] = net[k]
      BY <1>1, <3>2
    <3> QED
      BY <3>1, <3>2, <3>3 DEF Unread
  <2>3. shift \in Bijection(Unread', shifted)
    <3>1. shift \in [Unread' -> shifted] /\ \A i \in Unread' : shift[i] = i + 1
      BY <2>1
    <3>2. \A i, j \in Unread' : shift[i] = shift[j] => i = j
      <4>1. \A i \in Unread' : i \in Int
        BY <1>1, <2>1
      <4> QED
        BY <3>1, <4>1
    <3>3. \A k \in shifted : \E i \in Unread' : shift[i] = k
      BY <2>2, <3>1
    <3> HIDE DEF shift, shifted
    <3> QED
      BY <3>1, <3>2, <3>3, Fun_IsBij
  <2>4. ExistsBijection(Unread', shifted)
    BY <2>3 DEF ExistsBijection
  <2>5. ExistsBijection(shifted, Unread')
    BY <2>4, Fun_ExistsBijSymmetric
  <2>6. Cardinality(Unread') = Cardinality(shifted)
    BY <1>4, <2>5, FS_Bijection
  <2> QED
    BY <1>4, <2>6
<1>6. CASE EndsGame(Head(net))
  <2>1. Unread = shifted \cup {1}
    BY <1>1, <1>3, <1>6 DEF Unread
  <2>2. Cardinality(Unread) = Cardinality(shifted) + 1
    BY <1>3, <1>4, <2>1, FS_AddElement
  <2> QED
    BY <1>2, <1>5, <1>6, <2>2
<1>7. CASE ~EndsGame(Head(net))
  <2>1. Unread = shifted
    BY <1>1, <1>3, <1>7 DEF Unread
  <2> QED
    BY <1>2, <1>5, <1>7, <2>1
<1> QED
  BY <1>6, <1>7

\* Whatever the server sends is counted, or comes too late.
LEMMA TransmitBye ==
    ASSUME IInv, ByeInv, NEW m \in Messages, Transmit(m), UNCHANGED loop
    PROVE  ByeInv'
<1>0. UNCHANGED <<pc, alive, byes, timeouts>> /\ byes \in Nat
  BY DEF IInv, TypeOK, loop
<1>1. CASE pc # "exited"
  <2>1. /\ ends \in Nat /\ ends' \in Nat /\ Cardinality(Unread) \in Nat
        /\ ends' - ends = Cardinality(Unread)' - Cardinality(Unread)
    BY <1>1, UnreadSent, UnreadFinite
  <2>2. byes + Cardinality(Unread) = ends
    BY <1>1 DEF ByeInv, ByesAnswerEnds
  <2>3. byes + Cardinality(Unread)' = ends'
    <3>1. m \in Messages /\ Cardinality(Unread)' \in Int
      <4>1. net' \in Seq(Messages)
        BY TransmitType DEF IInv, TypeOK
      <4>2. Len(net') \in Nat
        BY <4>1
      <4>3. IsFiniteSet(1 .. Len(net'))
        BY <4>2, FS_Interval
      <4>4. IsFiniteSet(Unread')
        BY <4>3, FS_Subset DEF Unread
      <4> QED
        BY <4>4, FS_CardinalityType
    <3> QED
      BY <1>0, <2>1, <2>2, <3>1
  <2> QED
    BY <1>0, <1>1, <2>3 DEF ByeInv, ByesAnswerEnds
<1>2. CASE pc = "exited"
  <2>1. UNCHANGED ends
    BY <1>2 DEF Transmit
  <2> QED
    BY <1>0, <1>2, <2>1 DEF ByeInv, ByesAnswerEnds
<1> QED
  BY <1>1, <1>2

\* Ends, byes and the client's state keep step in every step.
LEMMA ByeStep == IInv /\ ByeInv /\ [Next]_vars => ByeInv'
<1> SUFFICES ASSUME IInv, ByeInv, [Next]_vars PROVE ByeInv'
  OBVIOUS
<1>0. /\ srv_cycle \in Nat /\ srv_step \in Nat /\ ServerWait \in Nat
      /\ byes \in Nat /\ timeouts \in Nat /\ ends \in Nat
      /\ Cardinality(Unread) \in Nat
      /\ pc # "exited" => timeouts <= ServerWait
  BY PlayerLoopAssumption, UnreadFinite DEF IInv, TypeOK
<1>1. CASE Step
  <2>1. UNCHANGED <<net, ends, loop>>
    BY <1>1 DEF Step, NextStep, socket, agent
  <2> QED
    BY <2>1 DEF ByeInv, ByesAnswerEnds, Unread, loop
<1>2. ASSUME NEW call \in Calls, StepCall(call) PROVE ByeInv'
  <2>1. /\ srv_cycle' \in Nat /\ srv_step' \in Nat /\ UNCHANGED loop
        /\ Transmit(Message("referee", call))
    BY <1>0, <1>2 DEF StepCall, NextStep, agent
  <2>2. Message("referee", call) \in Messages
    BY <2>1, MessageType
  <2> QED
    BY <2>1, <2>2, TransmitBye
<1>3. CASE SendSense
  <2>1. /\ srv_cycle' \in Nat /\ srv_step' \in Nat /\ UNCHANGED loop
        /\ Transmit(Message("sense_body", "-"))
    BY <1>0, <1>3 DEF SendSense, agent
  <2>2. Message("sense_body", "-") \in Messages
    BY <2>1, MessageType
  <2> QED
    BY <2>1, <2>2, TransmitBye
<1>4. ASSUME NEW type \in {"see", "hear", "think"}, Send(type) PROVE ByeInv'
  <2>1. /\ srv_cycle' \in Nat /\ srv_step' \in Nat /\ UNCHANGED loop
        /\ Transmit(Message(type, "-"))
    BY <1>0, <1>4 DEF Send, agent
  <2>2. Message(type, "-") \in Messages
    BY <2>1, MessageType
  <2> QED
    BY <2>1, <2>2, TransmitBye
<1>5. CASE KickOff
  <2>1. /\ srv_cycle' \in Nat /\ srv_step' \in Nat /\ UNCHANGED loop
        /\ Transmit(Message("referee", "run"))
    BY <1>0, <1>5 DEF KickOff, agent
  <2>2. Message("referee", "run") \in Messages
    BY <2>1, MessageType DEF Calls
  <2> QED
    BY <2>1, <2>2, TransmitBye
<1>6. CASE GetInit \/ GetSenseBody \/ GetSee \/ GetHear \/ GetThink
  <2>1. UNCHANGED <<alive, byes>>
    BY <1>6 DEF GetInit, GetSenseBody, GetSee, GetHear, GetThink
  <2>2. PICK type \in {"init", "sense_body", "see", "hear", "think"} : Receive(type)
    BY <1>6, Zenon DEF GetInit, GetSenseBody, GetSee, GetHear, GetThink
  <2>3. pc # "exited" /\ pc' = "drain" /\ UNCHANGED ends /\ ~EndsGame(Head(net))
    BY <2>2 DEF Receive, EndsGame
  <2>4. Cardinality(Unread)' = Cardinality(Unread)
    BY <2>2, <2>3, UnreadReceived
  <2> QED
    BY <2>1, <2>3, <2>4 DEF ByeInv, ByesAnswerEnds
<1>7. CASE GetReferee
  <2>1. Receive("referee")
    BY <1>7 DEF GetReferee
  <2>2. pc # "exited" /\ pc' = "drain" /\ UNCHANGED ends /\ Head(net).type = "referee"
    BY <2>1 DEF Receive
  <2>3. byes + Cardinality(Unread) = ends
    BY <2>2 DEF ByeInv, ByesAnswerEnds
  <2>4. CASE Head(net).call = "over"
    <3>1. ~alive' /\ byes' = byes + 1
      BY <1>7, <2>4 DEF GetReferee
    <3>2. /\ Cardinality(Unread) = Cardinality(Unread)' + 1
          /\ Cardinality(Unread)' \in Nat
      BY <2>1, <2>2, <2>4, UnreadReceived DEF EndsGame
    <3>3. byes' + Cardinality(Unread)' = ends' /\ byes' # 0
      BY <1>0, <2>2, <2>3, <3>1, <3>2
    <3> QED
      BY <2>2, <3>1, <3>3 DEF ByeInv, ByesAnswerEnds
  <2>5. CASE Head(net).call # "over"
    <3>1. UNCHANGED <<alive, byes>>
      BY <1>7, <2>5 DEF GetReferee
    <3>2. Cardinality(Unread)' = Cardinality(Unread)
      BY <2>1, <2>5, UnreadReceived DEF EndsGame
    <3> QED
      BY <2>2, <2>3, <3>1, <3>2 DEF ByeInv, ByesAnswerEnds
  <2> QED
    BY <2>4, <2>5
<1>8. ASSUME net = <<>>, pc # "exited" PROVE byes = ends
  <2>1. Unread = {}
    BY <1>8 DEF Unread
  <2> QED
    BY <1>0, <1>8, <2>1, FS_EmptySet DEF ByeInv, ByesAnswerEnds
<1>9. CASE Drained
  <2>1. /\ UNCHANGED <<net, ends, alive, timeouts>> /\ pc = "drain" /\ net = <<>>
        /\ IF alive THEN pc' = "select" /\ UNCHANGED byes
           ELSE pc' = "exited" /\ byes' = ByesAfterExit(alive)
    BY <1>9 DEF Drained, socket
  <2>2. byes = ends /\ Unread' = Unread
    BY <1>8, <2>1 DEF Unread
  <2>3. CASE alive
    BY <2>1, <2>2, <2>3 DEF ByeInv, ByesAnswerEnds
  <2>4. CASE ~alive
    <3>1. pc' = "exited" /\ byes' = byes /\ byes > 0 /\ ~(timeouts' > ServerWait)
      BY <1>0, <2>1, <2>4 DEF ByesAfterExit, ByeInv
    <3> QED
      BY <2>1, <2>2, <3>1 DEF ByeInv, ByesAnswerEnds
  <2> QED
    BY <2>3, <2>4
<1>10. CASE Timeout
  <2>1. /\ UNCHANGED <<net, ends>> /\ net = <<>> /\ pc = "select" /\ alive /\ byes = 0
    BY <1>10 DEF Timeout, TimeoutReady, socket, ByeInv
  <2>2. ends = 0 /\ Unread' = Unread
    BY <1>8, <2>1 DEF Unread
  <2>3. CASE ServerDown(timeouts')
    <3>1. pc' = "exited" /\ byes' = byes /\ timeouts' > ServerWait
      BY <1>10, <2>3 DEF Timeout, ByesAfterExit, ServerDown
    <3> QED
      BY <2>1, <2>2, <3>1 DEF ByeInv, ByesAnswerEnds
  <2>4. CASE ~ServerDown(timeouts')
    <3>1. UNCHANGED <<alive, pc, byes>>
      BY <1>10, <2>4 DEF Timeout
    <3> QED
      BY <2>1, <2>2, <3>1 DEF ByeInv, ByesAnswerEnds
  <2> QED
    BY <2>3, <2>4
<1>11. CASE SelectFails
  <2>1. /\ UNCHANGED timeouts /\ pc = "select" /\ alive /\ byes = 0
        /\ pc' = "exited" /\ byes' = byes + 1
    BY <1>11 DEF SelectFails, ByesAfterExit, ByeInv
  <2>2. byes' = 1 /\ ~(timeouts' > ServerWait)
    BY <1>0, <2>1
  <2> QED
    BY <2>1, <2>2 DEF ByeInv, ByesAnswerEnds
<1>12. CASE UNCHANGED vars
  BY <1>12 DEF vars, socket, loop, ByeInv, ByesAnswerEnds, Unread
<1> QED
  BY <1>1, <1>2, <1>3, <1>4, <1>5, <1>6, <1>7, <1>9, <1>10, <1>11, <1>12
     DEF Next, Server, Agent

\* Every end of the game that reaches the socket of a running player is still
\* to be read or has been answered by analyzeHearReferee, however many come in
\* the batch that handleMessage drains; only a server that sent none is given
\* up, without a bye, and every other way out of runOnline has said one.
THEOREM EndsAnswered == Spec => []ByesAnswerEnds
<1>1. Init => ByeInv
  <2> SUFFICES ASSUME Init PROVE ByeInv
    OBVIOUS
  <2>1. /\ Len(net) = 1 /\ net[1].type = "init"
        /\ pc = "select" /\ alive /\ byes = 0 /\ ends = 0
    BY DEF Init
  <2>2. Unread = {}
    BY <2>1 DEF Unread, EndsGame
  <2> QED
    BY <2>1, <2>2, FS_EmptySet DEF ByeInv, ByesAnswerEnds
<1>2. ByeInv => ByesAnswerEnds
  BY DEF ByeInv
<1> QED
  BY <1>1, <1>2, InitInv, NextInv, ByeStep, PTL DEF Spec

-----------------------------------------------------------------------------
(* One decision per step                                                   *)

\* The messages of the socket, told apart by their place.
Type(i) == net[i].type
Asking == {"see", "hear", "think"}
Places == 1 .. Len(net)

\* The agent hears of a step only when the last one is decided: it is at most one
\* step behind, and then it has decided.
StepsKept ==
    /\ step <= srv_step /\ srv_step <= step + 1
    /\ sensed <= step /\ step <= sensed + 1
    /\ step < srv_step => sensed = step /\ (step = 0 \/ acts > 0)
    /\ announced => sensed < srv_step
    /\ srv_step = 0 => sent = Asking
    /\ sensed < srv_step /\ ~announced => \E i \in Places : Type(i) = "sense_body"

\* What each message of the socket is about.
MessageFits(i) ==
    /\ step <= net[i].step /\ net[i].step <= srv_step
    /\ net[i].step = srv_step => net[i].cycle = srv_cycle
    /\ net[i].step = step /\ step > 0 => net[i].cycle = time.cycle
    /\ Type(i) = "init" => i = 1 /\ net[i].step = 0
    /\ Type(i) # "init" => net[i].step > 0
    /\ Type(i) = "referee" => net[i].step = srv_step /\ step < srv_step
    /\ Type(i) = "sense_body" =>
          net[i].step = srv_step /\ sensed < srv_step /\ ~announced
    /\ Type(i) \in Asking =>
          \/ net[i].step <= sensed
          \/ \E j \in Places : j < i /\ Type(j) = "sense_body"
    /\ Type(i) = "think" =>
          /\ synch_mode /\ "think" \in sent /\ ~think /\ ~announced
          /\ net[i].step = srv_step
          /\ step = srv_step => acts = 0

\* In a step, a referee call comes first, and the sense_body before all others.
PairFits(i, j) ==
    /\ net[i].step <= net[j].step
    /\ Type(j) = "referee" => net[i].step < srv_step
    /\ Type(i) = "sense_body" => Type(j) \in Asking
    /\ ~(Type(i) = "think" /\ Type(j) = "think")

SocketKept ==
    /\ \A i \in Places : MessageFits(i)
    /\ \A i, j \in Places : i < j => PairFits(i, j)

\* What the agent takes the cycle for, or will when it has handled init.
Believes ==
    IF net # <<>> /\ Type(1) = "init"
    THEN StoppedAfter(net[1].call, FALSE) ELSE cycle_stopped

\* The agent's idea of the cycle is the server's, but for the calls in the socket;
\* so it tells the steps of a stopped cycle apart.
StatusKept ==
    /\ (\A i \in Places : Type(i) # "referee") => srv_stopped = Believes
    /\ \A i \in Places : Type(i) = "referee" =>
            srv_stopped = StoppedAfter(net[i].call, Believes)
    /\ step = srv_step /\ step > 0 => time.cycle = srv_cycle
    /\ step < srv_step \/ step = 0 => (Believes => time.cycle = srv_cycle)
    /\ step < srv_step => (~Believes => time.cycle < srv_cycle)

\* What was decided, and with which game time, before and after the sense_body.
TimesKept ==
    /\ sensed = 0 => elapsed = -1
    /\ step = 0 => /\ acts = 0 /\ used = {}
                   /\ decided_at = NoTime /\ sense_time = NoTime /\ see_time = NoTime
    /\ see_time.cycle <= time.cycle
    /\ \A t \in used :
          /\ t.cycle <= time.cycle
          /\ cycle_stopped /\ t.cycle = time.cycle =>
                1 <= t.stopped /\ t.stopped <= time.stopped
    /\ sensed = step /\ step > 0 =>
          /\ sense_time = time
          /\ IF cycle_stopped THEN time.stopped >= 1 ELSE time.stopped = 0
          /\ acts = 0 => time \notin used
    /\ sensed < step =>
          /\ acts = 0 /\ decided_at = sense_time
          /\ decided_at = time \/ see_time.cycle < time.cycle
          /\ ~cycle_stopped => GameTime(time.cycle, 0) \notin used

\* One decision; in its synch mode the server asks for it once.
DecisionsKept ==
    /\ acts > 0 => step > 0 /\ sensed = step /\ decided_at = time
    /\ think => /\ synch_mode /\ "think" \in sent /\ acts = 0
                /\ step > 0 /\ sensed = step /\ step = srv_step
    /\ synch_mode /\ acts > 0 /\ step = srv_step => "think" \in sent

Kept ==
    /\ StepsKept /\ SocketKept /\ StatusKept
    /\ TimesKept /\ DecisionsKept

DInv == OneDecisionPerStep /\ lost = 0 /\ (pc # "exited" => Kept)

\* The hypotheses of this section, without which TLC finds a second decision
\* in a step: no kick-off in mid-step, an agent that keeps up, and no loss.
Prompted == ~MidStepCalls /\ Prompt /\ MaxLost = 0

\* A message at the end of the socket, or one less at its front.
LEMMA Appended ==
    ASSUME net \in Seq(Messages), NEW m \in Messages, net' = Append(net, m)
    PROVE  \E n \in Nat :
               /\ n = Len(net) + 1 /\ net'[n] = m /\ n \in Places' /\ Places \subseteq Nat
               /\ \A i \in Places : net'[i] = net[i] /\ i \in Places' /\ i < n
               /\ \A i \in Places' : i \in Places \/ i = n
               /\ \A i, j \in Places' : i < j => i \in Places
<1> DEFINE n == Len(net) + 1
<1>1. /\ n \in Nat /\ net'[n] = m /\ n \in Places' /\ Places \subseteq Nat
      /\ \A i \in Places : net'[i] = net[i] /\ i \in Places' /\ i < n
      /\ \A i \in Places' : i \in Places \/ i = n
      /\ \A i, j \in Places' : i < j => i \in Places
  BY DEF Places
<1> QED
  BY <1>1

LEMMA Shifted ==
    ASSUME IInv, NEW type, Receive(type)
    PROVE  /\ 1 \in Places /\ Head(net) = net[1] /\ Type(1) = type
           /\ \A i \in Places' : i + 1 \in Places /\ net'[i] = net[i + 1] /\ 1 < i + 1
           /\ \A j \in Places : j = 1 \/ (j - 1 \in Places' /\ net'[j - 1] = net[j])
           /\ Places \subseteq Nat /\ Places' \subseteq Nat
<1>1. /\ Head(net) = net[1] /\ Len(net) \in Nat \ {0} /\ Len(net') = Len(net) - 1
      /\ \A i \in 1 .. Len(net') : net'[i] = net[i + 1]
  BY Received
<1>2. /\ 1 \in Places /\ Places \subseteq Nat /\ Places' \subseteq Nat
      /\ \A i \in Places' : i + 1 \in Places /\ 1 < i + 1
      /\ \A j \in Places : j = 1 \/ j - 1 \in 1 .. Len(net')
  BY <1>1 DEF Places
<1>3. \A j \in Places : j = 1 \/ net'[j - 1] = net[j]
  BY <1>1, <1>2
<1>4. Type(1) = type
  BY <1>1 DEF Receive, Type
<1> QED
  BY <1>1, <1>2, <1>3, <1>4 DEF Places

\* The fields of a message, and of a game time.
LEMMA Fields ==
    ASSUME IInv
    PROVE  /\ \A i \in Places : /\ net[i] \in Messages /\ net[i].step \in Nat
                                /\ net[i].cycle \in Nat
                                /\ Type(i) \in Asking \cup {"init", "sense_body", "referee"}
           /\ step \in Nat /\ srv_step \in Nat /\ sensed \in Nat /\ acts \in Nat
           /\ srv_cycle \in Nat /\ time.cycle \in Nat /\ time.stopped \in Nat
           /\ srv_stopped \in BOOLEAN /\ cycle_stopped \in BOOLEAN /\ announced \in BOOLEAN
           /\ \A t \in used : t.cycle \in Nat /\ t.stopped \in Nat
           /\ see_time.cycle \in Int
           /\ net \in Seq(Messages) /\ Places \subseteq Nat
           /\ time.cycle <= srv_cycle
<1>1. \A i \in Places : /\ net[i] \in Messages
  BY InSocket DEF Places, IInv, TypeOK
<1>2. see_time.cycle \in Int
  BY DEF IInv, TypeOK, GameTimes, NoTime
<1> QED
  BY <1>1, <1>2 DEF IInv, TypeOK, FollowsServer, GameTimes, Messages, Asking, Type, Places

\* A belief is one of two.
LEMMA BeliefType == IInv => Believes \in BOOLEAN
<1>1. ASSUME NEW call, NEW b \in BOOLEAN PROVE StoppedAfter(call, b) \in BOOLEAN
  BY <1>1 DEF StoppedAfter
<1> QED
  BY <1>1 DEF Believes, IInv, TypeOK

\* A message that is not init, put into the socket, changes no belief.
LEMMA BeliefKept ==
    ASSUME IInv, NEW m \in Messages, m.type # "init",
           net' = Append(net, m) \/ net' = net, UNCHANGED cycle_stopped
    PROVE  Believes' = Believes
<1>1. CASE net' = net
  BY <1>1 DEF Believes, Type
<1>2. CASE net' = Append(net, m)
  <2>1. net \in Seq(Messages)
    BY DEF IInv, TypeOK
  <2>2. CASE net = <<>>
    <3>1. net' = <<m>> /\ net'[1] = m
      BY <1>2, <2>2
    <3> QED
      BY <2>2, <3>1 DEF Believes, Type
  <2>3. CASE net # <<>>
    <3>1. net' # <<>> /\ net'[1] = net[1]
      BY <1>2, <2>1, <2>3
    <3> QED
      BY <2>3, <3>1 DEF Believes, Type
  <2> QED
    BY <2>2, <2>3
<1> QED
  BY <1>1, <1>2

\* A new step finds the last one decided, and only its see and hear messages, or
\* init, in the socket.
LEMMA StepReady ==
    ASSUME Prompted, IInv, Kept, NextStep, pc # "exited"
    PROVE  /\ step = srv_step /\ sensed = step /\ (step = 0 \/ acts > 0)
           /\ srv_step' = step + 1 /\ announced' /\ ~announced
           /\ \A i \in Places : Type(i) \in {"init", "see", "hear"} /\ net[i].step = step
           /\ srv_stopped = Believes
           /\ srv_cycle' \in Nat /\ srv_cycle' = IF srv_stopped THEN srv_cycle ELSE srv_cycle + 1
           /\ Believes => time.cycle = srv_cycle'
           /\ ~Believes => time.cycle < srv_cycle'
           /\ UNCHANGED <<agent, synch_mode, sent>>
<1>1. /\ srv_step = 0 \/ (step = srv_step /\ acts > 0)
      /\ srv_step' = srv_step + 1 /\ announced' /\ ~announced
      /\ srv_cycle' = IF srv_stopped THEN srv_cycle ELSE srv_cycle + 1
      /\ UNCHANGED <<agent, synch_mode, sent>>
  BY DEF Prompted, NextStep
<1>2. step = srv_step /\ sensed = step /\ (step = 0 \/ acts > 0)
  BY <1>1, Fields DEF Kept, StepsKept, DecisionsKept
<1>3. ASSUME NEW i \in Places
      PROVE  Type(i) \in {"init", "see", "hear"} /\ net[i].step = step
  <2>1. net[i].step = step
    BY <1>2, <1>3, Fields DEF Kept, SocketKept, MessageFits
  <2>2. Type(i) # "referee" /\ Type(i) # "sense_body"
    BY <1>2, <1>3, Fields DEF Kept, SocketKept, MessageFits
  <2>3. Type(i) # "think"
    BY <1>2, <1>3, <2>1, Fields DEF Kept, SocketKept, MessageFits
  <2> QED
    BY <1>3, <2>1, <2>2, <2>3, Fields DEF Asking
<1>4. srv_stopped = Believes
  BY <1>3 DEF Kept, StatusKept
<1>5. srv_cycle' \in Nat
  BY <1>1, Fields
<1>6. Believes => time.cycle = srv_cycle'
  <2>1. Believes => time.cycle = srv_cycle
    BY <1>2, Fields DEF Kept, StatusKept
  <2> QED
    BY <1>1, <1>4, <2>1
<1>7. ~Believes => time.cycle < srv_cycle'
  BY <1>1, <1>4, Fields
<1> QED
  BY <1>1, <1>2, <1>3, <1>4, <1>5, <1>6, <1>7

\* What the server alone does leaves the agent's own account alone.
LEMMA AgentKept ==
    ASSUME IInv, Kept, UNCHANGED <<agent, synch_mode>>,
           "think" \in sent /\ srv_step' = srv_step => "think" \in sent',
           think => srv_step' = srv_step,
           srv_step' = srv_step \/ srv_step' = step + 1
    PROVE  TimesKept' /\ DecisionsKept'
<1>1. UNCHANGED <<time, cycle_stopped, sense_time, see_time, elapsed, step, sensed, decided_at,
                  think, acts, used, synch_mode>>
  BY DEF agent, clock, loop, history, decisions
<1>2. TimesKept'
  BY <1>1 DEF Kept, TimesKept
<1>3. DecisionsKept'
  BY <1>1, Fields DEF Kept, DecisionsKept
<1> QED
  BY <1>2, <1>3

\* A step begins, with or without a referee call.
LEMMA StepsBegin ==
    ASSUME Prompted, IInv, Kept, NextStep, pc # "exited", lost = 0,
           \/ Step
           \/ \E call \in Calls : StepCall(call)
    PROVE  Kept' /\ lost' = 0
<1>1. /\ step = srv_step /\ sensed = step /\ (step = 0 \/ acts > 0)
      /\ srv_step' = step + 1 /\ announced' /\ ~announced
      /\ \A i \in Places : Type(i) \in {"init", "see", "hear"} /\ net[i].step = step
      /\ srv_stopped = Believes
      /\ srv_cycle' \in Nat
      /\ Believes => time.cycle = srv_cycle'
      /\ ~Believes => time.cycle < srv_cycle'
      /\ UNCHANGED <<agent, synch_mode, sent>>
  BY StepReady
<1>2. /\ UNCHANGED <<time, cycle_stopped, sensed, step, think, acts>>
      /\ step \in Nat /\ acts \in Nat
  BY <1>1, Fields DEF agent, clock, history, decisions
<1>3. TimesKept' /\ DecisionsKept'
  <2>1. ~think
    BY <1>1, Fields DEF Kept, DecisionsKept
  <2> QED
    BY <1>1, <2>1, AgentKept
<1>4. StepsKept'
  BY <1>1, <1>2 DEF StepsKept
<1>5. CASE Step
  <2>1. UNCHANGED <<net, lost, srv_stopped, cycle_stopped>>
    BY <1>5, <1>2 DEF Step, socket
  <2>2. \A i \in Places' : MessageFits(i)'
    BY <1>1, <1>2, <2>1, Fields DEF Kept, SocketKept, MessageFits, Type, Places, Asking
  <2>3. \A i, j \in Places' : i < j => PairFits(i, j)'
    BY <1>1, <2>1, Fields DEF Kept, SocketKept, PairFits, Type, Places, Asking
  <2>4. Believes' = Believes
    BY <1>2, <2>1 DEF Believes, Type
  <2>5. StatusKept'
    BY <1>1, <1>2, <2>1, <2>4 DEF StatusKept, Type, Places
  <2> QED
    BY <1>3, <1>4, <2>1, <2>2, <2>3, <2>5 DEF Kept, SocketKept
<1>6. ASSUME NEW call \in Calls, StepCall(call) PROVE Kept' /\ lost' = 0
  <2> DEFINE m == Message("referee", call)
  <2>1. m \in Messages /\ m.type = "referee" /\ m.call = call
        /\ m.cycle = srv_cycle' /\ m.step = srv_step'
    BY <1>1, <1>2 DEF Message, Messages
  <2> HIDE DEF m
  <2>2. net' = Append(net, m) /\ lost' = 0 /\ srv_stopped' = StoppedAfter(call, srv_stopped)
    BY <1>6 DEF StepCall, Transmit, Prompted, m
  <2>3. PICK n \in Nat :
               /\ n = Len(net) + 1 /\ net'[n] = m /\ n \in Places' /\ Places \subseteq Nat
               /\ \A i \in Places : net'[i] = net[i] /\ i \in Places' /\ i < n
               /\ \A i \in Places' : i \in Places \/ i = n
               /\ \A i, j \in Places' : i < j => i \in Places
    BY <2>1, <2>2, Fields, Appended
  <2>4. ASSUME NEW i \in Places
        PROVE  Type(i)' = Type(i) /\ Type(i) \in {"init", "see", "hear"} /\ net'[i].step = step
               /\ net'[i].step < srv_step'
    BY <1>1, <1>2, <2>3, <2>4 DEF Type
  <2>5. Type(n)' = "referee"
    BY <2>1, <2>3 DEF Type
  <2>6. ASSUME NEW i \in Places' PROVE MessageFits(i)'
    <3>1. CASE i \in Places
      <4>1. net'[i] = net[i] /\ Type(i)' = Type(i) /\ Type(i) \in {"init", "see", "hear"}
            /\ net'[i].step = step /\ net'[i].step < srv_step'
        BY <2>3, <2>4, <3>1
      <4>2. /\ step > 0 => net[i].cycle = time.cycle
            /\ Type(i) = "init" => i = 1 /\ net[i].step = 0
            /\ Type(i) # "init" => net[i].step > 0
        BY <3>1, <4>1 DEF Kept, SocketKept, MessageFits
      <4> QED
        BY <1>1, <1>2, <4>1, <4>2 DEF MessageFits
    <3>2. CASE i = n
      BY <1>1, <1>2, <2>1, <2>3, <2>5, <3>2 DEF MessageFits, Asking
    <3> QED
      BY <2>3, <3>1, <3>2
  <2>7. ASSUME NEW i \in Places', NEW j \in Places', i < j PROVE PairFits(i, j)'
    <3>1. i \in Places
      BY <2>3, <2>7
    <3>2. net'[j].step = step \/ net'[j].step = srv_step'
      BY <2>1, <2>3, <2>4
    <3> QED
      BY <1>1, <1>2, <2>4, <3>1, <3>2 DEF PairFits
  <2>8. Believes' = Believes
    BY <1>2, <2>1, <2>2, BeliefKept
  <2>9. StatusKept'
    <3>1. \A i \in Places' : Type(i)' = "referee" =>
              srv_stopped' = StoppedAfter(net'[i].call, Believes')
      <4>1. ASSUME NEW i \in Places', Type(i)' = "referee"
            PROVE  net'[i].call = call
        BY <2>1, <2>3, <2>4, <4>1
      <4> QED
        BY <1>1, <2>2, <2>8, <4>1
    <3>2. ~ \A i \in Places' : Type(i)' # "referee"
      BY <2>3, <2>5
    <3>3. ~(step' = srv_step') /\ step' < srv_step'
      BY <1>1, <1>2
    <3> QED
      BY <1>1, <1>2, <2>8, <3>1, <3>2, <3>3 DEF StatusKept
  <2> QED
    BY <1>3, <1>4, <2>2, <2>6, <2>7, <2>9 DEF Kept, SocketKept
<1> QED
  BY <1>5, <1>6

\* A sense_body, or what follows it, is sent: nothing of the agent changes.
LEMMA SentKept ==
    ASSUME Prompted, IInv, Kept, lost = 0,
           NEW m \in Messages, Transmit(m),
           m.cycle = srv_cycle, m.step = srv_step,
           UNCHANGED <<agent, synch_mode, srv_cycle, srv_stopped, srv_step>>,
           \/ /\ m.type = "sense_body" /\ announced /\ ~announced'
           \/ /\ m.type \in Asking /\ ~announced /\ ~announced'
              /\ m.type \notin sent /\ sent' = sent \cup {m.type}
              /\ m.type = "think" => synch_mode
    PROVE  Kept' /\ lost' = 0
<1>1. /\ UNCHANGED <<time, cycle_stopped, sensed, step, think, acts, decided_at, pc>>
      /\ step \in Nat /\ acts \in Nat
  BY Fields DEF agent, clock, history, decisions, loop
<1>2. net' = Append(net, m) /\ lost' = 0
  BY DEF Transmit, Prompted
<1>3. PICK n \in Nat :
             /\ n = Len(net) + 1 /\ net'[n] = m /\ n \in Places' /\ Places \subseteq Nat
             /\ \A i \in Places : net'[i] = net[i] /\ i \in Places' /\ i < n
             /\ \A i \in Places' : i \in Places \/ i = n
             /\ \A i, j \in Places' : i < j => i \in Places
  BY <1>2, Fields, Appended
<1>4. Type(n)' = m.type /\ \A i \in Places : Type(i)' = Type(i)
  BY <1>3 DEF Type
<1>5. Believes' = Believes
  BY <1>1, <1>2, BeliefKept DEF Asking
<1>6. StatusKept'
  <2>1. m.type # "referee"
    BY DEF Asking
  <2>2. (\A i \in Places' : Type(i)' # "referee") => \A i \in Places : Type(i) # "referee"
    BY <1>3, <1>4
  <2>3. \A i \in Places' : Type(i)' = "referee" =>
            i \in Places /\ Type(i) = "referee" /\ net'[i] = net[i]
    BY <1>3, <1>4, <2>1
  <2> QED
    BY <1>1, <1>5, <2>2, <2>3 DEF Kept, StatusKept
<1>7. CASE m.type = "sense_body" /\ announced /\ ~announced'
  <2>1. sensed < srv_step /\ srv_step \in Nat /\ sensed \in Nat
    BY <1>7, Fields DEF Kept, StepsKept
  <2>2. \A i \in Places : Type(i) # "sense_body" /\ Type(i) # "think"
    BY <1>7 DEF Kept, SocketKept, MessageFits
  <2>3. ~think /\ (step = srv_step => acts = 0)
    BY <2>1, Fields DEF Kept, DecisionsKept
  <2>4. StepsKept'
    BY <1>1, <1>3, <1>4, <1>7, <2>1 DEF Kept, StepsKept
  <2>5. TimesKept' /\ DecisionsKept'
    <3>1. TimesKept'
      BY DEF Kept, TimesKept, agent, clock, loop, history, decisions
    <3>2. DecisionsKept'
      BY <1>1, <2>3, Fields DEF Kept, DecisionsKept, decisions
    <3> QED
      BY <3>1, <3>2
  <2>6. ASSUME NEW i \in Places' PROVE MessageFits(i)'
    <3>1. CASE i \in Places
      <4>1. /\ net'[i] = net[i] /\ Type(i)' = Type(i) /\ MessageFits(i)
            /\ Type(i) # "sense_body" /\ Type(i) # "think"
        BY <1>3, <1>4, <2>2, <3>1 DEF Kept, SocketKept
      <4>2. Type(i) \in Asking => net[i].step <= sensed
        BY <2>2, <4>1 DEF MessageFits
      <4> QED
        BY <1>1, <4>1, <4>2 DEF MessageFits
    <3>2. CASE i = n
      BY <1>1, <1>3, <1>4, <1>7, <2>1, <3>2, Fields
         DEF Kept, StepsKept, StatusKept, MessageFits, Asking
    <3> QED
      BY <1>3, <3>1, <3>2
  <2>7. ASSUME NEW i \in Places', NEW j \in Places', i < j PROVE PairFits(i, j)'
    <3>1. i \in Places
      BY <1>3, <2>7
    <3>2. CASE j \in Places
      BY <1>1, <1>3, <1>4, <2>7, <3>1, <3>2 DEF Kept, SocketKept, PairFits
    <3>3. CASE j = n
      BY <1>1, <1>3, <1>4, <1>7, <2>2, <3>1, <3>3, Fields
         DEF Kept, SocketKept, MessageFits, PairFits
    <3> QED
      BY <1>3, <3>2, <3>3
  <2> QED
    BY <1>2, <1>6, <2>4, <2>5, <2>6, <2>7 DEF Kept, SocketKept
<1>8. CASE /\ m.type \in Asking /\ ~announced /\ ~announced'
           /\ m.type \notin sent /\ sent' = sent \cup {m.type}
           /\ m.type = "think" => synch_mode
  <2>1. srv_step > 0 /\ srv_step \in Nat /\ sensed \in Nat
    BY <1>8, Fields DEF Kept, StepsKept
  <2>2. m.type = "think" =>
            /\ \A i \in Places : Type(i) # "think"
            /\ ~think /\ (step = srv_step => acts = 0)
    BY <1>8, Fields DEF Kept, SocketKept, MessageFits, DecisionsKept
  <2>3. sensed >= srv_step \/ \E i \in Places : Type(i) = "sense_body"
    BY <1>8, <2>1 DEF Kept, StepsKept
  <2>4. StepsKept'
    BY <1>1, <1>3, <1>4, <1>8, <2>1 DEF Kept, StepsKept
  <2>5. TimesKept' /\ DecisionsKept'
    <3>1. TimesKept'
      BY DEF Kept, TimesKept, agent, clock, loop, history, decisions
    <3>2. DecisionsKept'
      BY <1>1, <1>8, Fields DEF Kept, DecisionsKept, decisions
    <3> QED
      BY <3>1, <3>2
  <2>6. ASSUME NEW i \in Places' PROVE MessageFits(i)'
    <3>1. CASE i \in Places
      <4>1. net'[i] = net[i] /\ Type(i)' = Type(i) /\ MessageFits(i)
        BY <1>3, <1>4, <3>1 DEF Kept, SocketKept
      <4>2. (\E j \in Places : j < i /\ Type(j) = "sense_body")
                => \E j \in Places' : j < i /\ Type(j)' = "sense_body"
        BY <1>3, <1>4
      <4>3. "think" \in sent => "think" \in sent'
        BY <1>8
      <4> QED
        BY <1>1, <1>8, <4>1, <4>2, <4>3 DEF MessageFits
    <3>2. CASE i = n
      BY <1>1, <1>3, <1>4, <1>8, <2>1, <2>2, <2>3, <3>2, Fields
         DEF Kept, StepsKept, StatusKept, MessageFits, Asking
    <3> QED
      BY <1>3, <3>1, <3>2
  <2>7. ASSUME NEW i \in Places', NEW j \in Places', i < j PROVE PairFits(i, j)'
    <3>1. i \in Places
      BY <1>3, <2>7
    <3>2. CASE j \in Places
      BY <1>1, <1>3, <1>4, <2>7, <3>1, <3>2 DEF Kept, SocketKept, PairFits
    <3>3. CASE j = n
      BY <1>1, <1>3, <1>4, <1>8, <2>2, <3>1, <3>3, Fields
         DEF Kept, SocketKept, MessageFits, PairFits, Asking
    <3> QED
      BY <1>3, <3>2, <3>3
  <2> QED
    BY <1>2, <1>6, <2>4, <2>5, <2>6, <2>7 DEF Kept, SocketKept
<1> QED
  BY <1>7, <1>8

\* No step of the server spoils the account.
LEMMA ServerKept ==
    ASSUME Prompted, IInv, Kept, lost = 0, pc # "exited", Server
    PROVE  Kept' /\ lost' = 0
<1>0. srv_cycle \in Nat /\ srv_step \in Nat
  BY Fields
<1>1. CASE Step \/ \E call \in Calls : StepCall(call)
  <2>1. NextStep
    BY <1>1 DEF Step, StepCall
  <2> QED
    BY <1>1, <2>1, StepsBegin
<1>2. CASE SendSense
  <2> DEFINE m == Message("sense_body", "-")
  <2>1. /\ announced /\ ~announced' /\ Transmit(m)
        /\ UNCHANGED <<agent, synch_mode, srv_cycle, srv_stopped, srv_step>>
    BY <1>2 DEF SendSense
  <2>2. m \in Messages /\ m.type = "sense_body" /\ m.cycle = srv_cycle /\ m.step = srv_step
    BY <1>0, <2>1 DEF Message, Messages
  <2> HIDE DEF m
  <2> QED
    BY <2>1, <2>2, SentKept
<1>3. ASSUME NEW type \in Asking, Send(type) PROVE Kept' /\ lost' = 0
  <2> DEFINE m == Message(type, "-")
  <2>1. /\ ~announced /\ ~announced' /\ Transmit(m)
        /\ type \notin sent /\ sent' = sent \cup {type}
        /\ type = "think" => synch_mode
        /\ UNCHANGED <<agent, synch_mode, srv_cycle, srv_stopped, srv_step>>
    BY <1>3 DEF Send
  <2>2. m \in Messages /\ m.type = type /\ m.cycle = srv_cycle /\ m.step = srv_step
    BY <1>0, <2>1 DEF Message, Messages, Asking
  <2> HIDE DEF m
  <2> QED
    BY <1>3, <2>1, <2>2, SentKept
<1>4. ~KickOff
  BY DEF KickOff, Prompted
<1> QED
  BY <1>1, <1>2, <1>3, <1>4 DEF Server, Asking

\* The message at the front of the socket: what it may be, and of which step.
LEMMA HeadKept ==
    ASSUME IInv, Kept, NEW type, Receive(type)
    PROVE  /\ type \in Asking \cup {"init", "sense_body", "referee"}
           /\ step' \in Nat /\ acts' \in Nat
           /\ type = "init" => step = 0 /\ step' = 0 /\ sensed = 0 /\ acts' = acts
           /\ type = "referee" =>
                 /\ step' = srv_step /\ step < srv_step /\ sensed = step /\ acts' = 0
                 /\ Head(net).cycle = srv_cycle
           /\ type = "sense_body" =>
                 /\ step' = srv_step /\ sensed < srv_step /\ acts' = 0 /\ ~announced
                 /\ Head(net).cycle = srv_cycle /\ sensed <= step /\ step <= srv_step
           /\ type \in Asking =>
                 /\ step' = step /\ acts' = acts /\ sensed = step /\ step > 0
                 /\ Head(net).cycle = time.cycle
           /\ type = "think" => synch_mode /\ "think" \in sent /\ step = srv_step /\ acts = 0
<1>1. /\ 1 \in Places /\ Head(net) = net[1] /\ Type(1) = type /\ Places \subseteq Nat
      /\ MessageFits(1)
  BY Shifted DEF Kept, SocketKept
<1>2. /\ net[1].step \in Nat /\ type \in Asking \cup {"init", "sense_body", "referee"}
      /\ step \in Nat /\ srv_step \in Nat /\ sensed \in Nat /\ acts \in Nat
  BY <1>1, Fields
<1>3. /\ step' = IF net[1].step > step THEN net[1].step ELSE step
      /\ acts' = IF net[1].step > step THEN 0 ELSE acts
  BY <1>1 DEF Receive
<1>4. /\ sensed <= step /\ step <= srv_step
      /\ step < srv_step => sensed = step
  BY DEF Kept, StepsKept
<1>5. CASE type = "init"
  BY <1>1, <1>2, <1>3, <1>4, <1>5 DEF MessageFits, Asking
<1>6. CASE type = "referee"
  BY <1>1, <1>2, <1>3, <1>4, <1>6 DEF MessageFits, Asking
<1>7. CASE type = "sense_body"
  <2>1. sensed < step => acts = 0
    BY DEF Kept, TimesKept
  <2> QED
    BY <1>1, <1>2, <1>3, <1>4, <1>7, <2>1 DEF MessageFits, Asking
<1>8. CASE type \in Asking
  <2>1. ~ \E j \in Places : j < 1
    BY <1>1 DEF Places
  <2>2. net[1].step <= sensed
    BY <1>1, <1>8, <2>1 DEF MessageFits
  <2>3. net[1].step = step /\ sensed = step /\ step > 0
    BY <1>1, <1>2, <1>4, <1>8, <2>2 DEF MessageFits, Asking
  <2> QED
    BY <1>1, <1>2, <1>3, <1>8, <2>3 DEF MessageFits, Asking
<1> QED
  BY <1>2, <1>5, <1>6, <1>7, <1>8

\* What is left in the socket is accounted for as before.
LEMMA ReceivedKept ==
    ASSUME IInv, Kept, NEW type, Receive(type),
           sensed' = IF type = "sense_body" THEN step' ELSE sensed,
           think' = IF type = "think" THEN TRUE ELSE think,
           time'.cycle = IF type \in {"init", "think"} THEN time.cycle ELSE Head(net).cycle
    PROVE  SocketKept'
<1>1. /\ 1 \in Places /\ Head(net) = net[1] /\ Type(1) = type
      /\ \A i \in Places' : i + 1 \in Places /\ net'[i] = net[i + 1] /\ 1 < i + 1
      /\ \A j \in Places : j = 1 \/ (j - 1 \in Places' /\ net'[j - 1] = net[j])
      /\ Places \subseteq Nat /\ Places' \subseteq Nat
  BY Shifted
<1>2. UNCHANGED <<srv_step, srv_cycle, announced, sent, synch_mode>>
  BY DEF Receive, server
<1>3. /\ type \in Asking \cup {"init", "sense_body", "referee"}
      /\ step' \in Nat /\ acts' \in Nat
      /\ type = "init" => step = 0 /\ step' = 0 /\ sensed = 0 /\ acts' = acts
      /\ type = "referee" =>
            /\ step' = srv_step /\ step < srv_step /\ sensed = step /\ acts' = 0
            /\ Head(net).cycle = srv_cycle
      /\ type = "sense_body" =>
            /\ step' = srv_step /\ sensed < srv_step /\ acts' = 0 /\ ~announced
            /\ Head(net).cycle = srv_cycle /\ sensed <= step /\ step <= srv_step
      /\ type \in Asking =>
            /\ step' = step /\ acts' = acts /\ sensed = step /\ step > 0
            /\ Head(net).cycle = time.cycle
      /\ type = "think" => synch_mode /\ "think" \in sent /\ step = srv_step /\ acts = 0
  BY HeadKept
<1>4. /\ step' = IF net[1].step > step THEN net[1].step ELSE step
      /\ step \in Nat /\ net[1].step \in Nat /\ srv_step \in Nat /\ sensed \in Nat
  BY <1>1, Fields DEF Receive
<1>5. ASSUME NEW i \in Places'
      PROVE  /\ Type(i)' = Type(i + 1) /\ MessageFits(i + 1) /\ PairFits(1, i + 1)
             /\ net'[i] = net[i + 1] /\ i + 1 \in Places /\ i \in Nat /\ i + 1 # 1
             /\ net[i + 1].step \in Nat /\ net[i + 1].cycle \in Nat
             /\ Type(i + 1) \in Asking \cup {"init", "sense_body", "referee"}
  <2>1. /\ i + 1 \in Places /\ net'[i] = net[i + 1] /\ 1 < i + 1 /\ i \in Nat
    BY <1>1
  <2>2. MessageFits(i + 1) /\ PairFits(1, i + 1)
    BY <1>1, <2>1 DEF Kept, SocketKept
  <2>3. Type(i)' = Type(i + 1)
    BY <2>1 DEF Type
  <2> QED
    BY <2>1, <2>2, <2>3, Fields
<1>6. ASSUME NEW i \in Places' PROVE MessageFits(i)'
  <2> DEFINE k == i + 1
  <2>1. /\ Type(i)' = Type(k) /\ MessageFits(k) /\ PairFits(1, k)
        /\ net'[i] = net[k] /\ k \in Places /\ k # 1 /\ k \in Nat
        /\ net[k].step \in Nat /\ net[k].cycle \in Nat
        /\ Type(k) \in Asking \cup {"init", "sense_body", "referee"}
    BY <1>5
  <2>2. Type(k) \in Asking => \/ net[k].step <= sensed'
                              \/ \E j \in Places' : j < i /\ Type(j)' = "sense_body"
    <3>1. ASSUME net[k].step <= sensed PROVE net[k].step <= sensed'
      BY <1>3, <1>4, <2>1, <3>1
    <3>2. ASSUME NEW j \in Places, j < k, Type(j) = "sense_body"
          PROVE  \/ net[k].step <= sensed'
                 \/ \E l \in Places' : l < i /\ Type(l)' = "sense_body"
      <4>1. CASE j = 1
        BY <1>1, <1>3, <2>1, <3>2, <4>1 DEF MessageFits
      <4>2. CASE j # 1
        <5>1. j - 1 \in Places' /\ net'[j - 1] = net[j] /\ j - 1 < i
          BY <1>1, <2>1, <3>2, <4>2
        <5>2. PICK l \in Places' : l = j - 1
          BY <5>1
        <5>3. Type(l)' = "sense_body"
          BY <3>2, <5>1, <5>2 DEF Type
        <5> QED
          BY <5>1, <5>2, <5>3
      <4> QED
        BY <4>1, <4>2
    <3> QED
      BY <2>1, <3>1, <3>2 DEF MessageFits
  <2> HIDE DEF k
  <2>3. step' <= net[k].step /\ net[k].step <= srv_step
    BY <1>4, <2>1 DEF MessageFits, PairFits
  <2>4. net[k].step = step' /\ step' > 0 => net[k].cycle = time'.cycle
    <3>1. CASE type = "init"
      BY <1>3, <3>1
    <3>2. CASE type = "think"
      BY <1>3, <2>1, <3>2 DEF MessageFits, Asking
    <3>3. CASE type \in {"see", "hear"}
      BY <1>3, <2>1, <3>3 DEF MessageFits, Asking
    <3>4. CASE type \in {"sense_body", "referee"}
      BY <1>3, <2>1, <3>4 DEF MessageFits, Asking
    <3> QED
      BY <1>3, <3>1, <3>2, <3>3, <3>4 DEF Asking
  <2>5. Type(k) # "init"
    BY <2>1 DEF MessageFits
  <2>6. Type(k) = "referee" => step' < srv_step
    BY <1>1, <1>3, <1>4, <2>1 DEF MessageFits, PairFits, Asking
  <2>7. Type(k) = "sense_body" => sensed' < srv_step
    BY <1>1, <1>3, <2>1 DEF MessageFits, PairFits, Asking
  <2>8. Type(k) = "think" => ~think' /\ (step' = srv_step => acts' = 0)
    BY <1>1, <1>3, <2>1 DEF MessageFits, PairFits, Asking
  <2> QED
    BY <1>2, <2>1, <2>2, <2>3, <2>4, <2>5, <2>6, <2>7, <2>8 DEF MessageFits
<1>7. ASSUME NEW i \in Places', NEW j \in Places', i < j PROVE PairFits(i, j)'
  <2>1. /\ i + 1 \in Places /\ j + 1 \in Places /\ i + 1 < j + 1
        /\ Type(i)' = Type(i + 1) /\ Type(j)' = Type(j + 1)
        /\ net'[i] = net[i + 1] /\ net'[j] = net[j + 1]
    BY <1>5, <1>7
  <2>2. PairFits(i + 1, j + 1)
    BY <2>1 DEF Kept, SocketKept
  <2> QED
    BY <1>2, <2>1, <2>2 DEF PairFits
<1> QED
  BY <1>6, <1>7 DEF SocketKept

\* What a received message leaves of the server's status.
LEMMA StatusReceived ==
    ASSUME IInv, Kept, NEW type, Receive(type),
           type \notin {"init", "referee"} => UNCHANGED cycle_stopped,
           type = "init" => cycle_stopped' = StoppedAfter(Head(net).call, FALSE),
           type = "referee" => cycle_stopped' = StoppedAfter(Head(net).call, cycle_stopped),
           time'.cycle = IF type \in {"init", "think"} THEN time.cycle ELSE Head(net).cycle
    PROVE  StatusKept'
<1>1. /\ 1 \in Places /\ Head(net) = net[1] /\ Type(1) = type
      /\ \A i \in Places' : i + 1 \in Places /\ net'[i] = net[i + 1] /\ 1 < i + 1
      /\ \A j \in Places : j = 1 \/ (j - 1 \in Places' /\ net'[j - 1] = net[j])
      /\ Places \subseteq Nat /\ Places' \subseteq Nat
  BY Shifted
<1>2. UNCHANGED <<srv_step, srv_cycle, srv_stopped>>
  BY DEF Receive, server
<1>3. /\ type \in Asking \cup {"init", "sense_body", "referee"}
      /\ type = "init" => step = 0 /\ step' = 0
      /\ type = "referee" =>
            step' = srv_step /\ step < srv_step /\ Head(net).cycle = srv_cycle
      /\ type = "sense_body" => step' = srv_step /\ Head(net).cycle = srv_cycle
      /\ type \in Asking => step' = step /\ Head(net).cycle = time.cycle
  BY HeadKept
<1>4. \A i \in Places' : Type(i)' = Type(i + 1) /\ Type(i + 1) # "init"
  <2>1. \A j \in Places : Type(j) = "init" => j = 1
    BY DEF Kept, SocketKept, MessageFits
  <2> QED
    BY <1>1, <2>1 DEF Type
<1>5. Believes' = cycle_stopped'
  <2>1. net' # <<>> => 1 \in Places'
    <3>1. net' \in Seq(Messages)
      BY Received
    <3> QED
      BY <3>1 DEF Places
  <2>2. ~(net' # <<>> /\ Type(1)' = "init")
    BY <1>4, <2>1
  <2> QED
    BY <2>2 DEF Believes
<1>6. Believes = IF type = "init" THEN StoppedAfter(Head(net).call, FALSE) ELSE cycle_stopped
  <2>1. net # <<>>
    BY DEF Receive
  <2> QED
    BY <1>1, <2>1 DEF Believes
<1>7. step \in Nat /\ srv_step \in Nat /\ srv_cycle \in Nat
  BY Fields
<1>8. type # "referee" => Believes' = Believes
  BY <1>5, <1>6
<1>9. (\A i \in Places' : Type(i)' # "referee") => srv_stopped' = Believes'
  <2>1. CASE type = "referee"
    BY <1>1, <1>2, <1>5, <1>6, <2>1 DEF Kept, StatusKept
  <2>2. CASE type # "referee"
    <3>1. ASSUME \A i \in Places' : Type(i)' # "referee", NEW j \in Places
          PROVE  Type(j) # "referee"
      <4>1. CASE j = 1
        BY <1>1, <2>2, <4>1
      <4>2. CASE j - 1 \in Places' /\ net'[j - 1] = net[j]
        <5>1. PICK l \in Places' : l = j - 1
          BY <4>2
        <5>2. Type(l)' = Type(j)
          BY <4>2, <5>1 DEF Type
        <5> QED
          BY <3>1, <5>1, <5>2
      <4> QED
        BY <1>1, <4>1, <4>2
    <3> QED
      BY <1>2, <1>8, <2>2, <3>1 DEF Kept, StatusKept
  <2> QED
    BY <2>1, <2>2
<1>10. ASSUME NEW i \in Places', Type(i)' = "referee"
       PROVE  srv_stopped' = StoppedAfter(net'[i].call, Believes')
  <2>1. i + 1 \in Places /\ Type(i + 1) = "referee" /\ net'[i] = net[i + 1] /\ 1 < i + 1
    BY <1>1, <1>4, <1>10
  <2>2. type # "referee"
    <3>1. PairFits(1, i + 1) /\ MessageFits(1)
      BY <1>1, <2>1 DEF Kept, SocketKept
    <3>2. ASSUME type = "referee" PROVE FALSE
      <4>1. net[1].step < srv_step /\ net[1].step = srv_step
        BY <1>1, <2>1, <3>1, <3>2 DEF PairFits, MessageFits
      <4> QED
        BY <1>7, <4>1
    <3> QED
      BY <3>2
  <2> QED
    BY <1>2, <1>8, <2>1, <2>2 DEF Kept, StatusKept
<1>11. /\ step' = srv_step' /\ step' > 0 => time'.cycle = srv_cycle'
       /\ step' < srv_step' \/ step' = 0 => (Believes' => time'.cycle = srv_cycle')
       /\ step' < srv_step' => (~Believes' => time'.cycle < srv_cycle')
  <2>1. CASE type \in {"init", "see", "hear", "think"}
    <3>1. step' = step /\ time'.cycle = time.cycle /\ Believes' = Believes
      BY <1>3, <1>8, <2>1 DEF Asking
    <3> QED
      BY <1>2, <3>1 DEF Kept, StatusKept
  <2>2. CASE type \in {"sense_body", "referee"}
    BY <1>2, <1>3, <1>7, <2>2
  <2> QED
    BY <1>3, <2>1, <2>2 DEF Asking
<1> QED
  BY <1>9, <1>10, <1>11 DEF StatusKept

\* A message received brings the agent to the step it is of.
LEMMA StepsReceived ==
    ASSUME IInv, Kept, NEW type, Receive(type),
           sensed' = IF type = "sense_body" THEN step' ELSE sensed
    PROVE  StepsKept'
<1>1. UNCHANGED <<srv_step, announced, sent>>
  BY DEF Receive, server
<1>2. /\ type \in Asking \cup {"init", "sense_body", "referee"}
      /\ step' \in Nat /\ acts' \in Nat
      /\ type = "init" => step = 0 /\ step' = 0 /\ sensed = 0 /\ acts' = acts
      /\ type = "referee" => step' = srv_step /\ step < srv_step /\ sensed = step
      /\ type = "sense_body" => step' = srv_step
      /\ type \in Asking => step' = step /\ acts' = acts /\ sensed = step
  BY HeadKept
<1>3. step \in Nat /\ srv_step \in Nat /\ sensed \in Nat
  BY Fields
<1>4. ASSUME sensed' < srv_step, ~announced
      PROVE  \E i \in Places' : Type(i)' = "sense_body"
  <2>1. type # "sense_body" /\ sensed < srv_step
    BY <1>2, <1>3, <1>4
  <2>2. PICK j \in Places : Type(j) = "sense_body"
    BY <1>4, <2>1 DEF Kept, StepsKept
  <2>3. j - 1 \in Places' /\ net'[j - 1] = net[j]
    BY <2>1, <2>2, Shifted
  <2>4. PICK l \in Places' : l = j - 1
    BY <2>3
  <2> QED
    BY <2>2, <2>3, <2>4 DEF Type
<1>5. CASE type \in Asking \cup {"init"}
  <2>1. step' = step /\ acts' = acts /\ sensed' = sensed
    BY <1>2, <1>5 DEF Asking
  <2> QED
    BY <1>1, <1>4, <2>1 DEF Kept, StepsKept
<1>6. CASE type \in {"referee", "sense_body"}
  <2>0. srv_step <= step + 1
    BY DEF Kept, StepsKept
  <2>1. step' = srv_step /\ sensed' <= step' /\ step' <= sensed' + 1
    <3>1. CASE type = "referee"
      <4>1. step' = srv_step /\ sensed' = step /\ step < srv_step
        BY <1>2, <3>1
      <4> QED
        BY <1>3, <2>0, <4>1
    <3>2. CASE type = "sense_body"
      <4>1. step' = srv_step /\ sensed' = srv_step
        BY <1>2, <3>2
      <4> QED
        BY <1>3, <4>1
    <3> QED
      BY <1>6, <3>1, <3>2
  <2>2. announced => sensed' < srv_step
    BY <1>2, <1>6, HeadKept DEF Kept, StepsKept
  <2> QED
    BY <1>1, <1>3, <1>4, <2>1, <2>2 DEF Kept, StepsKept
<1> QED
  BY <1>2, <1>5, <1>6

\* A decision is counted for its step only, and a think is answered once.
LEMMA DecisionsReceived ==
    ASSUME IInv, Kept, NEW type, Receive(type),
           sensed' = IF type = "sense_body" THEN step' ELSE sensed,
           think' = IF type = "think" THEN TRUE ELSE think,
           type \in Asking \cup {"init"} => UNCHANGED time,
           OneDecisionPerStep
    PROVE  DecisionsKept' /\ OneDecisionPerStep'
<1>1. UNCHANGED <<srv_step, sent, synch_mode, decided_at>>
  BY DEF Receive, server
<1>2. /\ type \in Asking \cup {"init", "sense_body", "referee"}
      /\ step' \in Nat /\ acts' \in Nat
      /\ type = "init" => step' = step /\ acts' = acts
      /\ type = "referee" => step < srv_step /\ acts' = 0
      /\ type = "sense_body" => sensed < srv_step /\ acts' = 0
      /\ type \in Asking => step' = step /\ acts' = acts /\ sensed = step /\ step > 0
      /\ type = "think" => synch_mode /\ "think" \in sent /\ step = srv_step /\ acts = 0
  BY HeadKept
<1>3. step \in Nat /\ srv_step \in Nat /\ sensed \in Nat
  BY Fields
<1>4. CASE type \in Asking \cup {"init"}
  <2>1. step' = step /\ acts' = acts /\ sensed' = sensed /\ time' = time
    BY <1>2, <1>4 DEF Asking
  <2>2. think' => think \/ type = "think"
    OBVIOUS
  <2>3. think' => /\ synch_mode /\ "think" \in sent /\ acts = 0
                  /\ step > 0 /\ sensed = step /\ step = srv_step
    BY <1>2, <2>2 DEF Kept, DecisionsKept, Asking
  <2> QED
    BY <1>1, <2>1, <2>3 DEF Kept, DecisionsKept, OneDecisionPerStep
<1>5. CASE type \in {"referee", "sense_body"}
  <2>1. acts' = 0 /\ ~think
    BY <1>2, <1>3, <1>5 DEF Kept, DecisionsKept
  <2>2. ~think'
    BY <1>5, <2>1
  <2>3. ~(acts' > 0) /\ acts' <= 1
    BY <2>1
  <2> QED
    BY <2>2, <2>3 DEF DecisionsKept, OneDecisionPerStep
<1> QED
  BY <1>2, <1>4, <1>5

\* A game time is its cycle and the steps it was stopped.
LEMMA TimeParts ==
    /\ \A t \in GameTimes : t = GameTime(t.cycle, t.stopped)
    /\ \A c, s : GameTime(c, s).cycle = c /\ GameTime(c, s).stopped = s
BY DEF GameTimes, GameTime

\* What passes of the wait, before the first sense_body, is nothing.
LEMMA NoWait ==
    ASSUME Kept, Passes, sensed = 0
    PROVE  elapsed' = -1
<1>1. elapsed = -1 /\ ~(-1 \in 0 .. Threshold - 1)
  BY PlayerLoopAssumption DEF Kept, TimesKept
<1> QED
  BY <1>1 DEF Passes

\* The sense_body of a step makes a game time that was never decided.
LEMMA SenseTimes ==
    ASSUME IInv, Kept, GetSenseBody
    PROVE  time'.cycle = srv_cycle /\ TimesKept'
<1>1. /\ Receive("sense_body") /\ Head(net).cycle = srv_cycle
      /\ step' = srv_step /\ sensed < srv_step /\ acts' = 0
      /\ sensed <= step /\ step <= srv_step
  BY HeadKept DEF GetSenseBody
<1>2. /\ sense_time' = time' /\ sensed' = step'
      /\ UNCHANGED <<cycle_stopped, see_time, decided_at, used>>
  BY <1>1 DEF GetSenseBody, Receive
<1>3. /\ time.cycle \in Nat /\ time.stopped \in Nat /\ srv_cycle \in Nat
      /\ time.cycle <= srv_cycle /\ see_time.cycle \in Int
      /\ step \in Nat /\ srv_step \in Nat /\ sensed \in Nat
      /\ \A t \in used : t.cycle \in Nat /\ t.stopped \in Nat
  BY Fields
<1>4. Believes = cycle_stopped
  <2>1. Type(1) = "sense_body"
    BY <1>1, Shifted
  <2> QED
    BY <2>1 DEF Believes
<1>5. cycle_stopped => time.cycle = srv_cycle
  BY <1>1, <1>3, <1>4 DEF Kept, StatusKept
<1>6. ~cycle_stopped => time.cycle < srv_cycle \/ (sensed < step /\ time.cycle = srv_cycle)
  <2>1. CASE step < srv_step
    BY <1>4, <2>1 DEF Kept, StatusKept
  <2>2. CASE step = srv_step
    BY <1>1, <1>3, <2>2 DEF Kept, StatusKept
  <2> QED
    BY <1>1, <1>3, <2>1, <2>2
<1>7. \A t \in used : /\ t.cycle <= time.cycle
                      /\ cycle_stopped /\ t.cycle = time.cycle =>
                            1 <= t.stopped /\ t.stopped <= time.stopped
  BY DEF Kept, TimesKept
<1>8. sensed' = step' /\ sensed' # 0 /\ step' # 0 /\ ~(sensed' < step')
  BY <1>1, <1>2, <1>3
<1>9. UNCHANGED <<cycle_stopped, used, see_time>>
  BY <1>2
<1>10. CASE cycle_stopped
  <2>1. time' = GameTime(srv_cycle, time.stopped + 1)
    BY <1>1, <1>5, <1>10 DEF GetSenseBody, UpdateCurrentTime
  <2>2. time'.cycle = srv_cycle /\ time'.stopped = time.stopped + 1
    BY <2>1, TimeParts
  <2>3. time' \notin used
    BY <1>3, <1>5, <1>7, <1>10, <2>2
  <2>4. \A t \in used : /\ t.cycle <= time'.cycle
                        /\ t.cycle = time'.cycle => 1 <= t.stopped /\ t.stopped <= time'.stopped
    BY <1>3, <1>5, <1>7, <1>10, <2>2
  <2>5. see_time.cycle <= time'.cycle /\ (IF cycle_stopped THEN time'.stopped >= 1 ELSE time'.stopped = 0)
    BY <1>3, <1>10, <2>2 DEF Kept, TimesKept
  <2> QED
    BY <1>2, <1>10, <1>8, <1>9, <2>2, <2>3, <2>4, <2>5 DEF TimesKept
<1>11. CASE ~cycle_stopped
  <2>1. time' = GameTime(srv_cycle, 0)
    BY <1>1, <1>11 DEF GetSenseBody, UpdateCurrentTime
  <2>2. time'.cycle = srv_cycle /\ time'.stopped = 0
    BY <2>1, TimeParts
  <2>3. time' \notin used
    <3>1. CASE time.cycle < srv_cycle
      BY <1>3, <1>7, <2>2, <3>1
    <3>2. CASE sensed < step /\ time.cycle = srv_cycle
      BY <1>11, <2>1, <3>2 DEF Kept, TimesKept
    <3> QED
      BY <1>6, <1>11, <3>1, <3>2
  <2>4. \A t \in used : t.cycle <= time'.cycle
    BY <1>3, <1>7, <2>2
  <2>5. see_time.cycle <= time'.cycle /\ (IF cycle_stopped THEN time'.stopped >= 1 ELSE time'.stopped = 0)
    BY <1>3, <1>11, <2>2 DEF Kept, TimesKept
  <2> QED
    BY <1>2, <1>11, <1>8, <1>9, <2>2, <2>3, <2>4, <2>5 DEF TimesKept
<1> QED
  BY <1>10, <1>11

\* A referee call comes before the sense_body of its step, whose game time is
\* still to be decided.
LEMMA RefereeTimes ==
    ASSUME IInv, Kept, GetReferee
    PROVE  time'.cycle = srv_cycle /\ TimesKept'
<1>1. /\ Receive("referee") /\ Head(net).cycle = srv_cycle
      /\ step' = srv_step /\ step < srv_step /\ sensed = step /\ acts' = 0
  BY HeadKept DEF GetReferee
<1>2. /\ Passes
      /\ UNCHANGED <<sense_time, see_time, decided_at, used, sensed>>
  BY <1>1 DEF GetReferee, Receive
<1>3. /\ time.cycle \in Nat /\ time.stopped \in Nat /\ srv_cycle \in Nat
      /\ time.cycle <= srv_cycle /\ see_time.cycle \in Int
      /\ step \in Nat /\ srv_step \in Nat /\ sensed \in Nat
      /\ \A t \in used : t.cycle \in Nat /\ t.stopped \in Nat
  BY Fields
<1>4. Believes = cycle_stopped
  <2>1. Type(1) = "referee"
    BY <1>1, Shifted
  <2> QED
    BY <2>1 DEF Believes
<1>5. IF cycle_stopped THEN time.cycle = srv_cycle ELSE time.cycle < srv_cycle
  BY <1>1, <1>4 DEF Kept, StatusKept
<1>6. \A t \in used : /\ t.cycle <= time.cycle
                      /\ cycle_stopped /\ t.cycle = time.cycle =>
                            1 <= t.stopped /\ t.stopped <= time.stopped
  BY DEF Kept, TimesKept
<1>7. decided_at = sense_time /\ (decided_at = time \/ see_time.cycle < time.cycle)
  <2>1. CASE step = 0
    BY <1>3, <2>1 DEF Kept, TimesKept, NoTime
  <2>2. CASE step > 0
    BY <1>1, <1>3, <2>2 DEF Kept, StepsKept, TimesKept, DecisionsKept
  <2> QED
    BY <1>3, <2>1, <2>2
<1>8. sensed' = 0 => elapsed' = -1
  BY <1>2, NoWait
<1>9. step' # 0 /\ sensed' < step' /\ sensed' # step' /\ acts' = 0
  BY <1>1, <1>2, <1>3
<1>10. see_time.cycle <= time.cycle
  BY DEF Kept, TimesKept
<1>11. CASE cycle_stopped
  <2>1. time' = time
    BY <1>1, <1>5, <1>11 DEF GetReferee, UpdateCurrentTime
  <2>2. GameTime(time.cycle, 0) \notin used
    <3>1. GameTime(time.cycle, 0).cycle = time.cycle /\ GameTime(time.cycle, 0).stopped = 0
      BY TimeParts
    <3> QED
      BY <1>6, <1>11, <3>1
  <2> QED
    BY <1>2, <1>5, <1>6, <1>7, <1>8, <1>9, <1>10, <1>11, <2>1, <2>2 DEF TimesKept
<1>12. CASE ~cycle_stopped
  <2>1. time' = GameTime(srv_cycle, 0)
    BY <1>1, <1>12 DEF GetReferee, UpdateCurrentTime
  <2>2. time'.cycle = srv_cycle /\ time'.stopped = 0
    BY <2>1, TimeParts
  <2>3. \A t \in used : t.cycle < time'.cycle
    BY <1>3, <1>5, <1>6, <1>12, <2>2
  <2>4. GameTime(time'.cycle, 0) \notin used
    <3>1. GameTime(time'.cycle, 0).cycle = time'.cycle
      BY TimeParts
    <3> QED
      BY <1>3, <2>2, <2>3, <3>1
  <2>5. see_time.cycle < time'.cycle
    BY <1>3, <1>5, <1>10, <1>12, <2>2
  <2>6. \A t \in used : t.cycle <= time'.cycle /\ t.cycle # time'.cycle
    BY <1>3, <2>2, <2>3
  <2>7. see_time.cycle <= time'.cycle
    BY <1>3, <2>2, <2>5
  <2> QED
    BY <1>2, <1>7, <1>8, <1>9, <2>2, <2>4, <2>5, <2>6, <2>7 DEF TimesKept
<1> QED
  BY <1>11, <1>12

\* A see or a message heard, or think, after the sense_body changes no game time.
LEMMA AfterSense ==
    ASSUME IInv, Kept, NEW type \in {"see", "hear"}, Receive(type),
           time' = UpdateCurrentTime(Head(net).cycle, FALSE)
    PROVE  time' = time
<1>1. sensed = step /\ step > 0 /\ Head(net).cycle = time.cycle
  BY HeadKept DEF Asking
<1>2. ~cycle_stopped => time.stopped = 0
  BY <1>1 DEF Kept, TimesKept
<1>3. time = GameTime(time.cycle, time.stopped)
  BY TimeParts DEF IInv, TypeOK
<1> QED
  BY <1>1, <1>2, <1>3 DEF UpdateCurrentTime

\* Times that nothing changes but a see.
LEMMA TimesSame ==
    ASSUME IInv, Kept, Passes, step' = step, acts' = acts,
           UNCHANGED <<time, used, decided_at, sense_time, sensed>>,
           see_time' = see_time \/ (see_time' = time /\ sensed = step /\ step > 0),
           cycle_stopped' = cycle_stopped \/ step = 0
    PROVE  TimesKept'
<1>1. sensed' = 0 => elapsed' = -1
  BY NoWait
<1>2. time.cycle \in Nat /\ step \in Nat /\ sensed \in Nat /\ sensed <= step
  BY Fields DEF Kept, StepsKept
<1>3. CASE step = 0
  BY <1>1, <1>2, <1>3 DEF Kept, TimesKept
<1>4. CASE step # 0 /\ cycle_stopped' = cycle_stopped /\ see_time' = see_time
  BY <1>1, <1>4 DEF Kept, TimesKept
<1>5. CASE step # 0 /\ cycle_stopped' = cycle_stopped /\ see_time' = time /\ sensed = step
  <2>1. see_time'.cycle <= time'.cycle /\ ~(sensed < step)
    BY <1>2, <1>5
  <2> QED
    BY <1>1, <1>5, <2>1 DEF Kept, TimesKept
<1> QED
  BY <1>3, <1>4, <1>5

\* No message received spoils the account.
LEMMA HandlerKept ==
    ASSUME IInv, Kept, OneDecisionPerStep,
           GetInit \/ GetSenseBody \/ GetSee \/ GetHear \/ GetReferee \/ GetThink
    PROVE  Kept' /\ OneDecisionPerStep' /\ UNCHANGED <<lost, used>>
<1>1. CASE GetInit
  <2>1. /\ Receive("init") /\ step = 0 /\ step' = 0 /\ acts' = acts /\ Passes
        /\ cycle_stopped' = StoppedAfter(Head(net).call, FALSE)
        /\ UNCHANGED <<time, sense_time, see_time, think, sensed, lost, used, decided_at>>
    BY <1>1, HeadKept DEF GetInit, Receive
  <2>2. SocketKept' /\ StepsKept' /\ DecisionsKept' /\ OneDecisionPerStep'
    BY <2>1, ReceivedKept, StepsReceived, DecisionsReceived
  <2>3. StatusKept'
    BY <2>1, StatusReceived
  <2>4. TimesKept'
    BY <2>1, TimesSame
  <2> QED
    BY <2>1, <2>2, <2>3, <2>4 DEF Kept
<1>2. CASE GetSenseBody
  <2>1. /\ Receive("sense_body") /\ sensed' = step'
        /\ UNCHANGED <<cycle_stopped, think, lost, used>>
    BY <1>2 DEF GetSenseBody, Receive
  <2>2. time'.cycle = Head(net).cycle /\ TimesKept'
    BY <1>2, <2>1, HeadKept, SenseTimes
  <2>3. SocketKept' /\ StepsKept' /\ DecisionsKept' /\ OneDecisionPerStep'
    BY <2>1, <2>2, ReceivedKept, StepsReceived, DecisionsReceived DEF Asking
  <2>4. StatusKept'
    BY <2>1, <2>2, StatusReceived
  <2> QED
    BY <2>1, <2>2, <2>3, <2>4 DEF Kept
<1>3. ASSUME NEW type \in {"see", "hear"}, Receive(type), Passes,
             time' = UpdateCurrentTime(Head(net).cycle, FALSE),
             see_time' = IF type = "see" THEN time' ELSE see_time,
             UNCHANGED <<cycle_stopped, sense_time, think, sensed>>
      PROVE  Kept' /\ OneDecisionPerStep' /\ UNCHANGED <<lost, used>>
  <2>1. time' = time
    BY <1>3, AfterSense
  <2>2. /\ step' = step /\ acts' = acts /\ sensed = step /\ step > 0
        /\ time.cycle = Head(net).cycle
        /\ UNCHANGED <<lost, used, decided_at>>
    BY <1>3, HeadKept DEF Asking, Receive
  <2>3. type \in Asking /\ type \notin {"init", "think", "sense_body", "referee"}
    BY <1>3 DEF Asking
  <2>4. SocketKept' /\ StepsKept' /\ DecisionsKept' /\ OneDecisionPerStep'
    <3>1. /\ sensed' = IF type = "sense_body" THEN step' ELSE sensed
          /\ think' = IF type = "think" THEN TRUE ELSE think
          /\ time'.cycle = IF type \in {"init", "think"} THEN time.cycle ELSE Head(net).cycle
      BY <1>3, <2>1, <2>2, <2>3
    <3> QED
      BY <1>3, <2>1, <3>1, ReceivedKept, StepsReceived, DecisionsReceived
  <2>5. StatusKept'
    BY <1>3, <2>1, <2>2, <2>3, StatusReceived
  <2>6. TimesKept'
    <3>1. see_time' = see_time \/ see_time' = time
      BY <1>3, <2>1
    <3> QED
      BY <1>3, <2>1, <2>2, <3>1, TimesSame
  <2> QED
    BY <2>2, <2>4, <2>5, <2>6 DEF Kept
<1>4. CASE GetReferee
  <2>1. /\ Receive("referee")
        /\ cycle_stopped' = StoppedAfter(Head(net).call, cycle_stopped)
        /\ UNCHANGED <<think, lost, used, sensed>>
    BY <1>4 DEF GetReferee, Receive
  <2>2. time'.cycle = Head(net).cycle /\ TimesKept'
    BY <1>4, <2>1, HeadKept, RefereeTimes
  <2>3. SocketKept' /\ StepsKept' /\ DecisionsKept' /\ OneDecisionPerStep'
    BY <2>1, <2>2, ReceivedKept, StepsReceived, DecisionsReceived DEF Asking
  <2>4. StatusKept'
    BY <2>1, <2>2, StatusReceived
  <2> QED
    BY <2>1, <2>2, <2>3, <2>4 DEF Kept
<1>5. CASE GetThink
  <2>1. /\ Receive("think") /\ step' = step /\ acts' = acts /\ Passes /\ think' = TRUE
        /\ UNCHANGED <<time, cycle_stopped, sense_time, see_time, sensed, lost, used, decided_at>>
    BY <1>5, HeadKept DEF GetThink, Receive, clock, Asking
  <2>2. SocketKept' /\ StepsKept' /\ DecisionsKept' /\ OneDecisionPerStep'
    BY <2>1, ReceivedKept, StepsReceived, DecisionsReceived
  <2>3. StatusKept'
    BY <2>1, StatusReceived
  <2>4. TimesKept'
    BY <2>1, TimesSame
  <2> QED
    BY <2>1, <2>2, <2>3, <2>4 DEF Kept
<1>6. CASE GetSee
  BY <1>3, <1>6 DEF GetSee
<1>7. CASE GetHear
  BY <1>3, <1>7 DEF GetHear
<1> QED
  BY <1>1, <1>2, <1>4, <1>5, <1>6, <1>7

\* When the agent has drained its socket, it decides only in a step it has
\* sensed and not decided, at a game time it has not used.
LEMMA FreshDecision ==
    ASSUME IInv, Kept,
           \/ think \/ SeenNow
           \/ /\ net = <<>> /\ TimeoutReady
              /\ \E predicted \in BOOLEAN :
                     IsDecisionTiming(timeouts', elapsed', predicted)
    PROVE  acts = 0 /\ step > 0 /\ sensed = step /\ time \notin used
<1>1. /\ step \in Nat /\ sensed \in Nat /\ srv_step \in Nat /\ acts \in Nat
      /\ sensed <= step /\ step <= srv_step /\ time.cycle \in Nat
  BY Fields DEF Kept, StepsKept
<1>2. sensed = step /\ step > 0 /\ acts = 0 => time \notin used
  BY DEF Kept, TimesKept
<1>3. CASE think
  BY <1>1, <1>2, <1>3 DEF Kept, DecisionsKept
<1>4. ASSUME decided_at # time, see_time = time
      PROVE  acts = 0 /\ step > 0 /\ sensed = step /\ time \notin used
  <2>1. acts = 0
    BY <1>1, <1>4 DEF Kept, DecisionsKept
  <2>2. step # 0
    BY <1>4 DEF Kept, TimesKept
  <2>3. ~(sensed < step)
    BY <1>1, <1>4 DEF Kept, TimesKept
  <2> QED
    BY <1>1, <1>2, <2>1, <2>2, <2>3
<1>5. ASSUME net = <<>>, TimeoutReady, NEW predicted \in BOOLEAN,
             IsDecisionTiming(timeouts', elapsed', predicted)
      PROVE  acts = 0 /\ step > 0 /\ sensed = step /\ time \notin used
  <2>1. decided_at # time /\ elapsed' >= 0 /\ elapsed' = Waited
    BY <1>5 DEF IsDecisionTiming, TimeoutReady
  <2>2. acts = 0
    BY <1>1, <2>1 DEF Kept, DecisionsKept
  <2>3. sensed # 0
    <3>1. sensed = 0 => elapsed = -1
      BY DEF Kept, TimesKept
    <3> QED
      BY <2>1, <3>1 DEF Waited
  <2>4. CASE see_time = time
    BY <1>4, <2>1, <2>4
  <2>5. CASE ~(decided_at = sense_time /\ timeouts' <= 2)
    <3>1. ~(sensed < step)
      <4>1. SUFFICES ASSUME sensed < step PROVE FALSE
        OBVIOUS
      <4>2. decided_at = sense_time
        BY <4>1 DEF Kept, TimesKept
      <4>3. announced
        <5>1. Places = {}
          BY <1>5 DEF Places
        <5>2. sensed < srv_step
          BY <1>1, <4>1
        <5> QED
          BY <5>1, <5>2 DEF Kept, StepsKept
      <4>4. timeouts' <= 2
        <5>1. timeouts \in Nat /\ SenseDelay \in 0 .. 2
          BY PlayerLoopAssumption DEF IInv, TypeOK
        <5>2. timeouts < SenseDelay /\ timeouts' = timeouts + 1
          BY <1>5, <4>3 DEF TimeoutReady, NextCount
        <5> QED
          BY <5>1, <5>2
      <4> QED
        BY <2>5, <4>2, <4>4
    <3> QED
      BY <1>1, <1>2, <2>2, <2>3, <3>1
  <2> QED
    BY <1>5, <2>4, <2>5 DEF IsDecisionTiming
<1>6. CASE SeenNow
  BY <1>4, <1>6 DEF SeenNow
<1> QED
  BY <1>3, <1>5, <1>6

\* A decision taken, or not, leaves the account in order.
LEMMA DecisionKept ==
    ASSUME IInv, Kept, OneDecisionPerStep, net = <<>>,
           UNCHANGED <<server, socket, clock, history>>,
           sensed = 0 => elapsed' = -1,
           \/ /\ Decide /\ ~think'
              /\ acts = 0 /\ step > 0 /\ sensed = step
              /\ synch_mode => think
           \/ UNCHANGED <<decided_at, acts, used>> /\ (think' => think)
    PROVE  Kept' /\ OneDecisionPerStep'
<1>1. UNCHANGED <<synch_mode, srv_cycle, srv_stopped, srv_step, announced, sent, net,
                  time, cycle_stopped, sense_time, see_time, step, sensed>>
  BY DEF server, socket, clock, history
<1>2. Places' = {}
  BY <1>1 DEF Places
<1>3. SocketKept'
  BY <1>2 DEF SocketKept
<1>4. Believes' = Believes
  BY <1>1 DEF Believes, Type
<1>5. StatusKept'
  BY <1>1, <1>4 DEF Kept, StatusKept, Places, Type
<1>6. step \in Nat /\ srv_step \in Nat /\ acts \in Nat /\ time.cycle \in Nat
  BY Fields
<1>7. CASE /\ Decide /\ ~think' /\ acts = 0 /\ step > 0 /\ sensed = step
           /\ synch_mode => think
  <2>1. decided_at' = time /\ acts' = 1 /\ used' = used \cup {time}
    BY <1>7 DEF Decide
  <2>2. StepsKept'
    BY <1>1, <2>1 DEF Kept, StepsKept, Places, Type
  <2>3. DecisionsKept'
    <3>1. synch_mode => "think" \in sent
      BY <1>7 DEF Kept, DecisionsKept
    <3> QED
      BY <1>1, <1>7, <2>1, <3>1 DEF DecisionsKept
  <2>4. TimesKept'
    <3>1. cycle_stopped => 1 <= time.stopped
      BY <1>7 DEF Kept, TimesKept
    <3>2. \A t \in used' : /\ t.cycle <= time.cycle
                           /\ cycle_stopped /\ t.cycle = time.cycle =>
                                 1 <= t.stopped /\ t.stopped <= time.stopped
      <4>1. time.stopped \in Nat
        BY Fields
      <4>2. \A t \in used : /\ t.cycle <= time.cycle
                            /\ cycle_stopped /\ t.cycle = time.cycle =>
                                  1 <= t.stopped /\ t.stopped <= time.stopped
        BY DEF Kept, TimesKept
      <4>3. time.cycle <= time.cycle /\ time.stopped <= time.stopped
        BY <1>6, <4>1
      <4> QED
        BY <2>1, <3>1, <4>2, <4>3
    <3> QED
      BY <1>1, <1>6, <1>7, <2>1, <3>2 DEF Kept, TimesKept
  <2>5. OneDecisionPerStep'
    BY <2>1 DEF OneDecisionPerStep
  <2> QED
    BY <1>3, <1>5, <2>2, <2>3, <2>4, <2>5 DEF Kept
<1>8. CASE UNCHANGED <<decided_at, acts, used>> /\ (think' => think)
  <2>1. StepsKept'
    BY <1>1, <1>8 DEF Kept, StepsKept, Places, Type
  <2>2. DecisionsKept'
    BY <1>1, <1>8 DEF Kept, DecisionsKept
  <2>3. TimesKept'
    BY <1>1, <1>8 DEF Kept, TimesKept
  <2>4. OneDecisionPerStep'
    BY <1>8 DEF OneDecisionPerStep
  <2> QED
    BY <1>3, <1>5, <2>1, <2>2, <2>3, <2>4 DEF Kept
<1> QED
  BY <1>7, <1>8

\* The socket drained: whether a think or a see brought a decision or not.
LEMMA DrainedKept ==
    ASSUME IInv, Kept, OneDecisionPerStep, Drained
    PROVE  /\ Kept' /\ OneDecisionPerStep' /\ UNCHANGED <<lost, step>>
           /\ \/ Decide /\ acts = 0 /\ step > 0 /\ time \notin used
              \/ UNCHANGED <<acts, used>>
<1>1. /\ net = <<>> /\ UNCHANGED <<server, socket, clock, history, elapsed>> /\ ~think'
      /\ UNCHANGED <<lost, step>>
  BY DEF Drained, socket, history
<1>2. sensed = 0 => elapsed' = -1
  BY <1>1 DEF Kept, TimesKept
<1>3. CASE think \/ SeenNow
  <2>1. Decide
    BY <1>3 DEF Drained
  <2>2. acts = 0 /\ step > 0 /\ sensed = step /\ time \notin used
    BY <1>3, FreshDecision
  <2>3. synch_mode => think
    BY <1>3 DEF SeenNow
  <2> QED
    BY <1>1, <1>2, <2>1, <2>2, <2>3, DecisionKept
<1>4. CASE ~(think \/ SeenNow)
  <2>1. UNCHANGED <<decided_at, acts, used>>
    BY <1>4 DEF Drained
  <2> QED
    BY <1>1, <1>2, <2>1, DecisionKept
<1> QED
  BY <1>3, <1>4

\* A timeout, with its decision or without.
LEMMA TimeoutKept ==
    ASSUME IInv, Kept, OneDecisionPerStep, Timeout
    PROVE  /\ Kept' /\ OneDecisionPerStep' /\ UNCHANGED <<lost, step>>
           /\ \/ Decide /\ acts = 0 /\ step > 0 /\ time \notin used /\ pc' # "exited"
              \/ UNCHANGED <<acts, used>>
<1>1. /\ net = <<>> /\ UNCHANGED <<server, socket, clock, history, think>> /\ elapsed' = Waited
      /\ UNCHANGED <<lost, step>> /\ TimeoutReady /\ pc = "select"
  BY DEF Timeout, TimeoutReady, socket, history
<1>2. sensed = 0 => elapsed' = -1
  BY <1>1 DEF Kept, TimesKept, Waited
<1>3. ASSUME NEW predicted \in BOOLEAN, IsDecisionTiming(timeouts', elapsed', predicted),
             Decide, pc' = pc
      PROVE  /\ Kept' /\ OneDecisionPerStep' /\ UNCHANGED <<lost, step>>
             /\ Decide /\ acts = 0 /\ step > 0 /\ time \notin used /\ pc' # "exited"
  <2>1. acts = 0 /\ step > 0 /\ sensed = step /\ time \notin used
    BY <1>1, <1>3, FreshDecision
  <2>2. ~synch_mode
    BY <1>3 DEF IsDecisionTiming
  <2>3. ~think'
    BY <1>1, <2>2 DEF Kept, DecisionsKept
  <2> QED
    BY <1>1, <1>2, <1>3, <2>1, <2>2, <2>3, DecisionKept
<1>4. ASSUME UNCHANGED <<decided_at, acts, used>>
      PROVE  Kept' /\ OneDecisionPerStep' /\ UNCHANGED <<acts, used>>
  BY <1>1, <1>2, <1>4, DecisionKept
<1>5. CASE ServerDown(timeouts')
  BY <1>1, <1>4, <1>5 DEF Timeout
<1>6. CASE ~ServerDown(timeouts')
  <2>1. PICK predicted \in BOOLEAN :
            IF IsDecisionTiming(timeouts', elapsed', predicted)
            THEN Decide ELSE UNCHANGED <<decided_at, acts, used>>
    BY <1>6 DEF Timeout
  <2>2. pc' = pc
    BY <1>6 DEF Timeout
  <2> QED
    BY <1>1, <1>3, <1>4, <2>1, <2>2
<1> QED
  BY <1>5, <1>6

\* What a step of the whole may do to the decisions of the step it is in.
Decides ==
    Decide /\ acts = 0 /\ step > 0 /\ time \notin used /\ UNCHANGED step

\* An exited player does nothing more.
LEMMA ExitedIdle ==
    ASSUME pc = "exited", [Next]_vars
    PROVE  UNCHANGED <<pc, byes, acts, step, used>>
<1>1. ~Agent
  BY DEF Agent, GetInit, GetSenseBody, GetSee, GetHear, GetReferee, GetThink, Receive,
         Drained, Timeout, TimeoutReady, SelectFails
<1>2. Server => UNCHANGED agent
  BY DEF Server, Step, SendSense, KickOff, StepCall, Send, NextStep
<1>3. UNCHANGED vars => UNCHANGED agent
  BY DEF vars, agent
<1> QED
  BY <1>1, <1>2, <1>3 DEF Next, agent, loop, decisions, history

\* Nothing is lost.
LEMMA NoLoss == ASSUME Prompted, lost = 0, [Next]_vars PROVE lost' = 0
<1>1. \A m : Transmit(m) => lost' = 0
  BY DEF Transmit, Prompted
<1>2. Server => lost' = 0
  BY <1>1 DEF Server, Step, SendSense, KickOff, StepCall, Send, socket
<1>3. Agent => lost' = 0
  BY DEF Agent, GetInit, GetSenseBody, GetSee, GetHear, GetReferee, GetThink, Receive,
         Drained, Timeout, TimeoutReady, SelectFails, socket
<1> QED
  BY <1>2, <1>3 DEF Next, vars, socket

\* Every step keeps the account, and is a decision, the news of a newer step, or
\* neither.
LEMMA DecisionStep ==
    ASSUME Prompted, IInv, DInv, [Next]_vars
    PROVE  /\ DInv'
           /\ \/ pc # "exited" /\ Decides
              \/ pc # "exited" /\ pc' # "exited" /\ step' > step /\ acts' = 0 /\ used' = used
                 /\ step' \in Nat
              \/ UNCHANGED <<step, acts, used>>
           /\ pc = "exited" => UNCHANGED <<pc, step, acts>>
<1>0. lost' = 0
  BY NoLoss DEF DInv
<1>1. CASE pc = "exited"
  <2>1. UNCHANGED <<pc, acts, step, used>>
    BY <1>1, ExitedIdle
  <2> QED
    BY <1>0, <1>1, <2>1 DEF DInv, OneDecisionPerStep
<1>2. CASE pc # "exited"
  <2>0. Kept /\ OneDecisionPerStep /\ lost = 0
    BY <1>2 DEF DInv
  <2>1. CASE Server
    <3>1. Kept'
      BY <1>2, <2>0, <2>1, ServerKept
    <3>2. UNCHANGED <<step, acts, used>>
      BY <2>1 DEF Server, Step, SendSense, KickOff, StepCall, Send, NextStep,
                  agent, decisions, history
    <3> QED
      BY <1>0, <1>2, <2>0, <3>1, <3>2 DEF DInv, OneDecisionPerStep
  <2>2. CASE GetInit \/ GetSenseBody \/ GetSee \/ GetHear \/ GetReferee \/ GetThink
    <3>1. Kept' /\ OneDecisionPerStep' /\ UNCHANGED <<lost, used>>
      BY <2>0, <2>2, HandlerKept
    <3>2. PICK type : Receive(type)
      BY <2>2 DEF GetInit, GetSenseBody, GetSee, GetHear, GetReferee, GetThink
    <3>3. step \in Nat /\ step' \in Nat /\ Head(net).step \in Nat
      <4>1. Head(net).step \in Nat
        BY <3>2, Received DEF Messages
      <4> QED
        BY <3>2, <4>1, HeadKept, Fields DEF Receive
    <3>4. pc' # "exited" /\ ((step' > step /\ acts' = 0) \/ UNCHANGED <<step, acts>>)
      BY <3>2, <3>3 DEF Receive
    <3> QED
      BY <1>0, <1>2, <3>1, <3>3, <3>4 DEF DInv
  <2>3. CASE Drained
    BY <1>0, <1>2, <2>0, <2>3, DrainedKept DEF DInv, Decides
  <2>4. CASE Timeout
    BY <1>0, <1>2, <2>0, <2>4, TimeoutKept DEF DInv, Decides
  <2>5. CASE SelectFails
    <3>1. pc' = "exited" /\ UNCHANGED <<step, acts, used>>
      BY <2>5 DEF SelectFails, history, decisions
    <3> QED
      BY <1>0, <1>2, <2>0, <3>1 DEF DInv, OneDecisionPerStep
  <2>6. CASE UNCHANGED vars
    <3>1. UNCHANGED <<server, socket, clock, loop, history, decisions>>
      BY <2>6 DEF vars
    <3>2. Believes' = Believes
      BY <3>1 DEF Believes, Type, socket, clock
    <3>3. StepsKept' /\ SocketKept'
      BY <2>0, <3>1 DEF Kept, StepsKept, SocketKept, MessageFits, PairFits, Places, Type,
             server, socket, clock, history, decisions
    <3>4. StatusKept' /\ TimesKept' /\ DecisionsKept'
      BY <2>0, <3>1, <3>2 DEF Kept, StatusKept, TimesKept, DecisionsKept, Places, Type,
             server, socket, clock, loop, history, decisions
    <3> QED
      BY <1>0, <1>2, <2>0, <3>1, <3>3, <3>4
         DEF DInv, Kept, OneDecisionPerStep, decisions, history, loop
  <2> QED
    BY <2>1, <2>2, <2>3, <2>4, <2>5, <2>6 DEF Next, Agent
<1> QED
  BY <1>1, <1>2

\* When the agent joins, nothing is owed.
LEMMA InitKept == Init => DInv
<1> SUFFICES ASSUME Init PROVE DInv
  OBVIOUS
<1> DEFINE first == [type |-> "init", call |-> IF srv_stopped THEN "stop" ELSE "run",
                     cycle |-> srv_cycle, step |-> 0]
<1>1. /\ net = <<first>> /\ net # <<>> /\ net[1] = first /\ Places = {1}
      /\ srv_stopped \in BOOLEAN
  BY DEF Init, Places
<1>2. Type(1) = "init" /\ net[1].step = 0 /\ net[1].cycle = srv_cycle
      /\ net[1].call = IF srv_stopped THEN "stop" ELSE "run"
  BY <1>1 DEF Type
<1> HIDE DEF first
<1>3. StepsKept
  BY DEF Init, StepsKept, Asking
<1>4. SocketKept
  <2>1. MessageFits(1)
    BY <1>2 DEF Init, MessageFits, Asking
  <2> QED
    BY <1>1, <2>1 DEF SocketKept
<1>5. Believes = srv_stopped
  <2>1. Believes = StoppedAfter(net[1].call, FALSE)
    BY <1>1, <1>2 DEF Believes
  <2>2. CASE srv_stopped = TRUE
    BY <1>2, <2>1, <2>2 DEF StoppedAfter
  <2>3. CASE srv_stopped = FALSE
    BY <1>2, <2>1, <2>3 DEF StoppedAfter
  <2> QED
    BY <1>1, <2>2, <2>3
<1>6. StatusKept
  <2>1. time.cycle = 0 /\ step = 0 /\ srv_step = 0 /\ (srv_stopped => srv_cycle = 0)
    BY DEF Init, GameTime
  <2> QED
    BY <1>1, <1>2, <1>5, <2>1 DEF StatusKept
<1>7. TimesKept
  BY DEF Init, TimesKept, GameTime, NoTime
<1>8. DecisionsKept
  BY DEF Init, DecisionsKept
<1> QED
  BY <1>3, <1>4, <1>6, <1>7, <1>8 DEF Init, DInv, Kept, OneDecisionPerStep

\* "already done in current cycle" (isDecisionTiming): however referee calls, sees,
\* thinks and timeouts interleave with a step, and however long it takes, a player
\* that keeps up with a server whose calls come between the steps, and that loses
\* no datagram, decides at most once in it.
THEOREM DecidesOnce == ASSUME Prompted PROVE Spec => []OneDecisionPerStep
<1>1. Init => IInv /\ DInv
  BY InitInv, InitKept
<1>2. IInv /\ DInv /\ [Next]_vars => IInv' /\ DInv'
  BY NextInv, DecisionStep
<1>3. DInv => OneDecisionPerStep
  BY DEF DInv
<1> QED
  BY <1>1, <1>2, <1>3, PTL DEF Spec

\* Under the same hypotheses no game time is decided twice, so that what is cached
\* under a GameTime is of this decision.
THEOREM DecidesFresh == ASSUME Prompted PROVE Spec => FreshTime
<1>1. Init => IInv /\ DInv
  BY InitInv, InitKept
<1>2. IInv /\ DInv /\ [Next]_vars => IInv' /\ DInv'
  BY NextInv, DecisionStep
<1>3. IInv /\ DInv /\ [Next]_vars => [acts' > acts => time \notin used]_vars
  <2> SUFFICES ASSUME IInv, DInv, [Next]_vars, acts' > acts PROVE time \notin used
    OBVIOUS
  <2>1. acts \in Nat
    BY Fields
  <2> QED
    BY <2>1, DecisionStep DEF Decides
<1> QED
  BY <1>1, <1>2, <1>3, PTL DEF Spec, FreshTime

\* Every step of the player is a step that DecisionCycle allows, or no step of it:
\* the news of a newer simulation step, its one decision, or the player's leave.
THEOREM PromiseSteps ==
    ASSUME Prompted PROVE Spec => Promise!Init /\ [][Promise!Next]_(Promise!vars)
<1>1. Init => IInv /\ DInv
  BY InitInv, InitKept
<1>2. IInv /\ DInv /\ [Next]_vars => IInv' /\ DInv'
  BY NextInv, DecisionStep
<1>3. Init => Promise!Init
  BY DEF Init, Promise!Init
<1>4. IInv /\ DInv /\ [Next]_vars => [Promise!Next]_(Promise!vars)
  <2> SUFFICES ASSUME IInv, DInv, [Next]_vars PROVE [Promise!Next]_(Promise!vars)
    OBVIOUS
  <2> DEFINE present == pc # "exited" \/ byes = 0
  <2>1. CASE pc # "exited" /\ Decides
    <3>1. acts = 0 /\ acts' = 1 /\ step > 0 /\ step' = step
      BY <2>1 DEF Decides, Decide
    <3>2. CASE present'
      BY <2>1, <3>1, <3>2 DEF Promise!Next, Promise!Decide
    <3>3. CASE ~present'
      BY <2>1, <3>1, <3>3 DEF Promise!Next, Promise!Leave
    <3> QED
      BY <3>2, <3>3
  <2>2. CASE /\ pc # "exited" /\ pc' # "exited" /\ step' > step /\ acts' = 0
             /\ step' \in Nat
    BY <2>2 DEF Promise!Next, Promise!NewStep
  <2>3. CASE UNCHANGED <<step, acts>> /\ present /\ ~present'
    BY <2>3 DEF Promise!Next, Promise!Leave
  <2>4. CASE UNCHANGED <<step, acts>> /\ ~(present /\ ~present')
    <3>1. ~present => ~present'
      BY ExitedIdle
    <3> QED
      BY <2>4, <3>1 DEF Promise!vars
  <2> QED
    BY <2>1, <2>2, <2>3, <2>4, DecisionStep
<1> QED
  BY <1>1, <1>2, <1>3, <1>4, PTL DEF Spec
==============================================================================
