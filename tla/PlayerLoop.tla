----------------------------- MODULE PlayerLoop -----------------------------
(***************************************************************************)
(* When a player decides: BasicClient::runOnline, PlayerAgent's handlers   *)
(* and the game time they keep (lib/rcsc/common/basic_client.cpp,          *)
(* lib/rcsc/player/player_agent.cpp), against the server's simulation      *)
(* steps.                                                                  *)
(*                                                                         *)
(* The server numbers its cycles but not the steps of a stopped cycle: the *)
(* agent counts those itself, from the sense_body messages it receives     *)
(* while it believes the cycle stopped.  One datagram is received at a     *)
(* time; the agent acts when it has drained its socket, or on a timeout.   *)
(***************************************************************************)
EXTENDS Integers, Sequences, FiniteSets

CONSTANTS
    SynchModes,     \* in its synch mode the server asks for decisions by think
    MidStepCalls,   \* kick_off may come from a monitor, in mid-step
    Prompt,         \* a step starts only when the agent has decided the last
    SenseDelay,     \* timeouts that fit between a referee call and sense_body
    Threshold,      \* wait_thr, in timeouts after the sense_body
    ServerWait,     \* server_wait_seconds, in timeouts
    MaxStep,        \* bound on the server's steps
    MaxCalls,       \* bound on the referee's calls
    MaxLost         \* bound on lost datagrams

ASSUME PlayerLoopAssumption ==
    /\ SynchModes \subseteq BOOLEAN /\ MidStepCalls \in BOOLEAN /\ Prompt \in BOOLEAN
    /\ SenseDelay \in 0 .. 2
    /\ Threshold \in Nat /\ ServerWait \in Nat
    /\ 2 < Threshold /\ Threshold < ServerWait
    /\ MaxStep \in Nat /\ MaxCalls \in Nat /\ MaxLost \in Nat

VARIABLES
    \* the server
    synch_mode,     \* it is in synch mode, from the start
    srv_cycle,      \* its game time
    srv_stopped,    \* its cycle is stopped
    srv_step,       \* steps since the agent joined
    announced,      \* the step has begun, its sense_body has not been sent
    sent,           \* what it has sent since that sense_body
    calls, lost,    \* referee calls and lost datagrams so far
    net,            \* the agent's socket
    ends,           \* history: ends of the game it took while the agent ran
    \* PlayerAgent::Impl and WorldModel
    time,           \* current_time_
    cycle_stopped,  \* server_cycle_stopped_
    decided_at,     \* last_decision_time_
    sense_time,     \* WorldModel::senseBodyTime()
    see_time,       \* WorldModel::seeTime()
    joined,         \* self().unum() is known
    think,          \* think_received_
    \* BasicClient
    pc,             \* in select, draining the socket, or exited
    alive,          \* M_server_alive
    timeouts,       \* timeout_count; waited_msec is a multiple of it
    elapsed,        \* timeouts since the sense_body, at most Threshold, or -1
    byes,           \* bye commands sent
    \* history
    step,           \* the newest step of which a message was processed
    sensed,         \* the newest step whose sense_body was processed
    acts,           \* decisions since the first message of that step
    used            \* the game times decided so far

server == <<synch_mode, srv_cycle, srv_stopped, srv_step, announced, sent, calls>>
socket == <<lost, net, ends>>
clock == <<time, cycle_stopped, sense_time, see_time, joined>>
loop == <<pc, alive, timeouts, elapsed, byes>>
history == <<step, sensed>>
decisions == <<decided_at, think, acts, used>>
vars == <<server, socket, clock, loop, history, decisions>>

GameTime(cycle, stopped) == [cycle |-> cycle, stopped |-> stopped]
GameTimes == [cycle : Nat, stopped : Nat]
NoTime == [cycle |-> -1, stopped |-> 0]

Calls == {"stop", "run", "over", "card"}
Message(type, call) ==
    [type |-> type, call |-> call, cycle |-> srv_cycle', step |-> srv_step']
Messages == [type : {"init", "sense_body", "see", "hear", "referee", "think"},
             call : Calls \cup {"-"}, cycle : Nat, step : Nat]

TypeOK ==
    /\ synch_mode \in BOOLEAN
    /\ srv_cycle \in Nat /\ srv_stopped \in BOOLEAN /\ srv_step \in Nat
    /\ announced \in BOOLEAN
    /\ sent \subseteq {"see", "hear", "think"}
    /\ calls \in Nat /\ lost \in Nat /\ ends \in Nat
    /\ net \in Seq(Messages)
    /\ time \in GameTimes /\ used \subseteq GameTimes
    /\ decided_at \in GameTimes \cup {NoTime}
    /\ sense_time \in GameTimes \cup {NoTime}
    /\ see_time \in GameTimes \cup {NoTime}
    /\ cycle_stopped \in BOOLEAN /\ joined \in BOOLEAN
    /\ think \in BOOLEAN /\ alive \in BOOLEAN
    /\ pc \in {"select", "drain", "exited"}
    /\ timeouts \in 0 .. (IF pc = "exited" THEN ServerWait + 1 ELSE ServerWait)
    /\ elapsed \in -1 .. Threshold
    /\ byes \in Nat /\ step \in Nat /\ sensed \in Nat /\ acts \in Nat

\* The agent has sent init and the server has accepted it, before the first
\* kick-off or while the game runs.
Init ==
    /\ synch_mode \in SynchModes
    /\ srv_stopped \in BOOLEAN
    /\ srv_cycle \in IF srv_stopped THEN {0} ELSE {0, 1}
    /\ srv_step = 0
    /\ announced = FALSE
    /\ sent = {"see", "hear", "think"}
    /\ calls = 0 /\ lost = 0 /\ ends = 0
    /\ net = << [type |-> "init", call |-> IF srv_stopped THEN "stop" ELSE "run",
                 cycle |-> srv_cycle, step |-> 0] >>
    /\ time = GameTime(0, 0)
    /\ cycle_stopped = TRUE
    /\ decided_at = NoTime /\ sense_time = NoTime /\ see_time = NoTime
    /\ joined = FALSE /\ think = FALSE
    /\ pc = "select" /\ alive = TRUE
    /\ timeouts = 0 /\ elapsed = -1
    /\ byes = 0
    /\ step = 0 /\ sensed = 0 /\ acts = 0 /\ used = {}

-----------------------------------------------------------------------------
(* The server                                                              *)

EndsGame(message) == message.type = "referee" /\ message.call = "over"

\* A datagram reaches the socket in order, or is lost.
Transmit(message) ==
    \/ /\ net' = Append(net, message) /\ UNCHANGED lost
       /\ ends' = IF EndsGame(message) /\ pc # "exited" THEN ends + 1 ELSE ends
    \/ lost < MaxLost /\ lost' = lost + 1 /\ UNCHANGED <<net, ends>>

agent == <<clock, loop, history, decisions>>

\* The mode announced by a call stops the cycle, lets it run, or is no mode.
StoppedAfter(call, was_stopped) ==
    CASE call = "stop" -> TRUE
      [] call \in {"run", "over"} -> FALSE
      [] OTHER -> was_stopped

NextStep ==
    /\ ~announced /\ announced' = TRUE
    /\ srv_step < MaxStep /\ srv_step' = srv_step + 1
    /\ srv_cycle' = IF srv_stopped THEN srv_cycle ELSE srv_cycle + 1
    /\ Prompt => srv_step = 0 \/ pc = "exited" \/ (step = srv_step /\ acts > 0)
    /\ UNCHANGED <<synch_mode, sent, agent>>

\* A step with no change of mode.
Step ==
    /\ NextStep
    /\ UNCHANGED <<srv_stopped, calls, socket>>

\* A step in which the referee announces something.  The end of the game may
\* be announced more than once: time_up, time_over, the winner on penalties.
StepCall(call) ==
    /\ NextStep
    /\ calls < MaxCalls /\ calls' = calls + 1
    /\ call = "stop" => ~srv_stopped
    /\ call = "run" => srv_stopped
    /\ srv_stopped' = StoppedAfter(call, srv_stopped)
    /\ Transmit(Message("referee", call))

SendSense ==
    /\ announced /\ announced' = FALSE
    /\ sent' = {}
    /\ UNCHANGED <<synch_mode, srv_cycle, srv_stopped, srv_step, calls, agent>>
    /\ Transmit(Message("sense_body", "-"))

Send(type) ==
    /\ ~announced
    /\ type \notin sent /\ sent' = sent \cup {type}
    /\ type = "think" => synch_mode
    /\ UNCHANGED <<synch_mode, srv_cycle, srv_stopped, srv_step, announced, calls,
                   agent>>
    /\ Transmit(Message(type, "-"))

\* The kick-off button of a monitor, or a trainer, in mid-step.
KickOff ==
    /\ MidStepCalls
    /\ ~announced /\ srv_stopped /\ srv_stopped' = FALSE
    /\ calls < MaxCalls /\ calls' = calls + 1
    /\ UNCHANGED <<synch_mode, srv_cycle, srv_step, announced, sent, agent>>
    /\ Transmit(Message("referee", "run"))

Server ==
    \/ Step \/ SendSense \/ KickOff
    \/ \E call \in Calls : StepCall(call)
    \/ \E type \in {"see", "hear", "think"} : Send(type)

-----------------------------------------------------------------------------
(* The agent                                                               *)

\* Mutant: the sense_body of a stopped cycle counts a cycle.
UpdateCurrentTime_Cycle(c, by_sense_body) ==
    IF ~cycle_stopped \/ c # time.cycle THEN GameTime(c, 0)
    ELSE IF by_sense_body THEN GameTime(c + 1, 0)
    ELSE time

\* updateCurrentTime: the game time after a message of server cycle c.
UpdateCurrentTime(c, by_sense_body) ==
    IF ~cycle_stopped \/ c # time.cycle THEN GameTime(c, 0)
    ELSE IF by_sense_body THEN GameTime(c, time.stopped + 1)
    ELSE time

\* select returns on a message, which resets the wait, and handleMessage
\* receives it; less than one interval has passed.
Receive(type) ==
    /\ pc \in {"select", "drain"} /\ pc' = "drain"
    /\ net # <<>> /\ net' = Tail(net) /\ Head(net).type = type
    /\ timeouts' = 0
    /\ step' = IF Head(net).step > step THEN Head(net).step ELSE step
    /\ acts' = IF Head(net).step > step THEN 0 ELSE acts
    /\ UNCHANGED <<server, lost, ends, decided_at, used>>

Passes ==
    elapsed' \in {elapsed, IF elapsed \in 0 .. Threshold - 1 THEN elapsed + 1 ELSE elapsed}

\* analyzeInit: also updateServerStatus.
GetInit ==
    /\ Receive("init")
    /\ cycle_stopped' = StoppedAfter(Head(net).call, FALSE)
    /\ joined' = TRUE
    /\ Passes
    /\ UNCHANGED <<time, sense_time, see_time, think, alive, byes, sensed>>

GetSenseBody ==
    /\ Receive("sense_body")
    /\ time' = UpdateCurrentTime(Head(net).cycle, TRUE)
    /\ sense_time' = time'
    /\ elapsed' = 0
    /\ sensed' = step'
    /\ UNCHANGED <<cycle_stopped, see_time, joined, think, alive, byes>>

GetSee ==
    /\ Receive("see")
    /\ time' = UpdateCurrentTime(Head(net).cycle, FALSE)
    /\ see_time' = time'
    /\ Passes
    /\ UNCHANGED <<cycle_stopped, sense_time, joined, think, alive, byes, sensed>>

\* A message of a player or of a coach.
GetHear ==
    /\ Receive("hear")
    /\ time' = UpdateCurrentTime(Head(net).cycle, FALSE)
    /\ Passes
    /\ UNCHANGED <<cycle_stopped, sense_time, see_time, joined, think, alive,
                   byes, sensed>>

\* analyzeHearReferee: updateServerStatus; the end of the game is answered
\* with bye.  A card or an unknown call leaves the status alone.
GetReferee ==
    /\ Receive("referee")
    /\ time' = UpdateCurrentTime(Head(net).cycle, FALSE)
    /\ cycle_stopped' = StoppedAfter(Head(net).call, cycle_stopped)
    /\ IF Head(net).call = "over"
       THEN alive' = FALSE /\ byes' = byes + 1
       ELSE UNCHANGED <<alive, byes>>
    /\ Passes
    /\ UNCHANGED <<sense_time, see_time, joined, think, sensed>>

GetThink ==
    /\ Receive("think")
    /\ think' = TRUE
    /\ Passes
    /\ UNCHANGED <<clock, alive, byes, sensed>>

\* action(): the commands of this game time are sent.
Decide ==
    /\ decided_at' = time
    /\ acts' = acts + 1
    /\ used' = used \cup {time}

\* Mutants: bye without a look at the server's state; a see decides again.
ByesAfterExit_Always(server_alive) == byes + 1
SeenNow_Again == ~synch_mode /\ see_time = time

\* finalize(): a server that is still alive is told.
ByesAfterExit(server_alive) == IF server_alive THEN byes + 1 ELSE byes

\* The rest of handleMessage, once the socket is drained.
SeenNow == ~synch_mode /\ decided_at # time /\ see_time = time

Drained ==
    /\ pc = "drain" /\ net = <<>>
    /\ IF think \/ SeenNow THEN Decide ELSE UNCHANGED <<decided_at, acts, used>>
    /\ think' = FALSE
    /\ IF alive THEN pc' = "select" /\ UNCHANGED byes
       ELSE pc' = "exited" /\ byes' = ByesAfterExit(alive)
    /\ UNCHANGED <<server, socket, clock, alive, timeouts, elapsed, history>>

\* Mutants: the decision of the sense_body's cycle is forgotten; a decision
\* needs a see.
IsDecisionTiming_NoGuard(count, waited, predicted) ==
    /\ ~synch_mode /\ waited >= 0 /\ decided_at # time /\ joined
    /\ see_time = time \/ predicted \/ waited >= Threshold

IsDecisionTiming_SeeOnly(count, waited, predicted) ==
    /\ ~synch_mode /\ waited >= 0 /\ decided_at # time /\ joined
    /\ see_time = time

\* isDecisionTiming, at the count-th timeout; predicted: no see is expected.
IsDecisionTiming(count, waited, predicted) ==
    /\ ~synch_mode
    /\ waited >= 0
    /\ decided_at # time
    /\ joined
    /\ \/ see_time = time
       \/ /\ ~(decided_at = sense_time /\ count <= 2)
          /\ predicted \/ waited >= Threshold

Waited == IF elapsed = -1 \/ elapsed = Threshold THEN elapsed ELSE elapsed + 1

\* Mutant: the count of timeouts is set, not increased.
NextCount_Once(count) == 1

\* runOnline: timeout_count, the timeouts in a row.
NextCount(count) == count + 1

\* select times out, and handleTimeout gives the server up or may decide.  The
\* sense_body follows a referee's call within SenseDelay timeouts; the think of a
\* step comes before the server would be given up.
TimeoutReady ==
    /\ pc = "select" /\ net = <<>>
    /\ announced => timeouts < SenseDelay
    /\ synch_mode /\ "think" \notin sent => timeouts < ServerWait
    /\ timeouts' = NextCount(timeouts)
    /\ elapsed' = Waited
    /\ UNCHANGED <<server, socket, clock, history, think>>

\* Mutant: the server is given up one timeout late.
ServerDown_Late(count) == count > ServerWait + 1

ServerDown(count) == count > ServerWait

Timeout ==
    /\ TimeoutReady
    /\ IF ServerDown(timeouts')
       THEN /\ alive' = FALSE /\ pc' = "exited"
            /\ byes' = ByesAfterExit(alive')
            /\ UNCHANGED <<decided_at, acts, used>>
       ELSE /\ UNCHANGED <<alive, pc, byes>>
            /\ \E predicted \in BOOLEAN :
                  IF IsDecisionTiming(timeouts', elapsed', predicted)
                  THEN Decide
                  ELSE UNCHANGED <<decided_at, acts, used>>

\* select fails: the loop is left, and handleExit says bye to the server.
SelectFails ==
    /\ pc = "select" /\ pc' = "exited"
    /\ alive' = FALSE /\ byes' = ByesAfterExit(alive)
    /\ UNCHANGED <<server, socket, clock, timeouts, elapsed, history, decisions>>

Agent ==
    \/ GetInit \/ GetSenseBody \/ GetSee \/ GetHear \/ GetReferee \/ GetThink
    \/ Drained \/ Timeout \/ SelectFails

Next == Server \/ Agent

\* In its synch mode the server asks for a decision in every step; select
\* always returns, with a message or with a timeout.
Fairness ==
    /\ WF_vars(SendSense)
    /\ WF_vars(Send("think"))
    /\ WF_vars(GetInit \/ GetSenseBody \/ GetSee \/ GetHear \/ GetReferee
                \/ GetThink \/ Drained \/ Timeout)

Spec == Init /\ [][Next]_vars /\ Fairness

-----------------------------------------------------------------------------
(* Properties                                                              *)

\* "already done in current cycle": a player decides at most once in a step,
\* however referee calls, sees and timeouts interleave with it.
OneDecisionPerStep == acts <= 1

\* GameTime is the key of every value cached for a decision (in the world
\* model, the intercept table, the positions): no time is decided twice.
FreshTime == [][acts' > acts => time \notin used]_vars

\* A sensed step is decided by timeout even if nothing more arrives, unless a
\* newer step comes first or the player has said bye.  A loss before it may
\* hide a stopped cycle, whose steps the agent then does not tell apart.
StepDecided ==
    \A n \in 1 .. MaxStep :
        (~synch_mode /\ lost = 0 /\ step = n /\ sensed = n /\ acts = 0)
            ~> (acts > 0 \/ step > n \/ byes > 0)

\* A player whose server falls silent, or ends the game, exits.
Terminates == <>(pc = "exited")

\* No end of the game that arrives while the player runs goes unanswered: it is
\* still to be read, or was answered with a bye, also when several come in one
\* batch.  A server is given up only if none arrived, and is not told; any other
\* exit comes with as many byes as ends, or with one (a failed select).
Unread == {i \in 1 .. Len(net) : EndsGame(net[i])}

ByesAnswerEnds ==
    /\ pc # "exited" => byes + Cardinality(Unread) = ends
    /\ pc = "exited" =>
          IF timeouts > ServerWait THEN byes = 0 /\ ends = 0
          ELSE byes > 0 /\ byes \in {1, ends}

\* The player keeps the promise of DecisionCycle; only a bye releases it, not
\* that it has given the server up.
Promise == INSTANCE DecisionCycle WITH up <- pc # "exited" \/ byes = 0
KeepsPromise == Promise!Spec

\* The agent's cycle follows the server's and never goes back.
FollowsServer ==
    /\ time.cycle <= srv_cycle
    /\ \A i \in 1 .. Len(net) :
          time.cycle <= net[i].cycle /\ net[i].cycle <= srv_cycle
=============================================================================
