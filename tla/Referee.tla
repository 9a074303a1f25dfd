------------------------------ MODULE Referee -------------------------------
(***************************************************************************)
(* The referee's calls and what the players of our team make of them: game *)
(* mode and server status (lib/rcsc/player/player_agent.cpp), the start of *)
(* a set play and the penalty shootout (lib/rcsc/player/world_model.cpp),  *)
(* the queued intention (team/src/intention_receive.cpp, sample_player.cpp)*)
(*                                                                         *)
(* Players may miss a call, and one may be restarted and reconnect.  Every *)
(* player senses and decides once in every step, as PlayerLoop shows.      *)
(***************************************************************************)
EXTENDS GameMode

CONSTANTS
    Receivers,      \* the players that hear passes: the others have no intention
    IntentionSteps, \* the steps of IntentionReceive: 5
    MaxIdle,        \* bound on the steps without a call
    MaxCalls,       \* bound on the referee's calls before a shootout
    MaxKicks,       \* bound on the kicks of a shootout
    MaxLost,        \* bound on calls that do not arrive
    MaxRejoin       \* bound on restarts of a player

ASSUME RefereeAssumption ==
    /\ Receivers \subseteq 1 .. TeamSize
    /\ IntentionSteps \in Nat /\ MaxIdle \in Nat /\ MaxCalls \in Nat
    /\ MaxKicks \in Nat /\ MaxLost \in Nat /\ MaxRejoin \in Nat

VARIABLES
    our_side,
    \* the referee
    pm,         \* the call in force
    cycle,      \* the server's cycle
    step,       \* its steps
    phase,      \* the step has begun, a call has been made, sense_body is sent
    idle, calls, lost, rejoined,
    goals,      \* by side
    setups,     \* penalty kicks set up, by side
    scores,     \* penalty kicks scored, by side
    field,      \* the side of the goal that penalty kicks are taken at
    turn,       \* the player whose turn it is to take our penalty kick
    kick,       \* the free kick in force is a goalie's
    placed,     \* the cycle of the last call that stopped play
    dead,       \* the step of the last call of a dead ball
    \* the players
    player,
    past        \* what each has missed

announced == <<pm, calls, goals, setups, scores, field, turn, kick,
               placed, dead>>
clock == <<cycle, step, idle>>
vars == <<our_side, announced, clock, phase, lost, rejoined, player, past>>

Players == 1 .. TeamSize
Goalie == 1

GameTime(c, stopped) == [cycle |-> c, stopped |-> stopped]
NoTime == GameTime(-1, 0)

NoIntention == [left |-> 0, last |-> -1, born |-> -1, step |-> -1]

\* A player's state: GameMode of the agent and of its world model,
\* server_cycle_stopped_, current_time_, last_decision_time_,
\* M_last_set_play_start_time, PenaltyKickState, the queued intention.
Fresh ==
    [mode |-> InitialMode(NoTime), world |-> InitialMode(NoTime), stopped |-> TRUE,
     time |-> GameTime(0, 0), decided |-> NoTime, start |-> GameTime(0, 0),
     pk |-> InitialPenalty, intention |-> NoIntention]

\* What it has missed: the last call was lost or unknown, or it has just been
\* restarted; it heard a call again in this step; the sides whose last goal it has
\* not heard; the penalty kicks it has not heard; whether it heard where they are
\* taken, and the catch in force; whether it missed nothing.
NothingMissed ==
    [astray |-> FALSE, returned |-> FALSE, unsure |-> {}, setups |-> [s \in Sides |-> 0],
     scores |-> [s \in Sides |-> 0], onfield |-> FALSE, catch |-> FALSE, whole |-> TRUE]

Times == [cycle : Nat \cup {-1}, stopped : Nat]
Modes == [type : Sided \cup Neutral, side : Sides \cup {"neutral"}, time : Times,
          left : Nat, right : Nat]
Takers == [side : Sides, unum : Players] \cup {NoTaker}
Penalties == [onfield : Sides \cup {"neutral"}, our_count : Nat, their_count : Nat,
              our_score : Nat, their_score : Nat, taker : Takers]
Intentions == [left : Nat, last : Int, born : Int, step : Int]

TypeOK ==
    /\ our_side \in Sides
    /\ pm.name \in Sided \cup Neutral \cup {"drop_ball", "foul", "half_time", "time_up",
                                            "penalty_draw", "unknown", "unknown stop"}
    /\ cycle \in Nat /\ step \in Nat /\ phase \in {"begun", "called", "sensed"}
    /\ idle \in Nat /\ calls \in Nat /\ lost \in Nat /\ rejoined \in Nat
    /\ goals \in [Sides -> Nat] /\ setups \in [Sides -> Nat] /\ scores \in [Sides -> Nat]
    /\ field \in Sides \cup {"neutral"} /\ turn \in Players
    /\ kick \in BOOLEAN /\ placed \in Nat /\ dead \in Nat
    /\ player \in [Players -> [mode : Modes, world : Modes, stopped : BOOLEAN,
                               time : Times, decided : Times, start : Times, pk : Penalties,
                               intention : Intentions]]
    /\ past \in [Players -> [astray : BOOLEAN, returned : BOOLEAN, unsure : SUBSET Sides,
                             setups : [Sides -> Int], scores : [Sides -> Int],
                             onfield : BOOLEAN, catch : BOOLEAN, whole : BOOLEAN]]

-----------------------------------------------------------------------------
(* The players                                                             *)

\* updateServerStatus: server_cycle_stopped_ after a call that was understood.
UpdateServerStatus(mode) == IsServerCycleStoppedMode(mode.type)

\* updateCurrentTime.
UpdateCurrentTime(p, c, by_sense_body) ==
    IF ~p.stopped \/ c # p.time.cycle THEN GameTime(c, 0)
    ELSE IF by_sense_body THEN GameTime(c, p.time.stopped + 1)
    ELSE p.time

\* Mutant: a free kick always continues the set play before.
NewSetPlay_Kick(old, new) ==
    /\ ~IsPenaltyKickMode(new) /\ new # "PlayOn"
    /\ old # new /\ new # "FreeKick_"

\* WorldModel::updateGameMode: a new set play starts, unless the kick follows an
\* offence or there is no set play.
NewSetPlay(old, new) ==
    /\ ~IsPenaltyKickMode(new) /\ new # "PlayOn"
    /\ \/ /\ old # new
          /\ ~(new = "FreeKick_" /\ old \in {"OffSide_", "FoulCharge_", "FoulPush_",
                                            "BackPass_", "FreeKickFault_",
                                            "CatchFault_", "IndFreeKick_"})
       \/ old = new /\ new = "FreeKick_"

\* Mutant: any penalty mode keeps the intention.
KeepsIntention_Penalty(type) == type = "PlayOn" \/ IsPenaltyKickMode(type)

KeepsIntention(type) == type \in {"PlayOn", "PenaltyTaken_"}

\* analyzeHearReferee: an unknown call reads as play_on, and neither the server
\* status nor the world model hears of it.  The end is answered with bye.
Hear(p, call, side, c) ==
    LET time == UpdateCurrentTime(p, c, FALSE)
        mode == UpdateMode(p.mode, IF Known(call) THEN call ELSE Call("PlayOn", "neutral"),
                           time)
        timed == [p EXCEPT !.time = time, !.mode = mode]
        status == [timed EXCEPT !.stopped = UpdateServerStatus(mode)]
    IN  IF ~Known(call) THEN timed
        ELSE IF IsGameEndMode(mode.type) THEN status
        ELSE [status EXCEPT
                !.world = mode,
                !.start = IF NewSetPlay(p.world.type, mode.type) THEN time ELSE @,
                !.pk = IF IsPenaltyKickMode(mode.type)
                       THEN UpdatePenalty(p.pk, mode, side) ELSE @,
                !.intention = IF KeepsIntention(mode.type) THEN @ ELSE NoIntention]

\* Mutant: an intention ends only when a cycle was missed.
Finished_NoSteps(intention, time) == intention.left < 0 \/ intention.last < time.cycle - 1

\* IntentionReceive::finished, but for where the player and the ball are.
Finished(intention, time) ==
    intention.left <= 0 \/ intention.last < time.cycle - 1

\* doIntention.
Execute(p) ==
    IF p.intention = NoIntention THEN p
    ELSE IF Finished(p.intention, p.time) THEN [p EXCEPT !.intention = NoIntention]
    ELSE [p EXCEPT !.intention.left = @ - 1, !.intention.last = p.time.cycle]

Receive(p) ==
    [p EXCEPT !.intention = [left |-> IntentionSteps, last |-> p.time.cycle,
                             born |-> p.time.cycle, step |-> step]]

\* SamplePlayer::doPreprocess: the intention after a decision, by what the
\* player finds first.  Before a kick-off it looks at none of it.
Decide(p, choice) ==
    IF choice = "search" \/ p.world.type \in {"BeforeKickOff", "AfterGoal_"} THEN p
    ELSE CASE choice \in {"shoot", "finished"} -> [p EXCEPT !.intention = NoIntention]
           [] choice = "carry on" -> Execute(p)
           [] choice = "pass" -> Receive(p)

\* A sense_body of a new game time leads to a decision.
Sense(p, c, choice) ==
    LET timed == [p EXCEPT !.time = UpdateCurrentTime(p, c, TRUE)]
    IN  IF timed.time = p.decided THEN timed
        ELSE [Decide(timed, choice) EXCEPT !.decided = timed.time]

\* analyzeInit, after reconnect: the world model is not told the mode.
Reconnect(call) ==
    LET new == Fresh
        mode == UpdateMode(new.mode, call, new.time)
    IN  [new EXCEPT !.mode = mode, !.stopped = UpdateServerStatus(mode)]

-----------------------------------------------------------------------------
(* The referee                                                             *)

\* The server's clock does not run.
ClockStops(call) ==
    call.name \in {"BeforeKickOff", "AfterGoal_", "OffSide_", "FoulCharge_",
                  "CatchFault_", "unknown stop"}

\* Another call follows in the same step.
Passing(call) ==
    call.name \in {"foul", "drop_ball", "half_time", "PenaltyOnfield_", "GoalieCatch_"}

Shootout(call) == Parse(call)[1] \in {"PenaltyReady_", "PenaltyTaken_", "PenaltyMiss_",
                                     "PenaltyScore_", "PenaltySetup_", "PenaltyOnfield_"}

Goal(side) == [Call("AfterGoal_", side) EXCEPT !.score = goals[side] + 1]
Each(names) == {Call(name, side) : name \in names, side \in Sides}
One(names) == {Call(name, "neutral") : name \in names}

\* What the referee may call next.
NextCalls ==
    CASE pm.name = "BeforeKickOff" -> Each({"KickOff_"})
      [] pm.name = "KickOff_"      -> One({"PlayOn"})
      [] pm.name = "PlayOn" ->
            Each({"OffSide_", "FoulCharge_", "CatchFault_", "FoulMultipleAttacker_",
                  "foul", "KickIn_", "GoalieCatch_"})
            \cup One({"unknown", "unknown stop", "half_time", "time_up"})
            \cup {Goal(side) : side \in Sides}
      [] pm.name = "AfterGoal_"    -> {Call("KickOff_", Opposite(pm.side))}
      [] pm.name \in {"OffSide_", "FoulCharge_", "CatchFault_", "FoulMultipleAttacker_",
                      "foul"} -> {Call("FreeKick_", Opposite(pm.side))}
      [] pm.name = "GoalieCatch_"  -> {Call("FreeKick_", pm.side)}
      [] pm.name = "FreeKick_"     -> One({"PlayOn", "drop_ball"}) \cup Each({"FreeKick_"})
      [] pm.name = "KickIn_"       -> One({"PlayOn", "drop_ball"})
      [] pm.name = "drop_ball"     -> One({"PlayOn"})
      [] pm.name \in {"unknown", "unknown stop"} -> One({"PlayOn"}) \cup Each({"FreeKick_"})
      [] pm.name = "half_time"     -> One({"BeforeKickOff"})
      [] pm.name = "FirstHalfOver" -> Each({"PenaltyOnfield_"})
      [] pm.name = "PenaltyOnfield_" -> Each({"PenaltySetup_"})
      [] pm.name = "PenaltySetup_" -> {Call("PenaltyReady_", pm.side)}
      [] pm.name = "PenaltyReady_" -> {Call("PenaltyTaken_", pm.side)}
      [] pm.name = "PenaltyTaken_" ->
            {Call(name, pm.side) : name \in {"PenaltyMiss_", "PenaltyScore_"}}
      [] pm.name \in {"PenaltyMiss_", "PenaltyScore_"} ->
            {Call("PenaltySetup_", Opposite(pm.side))} \cup One({"penalty_draw"})
      [] OTHER -> {}

Count(condition, count, side) ==
    IF condition THEN [count EXCEPT ![side] = @ + 1] ELSE count

\* What a player that is deaf to this call, or hears it, has missed.
Missing(p, call, deaf) ==
    [astray |-> deaf \/ ~Known(call),
     returned |-> ~deaf /\ Known(call) /\ (p.astray \/ p.returned),
     unsure |-> IF call.name # "AfterGoal_" THEN p.unsure
                ELSE IF deaf THEN p.unsure \cup {call.side}
                ELSE p.unsure \ {call.side},
     setups |-> Count(deaf /\ call.name = "PenaltySetup_", p.setups, call.side),
     scores |-> Count(deaf /\ call.name = "PenaltyScore_", p.scores, call.side),
     onfield |-> IF call.name = "PenaltyOnfield_" THEN ~deaf ELSE p.onfield,
     catch |-> IF call.name = "GoalieCatch_" THEN ~deaf ELSE p.catch,
     whole |-> p.whole /\ ~deaf /\ Known(call)]

\* The referee's calls of a step come before its sense_body.
Announce(call, deaf) ==
    /\ phase = "begun" \/ (phase = "called" /\ Passing(pm))
    /\ phase' = "called"
    /\ calls' = IF Shootout(call) THEN calls ELSE calls + 1
    /\ calls' <= MaxCalls
    /\ lost' = lost + Cardinality(deaf) /\ lost' <= MaxLost
    /\ pm' = call
    /\ goals' = Count(call.name = "AfterGoal_", goals, call.side)
    /\ setups' = Count(call.name = "PenaltySetup_", setups, call.side)
    /\ setups'["l"] + setups'["r"] <= MaxKicks
    /\ scores' = Count(call.name = "PenaltyScore_", scores, call.side)
    /\ kick' = (call.name = "FreeKick_" /\ pm.name = "GoalieCatch_")
    /\ placed' = IF call.name \in {"PlayOn", "drop_ball"} THEN placed ELSE cycle
    /\ dead' = IF call.name \in {"PlayOn", "drop_ball", "PenaltyTaken_", "time_up",
                                 "penalty_draw"} THEN dead ELSE step
    /\ field' = IF call.name = "PenaltyOnfield_" THEN call.side ELSE field
    /\ turn' = IF call.name = "PenaltySetup_" /\ call.side = our_side
               THEN IF turn = 1 THEN TeamSize ELSE turn - 1 ELSE turn
    /\ player' = [p \in Players |-> IF p \in deaf THEN player[p]
                                    ELSE Hear(player[p], call, our_side, cycle)]
    /\ past' = [p \in Players |-> Missing(past[p], call, p \in deaf)]
    /\ UNCHANGED <<our_side, clock, rejoined>>

Choices == {"search", "shoot", "finished", "carry on", "pass"}

\* Every player senses, and decides if the game time is new.
SenseBody(choice) ==
    /\ phase \in {"begun", "called"} /\ phase' = "sensed"
    /\ ~Passing(pm) /\ ~IsGameEndMode(Parse(pm)[1])
    /\ idle' = IF phase = "begun" THEN idle + 1 ELSE idle
    /\ idle' <= MaxIdle
    /\ player' = [p \in Players |->
                    Sense(player[p], cycle, IF p \in Receivers THEN choice ELSE "search")]
    /\ UNCHANGED <<our_side, announced, cycle, step, lost, rejoined, past>>

NextStep ==
    /\ phase = "sensed" /\ phase' = "begun"
    /\ cycle' = IF ClockStops(pm) THEN cycle ELSE cycle + 1
    /\ step' = step + 1
    /\ past' = [p \in Players |-> [past[p] EXCEPT !.returned = FALSE]]
    /\ UNCHANGED <<our_side, announced, idle, lost, rejoined, player>>

\* A player is restarted and reconnects.
Rejoin(p) ==
    /\ phase = "sensed" /\ rejoined < MaxRejoin /\ rejoined' = rejoined + 1
    /\ Known(pm) /\ pm.name # "AfterGoal_"
    /\ player' = [player EXCEPT ![p] = Reconnect(pm)]
    /\ past' = [past EXCEPT ![p] =
                  [astray |-> TRUE, returned |-> FALSE, unsure |-> Sides,
                   setups |-> setups, scores |-> scores,
                   onfield |-> FALSE, catch |-> FALSE, whole |-> FALSE]]
    /\ UNCHANGED <<our_side, announced, clock, phase, lost>>

-----------------------------------------------------------------------------

\* Before a kick-off, in play, or at the end of the game, after a first goal.
Init ==
    /\ our_side \in Sides
    /\ pm \in One({"BeforeKickOff", "PlayOn", "FirstHalfOver"})
    /\ cycle = 0 /\ step = 0 /\ phase = "begun" /\ idle = 0
    /\ calls = 0 /\ lost = 0 /\ rejoined = 0
    /\ goals = [s \in Sides |-> IF s = "l" THEN 1 ELSE 0]
    /\ setups = [s \in Sides |-> 0] /\ scores = setups
    /\ field = "neutral" /\ turn = 1 /\ kick = FALSE /\ placed = 0 /\ dead = 0
    /\ LET new == Reconnect(pm)
           mode == [new.mode EXCEPT !.left = 1]
       IN  player = [p \in Players |-> [new EXCEPT !.mode = mode, !.world = mode]]
    /\ past = [p \in Players |-> NothingMissed]

Next ==
    \/ \E call \in NextCalls, deaf \in SUBSET Players : Announce(call, deaf)
    \/ \E choice \in Choices : SenseBody(choice)
    \/ NextStep
    \/ \E p \in Players : Rejoin(p)

Spec == Init /\ [][Next]_vars

-----------------------------------------------------------------------------
(* Properties                                                              *)

\* The mode that a player in touch with the referee believes in.
Believed(p) ==
    IF kick /\ past[p].catch THEN <<"GoalieCatch_", pm.side>> ELSE Parse(pm)

\* A player that heard the last call knows the mode, by agent and by world
\* model, and whether the clock runs, whatever it missed before: a goalie's free
\* kick is a catch to those who heard of the catch, and no other kick ever is.
InTouch ==
    \A p \in Players :
        ~past[p].astray =>
            /\ <<player[p].mode.type, player[p].mode.side>> = Believed(p)
            /\ IsGameEndMode(player[p].mode.type) \/ player[p].world = player[p].mode
            /\ player[p].stopped <=> ClockStops(pm)

\* The score is the true one for a side whose last goal was heard, though the
\* goals before it were lost or the player restarted since.
ScoreTrue ==
    \A p \in Players :
        /\ "l" \notin past[p].unsure => player[p].mode.left = goals["l"]
        /\ "r" \notin past[p].unsure => player[p].mode.right = goals["r"]

\* Only a player out of touch with the referee, or in the step of the call that
\* puts it in touch again, misses a decision: every other sense_body leads to one.
DecidesInTouch ==
    [][phase # "sensed" /\ phase' = "sensed" =>
        \A p \in Players :
            ~past[p].astray /\ ~past[p].returned => player'[p].decided # player[p].decided]_vars

\* A player that heard every call counts a set play from the cycle in which the
\* ball was placed, though not every call restarts the count.
SetPlayAge ==
    \A p \in Players :
        past[p].whole /\ player[p].world.type \notin {"PlayOn", "BeforeKickOff"}
                      /\ ~IsPenaltyKickMode(player[p].world.type)
                      /\ ~IsGameEndMode(player[p].mode.type)
        => player[p].start.cycle = placed

\* The side that a set play belongs to is the same from the offence to the kick.
SetPlayStays ==
    [][\A p \in Players, side \in Sides :
        /\ IsServerCycleStoppedMode(player[p].mode.type) /\ player[p].mode.type # "AfterGoal_"
        /\ player'[p].mode.type = "FreeKick_" /\ ~past[p].astray
        /\ ~past'[p].astray
        => (IsTeamsSetPlay(player[p].mode, side) <=> IsTeamsSetPlay(player'[p].mode, side))]_vars

\* An intention neither survives a dead ball its player heard of nor is carried
\* on for longer than its steps.
IntentionLives ==
    \A p \in Players :
        LET intention == player[p].intention
        IN  intention # NoIntention =>
                /\ past[p].whole => intention.step >= dead
                /\ intention.last - intention.born <= IntentionSteps - intention.left

\* The counters of a shootout are the true ones but for what was not heard.
ShootoutCounted ==
    \A p \in Players :
        LET pk == player[p].pk
            they == Opposite(our_side)
        IN  /\ pk.our_count + past[p].setups[our_side] = setups[our_side]
            /\ pk.their_count + past[p].setups[they] = setups[they]
            /\ pk.our_score + past[p].scores[our_side] = scores[our_side]
            /\ pk.their_score + past[p].scores[they] = scores[they]

Kicking == pm.name \in {"PenaltySetup_", "PenaltyReady_", "PenaltyTaken_"}

\* The players that heard all our penalty kicks set up.
Counting == {p \in Players : past[p].setups[our_side] = 0 /\ ~past[p].astray}

OurTakers == {p \in Players : IsKickTaker(player[p].pk, our_side, p)}

\* Every player takes a kick before another takes a second one, and those that
\* heard all our kicks set up agree whose turn it is; none kicks theirs.
OneTaker ==
    /\ OurTakers \cap Counting \subseteq {turn}
    /\ Kicking /\ pm.side = our_side => {turn} \cap Counting \subseteq OurTakers
    /\ Kicking /\ pm.side # our_side => OurTakers \cap Counting = {}

\* At our kick the player whose turn it is attacks the goal the kicks are taken
\* at; at theirs our goalie defends it, whichever side the team has played on.
FacesGoal ==
    \A p \in Counting :
        LET attacks == IF Reversed(player[p].pk, our_side, p, p = Goalie) THEN "l" ELSE "r"
        IN  Kicking /\ past[p].onfield =>
                /\ pm.side = our_side /\ p = turn => attacks = field
                /\ pm.side # our_side /\ p = Goalie => attacks # field

=============================================================================
