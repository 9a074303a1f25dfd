------------------------------ MODULE GameMode ------------------------------
(***************************************************************************)
(* What a client knows of the game from the referee's calls: GameMode      *)
(* (lib/rcsc/util/game_mode.cpp), PenaltyKickState                         *)
(* (lib/rcsc/player/penalty_kick_state.cpp) and the question which way a   *)
(* player faces (lib/rcsc/player/world_model.cpp).                         *)
(*                                                                         *)
(* A call is a record [name, side, score]: goal_l_2 is ["goal", "l", 2].   *)
(* Sides are "l", "r" and "neutral".                                       *)
(***************************************************************************)
EXTENDS Integers, FiniteSets

CONSTANT TeamSize   \* the players of a team: 11

ASSUME GameModeAssumption == TeamSize \in Nat \ {0}

Sides == {"l", "r"}
Opposite(side) == IF side = "l" THEN "r" ELSE "l"
Unum_Unknown == 0

Call(name, side) == [name |-> name, side |-> side, score |-> 0]

-----------------------------------------------------------------------------
(* GameMode                                                                *)

\* Modes announced by a call of the same name and side.
Sided == {"KickOff_", "KickIn_", "FreeKick_", "CornerKick_", "GoalKick_",
          "AfterGoal_", "OffSide_", "FoulCharge_", "FoulPush_",
          "FoulMultipleAttacker_", "FoulBallOut_", "BackPass_", "FreeKickFault_",
          "CatchFault_", "IndFreeKick_", "GoalieCatch_", "PenaltyKick_",
          "PenaltyOnfield_", "PenaltySetup_", "PenaltyReady_", "PenaltyTaken_",
          "PenaltyMiss_", "PenaltyScore_", "PenaltyFoul_"}
Neutral == {"BeforeKickOff", "PlayOn", "FirstHalfOver", "ExtendHalf", "Pause",
            "Human", "TimeOver"}

Mode(type, side, time, left, right) ==
    [type |-> type, side |-> side, time |-> time, left |-> left, right |-> right]
InitialMode(no_time) == Mode("BeforeKickOff", "neutral", no_time, 0, 0)

\* MapHolder and parse: the type and the side a call stands for; a name that
\* is not in the map stands for nothing.
Known(call) ==
    call.name \in Sided \cup Neutral \cup
        {"drop_ball", "foul", "half_time", "time_up", "penalty_winner", "penalty_draw"}

Parse(call) ==
    CASE call.name \in Sided         -> <<call.name, call.side>>
      [] call.name \in Neutral       -> <<call.name, "neutral">>
      [] call.name = "foul"          -> <<"FreeKick_", Opposite(call.side)>>
      [] call.name = "drop_ball"     -> <<"PlayOn", "neutral">>
      [] call.name = "half_time"     -> <<"FirstHalfOver", "neutral">>
      [] OTHER                       -> <<"TimeOver", "neutral">>

\* Mutants: the free kick of an earlier catch is ignored as well; the score is
\* counted.
CatchKept_AnyTime(mode, parsed, current) ==
    mode.type = "GoalieCatch_" /\ parsed = <<"FreeKick_", mode.side>>

ScoreOf_Counted(call, side, score) ==
    IF call.name = "AfterGoal_" /\ call.side = side THEN score + 1 ELSE score

\* The free kick announced in the game time of a catch leaves the catch known.
CatchKept(mode, parsed, current) ==
    /\ mode.type = "GoalieCatch_" /\ parsed = <<"FreeKick_", mode.side>>
    /\ mode.time = current

\* A goal is announced with the score of its side.
ScoreOf(call, side, score) ==
    IF call.name = "AfterGoal_" /\ call.side = side THEN call.score ELSE score

\* update, for a known call.
UpdateMode(mode, call, current) ==
    LET parsed == Parse(call)
        kept == CatchKept(mode, parsed, current)
    IN  Mode(IF kept THEN mode.type ELSE parsed[1],
             IF kept THEN mode.side ELSE parsed[2],
             current,
             ScoreOf(call, "l", mode.left), ScoreOf(call, "r", mode.right))

\* Mutant: the clock is believed to run after a goal.
IsServerCycleStoppedMode_NoGoal(type) ==
    type \in {"BeforeKickOff", "OffSide_", "FoulCharge_", "FoulPush_",
              "FreeKickFault_", "BackPass_", "CatchFault_"}

IsServerCycleStoppedMode(type) ==
    type \in {"BeforeKickOff", "AfterGoal_", "OffSide_", "FoulCharge_",
              "FoulPush_", "FreeKickFault_", "BackPass_", "CatchFault_"}

IsGameEndMode(type) == type = "TimeOver"

IsPenaltyKickMode(type) ==
    type \in {"PenaltySetup_", "PenaltyReady_", "PenaltyTaken_", "PenaltyMiss_",
              "PenaltyScore_", "PenaltyOnfield_", "PenaltyFoul_"}

\* Mutant: an offside is a set play of the side that committed it.
IsTeamsSetPlay_OwnOffside(mode, side) ==
    /\ mode.type \in {"KickOff_", "KickIn_", "CornerKick_", "GoalKick_", "FreeKick_",
                      "GoalieCatch_", "IndFreeKick_", "OffSide_", "FoulCharge_",
                      "FoulPush_", "FreeKickFault_", "BackPass_", "CatchFault_"}
    /\ side = mode.side

\* A set play belongs to the side named, an offence to the other one.
IsTeamsSetPlay(mode, side) ==
    \/ /\ mode.type \in {"KickOff_", "KickIn_", "CornerKick_", "GoalKick_",
                         "FreeKick_", "GoalieCatch_", "IndFreeKick_"}
       /\ side = mode.side
    \/ /\ mode.type \in {"OffSide_", "FoulCharge_", "FoulPush_", "FreeKickFault_",
                         "BackPass_", "CatchFault_"}
       /\ side # mode.side

-----------------------------------------------------------------------------
(* PenaltyKickState                                                        *)

NoTaker == [side |-> "neutral", unum |-> Unum_Unknown]

\* M_current_taker_side, which the constructor leaves uninitialised, is left out:
\* nothing reads it.
InitialPenalty ==
    [onfield |-> "neutral", our_count |-> 0, their_count |-> 0,
     our_score |-> 0, their_score |-> 0, taker |-> NoTaker]

Counter(condition, count) == IF condition THEN count + 1 ELSE count

\* Mutants: the order of takers starts one late; any setup counts as ours.
TakerUnum_Late(count) == TeamSize - (count % TeamSize)

OurSetup_Any(mode, our_side) == mode.type = "PenaltySetup_"

\* The default order of takers: from the highest number down, and again.
TakerUnum(count) == TeamSize - ((count - 1) % TeamSize)

OurSetup(mode, our_side) == mode.type = "PenaltySetup_" /\ mode.side = our_side

UpdatePenalty(pk, mode, our_side) ==
    LET ours == mode.side = our_side
        setup == mode.type = "PenaltySetup_"
        score == mode.type = "PenaltyScore_"
        our_count == Counter(OurSetup(mode, our_side), pk.our_count)
    IN  [onfield     |-> IF mode.type = "PenaltyOnfield_" THEN mode.side ELSE pk.onfield,
         our_count   |-> our_count,
         their_count |-> Counter(setup /\ ~ours, pk.their_count),
         our_score   |-> Counter(score /\ ours, pk.our_score),
         their_score |-> Counter(score /\ ~ours, pk.their_score),
         taker       |->
            IF our_count > 0 /\ mode.type \in {"PenaltySetup_", "PenaltyReady_",
                                               "PenaltyTaken_"}
            THEN [side |-> mode.side, unum |-> TakerUnum(our_count)]
            ELSE NoTaker]

IsKickTaker(pk, side, unum) == pk.taker = [side |-> side, unum |-> unum]

\* Mutant: the taker faces its team's way.
Reversed_Team(pk, our_side, unum, goalie) ==
    CASE pk.onfield \in Sides /\ goalie -> pk.onfield = "r"
      [] OTHER -> our_side = "r"

\* is_reverse_side and get_self_face_angle: the player plays from right to left.
Reversed(pk, our_side, unum, goalie) ==
    CASE pk.onfield \in Sides /\ IsKickTaker(pk, our_side, unum) -> pk.onfield = "l"
      [] pk.onfield \in Sides /\ ~IsKickTaker(pk, our_side, unum) /\ goalie ->
            pk.onfield = "r"
      [] OTHER -> our_side = "r"
=============================================================================
