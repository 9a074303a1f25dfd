--------------------------- MODULE Referee_proofs ---------------------------
(***************************************************************************)
(* What a player knows of the game is the truth but for what it has not    *)
(* heard, whatever the referee calls and whatever is lost: the counters of *)
(* a shootout, the score, and that its intention is not a stale one.  In   *)
(* touch with the referee it knows the mode, decides in every step and     *)
(* counts its set plays.                                                   *)
(***************************************************************************)
EXTENDS Referee, TLAPS, FiniteSetTheorems

PlayerStates ==
    [mode : Modes, world : Modes, stopped : BOOLEAN, time : Times, decided : Times,
     start : Times, pk : Penalties, intention : Intentions]

PastStates ==
    [astray : BOOLEAN, returned : BOOLEAN, unsure : SUBSET Sides,
     setups : [Sides -> Int], scores : [Sides -> Int],
     onfield : BOOLEAN, catch : BOOLEAN, whole : BOOLEAN]

Names ==
    Sided \cup Neutral \cup {"drop_ball", "foul", "half_time", "time_up",
                             "penalty_draw", "unknown", "unknown stop"}

\* A call of the referee: those of a side name one.  The end has other names.
CallOK(call) ==
    /\ call \in [name : Names, side : Sides \cup {"neutral"}, score : Nat]
    /\ call.name \in Sided \cup {"foul"} => call.side \in Sides
    /\ call.name # "TimeOver"

\* The calls that do not stop play, and those that end the game.
Harmless == {"PlayOn", "drop_ball", "PenaltyTaken_"}
Final == {"time_up", "penalty_draw"}

-----------------------------------------------------------------------------
(* The referee's calls                                                     *)

LEMMA EachOK ==
    ASSUME NEW S, S \subseteq Sided \cup {"foul"}, NEW call \in Each(S)
    PROVE  CallOK(call) /\ call.name \in S
<1>1. PICK name \in S, side \in Sides : call = [name |-> name, side |-> side, score |-> 0]
  BY DEF Each, Call
<1>2. name \in Names /\ name # "TimeOver"
  BY DEF Names, Sided
<1> QED
  BY <1>1, <1>2 DEF CallOK

LEMMA OneOK ==
    ASSUME NEW S, S \subseteq Names \ (Sided \cup {"foul", "TimeOver"}), NEW call \in One(S)
    PROVE  CallOK(call) /\ call.name \in S
<1>1. PICK name \in S : call = [name |-> name, side |-> "neutral", score |-> 0]
  BY DEF One, Call
<1>2. name \in Names /\ name \notin Sided \cup {"foul", "TimeOver"}
  OBVIOUS
<1> QED
  BY <1>1, <1>2 DEF CallOK

LEMMA SideOK ==
    ASSUME NEW name \in Sided, NEW side \in Sides
    PROVE  CallOK(Call(name, side)) /\ Call(name, side).name = name
  BY DEF Call, CallOK, Names, Sided

LEMMA GoalOK ==
    ASSUME NEW side \in Sides, goals \in [Sides -> Nat]
    PROVE  /\ CallOK(Goal(side)) /\ Goal(side).name = "AfterGoal_"
           /\ Goal(side).side = side /\ Goal(side).score = goals[side] + 1
<1>1. /\ Call("AfterGoal_", side) = [name |-> "AfterGoal_", side |-> side, score |-> 0]
      /\ "AfterGoal_" \in Sided
  BY DEF Call, Sided
<1>2. Goal(side) = [name |-> "AfterGoal_", side |-> side, score |-> goals[side] + 1]
  BY <1>1 DEF Goal
<1>3. goals[side] + 1 \in Nat
  BY SMT
<1> QED
  BY <1>1, <1>2, <1>3 DEF CallOK, Names

LEMMA OppositeOK == ASSUME NEW side PROVE Opposite(side) \in Sides
  BY DEF Opposite, Sides

\* Whatever is called is a call, and a goal is called with the score.
LEMMA NextCallsOK ==
    ASSUME CallOK(pm), goals \in [Sides -> Nat], NEW call \in NextCalls
    PROVE  /\ CallOK(call)
           /\ call.name = "AfterGoal_" => call.score = goals[call.side] + 1
<1> DEFINE Fine(k) == CallOK(k) /\ k.name # "AfterGoal_"
<1>s. {"KickOff_", "FreeKick_", "PenaltyOnfield_", "PenaltySetup_", "PenaltyReady_",
       "PenaltyTaken_", "PenaltyMiss_", "PenaltyScore_", "OffSide_", "FoulCharge_",
       "CatchFault_", "FoulMultipleAttacker_", "KickIn_", "GoalieCatch_"} \subseteq Sided
  BY DEF Sided
<1>n. {"PlayOn", "unknown", "unknown stop", "half_time", "time_up", "drop_ball",
       "BeforeKickOff", "penalty_draw"} \subseteq Names \ (Sided \cup {"foul", "TimeOver"})
  BY DEF Sided, Neutral, Names
<1>p. pm.name \in Sided \cup {"foul"} => pm.side \in Sides
  BY DEF CallOK
<1>e. ASSUME NEW S, S \subseteq {"KickOff_", "FreeKick_", "PenaltyOnfield_", "PenaltySetup_",
                "OffSide_", "FoulCharge_", "CatchFault_", "FoulMultipleAttacker_",
                "foul", "KickIn_", "GoalieCatch_"}
      PROVE  \A k \in Each(S) : Fine(k)
  BY <1>e, <1>s, EachOK
<1>o. ASSUME NEW S, S \subseteq {"PlayOn", "unknown", "unknown stop", "half_time", "time_up",
                "drop_ball", "BeforeKickOff", "penalty_draw"}
      PROVE  \A k \in One(S) : Fine(k)
  BY <1>o, <1>n, OneOK
<1>c. ASSUME NEW name \in {"KickOff_", "FreeKick_", "PenaltySetup_", "PenaltyReady_",
                           "PenaltyTaken_", "PenaltyMiss_", "PenaltyScore_"},
             NEW side \in Sides
      PROVE  Fine(Call(name, side))
  BY <1>s, SideOK
<1> HIDE DEF Fine
<1>1. Fine(call) \/ \E side \in Sides : call = Goal(side)
  BY <1>s, <1>p, <1>e, <1>o, <1>c, OppositeOK DEF NextCalls
<1>2. CASE Fine(call)
  BY <1>2 DEF Fine
<1>3. CASE \E side \in Sides : call = Goal(side)
  BY <1>3, GoalOK
<1> QED
  BY <1>1, <1>2, <1>3

-----------------------------------------------------------------------------
(* What a player makes of a call                                           *)

LEMMA ParseOK ==
    ASSUME NEW call, CallOK(call), Known(call)
    PROVE  /\ Parse(call)[1] \in Sided \cup Neutral
           /\ Parse(call)[2] \in Sides \cup {"neutral"}
           /\ Parse(call)[1] \in Sided => Parse(call)[2] \in Sides
           /\ Parse(call)[1] \in Sided \ {"FreeKick_"} <=> call.name \in Sided \ {"FreeKick_"}
           /\ call.name \in Sided => Parse(call) = <<call.name, call.side>>
           /\ Parse(call)[1] = "PlayOn" <=> call.name \in {"PlayOn", "drop_ball"}
           /\ Parse(call)[1] = "TimeOver" <=> call.name \in Final
<1>1. /\ Sided \cap Neutral = {}
      /\ {"drop_ball", "foul", "half_time", "time_up", "penalty_winner", "penalty_draw"}
            \cap (Sided \cup Neutral) = {}
      /\ "FreeKick_" \in Sided /\ {"PlayOn", "FirstHalfOver", "TimeOver"} \subseteq Neutral
  BY DEF Sided, Neutral
<1>2. CASE call.name \in Sided
  <2>1. Parse(call) = <<call.name, call.side>>
    BY <1>1, <1>2 DEF Parse
  <2> QED
    BY <1>1, <1>2, <2>1 DEF CallOK, Final
<1>3. CASE call.name \in Neutral
  <2>1. Parse(call) = <<call.name, "neutral">>
    BY <1>1, <1>3 DEF Parse
  <2> QED
    BY <1>1, <1>3, <2>1 DEF CallOK, Final
<1>4. CASE call.name = "foul"
  <2>1. Parse(call) = <<"FreeKick_", Opposite(call.side)>>
    BY <1>1, <1>4 DEF Parse
  <2> QED
    BY <1>1, <1>4, <2>1, OppositeOK DEF Final
<1>5. CASE call.name = "drop_ball"
  <2>1. Parse(call) = <<"PlayOn", "neutral">>
    BY <1>1, <1>5 DEF Parse
  <2> QED
    BY <1>1, <1>5, <2>1 DEF Final
<1>6. CASE call.name = "half_time"
  <2>1. Parse(call) = <<"FirstHalfOver", "neutral">>
    BY <1>1, <1>6 DEF Parse
  <2> QED
    BY <1>1, <1>6, <2>1 DEF Final
<1>7. CASE call.name \in Final
  <2>1. Parse(call) = <<"TimeOver", "neutral">>
    BY <1>1, <1>7 DEF Parse, Final
  <2> QED
    BY <1>1, <1>7, <2>1 DEF Final
<1>8. call.name \in Names /\ call.name \notin {"unknown", "unknown stop", "penalty_winner"}
  BY DEF CallOK, Known, Names, Sided, Neutral
<1> QED
  BY <1>2, <1>3, <1>4, <1>5, <1>6, <1>7, <1>8 DEF Names, Final

\* The mode after a call that was understood.
LEMMA ModeOK ==
    ASSUME NEW mode \in Modes, NEW call, CallOK(call), Known(call), NEW time \in Times
    PROVE  LET new == UpdateMode(mode, call, time)
           IN  /\ new \in Modes
               /\ new.type \in Sided => new.side \in Sides
               /\ new.left = ScoreOf(call, "l", mode.left)
               /\ new.right = ScoreOf(call, "r", mode.right)
               /\ \A t \in Sided \ {"FreeKick_", "GoalieCatch_"} :
                    (new.type = t) <=> (call.name = t)
               /\ \A t \in Sided \ {"FreeKick_", "GoalieCatch_"} :
                    call.name = t => new.side = call.side
               /\ new.type = "PlayOn" <=> call.name \in {"PlayOn", "drop_ball"}
               /\ new.type = "TimeOver" <=> call.name \in Final
<1> DEFINE parsed == Parse(call)
           kept == CatchKept(mode, parsed, time)
           new == UpdateMode(mode, call, time)
<1>1. new = [type |-> IF kept THEN mode.type ELSE parsed[1],
             side |-> IF kept THEN mode.side ELSE parsed[2], time |-> time,
             left |-> ScoreOf(call, "l", mode.left), right |-> ScoreOf(call, "r", mode.right)]
  BY DEF UpdateMode, Mode
<1>2. ScoreOf(call, "l", mode.left) \in Nat /\ ScoreOf(call, "r", mode.right) \in Nat
  BY DEF ScoreOf, Modes, CallOK
<1>3. /\ {"GoalieCatch_", "FreeKick_"} \subseteq Sided /\ "PlayOn" \notin Sided
      /\ "TimeOver" \notin Sided
  BY DEF Sided
<1>4. CASE kept
  <2>1. mode.type = "GoalieCatch_" /\ parsed = <<"FreeKick_", mode.side>>
    BY <1>4 DEF CatchKept
  <2>2. new.type = "GoalieCatch_" /\ new.side = mode.side
    BY <1>1, <1>4, <2>1
  <2>3. call.name \notin Sided \ {"FreeKick_"}
    BY <2>1, ParseOK
  <2>4. mode.side \in Sides
    BY <1>3, <2>1, ParseOK
  <2> QED
    BY <1>1, <1>2, <1>3, <1>4, <2>1, <2>2, <2>3, <2>4, ParseOK DEF Modes
<1>5. CASE ~kept
  <2>1. new.type = parsed[1] /\ new.side = parsed[2]
    BY <1>1, <1>5
  <2>2. new \in Modes
    BY <1>1, <1>2, <1>5, ParseOK DEF Modes
  <2>3. ASSUME NEW t \in Sided \ {"FreeKick_", "GoalieCatch_"}
        PROVE  /\ (new.type = t) <=> (call.name = t)
               /\ call.name = t => new.side = call.side
    BY <2>1, <2>3, ParseOK
  <2> QED
    BY <1>1, <2>1, <2>2, <2>3, ParseOK
<1> QED
  BY <1>4, <1>5

LEMMA TimeOK ==
    ASSUME NEW p \in PlayerStates, NEW c \in Nat, NEW b \in BOOLEAN
    PROVE  UpdateCurrentTime(p, c, b) \in Times
  BY DEF UpdateCurrentTime, GameTime, PlayerStates, Times

LEMMA TakerOK == ASSUME NEW count \in Nat PROVE TakerUnum(count) \in Players
<1>1. TeamSize \in Nat /\ TeamSize > 0
  BY GameModeAssumption
<1>2. (count - 1) % TeamSize \in 0 .. (TeamSize - 1)
  BY <1>1, SMT
<1> QED
  BY <1>1, <1>2, SMT DEF TakerUnum, Players

\* One more is counted for a penalty kick of that name and side.
Added(call, name, side) == IF call.name = name /\ call.side = side THEN 1 ELSE 0

LEMMA PenaltyOK ==
    ASSUME NEW pk \in Penalties, NEW mode \in Modes, NEW call, NEW side \in Sides,
           CallOK(call), mode.type \in Sided => mode.side \in Sides,
           \A t \in {"PenaltySetup_", "PenaltyScore_"} :
                /\ (mode.type = t) <=> (call.name = t)
                /\ call.name = t => mode.side = call.side
    PROVE  LET new == UpdatePenalty(pk, mode, side)
           IN  /\ new \in Penalties
               /\ new.our_count = pk.our_count + Added(call, "PenaltySetup_", side)
               /\ new.their_count = pk.their_count + Added(call, "PenaltySetup_", Opposite(side))
               /\ new.our_score = pk.our_score + Added(call, "PenaltyScore_", side)
               /\ new.their_score = pk.their_score + Added(call, "PenaltyScore_", Opposite(side))
<1> DEFINE new == UpdatePenalty(pk, mode, side)
<1>1. {"PenaltySetup_", "PenaltyScore_", "PenaltyReady_", "PenaltyTaken_", "PenaltyOnfield_"}
            \subseteq Sided
  BY DEF Sided
<1>2. mode.type \in {"PenaltySetup_", "PenaltyScore_"} =>
            /\ mode.side \in Sides /\ call.name = mode.type /\ call.side = mode.side
            /\ mode.side # side <=> mode.side = Opposite(side)
  BY <1>1 DEF Sides, Opposite
<1>3. /\ pk.our_count \in Nat /\ pk.their_count \in Nat
      /\ pk.our_score \in Nat /\ pk.their_score \in Nat /\ pk.onfield \in Sides \cup {"neutral"}
  BY DEF Penalties
<1>4. /\ new.our_count = pk.our_count + Added(call, "PenaltySetup_", side)
      /\ new.our_count \in Nat
  BY <1>2, <1>3 DEF UpdatePenalty, Counter, OurSetup, Added
<1>5. /\ new.their_count = pk.their_count + Added(call, "PenaltySetup_", Opposite(side))
      /\ new.their_count \in Nat
  BY <1>2, <1>3 DEF UpdatePenalty, Counter, Added
<1>6. /\ new.our_score = pk.our_score + Added(call, "PenaltyScore_", side)
      /\ new.our_score \in Nat
  BY <1>2, <1>3 DEF UpdatePenalty, Counter, Added
<1>7. /\ new.their_score = pk.their_score + Added(call, "PenaltyScore_", Opposite(side))
      /\ new.their_score \in Nat
  BY <1>2, <1>3 DEF UpdatePenalty, Counter, Added
<1>8. new.taker \in Takers
  <2>1. \/ new.taker = NoTaker
        \/ /\ mode.type \in {"PenaltySetup_", "PenaltyReady_", "PenaltyTaken_"}
           /\ new.taker = [side |-> mode.side, unum |-> TakerUnum(new.our_count)]
    BY DEF UpdatePenalty
  <2>2. TakerUnum(new.our_count) \in Players
    BY <1>4, TakerOK
  <2> HIDE DEF new
  <2> QED
    BY <1>1, <2>1, <2>2 DEF Takers
<1>9. new.onfield \in Sides \cup {"neutral"}
  BY <1>1, <1>3 DEF UpdatePenalty
<1>10. new = [onfield |-> new.onfield, our_count |-> new.our_count,
              their_count |-> new.their_count, our_score |-> new.our_score,
              their_score |-> new.their_score, taker |-> new.taker]
  BY DEF UpdatePenalty
<1> HIDE DEF new
<1>11. new \in Penalties
  BY <1>4, <1>5, <1>6, <1>7, <1>8, <1>9, <1>10 DEF Penalties
<1> QED
  BY <1>4, <1>5, <1>6, <1>7, <1>11 DEF new

\* A player that hears a call: its score, its counters and its intention.
LEMMA HearOK ==
    ASSUME NEW p \in PlayerStates, NEW call, CallOK(call), NEW side \in Sides, NEW c \in Nat
    PROVE  LET new == Hear(p, call, side, c)
           IN  /\ new \in PlayerStates
               /\ new.mode.left = ScoreOf(call, "l", p.mode.left)
               /\ new.mode.right = ScoreOf(call, "r", p.mode.right)
               /\ new.pk.our_count = p.pk.our_count + Added(call, "PenaltySetup_", side)
               /\ new.pk.their_count =
                    p.pk.their_count + Added(call, "PenaltySetup_", Opposite(side))
               /\ new.pk.our_score = p.pk.our_score + Added(call, "PenaltyScore_", side)
               /\ new.pk.their_score =
                    p.pk.their_score + Added(call, "PenaltyScore_", Opposite(side))
               /\ new.intention \in {p.intention, NoIntention}
               /\ Known(call) /\ call.name \notin Harmless \cup Final =>
                    new.intention = NoIntention
<1> DEFINE time == UpdateCurrentTime(p, c, FALSE)
           heard == IF Known(call) THEN call ELSE Call("PlayOn", "neutral")
           mode == UpdateMode(p.mode, heard, time)
           new == Hear(p, call, side, c)
<1>1. time \in Times /\ p.mode \in Modes /\ p.pk \in Penalties /\ p.intention \in Intentions
      /\ p.mode.left \in Nat /\ p.mode.right \in Nat
      /\ p.pk.our_count \in Nat /\ p.pk.their_count \in Nat
      /\ p.pk.our_score \in Nat /\ p.pk.their_score \in Nat
  BY TimeOK DEF PlayerStates, Modes, Penalties
<1>2. CallOK(Call("PlayOn", "neutral")) /\ Known(Call("PlayOn", "neutral"))
      /\ Call("PlayOn", "neutral").name = "PlayOn"
  BY DEF CallOK, Call, Known, Names, Neutral, Sided
<1>3. CallOK(heard) /\ Known(heard)
  BY <1>2
<1>4. NoIntention \in Intentions
  BY DEF NoIntention, Intentions
<1>s. {"PenaltySetup_", "PenaltyScore_", "PenaltyTaken_"} \subseteq Sided \ {"FreeKick_", "GoalieCatch_"}
      /\ "AfterGoal_" \in Sided
  BY DEF Sided
<1>m. /\ mode \in Modes
      /\ mode.type \in Sided => mode.side \in Sides
      /\ mode.left = ScoreOf(heard, "l", p.mode.left)
      /\ mode.right = ScoreOf(heard, "r", p.mode.right)
      /\ \A t \in Sided \ {"FreeKick_", "GoalieCatch_"} :
            (mode.type = t) <=> (heard.name = t)
      /\ \A t \in Sided \ {"FreeKick_", "GoalieCatch_"} :
            heard.name = t => mode.side = heard.side
      /\ mode.type = "PlayOn" <=> heard.name \in {"PlayOn", "drop_ball"}
      /\ mode.type = "TimeOver" <=> heard.name \in Final
  <2> HIDE DEF time, heard
  <2> QED
    BY <1>1, <1>3, ModeOK
<1>5. /\ mode \in Modes
      /\ mode.type \in Sided => mode.side \in Sides
      /\ mode.left = ScoreOf(heard, "l", p.mode.left)
      /\ mode.right = ScoreOf(heard, "r", p.mode.right)
      /\ \A t \in {"PenaltySetup_", "PenaltyScore_"} :
            /\ (mode.type = t) <=> (heard.name = t)
            /\ heard.name = t => mode.side = heard.side
      /\ mode.type = "PenaltyTaken_" <=> heard.name = "PenaltyTaken_"
      /\ mode.type = "PlayOn" <=> heard.name \in {"PlayOn", "drop_ball"}
      /\ mode.type = "TimeOver" <=> heard.name \in Final
  <2> HIDE DEF time, heard, mode
  <2> QED
    BY <1>m, <1>s
<1> HIDE DEF mode, time
<1>r. /\ p = [mode |-> p.mode, world |-> p.world, stopped |-> p.stopped, time |-> p.time,
              decided |-> p.decided, start |-> p.start, pk |-> p.pk,
              intention |-> p.intention]
      /\ p.world \in Modes /\ p.stopped \in BOOLEAN /\ p.decided \in Times
      /\ p.start \in Times
  BY DEF PlayerStates
<1>6. CASE ~Known(call)
  <2>1. new = [p EXCEPT !.time = time, !.mode = mode]
    BY <1>6 DEF Hear, mode, time
  <2>2. call.name \notin {"AfterGoal_", "PenaltySetup_", "PenaltyScore_"}
    BY <1>6, <1>s DEF Known
  <2>3. mode.left = p.mode.left /\ mode.right = p.mode.right
    BY <1>2, <1>5, <1>6 DEF ScoreOf
  <2>5. new = [mode |-> mode, world |-> p.world, stopped |-> p.stopped, time |-> time,
               decided |-> p.decided, start |-> p.start, pk |-> p.pk,
               intention |-> p.intention]
    BY <1>r, <2>1
  <2>4. new \in PlayerStates /\ new.mode = mode /\ new.pk = p.pk /\ new.intention = p.intention
    BY <1>1, <1>5, <1>r, <2>5 DEF PlayerStates
  <2> QED
    BY <1>1, <1>6, <2>2, <2>3, <2>4 DEF Added, ScoreOf
<1>7. CASE Known(call) /\ IsGameEndMode(mode.type)
  <2>1. new = [p EXCEPT !.time = time, !.mode = mode, !.stopped = UpdateServerStatus(mode)]
    BY <1>7 DEF Hear, mode, time
  <2>2. UpdateServerStatus(mode) \in BOOLEAN
    BY DEF UpdateServerStatus, IsServerCycleStoppedMode
  <2>5. new = [mode |-> mode, world |-> p.world, stopped |-> UpdateServerStatus(mode),
               time |-> time, decided |-> p.decided, start |-> p.start, pk |-> p.pk,
               intention |-> p.intention]
    BY <1>r, <2>1
  <2>3. new \in PlayerStates /\ new.mode = mode /\ new.pk = p.pk /\ new.intention = p.intention
    BY <1>1, <1>5, <1>r, <2>2, <2>5 DEF PlayerStates
  <2>4. call.name \in Final
    BY <1>5, <1>7 DEF IsGameEndMode
  <2> QED
    BY <1>1, <1>5, <1>7, <2>3, <2>4 DEF Added, Final
<1>8. CASE Known(call) /\ ~IsGameEndMode(mode.type)
  <2> DEFINE start == IF NewSetPlay(p.world.type, mode.type) THEN time ELSE p.start
             pk == IF IsPenaltyKickMode(mode.type) THEN UpdatePenalty(p.pk, mode, side) ELSE p.pk
             intention == IF KeepsIntention(mode.type) THEN p.intention ELSE NoIntention
  <2>1. new = [p EXCEPT !.time = time, !.mode = mode, !.stopped = UpdateServerStatus(mode),
                        !.world = mode, !.start = start, !.pk = pk, !.intention = intention]
    BY <1>8 DEF Hear, mode, time
  <2>2. UpdateServerStatus(mode) \in BOOLEAN
    BY DEF UpdateServerStatus, IsServerCycleStoppedMode
  <2>3. start \in Times /\ intention \in Intentions
    BY <1>1, <1>4 DEF PlayerStates
  <2>4. /\ pk \in Penalties
        /\ pk.our_count = p.pk.our_count + Added(call, "PenaltySetup_", side)
        /\ pk.their_count = p.pk.their_count + Added(call, "PenaltySetup_", Opposite(side))
        /\ pk.our_score = p.pk.our_score + Added(call, "PenaltyScore_", side)
        /\ pk.their_score = p.pk.their_score + Added(call, "PenaltyScore_", Opposite(side))
    <3>1. CASE IsPenaltyKickMode(mode.type)
      BY <1>1, <1>5, <1>8, <3>1, PenaltyOK
    <3>2. CASE ~IsPenaltyKickMode(mode.type)
      <4>1. call.name \notin {"PenaltySetup_", "PenaltyScore_"}
        BY <1>5, <1>8, <3>2 DEF IsPenaltyKickMode
      <4> QED
        BY <1>1, <3>2, <4>1 DEF Added
    <3> QED
      BY <3>1, <3>2
  <2>5. call.name \notin Harmless \cup Final => intention = NoIntention
    BY <1>5, <1>8 DEF KeepsIntention, Harmless
  <2> HIDE DEF start, pk, intention
  <2>8. new = [mode |-> mode, world |-> mode, stopped |-> UpdateServerStatus(mode),
               time |-> time, decided |-> p.decided, start |-> start, pk |-> pk,
               intention |-> intention]
    BY <1>r, <2>1
  <2>6. /\ new \in PlayerStates /\ new.mode = mode /\ new.pk = pk
        /\ new.intention = intention
    BY <1>1, <1>5, <1>r, <2>2, <2>3, <2>4, <2>8 DEF PlayerStates
  <2>7. intention \in {p.intention, NoIntention}
    BY DEF intention
  <2> QED
    BY <1>5, <1>8, <2>4, <2>5, <2>6, <2>7
<1> QED
  BY <1>6, <1>7, <1>8

-----------------------------------------------------------------------------
(* What a player makes of a step                                           *)

\* An intention is carried on once in every cycle.
Timely(intention) ==
    intention # NoIntention =>
        intention.last - intention.born <= IntentionSteps - intention.left

\* Now and then an intention goes on, ends or is a new one.
Follows(new, old) ==
    \/ new = NoIntention
    \/ new.step = step
    \/ old # NoIntention /\ new.step = old.step

LEMMA FollowsSame == ASSUME NEW i PROVE Follows(i, i)
  BY DEF Follows

LEMMA ExecuteOK ==
    ASSUME NEW p \in PlayerStates, Timely(p.intention)
    PROVE  LET new == Execute(p)
           IN  /\ new = [p EXCEPT !.intention = new.intention]
               /\ new.intention \in Intentions
               /\ Timely(new.intention) /\ Follows(new.intention, p.intention)
<1> DEFINE i == p.intention
           new == Execute(p)
<1>1. /\ i \in Intentions /\ p.time.cycle \in Int /\ NoIntention \in Intentions
      /\ p = [mode |-> p.mode, world |-> p.world, stopped |-> p.stopped, time |-> p.time,
              decided |-> p.decided, start |-> p.start, pk |-> p.pk, intention |-> i]
  BY DEF PlayerStates, Times, NoIntention, Intentions
<1>2. CASE i = NoIntention
  <2>1. new = p
    BY <1>2 DEF Execute
  <2> QED
    BY <1>1, <1>2, <2>1 DEF Timely, Follows
<1>3. CASE i # NoIntention /\ Finished(i, p.time)
  <2>1. new = [p EXCEPT !.intention = NoIntention]
    BY <1>3 DEF Execute
  <2>2. new.intention = NoIntention
    BY <1>1, <2>1
  <2> QED
    BY <1>1, <2>1, <2>2 DEF Timely, Follows
<1>4. CASE i # NoIntention /\ ~Finished(i, p.time)
  <2> DEFINE j == [left |-> i.left - 1, last |-> p.time.cycle, born |-> i.born,
                   step |-> i.step]
  <2>1. /\ i = [left |-> i.left, last |-> i.last, born |-> i.born, step |-> i.step]
        /\ i.left \in Nat /\ i.last \in Int /\ i.born \in Int /\ i.step \in Int
    BY <1>1 DEF Intentions
  <2>2. new = [p EXCEPT !.intention.left = @ - 1, !.intention.last = p.time.cycle]
    BY <1>4 DEF Execute
  <2>3. new = [mode |-> p.mode, world |-> p.world, stopped |-> p.stopped, time |-> p.time,
               decided |-> p.decided, start |-> p.start, pk |-> p.pk, intention |-> j]
    BY <1>1, <2>1, <2>2
  <2>4. i.left > 0 /\ i.last >= p.time.cycle - 1
    BY <1>1, <1>4, <2>1 DEF Finished
  <2>5. j \in Intentions
    BY <1>1, <2>1, <2>4 DEF Intentions
  <2>6. i.last - i.born <= IntentionSteps - i.left /\ IntentionSteps \in Nat
    BY <1>4, RefereeAssumption DEF Timely
  <2>7. Timely(j)
    BY <1>1, <2>1, <2>4, <2>6 DEF Timely
  <2>8. Follows(j, i)
    BY <1>4 DEF Follows
  <2>9. new.intention = j /\ new = [p EXCEPT !.intention = j]
    <3> HIDE DEF j
    <3> QED
      BY <1>1, <2>3
  <2> QED
    BY <2>5, <2>7, <2>8, <2>9
<1> QED
  BY <1>2, <1>3, <1>4

LEMMA DecideOK ==
    ASSUME NEW p \in PlayerStates, NEW choice \in Choices, Timely(p.intention), step \in Nat
    PROVE  LET new == Decide(p, choice)
           IN  /\ new = [p EXCEPT !.intention = new.intention]
               /\ new.intention \in Intentions
               /\ Timely(new.intention) /\ Follows(new.intention, p.intention)
<1> DEFINE new == Decide(p, choice)
           received == [left |-> IntentionSteps, last |-> p.time.cycle,
                        born |-> p.time.cycle, step |-> step]
<1>1. /\ p.intention \in Intentions /\ p.time.cycle \in Int /\ NoIntention \in Intentions
      /\ p = [mode |-> p.mode, world |-> p.world, stopped |-> p.stopped, time |-> p.time,
              decided |-> p.decided, start |-> p.start, pk |-> p.pk,
              intention |-> p.intention]
  BY DEF PlayerStates, Times, NoIntention, Intentions
<1>2. CASE choice = "search" \/ p.world.type \in {"BeforeKickOff", "AfterGoal_"}
  <2>1. new = p
    BY <1>2 DEF Decide
  <2> QED
    BY <1>1, <2>1, FollowsSame
<1> DEFINE other == choice # "search" /\ p.world.type \notin {"BeforeKickOff", "AfterGoal_"}
<1>3. CASE other /\ choice \in {"shoot", "finished"}
  <2>1. new = [p EXCEPT !.intention = NoIntention]
    BY <1>3 DEF Decide
  <2>2. new.intention = NoIntention
    BY <1>1, <2>1
  <2> QED
    BY <1>1, <2>1, <2>2 DEF Timely, Follows
<1>4. CASE other /\ choice = "carry on"
  <2>1. new = Execute(p)
    BY <1>4 DEF Decide
  <2> QED
    BY <2>1, ExecuteOK
<1>5. CASE other /\ choice = "pass"
  <2>1. new = [p EXCEPT !.intention = received]
    BY <1>5 DEF Decide, Receive
  <2>2. received \in Intentions /\ Timely(received) /\ Follows(received, p.intention)
    BY <1>1, RefereeAssumption DEF Intentions, Timely, Follows
  <2>3. new.intention = received
    BY <1>1, <2>1
  <2> QED
    BY <2>1, <2>2, <2>3
<1> QED
  BY <1>2, <1>3, <1>4, <1>5 DEF Choices

LEMMA SenseOK ==
    ASSUME NEW p \in PlayerStates, NEW c \in Nat, NEW choice \in Choices,
           Timely(p.intention), step \in Nat
    PROVE  LET new == Sense(p, c, choice)
           IN  /\ new \in PlayerStates /\ new.mode = p.mode /\ new.pk = p.pk
               /\ Timely(new.intention) /\ Follows(new.intention, p.intention)
<1> DEFINE time == UpdateCurrentTime(p, c, TRUE)
           timed == [p EXCEPT !.time = time]
           decision == Decide(timed, choice)
           new == Sense(p, c, choice)
<1>1. time \in Times
  BY TimeOK
<1>2. /\ p = [mode |-> p.mode, world |-> p.world, stopped |-> p.stopped, time |-> p.time,
              decided |-> p.decided, start |-> p.start, pk |-> p.pk,
              intention |-> p.intention]
      /\ p.mode \in Modes /\ p.world \in Modes /\ p.stopped \in BOOLEAN
      /\ p.decided \in Times /\ p.start \in Times /\ p.pk \in Penalties
      /\ p.intention \in Intentions
  BY DEF PlayerStates
<1> HIDE DEF time
<1>3. timed = [mode |-> p.mode, world |-> p.world, stopped |-> p.stopped, time |-> time,
               decided |-> p.decided, start |-> p.start, pk |-> p.pk,
               intention |-> p.intention]
  BY <1>2
<1> HIDE DEF timed
<1>4. /\ timed \in PlayerStates /\ timed.intention = p.intention
      /\ timed.mode = p.mode /\ timed.pk = p.pk /\ timed.time = time
  BY <1>1, <1>2, <1>3 DEF PlayerStates
<1>5. new = IF timed.time = p.decided THEN timed
            ELSE [decision EXCEPT !.decided = timed.time]
  BY DEF Sense, timed, time
<1>6. CASE timed.time = p.decided
  BY <1>4, <1>5, <1>6, FollowsSame
<1>7. CASE timed.time # p.decided
  <2>1. /\ decision = [timed EXCEPT !.intention = decision.intention]
        /\ decision.intention \in Intentions
        /\ Timely(decision.intention) /\ Follows(decision.intention, p.intention)
    BY <1>4, DecideOK
  <2> DEFINE intention == decision.intention
  <2>2. decision = [mode |-> p.mode, world |-> p.world, stopped |-> p.stopped,
                    time |-> time, decided |-> p.decided, start |-> p.start,
                    pk |-> p.pk, intention |-> intention]
    <3> HIDE DEF intention
    <3> QED
      BY <1>3, <2>1 DEF intention
  <2> HIDE DEF intention, decision
  <2>3. new = [mode |-> p.mode, world |-> p.world, stopped |-> p.stopped, time |-> time,
               decided |-> time, start |-> p.start, pk |-> p.pk, intention |-> intention]
    BY <1>4, <1>5, <1>7, <2>2
  <2> QED
    BY <1>1, <1>2, <2>1, <2>3 DEF PlayerStates, intention
<1> QED
  BY <1>6, <1>7

\* A player that is restarted knows the mode in force and nothing else.
LEMMA ReconnectOK ==
    ASSUME CallOK(pm), Known(pm)
    PROVE  LET new == Reconnect(pm)
           IN  /\ new \in PlayerStates
               /\ new.mode.right = ScoreOf(pm, "r", 0)
               /\ new.pk = InitialPenalty /\ new.intention = NoIntention
<1> DEFINE new == Reconnect(pm)
           mode == UpdateMode(Fresh.mode, pm, Fresh.time)
           zero == [cycle |-> 0, stopped |-> 0]
           never == [cycle |-> -1, stopped |-> 0]
           first == [type |-> "BeforeKickOff", side |-> "neutral", time |-> never,
                     left |-> 0, right |-> 0]
<1>1. /\ Fresh = [mode |-> first, world |-> first, stopped |-> TRUE, time |-> zero,
                  decided |-> never, start |-> zero, pk |-> InitialPenalty,
                  intention |-> NoIntention]
  BY DEF Fresh, InitialMode, Mode, NoTime, GameTime
<1>2. zero \in Times /\ never \in Times
  BY DEF Times
<1>3. first \in Modes
  BY <1>2 DEF Modes, Neutral
<1>4. InitialPenalty \in Penalties /\ NoIntention \in Intentions
  BY DEF InitialPenalty, Penalties, Takers, NoIntention, Intentions
<1>5. first.right = 0
  OBVIOUS
<1> HIDE DEF zero, never, first
<1>6. Fresh.mode = first /\ Fresh.time = zero
  BY <1>1
<1>7. mode \in Modes /\ mode.right = ScoreOf(pm, "r", 0)
  BY <1>2, <1>3, <1>5, <1>6, ModeOK
<1>8. new = [Fresh EXCEPT !.mode = mode, !.stopped = UpdateServerStatus(mode)]
  BY DEF Reconnect
<1>9. UpdateServerStatus(mode) \in BOOLEAN
  BY DEF UpdateServerStatus, IsServerCycleStoppedMode
<1> HIDE DEF mode, new
<1>10. new = [mode |-> mode, world |-> first, stopped |-> UpdateServerStatus(mode),
              time |-> zero, decided |-> never, start |-> zero, pk |-> InitialPenalty,
              intention |-> NoIntention]
  BY <1>1, <1>8
<1> QED
  BY <1>2, <1>3, <1>4, <1>7, <1>9, <1>10 DEF PlayerStates, new

-----------------------------------------------------------------------------
(* What a player has missed                                                *)

LEMMA CountOK ==
    ASSUME NEW count \in [Sides -> Int], NEW condition \in BOOLEAN,
           NEW side, condition => side \in Sides
    PROVE  LET new == Count(condition, count, side)
           IN  /\ new \in [Sides -> Int]
               /\ count \in [Sides -> Nat] => new \in [Sides -> Nat]
               /\ \A s \in Sides :
                    new[s] = count[s] + (IF condition /\ side = s THEN 1 ELSE 0)
<1> DEFINE new == Count(condition, count, side)
<1>1. \A s \in Sides : count[s] \in Int
  OBVIOUS
<1>2. CASE condition
  <2>1. new = [count EXCEPT ![side] = count[side] + 1]
    BY <1>2 DEF Count
  <2>2. new = [s \in Sides |-> IF s = side THEN count[s] + 1 ELSE count[s]]
    BY <2>1
  <2> HIDE DEF new
  <2>3. \A s \in Sides : new[s] = count[s] + (IF condition /\ side = s THEN 1 ELSE 0)
    BY <1>1, <1>2, <2>2
  <2>4. new \in [Sides -> Int]
    BY <1>1, <2>2
  <2>5. count \in [Sides -> Nat] => new \in [Sides -> Nat]
    BY <2>2
  <2> QED
    BY <2>3, <2>4, <2>5 DEF new
<1>3. CASE ~condition
  <2>1. new = count
    BY <1>3 DEF Count
  <2> QED
    BY <1>1, <1>3, <2>1
<1> QED
  BY <1>2, <1>3

\* The count of the calls of a name, by side.
Tallied(count, call, name) == Count(call.name = name, count, call.side)

LEMMA AddedOK ==
    ASSUME NEW count \in [Sides -> Nat], NEW call, NEW name,
           call.name = name => call.side \in Sides
    PROVE  LET new == Tallied(count, call, name)
           IN  /\ new \in [Sides -> Nat]
               /\ \A s \in Sides : new[s] = count[s] + Added(call, name, s)
<1> DEFINE named == call.name = name
           new == Count(named, count, call.side)
<1>1. count \in [Sides -> Int] /\ named \in BOOLEAN /\ (named => call.side \in Sides)
  <2>1. \A s \in Sides : count[s] \in Int
    OBVIOUS
  <2> QED
    BY <2>1
<1>2. \A s \in Sides : Added(call, name, s) = IF named /\ call.side = s THEN 1 ELSE 0
  BY DEF Added
<1> HIDE DEF named
<1>3. /\ new \in [Sides -> Nat]
      /\ \A s \in Sides : new[s] = count[s] + (IF named /\ call.side = s THEN 1 ELSE 0)
  BY <1>1, CountOK
<1> QED
  BY <1>2, <1>3 DEF named, Tallied

LEMMA MissingOK ==
    ASSUME NEW p \in PastStates, NEW call, CallOK(call), NEW deaf \in BOOLEAN
    PROVE  LET new == Missing(p, call, deaf)
           IN  /\ new \in PastStates
               /\ \A s \in Sides :
                    /\ s \in new.unsure <=> IF call.name = "AfterGoal_" /\ call.side = s
                                            THEN deaf ELSE s \in p.unsure
                    /\ new.setups[s] = p.setups[s] +
                         (IF deaf THEN Added(call, "PenaltySetup_", s) ELSE 0)
                    /\ new.scores[s] = p.scores[s] +
                         (IF deaf THEN Added(call, "PenaltyScore_", s) ELSE 0)
               /\ new.whole = (p.whole /\ ~deaf /\ Known(call))
<1> DEFINE new == Missing(p, call, deaf)
           setup == deaf /\ call.name = "PenaltySetup_"
           score == deaf /\ call.name = "PenaltyScore_"
<1>1. call.name \in {"AfterGoal_", "PenaltySetup_", "PenaltyScore_"} => call.side \in Sides
  BY DEF CallOK, Sided
<1>2. /\ p.astray \in BOOLEAN /\ p.returned \in BOOLEAN /\ p.unsure \subseteq Sides
      /\ p.setups \in [Sides -> Int] /\ p.scores \in [Sides -> Int]
      /\ p.onfield \in BOOLEAN /\ p.catch \in BOOLEAN /\ p.whole \in BOOLEAN
  BY DEF PastStates
<1>3. Known(call) \in BOOLEAN
  BY DEF Known
<1>4. /\ Count(setup, p.setups, call.side) \in [Sides -> Int]
      /\ \A s \in Sides : Count(setup, p.setups, call.side)[s] =
            p.setups[s] + (IF setup /\ call.side = s THEN 1 ELSE 0)
  <2>1. setup \in BOOLEAN /\ (setup => call.side \in Sides)
    BY <1>1
  <2> HIDE DEF setup
  <2> QED
    BY <1>2, <2>1, CountOK
<1>5. /\ Count(score, p.scores, call.side) \in [Sides -> Int]
      /\ \A s \in Sides : Count(score, p.scores, call.side)[s] =
            p.scores[s] + (IF score /\ call.side = s THEN 1 ELSE 0)
  <2>1. score \in BOOLEAN /\ (score => call.side \in Sides)
    BY <1>1
  <2> HIDE DEF score
  <2> QED
    BY <1>2, <2>1, CountOK
<1>6. /\ new.unsure \subseteq Sides
      /\ \A s \in Sides : s \in new.unsure <=>
            IF call.name = "AfterGoal_" /\ call.side = s THEN deaf ELSE s \in p.unsure
  BY <1>1, <1>2 DEF Missing
<1>7. /\ new.setups = Count(setup, p.setups, call.side)
      /\ new.scores = Count(score, p.scores, call.side)
      /\ new.whole = (p.whole /\ ~deaf /\ Known(call))
      /\ new.astray \in BOOLEAN /\ new.returned \in BOOLEAN /\ new.onfield \in BOOLEAN
      /\ new.catch \in BOOLEAN /\ new.whole \in BOOLEAN
  BY <1>2, <1>3 DEF Missing
<1>8. new = [astray |-> new.astray, returned |-> new.returned, unsure |-> new.unsure,
             setups |-> new.setups, scores |-> new.scores, onfield |-> new.onfield,
             catch |-> new.catch, whole |-> new.whole]
  BY DEF Missing
<1> HIDE DEF new
<1>9. new \in PastStates
  BY <1>4, <1>5, <1>6, <1>7, <1>8 DEF PastStates
<1> QED
  BY <1>4, <1>5, <1>6, <1>7, <1>9 DEF Added, new

-----------------------------------------------------------------------------
(* The inductive invariant                                                 *)

Inv ==
    /\ TypeOK
    /\ CallOK(pm)
    /\ ShootoutCounted
    /\ ScoreTrue
    /\ IntentionLives
    /\ dead <= step

LEMMA InvParts ==
    ASSUME Inv
    PROVE  /\ player \in [Players -> PlayerStates] /\ past \in [Players -> PastStates]
           /\ our_side \in Sides /\ cycle \in Nat /\ step \in Nat /\ dead \in Nat
           /\ \A p \in Players : Timely(player[p].intention)
<1>1. player \in [Players -> PlayerStates] /\ past \in [Players -> PastStates]
  BY DEF Inv, TypeOK, PlayerStates, PastStates
<1>2. \A p \in Players : Timely(player[p].intention)
  BY DEF Inv, IntentionLives, Timely
<1> QED
  BY <1>1, <1>2 DEF Inv, TypeOK

LEMMA ResetOK ==
    ASSUME NEW p \in PlayerStates, NEW mode \in Modes
    PROVE  LET new == [p EXCEPT !.mode = mode, !.world = mode]
           IN  /\ new \in PlayerStates /\ new.mode = mode
               /\ new.pk = p.pk /\ new.intention = p.intention
<1> DEFINE new == [p EXCEPT !.mode = mode, !.world = mode]
<1>1. p = [mode |-> p.mode, world |-> p.world, stopped |-> p.stopped, time |-> p.time,
           decided |-> p.decided, start |-> p.start, pk |-> p.pk, intention |-> p.intention]
  BY DEF PlayerStates
<1>2. new = [p EXCEPT !.mode = mode, !.world = mode]
  OBVIOUS
<1> HIDE DEF new
<1>3. new = [mode |-> mode, world |-> mode, stopped |-> p.stopped, time |-> p.time,
             decided |-> p.decided, start |-> p.start, pk |-> p.pk,
             intention |-> p.intention]
  BY <1>1, <1>2
<1> QED
  BY <1>3 DEF PlayerStates, new

LEMMA InitInv == Init => Inv
<1> SUFFICES ASSUME Init PROVE Inv
  OBVIOUS
<1>1. CallOK(pm) /\ Known(pm) /\ pm.name \in {"BeforeKickOff", "PlayOn", "FirstHalfOver"}
  <2>1. {"BeforeKickOff", "PlayOn", "FirstHalfOver"} \subseteq Neutral
    BY DEF Neutral
  <2>2. {"BeforeKickOff", "PlayOn", "FirstHalfOver"}
            \subseteq Names \ (Sided \cup {"foul", "TimeOver"})
    BY DEF Names, Sided, Neutral
  <2>3. pm \in One({"BeforeKickOff", "PlayOn", "FirstHalfOver"})
    BY DEF Init
  <2> QED
    BY <2>1, <2>2, <2>3, OneOK DEF Known
<1> DEFINE new == Reconnect(pm)
           mode == [new.mode EXCEPT !.left = 1]
           p0 == [new EXCEPT !.mode = mode, !.world = mode]
<1>2. /\ new \in PlayerStates /\ new.mode.right = ScoreOf(pm, "r", 0)
      /\ new.pk = InitialPenalty /\ new.intention = NoIntention
  BY <1>1, ReconnectOK
<1>3. new.mode.right = 0 /\ new.mode \in Modes
  BY <1>1, <1>2 DEF ScoreOf, PlayerStates
<1>4. player = [p \in Players |-> p0]
  BY DEF Init
<1> HIDE DEF new
<1>5. mode \in Modes /\ mode.left = 1 /\ mode.right = 0
  <2>1. mode = [type |-> new.mode.type, side |-> new.mode.side, time |-> new.mode.time,
                left |-> 1, right |-> new.mode.right]
    BY <1>3 DEF Modes
  <2> QED
    BY <1>3, <2>1 DEF Modes
<1> HIDE DEF mode
<1>6. p0 \in PlayerStates /\ p0.mode = mode /\ p0.pk = InitialPenalty
      /\ p0.intention = NoIntention
  BY <1>2, <1>5, ResetOK
<1> HIDE DEF p0
<1>7. /\ NothingMissed \in PastStates /\ NothingMissed.unsure = {}
      /\ NothingMissed.setups = [s \in Sides |-> 0]
      /\ NothingMissed.scores = [s \in Sides |-> 0]
  BY DEF NothingMissed, PastStates
<1>8. TypeOK
  <2>1. player \in [Players -> PlayerStates]
    BY <1>4, <1>6
  <2>2. past \in [Players -> PastStates]
    BY <1>7 DEF Init
  <2>3. pm.name \in Names
    BY <1>1 DEF CallOK
  <2>4. turn \in Players
    BY GameModeAssumption DEF Init, Players
  <2>5. goals \in [Sides -> Nat] /\ setups \in [Sides -> Nat] /\ scores \in [Sides -> Nat]
    BY DEF Init
  <2>6. /\ our_side \in Sides /\ cycle \in Nat /\ step \in Nat
        /\ phase \in {"begun", "called", "sensed"} /\ idle \in Nat /\ calls \in Nat
        /\ lost \in Nat /\ rejoined \in Nat /\ field \in Sides \cup {"neutral"}
        /\ kick \in BOOLEAN /\ placed \in Nat /\ dead \in Nat
    BY DEF Init
  <2> QED
    BY <2>1, <2>2, <2>3, <2>4, <2>5, <2>6 DEF TypeOK, PlayerStates, PastStates, Names
<1>9. ShootoutCounted
  <2>1. \A s \in Sides : setups[s] = 0 /\ scores[s] = 0
    BY DEF Init
  <2>2. Opposite(our_side) \in Sides /\ our_side \in Sides
    BY OppositeOK DEF Init
  <2>3. past = [p \in Players |-> NothingMissed]
    BY DEF Init
  <2>4. \A p \in Players : player[p].pk = InitialPenalty
    BY <1>4, <1>6
  <2> QED
    BY <1>7, <2>1, <2>2, <2>3, <2>4 DEF ShootoutCounted, InitialPenalty
<1>10. ScoreTrue
  <2>1. goals["l"] = 1 /\ goals["r"] = 0
    BY DEF Init, Sides
  <2>2. \A p \in Players : player[p].mode.left = 1 /\ player[p].mode.right = 0
    BY <1>4, <1>5, <1>6
  <2> QED
    BY <2>1, <2>2 DEF ScoreTrue
<1>11. IntentionLives
  BY <1>4, <1>6 DEF IntentionLives
<1> QED
  BY <1>1, <1>8, <1>9, <1>10, <1>11 DEF Inv, Init

\* A call is heard by some and missed by others: what each has missed makes up
\* for the difference.
LEMMA AnnounceInv ==
    ASSUME Inv, NEW call \in NextCalls, NEW deaf \in SUBSET Players, Announce(call, deaf)
    PROVE  Inv'
<1>1. /\ CallOK(call)
      /\ call.name = "AfterGoal_" => call.score = goals[call.side] + 1
  BY NextCallsOK DEF Inv, TypeOK
<1>2. /\ \A p \in Players : player[p] \in PlayerStates /\ past[p] \in PastStates
      /\ our_side \in Sides /\ Opposite(our_side) \in Sides /\ cycle \in Nat
      /\ step \in Nat /\ dead \in Nat
  BY InvParts, OppositeOK
<1>3. call.name \in {"AfterGoal_", "PenaltySetup_", "PenaltyScore_", "PenaltyOnfield_"}
            => call.side \in Sides
  BY <1>1 DEF CallOK, Sided
<1>4. /\ goals' \in [Sides -> Nat] /\ setups' \in [Sides -> Nat] /\ scores' \in [Sides -> Nat]
      /\ \A s \in Sides :
            /\ goals'[s] = goals[s] + Added(call, "AfterGoal_", s)
            /\ setups'[s] = setups[s] + Added(call, "PenaltySetup_", s)
            /\ scores'[s] = scores[s] + Added(call, "PenaltyScore_", s)
  <2>1. /\ goals \in [Sides -> Nat] /\ setups \in [Sides -> Nat] /\ scores \in [Sides -> Nat]
    BY DEF Inv, TypeOK
  <2>2. /\ goals' = Tallied(goals, call, "AfterGoal_")
        /\ setups' = Tallied(setups, call, "PenaltySetup_")
        /\ scores' = Tallied(scores, call, "PenaltyScore_")
    BY DEF Announce, Tallied
  <2>3. goals' \in [Sides -> Nat] /\ \A s \in Sides :
            goals'[s] = goals[s] + Added(call, "AfterGoal_", s)
    BY <1>3, <2>1, <2>2, AddedOK
  <2>4. setups' \in [Sides -> Nat] /\ \A s \in Sides :
            setups'[s] = setups[s] + Added(call, "PenaltySetup_", s)
    BY <1>3, <2>1, <2>2, AddedOK
  <2>5. scores' \in [Sides -> Nat] /\ \A s \in Sides :
            scores'[s] = scores[s] + Added(call, "PenaltyScore_", s)
    BY <1>3, <2>1, <2>2, AddedOK
  <2> QED
    BY <2>3, <2>4, <2>5
<1>5. player' = [p \in Players |-> IF p \in deaf THEN player[p]
                                   ELSE Hear(player[p], call, our_side, cycle)]
      /\ past' = [p \in Players |-> Missing(past[p], call, p \in deaf)]
  BY DEF Announce
<1>6. ASSUME NEW p \in Players, p \notin deaf
      PROVE  /\ player'[p] \in PlayerStates
             /\ player'[p].mode.left = ScoreOf(call, "l", player[p].mode.left)
             /\ player'[p].mode.right = ScoreOf(call, "r", player[p].mode.right)
             /\ player'[p].pk.our_count =
                    player[p].pk.our_count + Added(call, "PenaltySetup_", our_side)
             /\ player'[p].pk.their_count =
                    player[p].pk.their_count + Added(call, "PenaltySetup_", Opposite(our_side))
             /\ player'[p].pk.our_score =
                    player[p].pk.our_score + Added(call, "PenaltyScore_", our_side)
             /\ player'[p].pk.their_score =
                    player[p].pk.their_score + Added(call, "PenaltyScore_", Opposite(our_side))
             /\ player'[p].intention \in {player[p].intention, NoIntention}
             /\ Known(call) /\ call.name \notin Harmless \cup Final =>
                    player'[p].intention = NoIntention
  <2>1. player'[p] = Hear(player[p], call, our_side, cycle)
    BY <1>5, <1>6
  <2> QED
    BY <1>1, <1>2, <2>1, HearOK
<1>7. ASSUME NEW p \in Players, p \in deaf
      PROVE  player'[p] = player[p]
  BY <1>5, <1>7
<1>8. ASSUME NEW p \in Players
      PROVE  /\ past'[p] \in PastStates
             /\ \A s \in Sides :
                  /\ s \in past'[p].unsure <=> IF call.name = "AfterGoal_" /\ call.side = s
                                               THEN p \in deaf ELSE s \in past[p].unsure
                  /\ past'[p].setups[s] = past[p].setups[s] +
                       (IF p \in deaf THEN Added(call, "PenaltySetup_", s) ELSE 0)
                  /\ past'[p].scores[s] = past[p].scores[s] +
                       (IF p \in deaf THEN Added(call, "PenaltyScore_", s) ELSE 0)
             /\ past'[p].whole = (past[p].whole /\ p \notin deaf /\ Known(call))
  <2> DEFINE missed == p \in deaf
  <2>1. past'[p] = Missing(past[p], call, missed)
    BY <1>5
  <2>2. missed \in BOOLEAN
    OBVIOUS
  <2> HIDE DEF missed
  <2>4. /\ past'[p] \in PastStates
        /\ \A s \in Sides :
             /\ s \in past'[p].unsure <=> IF call.name = "AfterGoal_" /\ call.side = s
                                          THEN missed ELSE s \in past[p].unsure
             /\ past'[p].setups[s] = past[p].setups[s] +
                  (IF missed THEN Added(call, "PenaltySetup_", s) ELSE 0)
             /\ past'[p].scores[s] = past[p].scores[s] +
                  (IF missed THEN Added(call, "PenaltyScore_", s) ELSE 0)
        /\ past'[p].whole = (past[p].whole /\ ~missed /\ Known(call))
    BY <1>1, <1>2, <2>1, <2>2, MissingOK
  <2> QED
    BY <2>4 DEF missed
<1>9. TypeOK'
  <2>1. player' \in [Players -> PlayerStates] /\ past' \in [Players -> PastStates]
    <3>1. \A p \in Players : player'[p] \in PlayerStates
      BY <1>2, <1>6, <1>7
    <3>2. \A p \in Players : past'[p] \in PastStates
      BY <1>8
    <3> QED
      BY <1>5, <3>1, <3>2
  <2>2. pm'.name \in Names
    BY <1>1 DEF Announce, CallOK
  <2>3. turn' \in Players
    <3>1. turn \in 1 .. TeamSize /\ TeamSize \in Nat \ {0}
      BY GameModeAssumption DEF Inv, TypeOK, Players
    <3> QED
      BY <3>1 DEF Announce, Players
  <2>4. lost' \in Nat
    <3>1. IsFiniteSet(Players)
      BY GameModeAssumption, FS_Interval DEF Players
    <3>2. Cardinality(deaf) \in Nat
      BY <3>1, FS_Subset, FS_CardinalityType
    <3>3. lost \in Nat
      BY DEF Inv, TypeOK
    <3>4. lost' = lost + Cardinality(deaf)
      BY DEF Announce
    <3> QED
      BY <3>2, <3>3, <3>4
  <2>5. /\ our_side' \in Sides /\ cycle' \in Nat /\ step' \in Nat
        /\ idle' \in Nat /\ rejoined' \in Nat
    BY DEF Announce, clock, Inv, TypeOK
  <2>6. /\ phase' \in {"begun", "called", "sensed"} /\ calls' \in Nat
        /\ kick' \in BOOLEAN /\ placed' \in Nat /\ dead' \in Nat
    <3>1. /\ calls \in Nat /\ placed \in Nat /\ cycle \in Nat /\ dead \in Nat
          /\ step \in Nat
      BY DEF Inv, TypeOK
    <3>2. phase' = "called" /\ kick' \in BOOLEAN
      BY DEF Announce
    <3>3. calls' = calls \/ calls' = calls + 1
      BY DEF Announce
    <3>4. placed' \in {placed, cycle} /\ dead' \in {dead, step}
      BY DEF Announce
    <3> QED
      BY <3>1, <3>2, <3>3, <3>4
  <2>7. field' \in Sides \cup {"neutral"}
    BY <1>3 DEF Announce, Inv, TypeOK
  <2> QED
    BY <1>4, <2>1, <2>2, <2>3, <2>4, <2>5, <2>6, <2>7
       DEF TypeOK, PlayerStates, PastStates, Names
<1>10. CallOK(pm)'
  BY <1>1 DEF Announce, CallOK
<1>11. our_side' = our_side /\ step' = step
       /\ dead' = (IF call.name \in Harmless \cup Final THEN dead ELSE step)
  BY DEF Announce, clock, Harmless, Final
<1>12. ShootoutCounted'
  <2> SUFFICES ASSUME NEW p \in Players
               PROVE  /\ player'[p].pk.our_count + past'[p].setups[our_side] = setups'[our_side]
                      /\ player'[p].pk.their_count + past'[p].setups[Opposite(our_side)]
                            = setups'[Opposite(our_side)]
                      /\ player'[p].pk.our_score + past'[p].scores[our_side] = scores'[our_side]
                      /\ player'[p].pk.their_score + past'[p].scores[Opposite(our_side)]
                            = scores'[Opposite(our_side)]
    BY <1>11 DEF ShootoutCounted
  <2>1. /\ player[p].pk.our_count + past[p].setups[our_side] = setups[our_side]
        /\ player[p].pk.their_count + past[p].setups[Opposite(our_side)]
              = setups[Opposite(our_side)]
        /\ player[p].pk.our_score + past[p].scores[our_side] = scores[our_side]
        /\ player[p].pk.their_score + past[p].scores[Opposite(our_side)]
              = scores[Opposite(our_side)]
    BY DEF Inv, ShootoutCounted
  <2>2. /\ player[p].pk.our_count \in Int /\ player[p].pk.their_count \in Int
        /\ player[p].pk.our_score \in Int /\ player[p].pk.their_score \in Int
        /\ \A s \in Sides : past[p].setups[s] \in Int /\ past[p].scores[s] \in Int
    BY <1>2 DEF PlayerStates, Penalties, PastStates
  <2>3. \A s \in Sides : Added(call, "PenaltySetup_", s) \in Int
                         /\ Added(call, "PenaltyScore_", s) \in Int
    BY DEF Added
  <2>4. CASE p \in deaf
    BY <1>2, <1>4, <1>7, <1>8, <2>1, <2>2, <2>3, <2>4
  <2>5. CASE p \notin deaf
    BY <1>2, <1>4, <1>6, <1>8, <2>1, <2>2, <2>3, <2>5
  <2> QED
    BY <2>4, <2>5
<1>13. ScoreTrue'
  <2> SUFFICES ASSUME NEW p \in Players
               PROVE  /\ "l" \notin past'[p].unsure => player'[p].mode.left = goals'["l"]
                      /\ "r" \notin past'[p].unsure => player'[p].mode.right = goals'["r"]
    BY DEF ScoreTrue
  <2>1. /\ "l" \notin past[p].unsure => player[p].mode.left = goals["l"]
        /\ "r" \notin past[p].unsure => player[p].mode.right = goals["r"]
    BY DEF Inv, ScoreTrue
  <2>2. "l" \in Sides /\ "r" \in Sides /\ goals["l"] \in Int /\ goals["r"] \in Int
    <3>1. goals \in [Sides -> Nat]
      BY DEF Inv, TypeOK
    <3> QED
      BY <3>1 DEF Sides
  <2>3. CASE p \in deaf
    BY <1>4, <1>7, <1>8, <2>1, <2>2, <2>3 DEF Added
  <2>4. CASE p \notin deaf
    BY <1>1, <1>4, <1>6, <1>8, <2>1, <2>2, <2>4 DEF Added, ScoreOf
  <2> QED
    BY <2>3, <2>4
<1>14. IntentionLives'
  <2> SUFFICES ASSUME NEW p \in Players, player'[p].intention # NoIntention
               PROVE  /\ past'[p].whole => player'[p].intention.step >= dead'
                      /\ player'[p].intention.last - player'[p].intention.born
                            <= IntentionSteps - player'[p].intention.left
    BY DEF IntentionLives
  <2>1. player'[p].intention = player[p].intention
    BY <1>6, <1>7
  <2>2. /\ past[p].whole => player[p].intention.step >= dead
        /\ player[p].intention.last - player[p].intention.born
              <= IntentionSteps - player[p].intention.left
    BY <2>1 DEF Inv, IntentionLives
  <2>3. past'[p].whole => past[p].whole /\ dead' = dead
    BY <1>6, <1>8, <1>11
  <2> QED
    BY <2>1, <2>2, <2>3
<1>15. dead' <= step'
  BY <1>2, <1>11 DEF Inv
<1> QED
  BY <1>9, <1>10, <1>12, <1>13, <1>14, <1>15 DEF Inv

\* A step of a player: only its intention changes.
LEMMA SenseInv ==
    ASSUME Inv, NEW choice \in Choices, SenseBody(choice)
    PROVE  Inv'
<1>1. /\ player \in [Players -> PlayerStates] /\ past \in [Players -> PastStates]
      /\ cycle \in Nat /\ step \in Nat
      /\ \A p \in Players : Timely(player[p].intention)
  BY InvParts
<1> DEFINE chosen(p) == IF p \in Receivers THEN choice ELSE "search"
<1>2. \A p \in Players : chosen(p) \in Choices
  BY DEF Choices
<1>3. player' = [p \in Players |-> Sense(player[p], cycle, chosen(p))]
  BY DEF SenseBody
<1> HIDE DEF chosen
<1>4. ASSUME NEW p \in Players
      PROVE  /\ player'[p] \in PlayerStates /\ player'[p].mode = player[p].mode
             /\ player'[p].pk = player[p].pk
             /\ Timely(player'[p].intention)
             /\ Follows(player'[p].intention, player[p].intention)
  <2>1. player'[p] = Sense(player[p], cycle, chosen(p))
    BY <1>3
  <2> QED
    BY <1>1, <1>2, <2>1, SenseOK
<1>5. /\ our_side' = our_side /\ pm' = pm /\ goals' = goals /\ setups' = setups
      /\ scores' = scores /\ dead' = dead /\ step' = step /\ past' = past
      /\ calls' = calls /\ field' = field /\ turn' = turn /\ kick' = kick
      /\ placed' = placed /\ cycle' = cycle /\ lost' = lost /\ rejoined' = rejoined
  BY DEF SenseBody, announced
<1>6. TypeOK'
  <2>1. player' \in [Players -> PlayerStates]
    BY <1>3, <1>4
  <2>2. phase' \in {"begun", "called", "sensed"}
    BY DEF SenseBody
  <2>3. idle' \in Nat
    <3>1. idle \in Nat
      BY DEF Inv, TypeOK
    <3>2. idle' = idle \/ idle' = idle + 1
      BY DEF SenseBody
    <3> QED
      BY <3>1, <3>2
  <2>4. TypeOK
    BY DEF Inv
  <2> QED
    BY <1>5, <2>1, <2>2, <2>3, <2>4 DEF TypeOK, PlayerStates
<1>7. CallOK(pm)'
  BY <1>5 DEF Inv, CallOK
<1>8. ShootoutCounted'
  BY <1>4, <1>5 DEF Inv, ShootoutCounted
<1>9. ScoreTrue'
  BY <1>4, <1>5 DEF Inv, ScoreTrue
<1>10. IntentionLives'
  <2> SUFFICES ASSUME NEW p \in Players, player'[p].intention # NoIntention
               PROVE  /\ past'[p].whole => player'[p].intention.step >= dead'
                      /\ player'[p].intention.last - player'[p].intention.born
                            <= IntentionSteps - player'[p].intention.left
    BY DEF IntentionLives
  <2>1. \/ player'[p].intention.step = step
        \/ /\ player[p].intention # NoIntention
           /\ player'[p].intention.step = player[p].intention.step
    BY <1>4 DEF Follows
  <2>2. player[p].intention # NoIntention /\ past[p].whole
            => player[p].intention.step >= dead
    BY DEF Inv, IntentionLives
  <2>3. dead <= step /\ dead \in Nat
    BY InvParts DEF Inv
  <2>4. past'[p].whole => player'[p].intention.step >= dead'
    BY <1>1, <1>5, <2>1, <2>2, <2>3
  <2> QED
    BY <1>4, <2>4 DEF Timely
<1>11. dead' <= step'
  BY <1>5 DEF Inv
<1> QED
  BY <1>6, <1>7, <1>8, <1>9, <1>10, <1>11 DEF Inv

LEMMA NextStepInv ==
    ASSUME Inv, NextStep
    PROVE  Inv'
<1>1. /\ our_side' = our_side /\ pm' = pm /\ goals' = goals /\ setups' = setups
      /\ scores' = scores /\ dead' = dead /\ step' = step + 1 /\ player' = player
      /\ calls' = calls /\ field' = field /\ turn' = turn /\ kick' = kick /\ idle' = idle
      /\ placed' = placed /\ lost' = lost /\ rejoined' = rejoined /\ phase' = "begun"
  BY DEF NextStep, announced
<1>2. /\ past \in [Players -> PastStates] /\ cycle \in Nat /\ step \in Nat /\ dead \in Nat
  BY InvParts
<1>3. past' = [p \in Players |-> [past[p] EXCEPT !.returned = FALSE]]
  BY DEF NextStep
<1>4. ASSUME NEW p \in Players
      PROVE  /\ past'[p] \in PastStates /\ past'[p].unsure = past[p].unsure
             /\ past'[p].setups = past[p].setups /\ past'[p].scores = past[p].scores
             /\ past'[p].whole = past[p].whole
  <2>1. past'[p] = [past[p] EXCEPT !.returned = FALSE] /\ past[p] \in PastStates
    BY <1>2, <1>3
  <2> QED
    BY <2>1 DEF PastStates
<1>5. TypeOK'
  <2>1. past' \in [Players -> PastStates]
    BY <1>3, <1>4
  <2>2. cycle' \in Nat /\ step' \in Nat
    <3>1. cycle' = cycle \/ cycle' = cycle + 1
      BY DEF NextStep
    <3> QED
      BY <1>1, <1>2, <3>1
  <2>3. TypeOK
    BY DEF Inv
  <2> QED
    BY <1>1, <2>1, <2>2, <2>3 DEF TypeOK, PastStates
<1>6. CallOK(pm)'
  BY <1>1 DEF Inv, CallOK
<1>7. ShootoutCounted'
  BY <1>1, <1>4 DEF Inv, ShootoutCounted
<1>8. ScoreTrue'
  BY <1>1, <1>4 DEF Inv, ScoreTrue
<1>9. IntentionLives'
  BY <1>1, <1>4 DEF Inv, IntentionLives
<1>10. dead' <= step'
  BY <1>1, <1>2 DEF Inv
<1> QED
  BY <1>5, <1>6, <1>7, <1>8, <1>9, <1>10 DEF Inv

\* A player that is restarted has missed all that was counted.
LEMMA RejoinInv ==
    ASSUME Inv, NEW q \in Players, Rejoin(q)
    PROVE  Inv'
<1>1. /\ our_side' = our_side /\ pm' = pm /\ goals' = goals /\ setups' = setups
      /\ scores' = scores /\ dead' = dead /\ step' = step /\ cycle' = cycle
      /\ calls' = calls /\ field' = field /\ turn' = turn /\ kick' = kick /\ idle' = idle
      /\ placed' = placed /\ lost' = lost /\ phase' = phase /\ rejoined' = rejoined + 1
  BY DEF Rejoin, announced, clock
<1>2. /\ player \in [Players -> PlayerStates] /\ past \in [Players -> PastStates]
      /\ our_side \in Sides /\ setups \in [Sides -> Nat] /\ scores \in [Sides -> Nat]
      /\ rejoined \in Nat
  BY InvParts DEF Inv, TypeOK
<1> DEFINE missed == [astray |-> TRUE, returned |-> FALSE, unsure |-> Sides,
                      setups |-> setups, scores |-> scores,
                      onfield |-> FALSE, catch |-> FALSE, whole |-> FALSE]
<1>3. /\ player' = [player EXCEPT ![q] = Reconnect(pm)]
      /\ past' = [past EXCEPT ![q] = missed]
  BY DEF Rejoin
<1>4. /\ Reconnect(pm) \in PlayerStates /\ Reconnect(pm).pk = InitialPenalty
      /\ Reconnect(pm).intention = NoIntention
  BY ReconnectOK DEF Inv, Rejoin
<1>5. missed \in PastStates
  <2>1. setups \in [Sides -> Int] /\ scores \in [Sides -> Int]
    BY <1>2
  <2> QED
    BY <2>1 DEF PastStates
<1>6. /\ missed.setups = setups /\ missed.scores = scores /\ missed.unsure = Sides
      /\ ~missed.whole
  OBVIOUS
<1> HIDE DEF missed
<1>7. player'[q] = Reconnect(pm) /\ past'[q] = missed
  BY <1>2, <1>3
<1>8. \A p \in Players : p # q => player'[p] = player[p] /\ past'[p] = past[p]
  BY <1>2, <1>3
<1>9. TypeOK'
  <2>1. player' \in [Players -> PlayerStates] /\ past' \in [Players -> PastStates]
    BY <1>2, <1>3, <1>4, <1>5
  <2>2. TypeOK /\ rejoined' \in Nat
    BY <1>1, <1>2 DEF Inv
  <2> QED
    BY <1>1, <2>1, <2>2 DEF TypeOK, PlayerStates, PastStates
<1>10. CallOK(pm)'
  BY <1>1 DEF Inv, CallOK
<1>11. ShootoutCounted'
  <2> SUFFICES ASSUME NEW p \in Players
               PROVE  /\ player'[p].pk.our_count + past'[p].setups[our_side] = setups[our_side]
                      /\ player'[p].pk.their_count + past'[p].setups[Opposite(our_side)]
                            = setups[Opposite(our_side)]
                      /\ player'[p].pk.our_score + past'[p].scores[our_side] = scores[our_side]
                      /\ player'[p].pk.their_score + past'[p].scores[Opposite(our_side)]
                            = scores[Opposite(our_side)]
    BY <1>1 DEF ShootoutCounted
  <2>1. CASE p = q
    <3>1. \A s \in Sides : 0 + setups[s] = setups[s] /\ 0 + scores[s] = scores[s]
      BY <1>2
    <3> QED
      BY <1>2, <1>4, <1>6, <1>7, <2>1, <3>1, OppositeOK DEF InitialPenalty
  <2>2. CASE p # q
    BY <1>8, <2>2 DEF Inv, ShootoutCounted
  <2> QED
    BY <2>1, <2>2
<1>12. ScoreTrue'
  BY <1>1, <1>6, <1>7, <1>8 DEF Inv, ScoreTrue, Sides
<1>13. IntentionLives'
  BY <1>1, <1>4, <1>7, <1>8 DEF Inv, IntentionLives
<1>14. dead' <= step'
  BY <1>1 DEF Inv
<1> QED
  BY <1>9, <1>10, <1>11, <1>12, <1>13, <1>14 DEF Inv

LEMMA NextInv == Inv /\ [Next]_vars => Inv'
<1> SUFFICES ASSUME Inv, [Next]_vars PROVE Inv'
  OBVIOUS
<1>1. CASE \E call \in NextCalls, deaf \in SUBSET Players : Announce(call, deaf)
  BY <1>1, AnnounceInv
<1>2. CASE \E choice \in Choices : SenseBody(choice)
  BY <1>2, SenseInv
<1>3. CASE NextStep
  BY <1>3, NextStepInv
<1>4. CASE \E p \in Players : Rejoin(p)
  BY <1>4, RejoinInv
<1>5. CASE UNCHANGED vars
  BY <1>5 DEF vars, announced, clock, Inv, TypeOK, CallOK, ShootoutCounted, ScoreTrue,
              IntentionLives
<1> QED
  BY <1>1, <1>2, <1>3, <1>4, <1>5 DEF Next

LEMMA Inductive == Spec => []Inv
<1>1. Init => Inv
  BY InitInv
<1>2. Inv /\ [Next]_vars => Inv'
  BY NextInv
<1> QED
  BY <1>1, <1>2, PTL DEF Spec

-----------------------------------------------------------------------------

\* Whatever is called, lost or restarted, the state of the referee and of every
\* player stays in its type: the takers of penalty kicks are players of the team
\* for any team size (PenaltyKickState, GameMode, IntentionReceive).
THEOREM TypeCorrect == Spec => []TypeOK
<1>1. Inv => TypeOK
  BY DEF Inv
<1> QED
  BY <1>1, Inductive, PTL

\* The penalty kicks that a player counted and those it did not hear of add up to
\* those that were set up and scored, whatever is lost and whenever a player is
\* restarted (PenaltyKickState::update).
THEOREM Counted == Spec => []ShootoutCounted
<1>1. Inv => ShootoutCounted
  BY DEF Inv
<1> QED
  BY <1>1, Inductive, PTL

\* A player that heard a side's last goal knows its score, however many goals or
\* restarts it missed before (GameMode::update takes the score from the call).
THEOREM ScoreKnown == Spec => []ScoreTrue
<1>1. Inv => ScoreTrue
  BY DEF Inv
<1> QED
  BY <1>1, Inductive, PTL

\* An intention is carried on for no more steps than it has, and outlives no dead
\* ball in the eyes of a player that missed nothing (IntentionReceive::finished,
\* PlayerAgent::Impl::analyzeHearReferee).
THEOREM IntentionFresh == Spec => []IntentionLives
<1>1. Inv => IntentionLives
  BY DEF Inv
<1> QED
  BY <1>1, Inductive, PTL

-----------------------------------------------------------------------------
(* What a player makes of a call, part by part                             *)

HeardTime(p, c) == UpdateCurrentTime(p, c, FALSE)

HeardMode(p, call, c) ==
    UpdateMode(p.mode, IF Known(call) THEN call ELSE Call("PlayOn", "neutral"),
               HeardTime(p, c))

LEMMA HearParts ==
    ASSUME NEW p \in PlayerStates, NEW call, NEW side, NEW c
    PROVE  LET new == Hear(p, call, side, c)
               mode == HeardMode(p, call, c)
               time == HeardTime(p, c)
           IN  /\ new.mode = mode /\ new.time = time /\ new.decided = p.decided
               /\ new.stopped = IF Known(call) THEN UpdateServerStatus(mode) ELSE p.stopped
               /\ IF Known(call) /\ ~IsGameEndMode(mode.type)
                  THEN /\ new.world = mode
                       /\ new.start = IF NewSetPlay(p.world.type, mode.type) THEN time
                                      ELSE p.start
                       /\ new.pk = IF IsPenaltyKickMode(mode.type)
                                   THEN UpdatePenalty(p.pk, mode, side) ELSE p.pk
                  ELSE new.world = p.world /\ new.start = p.start /\ new.pk = p.pk
<1> DEFINE mode == HeardMode(p, call, c)
           time == HeardTime(p, c)
           new == Hear(p, call, side, c)
<1>1. p = [mode |-> p.mode, world |-> p.world, stopped |-> p.stopped, time |-> p.time,
           decided |-> p.decided, start |-> p.start, pk |-> p.pk,
           intention |-> p.intention]
  BY DEF PlayerStates
<1>2. new = IF ~Known(call) THEN [p EXCEPT !.time = time, !.mode = mode]
            ELSE IF IsGameEndMode(mode.type)
            THEN [p EXCEPT !.time = time, !.mode = mode, !.stopped = UpdateServerStatus(mode)]
            ELSE [p EXCEPT !.time = time, !.mode = mode,
                           !.stopped = UpdateServerStatus(mode), !.world = mode,
                           !.start = IF NewSetPlay(p.world.type, mode.type) THEN time ELSE @,
                           !.pk = IF IsPenaltyKickMode(mode.type)
                                  THEN UpdatePenalty(p.pk, mode, side) ELSE @,
                           !.intention = IF KeepsIntention(mode.type) THEN @ ELSE NoIntention]
  BY DEF Hear, HeardMode, HeardTime
<1> HIDE DEF time, mode, new
<1>3. CASE ~Known(call)
  BY <1>1, <1>2, <1>3 DEF new, mode, time
<1>4. CASE Known(call) /\ IsGameEndMode(mode.type)
  BY <1>1, <1>2, <1>4 DEF new, mode, time
<1>5. CASE Known(call) /\ ~IsGameEndMode(mode.type)
  <2> DEFINE start == IF NewSetPlay(p.world.type, mode.type) THEN time ELSE p.start
             pk == IF IsPenaltyKickMode(mode.type)
                   THEN UpdatePenalty(p.pk, mode, side) ELSE p.pk
             intention == IF KeepsIntention(mode.type) THEN p.intention ELSE NoIntention
             status == UpdateServerStatus(mode)
  <2>1. new = [p EXCEPT !.time = time, !.mode = mode, !.stopped = status, !.world = mode,
                        !.start = start, !.pk = pk, !.intention = intention]
    BY <1>2, <1>5
  <2> HIDE DEF start, pk, intention, status
  <2>2. /\ new.mode = mode /\ new.time = time /\ new.decided = p.decided
        /\ new.stopped = status /\ new.world = mode /\ new.start = start /\ new.pk = pk
    BY <1>1, <2>1
  <2> QED
    BY <1>5, <2>2 DEF new, mode, time, start, pk, status
<1> QED
  BY <1>3, <1>4, <1>5

\* The time of a call is in the cycle of the server.
LEMMA HeardTimeOK ==
    ASSUME NEW p \in PlayerStates, NEW c \in Nat
    PROVE  /\ HeardTime(p, c) \in Times /\ HeardTime(p, c).cycle = c
           /\ ~p.stopped \/ p.time.cycle # c => HeardTime(p, c) = GameTime(c, 0)
           /\ p.stopped /\ p.time.cycle = c => HeardTime(p, c) = p.time
  BY DEF HeardTime, UpdateCurrentTime, GameTime, PlayerStates, Times

\* A known call is told by its mode, unless it is the kick of a catch.
LEMMA HeardModeOK ==
    ASSUME NEW p \in PlayerStates, NEW call, NEW c
    PROVE  LET mode == HeardMode(p, call, c)
               kept == CatchKept(p.mode, Parse(call), HeardTime(p, c))
           IN  /\ mode.time = HeardTime(p, c)
               /\ ~Known(call) => mode.type = "PlayOn"
               /\ Known(call) /\ ~kept => <<mode.type, mode.side>> = Parse(call)
               /\ Known(call) /\ kept =>
                    /\ mode.type = p.mode.type /\ mode.side = p.mode.side
                    /\ p.mode.type = "GoalieCatch_" /\ Parse(call) = <<"FreeKick_", p.mode.side>>
                    /\ p.mode.time = HeardTime(p, c)
<1> DEFINE time == HeardTime(p, c)
           heard == IF Known(call) THEN call ELSE Call("PlayOn", "neutral")
           mode == HeardMode(p, call, c)
<1>1. mode.time = time
  BY DEF HeardMode, UpdateMode, Mode
<1>2. ASSUME ~Known(call) PROVE mode.type = "PlayOn"
  <2>1. Parse(heard) = <<"PlayOn", "neutral">>
    BY <1>2 DEF Parse, Call, Sided, Neutral
  <2>2. ~CatchKept(p.mode, Parse(heard), time)
    BY <2>1 DEF CatchKept
  <2>3. mode.type = Parse(heard)[1]
    BY <2>2 DEF HeardMode, UpdateMode, Mode
  <2> QED
    BY <2>1, <2>3
<1>3. ASSUME Known(call), ~CatchKept(p.mode, Parse(call), time)
      PROVE  <<mode.type, mode.side>> = Parse(call)
  <2>1. mode.type = Parse(call)[1] /\ mode.side = Parse(call)[2]
    BY <1>3 DEF HeardMode, UpdateMode, Mode
  <2>2. Parse(call) = <<Parse(call)[1], Parse(call)[2]>>
    BY DEF Parse
  <2> QED
    BY <2>1, <2>2
<1>4. ASSUME Known(call), CatchKept(p.mode, Parse(call), time)
      PROVE  /\ mode.type = p.mode.type /\ mode.side = p.mode.side
             /\ p.mode.type = "GoalieCatch_" /\ Parse(call) = <<"FreeKick_", p.mode.side>>
             /\ p.mode.time = time
  <2>1. mode.type = p.mode.type /\ mode.side = p.mode.side
    BY <1>4 DEF HeardMode, UpdateMode, Mode
  <2> QED
    BY <1>4, <2>1 DEF CatchKept
<1> QED
  BY <1>1, <1>2, <1>3, <1>4

SensedTime(p, c) == UpdateCurrentTime(p, c, TRUE)

\* What a player makes of a sense_body: it decides on the game time.
LEMMA SenseParts ==
    ASSUME NEW p \in PlayerStates, NEW c \in Nat, NEW choice \in Choices,
           Timely(p.intention), step \in Nat
    PROVE  LET new == Sense(p, c, choice)
               time == SensedTime(p, c)
           IN  /\ new.mode = p.mode /\ new.world = p.world /\ new.stopped = p.stopped
               /\ new.start = p.start /\ new.pk = p.pk
               /\ new.time = time /\ new.decided = time
<1> DEFINE time == SensedTime(p, c)
           timed == [p EXCEPT !.time = time]
           decision == Decide(timed, choice)
           new == Sense(p, c, choice)
<1>1. time \in Times
  BY TimeOK DEF SensedTime
<1>2. /\ p = [mode |-> p.mode, world |-> p.world, stopped |-> p.stopped, time |-> p.time,
              decided |-> p.decided, start |-> p.start, pk |-> p.pk,
              intention |-> p.intention]
      /\ p.mode \in Modes /\ p.world \in Modes /\ p.stopped \in BOOLEAN
      /\ p.decided \in Times /\ p.start \in Times /\ p.pk \in Penalties
      /\ p.intention \in Intentions
  BY DEF PlayerStates
<1>3. new = IF timed.time = p.decided THEN timed
            ELSE [decision EXCEPT !.decided = timed.time]
  BY DEF Sense, SensedTime
<1> HIDE DEF time
<1>4. /\ timed = [mode |-> p.mode, world |-> p.world, stopped |-> p.stopped, time |-> time,
                  decided |-> p.decided, start |-> p.start, pk |-> p.pk,
                  intention |-> p.intention]
      /\ timed \in PlayerStates /\ timed.intention = p.intention
  BY <1>1, <1>2 DEF PlayerStates
<1>5. decision = [timed EXCEPT !.intention = decision.intention]
  <2> HIDE DEF timed
  <2> QED
    BY <1>4, DecideOK
<1> HIDE DEF timed, decision, new
<1>6. CASE timed.time = p.decided
  BY <1>3, <1>4, <1>6 DEF new, time
<1>7. CASE timed.time # p.decided
  <2> DEFINE intention == decision.intention
  <2>1. decision = [mode |-> p.mode, world |-> p.world, stopped |-> p.stopped,
                    time |-> time, decided |-> p.decided, start |-> p.start,
                    pk |-> p.pk, intention |-> intention]
    <3> HIDE DEF intention
    <3> QED
      BY <1>4, <1>5 DEF intention
  <2> HIDE DEF intention
  <2> QED
    BY <1>3, <1>4, <1>7, <2>1 DEF new, time
<1> QED
  BY <1>6, <1>7

\* What a player makes of init when it is restarted.
LEMMA ReconnectParts ==
    ASSUME NEW call
    PROVE  LET new == Reconnect(call)
           IN  /\ new.mode.type = Parse(call)[1] /\ new.mode.side = Parse(call)[2]
               /\ new.mode.time = GameTime(0, 0)
               /\ new.stopped = IsServerCycleStoppedMode(new.mode.type)
               /\ new.time = GameTime(0, 0) /\ new.decided = NoTime
               /\ new.start = GameTime(0, 0)
<1> DEFINE zero == GameTime(0, 0)
           first == InitialMode(NoTime)
           mode == UpdateMode(first, call, zero)
           new == Reconnect(call)
<1>1. Fresh = [mode |-> first, world |-> first, stopped |-> TRUE, time |-> zero,
               decided |-> NoTime, start |-> zero, pk |-> InitialPenalty,
               intention |-> NoIntention]
  BY DEF Fresh
<1>2. first.type = "BeforeKickOff"
  BY DEF InitialMode, Mode
<1>3. mode.type = Parse(call)[1] /\ mode.side = Parse(call)[2] /\ mode.time = zero
  <2> HIDE DEF first, zero
  <2> QED
    BY <1>2 DEF UpdateMode, CatchKept, Mode
<1> HIDE DEF zero, first
<1>4. Fresh.mode = first /\ Fresh.time = zero
  BY <1>1
<1> HIDE DEF mode
<1>5. new = [Fresh EXCEPT !.mode = mode, !.stopped = UpdateServerStatus(mode)]
  BY <1>4 DEF Reconnect, mode
<1> DEFINE status == UpdateServerStatus(mode)
<1>6. status = IsServerCycleStoppedMode(mode.type)
  BY DEF UpdateServerStatus
<1> HIDE DEF status
<1>7. new = [Fresh EXCEPT !.mode = mode, !.stopped = status]
  BY <1>5 DEF status
<1>8. /\ new.mode = mode /\ new.stopped = status /\ new.time = zero
      /\ new.decided = NoTime /\ new.start = zero
  BY <1>1, <1>7
<1> QED
  BY <1>3, <1>6, <1>8 DEF zero

\* A step changes what a player missed in this one; a restart leaves the others alone.
LEMMA StepPast ==
    ASSUME past \in [Players -> PastStates], NextStep, NEW p \in Players
    PROVE  /\ player'[p] = player[p]
           /\ past'[p].astray = past[p].astray /\ past'[p].catch = past[p].catch
           /\ past'[p].whole = past[p].whole /\ past'[p].onfield = past[p].onfield
           /\ past'[p].setups = past[p].setups /\ past'[p].returned = FALSE
<1>1. past'[p] = [past[p] EXCEPT !.returned = FALSE] /\ past[p] \in PastStates
  BY DEF NextStep
<1> QED
  BY <1>1 DEF PastStates, NextStep

LEMMA RejoinPast ==
    ASSUME player \in [Players -> PlayerStates], past \in [Players -> PastStates],
           NEW q \in Players, Rejoin(q), NEW p \in Players
    PROVE  \/ player'[p] = player[p] /\ past'[p] = past[p]
           \/ /\ p = q /\ player'[p] = Reconnect(pm)
              /\ past'[p].astray /\ ~past'[p].catch /\ ~past'[p].whole /\ ~past'[p].onfield
  BY DEF Rejoin

\* A sense_body leaves a player what it heard of the referee.
LEMMA BodyParts ==
    ASSUME Inv, NEW choice \in Choices, SenseBody(choice), NEW p \in Players
    PROVE  /\ player'[p].mode = player[p].mode /\ player'[p].world = player[p].world
           /\ player'[p].stopped = player[p].stopped /\ player'[p].start = player[p].start
           /\ player'[p].pk = player[p].pk
           /\ player'[p].time = SensedTime(player[p], cycle)
           /\ player'[p].decided = SensedTime(player[p], cycle)
<1>1. /\ player[p] \in PlayerStates /\ cycle \in Nat /\ step \in Nat
      /\ Timely(player[p].intention)
  BY InvParts
<1>2. PICK chosen \in Choices : player'[p] = Sense(player[p], cycle, chosen)
  BY DEF SenseBody, Choices
<1> QED
  BY <1>1, <1>2, SenseParts

-----------------------------------------------------------------------------
(* In touch with the referee                                               *)

\* What the referee calls, and when: a catch is followed by the goalie's kick in
\* the same step, and no cycle begins while the clock does not run.
CallsKept ==
    /\ pm.name \notin {"FoulPush_", "FreeKickFault_", "BackPass_"}
    /\ pm.name = "GoalieCatch_" => phase = "called" /\ placed = cycle
    /\ kick => pm.name = "FreeKick_"
    /\ ClockStops(pm) => placed = cycle

\* A player's time is not ahead; when play went on before, it is behind, or the
\* player will count a new cycle anyway.
TimeKept(p) ==
    /\ player[p].time.cycle <= cycle
    /\ phase = "begun" /\ ~ClockStops(pm) => player[p].time.cycle < cycle \/ ~player[p].stopped

\* The catch in force is known to those that heard of it, and a catch that was
\* heard in this cycle is the one in force, or its kick is.
CatchHeard(p) ==
    /\ pm.name = "GoalieCatch_" /\ past[p].catch =>
          /\ player[p].mode.type = "GoalieCatch_" /\ player[p].mode.side = pm.side
          /\ player[p].mode.time = GameTime(cycle, 0) /\ ~player[p].stopped
    /\ player[p].mode.type = "GoalieCatch_" =>
          /\ player[p].mode.time.cycle <= cycle
          /\ player[p].mode.time.cycle = cycle =>
                /\ phase # "begun" /\ pm.name \in {"GoalieCatch_", "FreeKick_"}
                /\ pm.name = "GoalieCatch_" => past[p].catch

\* The last decision of a player in touch was made in the last step: when the
\* clock stood still then, the time that it was made in counts the steps.
DecisionKept(p) ==
    LET decided == player[p].decided
        time == player[p].time
    IN  ~past[p].astray =>
          /\ phase = "begun" =>
                IF ClockStops(pm)
                THEN /\ time.cycle = cycle
                     /\ decided.cycle < cycle \/ (decided = time /\ time.stopped > 0)
                ELSE decided.cycle < cycle
          /\ phase = "called" =>
                /\ time.cycle = cycle
                /\ ~past[p].returned =>
                      \/ decided.cycle < cycle
                      \/ decided.stopped > 0 /\ ~ClockStops(pm) /\ ~Passing(pm)
          /\ phase = "sensed" =>
                /\ decided = time /\ time.cycle = cycle
                /\ IF ClockStops(pm) THEN time.stopped > 0 ELSE time.stopped = 0

Touch ==
    /\ CallsKept
    /\ \A p \in Players :
          /\ TimeKept(p) /\ CatchHeard(p) /\ DecisionKept(p)
          /\ past[p].whole => ~past[p].astray
          /\ ~past[p].astray => Known(pm)

-----------------------------------------------------------------------------
(* The referee's calls in their order                                      *)

LEMMA CallNames ==
    /\ \A S : \A k \in Each(S) \cup One(S) : k.name \in S
    /\ \A name, side : Call(name, side).name = name /\ Call(name, side).side = side
    /\ \A side : Goal(side).name = "AfterGoal_"
<1>1. \A S : \A k \in Each(S) : k.name \in S
  BY DEF Each, Call
<1>2. \A S : \A k \in One(S) : k.name \in S
  BY DEF One, Call
<1>3. \A name, side : Call(name, side).name = name /\ Call(name, side).side = side
  BY DEF Call
<1>4. \A side : Goal(side).name = "AfterGoal_"
  BY DEF Goal, Call
<1> QED
  BY <1>1, <1>2, <1>3, <1>4

\* What is called after what: the calls that stop the clock are followed by a
\* kick, a catch happens in play and is followed by the goalie's kick.
LEMMA CallsFollow ==
    ASSUME NEW call \in NextCalls
    PROVE  /\ call.name \notin {"FoulPush_", "FreeKickFault_", "BackPass_"}
           /\ call.name = "GoalieCatch_" => pm.name = "PlayOn"
           /\ pm.name = "GoalieCatch_" => call = Call("FreeKick_", pm.side)
           /\ pm.name \in {"OffSide_", "FoulCharge_", "CatchFault_"} =>
                call = Call("FreeKick_", Opposite(pm.side))
           /\ pm.name = "FreeKick_" => call.name \in {"PlayOn", "drop_ball", "FreeKick_"}
           /\ pm.name \in {"BeforeKickOff", "AfterGoal_"} => call.name = "KickOff_"
           /\ ClockStops(pm) => ~Passing(call) /\ ~ClockStops(call)
<1> DEFINE Other(k) == k.name \notin {"FoulPush_", "FreeKickFault_", "BackPass_"}
           NoCatch(k) == k.name # "GoalieCatch_"
<1>s. ASSUME NEW S, {"FoulPush_", "FreeKickFault_", "BackPass_"} \cap S = {}
      PROVE  \A k \in Each(S) \cup One(S) : Other(k)
  BY <1>s, CallNames
<1>c. ASSUME NEW S, "GoalieCatch_" \notin S
      PROVE  \A k \in Each(S) \cup One(S) : NoCatch(k)
  BY <1>c, CallNames
<1>g. \A side : Other(Goal(side))
  BY CallNames
<1>k. \A side : \A name \in {"KickOff_", "FreeKick_", "PenaltySetup_", "PenaltyReady_",
                             "PenaltyTaken_", "PenaltyMiss_", "PenaltyScore_"} :
            Other(Call(name, side)) /\ NoCatch(Call(name, side))
  BY CallNames
<1>1. Other(call)
  <2> HIDE DEF Other
  <2> QED
    BY <1>s, <1>g, <1>k DEF NextCalls
<1>2. pm.name # "PlayOn" => NoCatch(call)
  <2> HIDE DEF NoCatch
  <2> QED
    BY <1>c, <1>k DEF NextCalls
<1>3. pm.name = "GoalieCatch_" => call = Call("FreeKick_", pm.side)
  BY DEF NextCalls
<1>4. pm.name \in {"OffSide_", "FoulCharge_", "CatchFault_"} =>
        call = Call("FreeKick_", Opposite(pm.side))
  BY DEF NextCalls
<1>5. pm.name = "FreeKick_" => call.name \in {"PlayOn", "drop_ball", "FreeKick_"}
  BY CallNames DEF NextCalls
<1>6. pm.name \in {"BeforeKickOff", "AfterGoal_"} => call.name = "KickOff_"
  BY CallNames DEF NextCalls
<1>7. pm.name = "unknown stop" => call.name \in {"PlayOn", "FreeKick_"}
  BY CallNames DEF NextCalls
<1>8. ClockStops(pm) => call.name \in {"PlayOn", "FreeKick_", "KickOff_"}
  BY <1>4, <1>6, <1>7, CallNames DEF ClockStops
<1>9. call.name \in {"PlayOn", "FreeKick_", "KickOff_"} => ~Passing(call) /\ ~ClockStops(call)
  BY DEF Passing, ClockStops
<1> QED
  BY <1>1, <1>2, <1>3, <1>4, <1>5, <1>6, <1>8, <1>9

LEMMA ParseType ==
    ASSUME NEW call
    PROVE  Parse(call)[1] = IF call.name \in Sided \cup Neutral THEN call.name
                            ELSE IF call.name = "foul" THEN "FreeKick_"
                            ELSE IF call.name = "drop_ball" THEN "PlayOn"
                            ELSE IF call.name = "half_time" THEN "FirstHalfOver"
                            ELSE "TimeOver"
<1>1. /\ Sided \cap Neutral = {}
      /\ {"drop_ball", "foul", "half_time"} \cap (Sided \cup Neutral) = {}
  BY DEF Sided, Neutral
<1>2. CASE call.name \in Sided
  BY <1>1, <1>2 DEF Parse
<1>3. CASE call.name \in Neutral
  BY <1>1, <1>3 DEF Parse
<1>4. CASE call.name \notin Sided \cup Neutral
  BY <1>1, <1>4 DEF Parse
<1> QED
  BY <1>2, <1>3, <1>4

\* The same mode is called twice in a row for a free kick, play or penalties only.
LEMMA CallsDiffer ==
    ASSUME NEW call \in NextCalls, Parse(call)[1] = Parse(pm)[1], Known(call)
    PROVE  Parse(call)[1] \in {"FreeKick_", "PlayOn"} \/ IsPenaltyKickMode(Parse(call)[1])
<1> DEFINE Penalty == {"PenaltySetup_", "PenaltyReady_", "PenaltyTaken_", "PenaltyMiss_",
                       "PenaltyScore_", "PenaltyOnfield_"}
<1>1. CASE pm.name \in {"unknown", "unknown stop"}
  <2>1. call.name \in {"PlayOn", "FreeKick_"}
    BY <1>1, CallNames DEF NextCalls
  <2> QED
    BY <2>1, ParseType DEF Sided, Neutral
<1>2. CASE pm.name \notin {"unknown", "unknown stop"}
  <2> DEFINE Allowed(k) == k.name \in {"PlayOn", "drop_ball", "FreeKick_"} \cup Penalty
  <2>s. ASSUME NEW S, S \subseteq {"PlayOn", "drop_ball", "FreeKick_"} \cup Penalty
        PROVE  \A k \in Each(S) \cup One(S) : Allowed(k)
    BY <2>s, CallNames
  <2>c. \A side : \A name \in {"FreeKick_"} \cup Penalty : Allowed(Call(name, side))
    BY CallNames
  <2>k. pm.name \in {"BeforeKickOff", "AfterGoal_"} => call.name = "KickOff_"
    BY CallNames DEF NextCalls
  <2>h. pm.name = "half_time" => call.name = "BeforeKickOff"
    BY CallNames DEF NextCalls
  <2>p. pm.name \in {"PenaltyMiss_", "PenaltyScore_"} =>
            call.name \in {"PenaltySetup_", "penalty_draw"}
    BY CallNames DEF NextCalls
  <2>o. \/ Allowed(call)
        \/ pm.name \in {"PlayOn", "BeforeKickOff", "AfterGoal_", "half_time",
                        "PenaltyMiss_", "PenaltyScore_"}
    <3> HIDE DEF Allowed
    <3> QED
      BY <1>2, <2>s, <2>c DEF NextCalls
  <2>1. \/ Allowed(call)
        \/ pm.name = "PlayOn"
        \/ pm.name \in {"BeforeKickOff", "AfterGoal_"} /\ call.name = "KickOff_"
        \/ pm.name = "half_time" /\ call.name = "BeforeKickOff"
        \/ pm.name \in {"PenaltyMiss_", "PenaltyScore_"} /\ call.name = "penalty_draw"
    BY <2>k, <2>h, <2>p, <2>o
  <2>2. CASE call.name \in {"PlayOn", "drop_ball", "FreeKick_"} \cup Penalty
    BY <2>2, ParseType DEF Sided, Neutral, IsPenaltyKickMode
  <2>3. CASE pm.name = "PlayOn"
    BY <2>3, ParseType DEF Neutral
  <2>4. CASE pm.name \in {"BeforeKickOff", "AfterGoal_"} /\ call.name = "KickOff_"
    BY <2>4, ParseType DEF Sided, Neutral
  <2>5. CASE pm.name = "half_time" /\ call.name = "BeforeKickOff"
    BY <2>5, ParseType DEF Sided, Neutral
  <2>6. CASE pm.name \in {"PenaltyMiss_", "PenaltyScore_"} /\ call.name = "penalty_draw"
    BY <2>6, ParseType DEF Sided, Neutral
  <2> QED
    BY <2>1, <2>2, <2>3, <2>4, <2>5, <2>6
<1> QED
  BY <1>1, <1>2

-----------------------------------------------------------------------------
(* A call that is made                                                     *)

LEMMA CallMade ==
    ASSUME NEW call \in NextCalls, NEW deaf \in SUBSET Players, Announce(call, deaf)
    PROVE  /\ pm' = call /\ our_side' = our_side /\ cycle' = cycle
           /\ phase \in {"begun", "called"} /\ phase' = "called"
           /\ phase = "called" => Passing(pm)
           /\ kick' <=> call.name = "FreeKick_" /\ pm.name = "GoalieCatch_"
           /\ placed' = IF call.name \in {"PlayOn", "drop_ball"} THEN placed ELSE cycle
           /\ \A p \in Players :
                /\ player'[p] = IF p \in deaf THEN player[p]
                                ELSE Hear(player[p], call, our_side, cycle)
                /\ past'[p].astray <=> p \in deaf \/ ~Known(call)
                /\ past'[p].returned <=>
                     p \notin deaf /\ Known(call) /\ (past[p].astray \/ past[p].returned)
                /\ past'[p].catch = IF call.name = "GoalieCatch_" THEN p \notin deaf
                                    ELSE past[p].catch
                /\ past'[p].whole <=> past[p].whole /\ p \notin deaf /\ Known(call)
<1>1. phase \in {"begun", "called"} /\ (phase = "called" => Passing(pm)) /\ phase' = "called"
  BY DEF Announce
<1>2. kick' = (call.name = "FreeKick_" /\ pm.name = "GoalieCatch_")
  BY DEF Announce
<1>3. /\ pm' = call /\ our_side' = our_side /\ cycle' = cycle
      /\ placed' = IF call.name \in {"PlayOn", "drop_ball"} THEN placed ELSE cycle
  BY DEF Announce, clock
<1>4. ASSUME NEW p \in Players
      PROVE  /\ player'[p] = IF p \in deaf THEN player[p]
                             ELSE Hear(player[p], call, our_side, cycle)
             /\ past'[p] = Missing(past[p], call, p \in deaf)
  BY DEF Announce
<1>5. ASSUME NEW p \in Players PROVE past'[p].astray <=> p \in deaf \/ ~Known(call)
  BY DEF Announce, Missing
<1>6. ASSUME NEW p \in Players
      PROVE  past'[p].returned <=>
                p \notin deaf /\ Known(call) /\ (past[p].astray \/ past[p].returned)
  BY DEF Announce, Missing
<1>7. ASSUME NEW p \in Players
      PROVE  past'[p].catch = IF call.name = "GoalieCatch_" THEN p \notin deaf
                              ELSE past[p].catch
  BY DEF Announce, Missing
<1>8. ASSUME NEW p \in Players
      PROVE  past'[p].whole <=> past[p].whole /\ p \notin deaf /\ Known(call)
  BY DEF Announce, Missing
<1> QED
  BY <1>1, <1>2, <1>3, <1>4, <1>5, <1>6, <1>7, <1>8

\* When another call follows in a step, it is the first one, or the goalie's kick.
LEMMA CatchKick ==
    ASSUME NEW p \in Players, CallsKept, CatchHeard(p), player[p] \in PlayerStates,
           NEW call \in NextCalls, Known(call), CallOK(call), cycle \in Nat,
           phase = "called" => Passing(pm), phase \in {"begun", "called"}
    PROVE  CatchKept(player[p].mode, Parse(call), HeardTime(player[p], cycle)) <=>
                call.name = "FreeKick_" /\ pm.name = "GoalieCatch_" /\ past[p].catch
<1> DEFINE mode == player[p].mode
           time == HeardTime(player[p], cycle)
<1>t. time.cycle = cycle
  BY HeardTimeOK
<1>1. ASSUME CatchKept(mode, Parse(call), time)
      PROVE  call.name = "FreeKick_" /\ pm.name = "GoalieCatch_" /\ past[p].catch
  <2>1. mode.type = "GoalieCatch_" /\ mode.time.cycle = cycle
    BY <1>1, <1>t DEF CatchKept
  <2>2. phase # "begun" /\ pm.name \in {"GoalieCatch_", "FreeKick_"}
        /\ (pm.name = "GoalieCatch_" => past[p].catch)
    BY <2>1 DEF CatchHeard
  <2>3. pm.name = "GoalieCatch_"
    BY <2>2 DEF Passing
  <2> QED
    BY <2>2, <2>3, CallsFollow, CallNames
<1>2. ASSUME call.name = "FreeKick_", pm.name = "GoalieCatch_", past[p].catch
      PROVE  CatchKept(mode, Parse(call), time)
  <2>1. /\ mode.type = "GoalieCatch_" /\ mode.side = pm.side
        /\ mode.time = GameTime(cycle, 0) /\ ~player[p].stopped
    BY <1>2 DEF CatchHeard
  <2>2. time = GameTime(cycle, 0)
    BY <2>1, HeardTimeOK
  <2>3. Parse(call) = <<"FreeKick_", pm.side>>
    <3>1. call.side = pm.side
      BY <1>2, CallsFollow, CallNames
    <3>2. call.name \in Sided
      BY <1>2 DEF Sided
    <3> QED
      BY <1>2, <3>1, <3>2, ParseOK
  <2> HIDE DEF mode, time
  <2> QED
    BY <2>1, <2>2, <2>3 DEF CatchKept
<1> QED
  BY <1>1, <1>2

\* What a player that hears a known call takes the mode for, by what it has heard.
LEMMA HeardBelieved ==
    ASSUME NEW p \in Players, CallsKept, CatchHeard(p), player[p] \in PlayerStates,
           NEW call \in NextCalls, Known(call), CallOK(call), cycle \in Nat,
           phase = "called" => Passing(pm), phase \in {"begun", "called"}
    PROVE  LET mode == HeardMode(player[p], call, cycle)
           IN  <<mode.type, mode.side>> =
                    IF call.name = "FreeKick_" /\ pm.name = "GoalieCatch_" /\ past[p].catch
                    THEN <<"GoalieCatch_", call.side>> ELSE Parse(call)
<1> DEFINE mode == HeardMode(player[p], call, cycle)
           kept == CatchKept(player[p].mode, Parse(call), HeardTime(player[p], cycle))
<1>1. kept <=> call.name = "FreeKick_" /\ pm.name = "GoalieCatch_" /\ past[p].catch
  BY CatchKick
<1>2. CASE ~kept
  BY <1>1, <1>2, HeardModeOK
<1>3. CASE kept
  <2>1. mode.type = "GoalieCatch_" /\ Parse(call) = <<"FreeKick_", mode.side>>
    BY <1>3, HeardModeOK
  <2>2. call.name = "FreeKick_"
    BY <1>1, <1>3
  <2>3. Parse(call) = <<"FreeKick_", call.side>>
    BY <2>2, ParseOK DEF Sided
  <2> HIDE DEF mode, kept
  <2>4. mode.side = call.side
    BY <2>1, <2>3
  <2> QED
    BY <1>1, <1>3, <2>1, <2>4 DEF mode
<1> QED
  BY <1>2, <1>3

LEMMA AnnounceCalls ==
    ASSUME CallsKept, NEW call \in NextCalls, NEW deaf \in SUBSET Players,
           Announce(call, deaf)
    PROVE  CallsKept'
<1>1. /\ pm' = call /\ cycle' = cycle /\ phase' = "called"
      /\ kick' <=> call.name = "FreeKick_" /\ pm.name = "GoalieCatch_"
      /\ placed' = IF call.name \in {"PlayOn", "drop_ball"} THEN placed ELSE cycle
  BY CallMade
<1>2. call.name \notin {"FoulPush_", "FreeKickFault_", "BackPass_"}
  BY CallsFollow
<1>3. ClockStops(call) => placed' = cycle
  BY <1>1 DEF ClockStops
<1> QED
  BY <1>1, <1>2, <1>3 DEF CallsKept, ClockStops

\* The game time of the call, and of the last decision.
LEMMA AnnounceTime ==
    ASSUME Inv, NEW p \in Players, TimeKept(p), DecisionKept(p),
           NEW call \in NextCalls, NEW deaf \in SUBSET Players, Announce(call, deaf)
    PROVE  TimeKept(p)' /\ DecisionKept(p)'
<1> DEFINE decided == player[p].decided
<1>1. player[p] \in PlayerStates /\ cycle \in Nat /\ cycle' = cycle /\ phase' = "called"
      /\ pm' = call
  BY InvParts, CallMade
<1>2. player'[p] = IF p \in deaf THEN player[p] ELSE Hear(player[p], call, our_side, cycle)
  BY CallMade
<1>3. /\ player'[p].decided = decided
      /\ player'[p].time = IF p \in deaf THEN player[p].time ELSE HeardTime(player[p], cycle)
  BY <1>1, <1>2, HearParts
<1>4. HeardTime(player[p], cycle).cycle = cycle
  BY <1>1, HeardTimeOK
<1>5. TimeKept(p)'
  BY <1>1, <1>3, <1>4 DEF TimeKept
<1>6. ASSUME ~past'[p].astray
      PROVE  player'[p].time.cycle = cycle
  <2>1. p \notin deaf
    BY <1>6, CallMade
  <2> QED
    BY <1>3, <1>4, <2>1
<1>7. ASSUME ~past'[p].astray, ~past'[p].returned
      PROVE  decided.cycle < cycle \/ (decided.stopped > 0 /\ ~ClockStops(call) /\ ~Passing(call))
  <2>1. ~past[p].astray
    BY <1>7, CallMade
  <2>2. ~past[p].returned
    BY <1>7, CallMade
  <2>3. CASE phase = "begun"
    <3>1. CASE ClockStops(pm)
      BY <2>1, <2>3, <3>1, CallsFollow DEF DecisionKept
    <3>2. CASE ~ClockStops(pm)
      BY <2>1, <2>3, <3>2 DEF DecisionKept
    <3> QED
      BY <3>1, <3>2
  <2>4. CASE phase = "called"
    <3>1. Passing(pm)
      BY <2>4, CallMade
    <3> QED
      BY <2>1, <2>2, <2>4, <3>1 DEF DecisionKept
  <2> QED
    BY <2>3, <2>4, CallMade
<1>8. DecisionKept(p)'
  <2> HIDE DEF decided
  <2> QED
    BY <1>1, <1>3, <1>6, <1>7 DEF DecisionKept, decided, Passing, ClockStops
<1> QED
  BY <1>5, <1>8

LEMMA AnnounceCatch ==
    ASSUME Inv, CallsKept, NEW p \in Players, TimeKept(p), CatchHeard(p),
           NEW call \in NextCalls, NEW deaf \in SUBSET Players, Announce(call, deaf)
    PROVE  CatchHeard(p)'
<1> DEFINE mode == HeardMode(player[p], call, cycle)
           time == HeardTime(player[p], cycle)
<1>1. /\ CallOK(call) /\ cycle \in Nat /\ player[p] \in PlayerStates /\ cycle' = cycle
      /\ pm' = call /\ phase' = "called"
      /\ phase \in {"begun", "called"} /\ (phase = "called" => Passing(pm))
  BY InvParts, NextCallsOK, CallMade DEF Inv, TypeOK
<1>2. player'[p] = IF p \in deaf THEN player[p] ELSE Hear(player[p], call, our_side, cycle)
  BY CallMade
<1>3. p \in deaf => player'[p] = player[p]
  BY <1>2
<1>4. p \notin deaf => player'[p].mode = mode
  BY <1>1, <1>2, HearParts
<1>5. mode.time = time /\ time.cycle = cycle
  BY <1>1, HeardModeOK, HeardTimeOK
<1>6. Known(call) => <<mode.type, mode.side>> =
            IF call.name = "FreeKick_" /\ pm.name = "GoalieCatch_" /\ past[p].catch
            THEN <<"GoalieCatch_", call.side>> ELSE Parse(call)
  BY <1>1, HeardBelieved
<1>7. ~Known(call) => mode.type = "PlayOn"
  BY <1>1, HeardModeOK
<1> HIDE DEF mode, time
<1>8. ASSUME call.name = "GoalieCatch_", past'[p].catch
      PROVE  /\ player'[p].mode.type = "GoalieCatch_" /\ player'[p].mode.side = call.side
             /\ player'[p].mode.time = GameTime(cycle, 0) /\ ~player'[p].stopped
  <2>1. p \notin deaf
    BY <1>8, CallMade
  <2>2. Known(call) /\ Parse(call) = <<"GoalieCatch_", call.side>>
    <3>1. call.name \in Sided
      BY <1>8 DEF Sided
    <3>2. Known(call)
      BY <3>1 DEF Known
    <3> QED
      BY <1>1, <1>8, <3>1, <3>2, ParseOK
  <2>3. mode.type = "GoalieCatch_" /\ mode.side = call.side
    BY <1>6, <1>8, <2>2
  <2>4. time = GameTime(cycle, 0)
    <3>1. pm.name = "PlayOn"
      BY <1>8, CallsFollow
    <3>2. phase = "begun" /\ ~ClockStops(pm)
      BY <1>1, <3>1 DEF Passing, ClockStops
    <3>3. player[p].time.cycle < cycle \/ ~player[p].stopped
      BY <3>2 DEF TimeKept
    <3>4. player[p].time.cycle # cycle \/ ~player[p].stopped
      BY <1>1, <3>3 DEF PlayerStates, Times
    <3> QED
      BY <1>1, <3>4, HeardTimeOK DEF time
  <2>5. ~player'[p].stopped
    <3>1. player'[p] = Hear(player[p], call, our_side, cycle)
      BY <1>2, <2>1
    <3>2. Hear(player[p], call, our_side, cycle).stopped = UpdateServerStatus(mode)
      BY <1>1, <2>2, HearParts DEF mode
    <3> QED
      BY <2>3, <3>1, <3>2 DEF UpdateServerStatus, IsServerCycleStoppedMode
  <2> QED
    BY <1>4, <1>5, <2>1, <2>3, <2>4, <2>5
<1>9. ASSUME player'[p].mode.type = "GoalieCatch_"
      PROVE  /\ player'[p].mode.time.cycle <= cycle
             /\ player'[p].mode.time.cycle = cycle =>
                   /\ call.name \in {"GoalieCatch_", "FreeKick_"}
                   /\ call.name = "GoalieCatch_" => past'[p].catch
  <2>1. CASE p \in deaf
    <3>1. /\ player[p].mode.time.cycle <= cycle
          /\ player[p].mode.time.cycle = cycle =>
                phase # "begun" /\ pm.name \in {"GoalieCatch_", "FreeKick_"}
      BY <1>3, <1>9, <2>1 DEF CatchHeard
    <3>2. phase # "begun" /\ pm.name \in {"GoalieCatch_", "FreeKick_"} =>
            call.name = "FreeKick_"
      <4>1. pm.name = "GoalieCatch_" => call.name = "FreeKick_"
        BY CallsFollow, CallNames
      <4> QED
        BY <1>1, <4>1 DEF Passing
    <3> QED
      BY <1>3, <2>1, <3>1, <3>2
  <2>2. CASE p \notin deaf
    <3>1. mode.type = "GoalieCatch_" /\ player'[p].mode.time.cycle = cycle
      BY <1>4, <1>5, <1>9, <2>2
    <3>2. Known(call)
      BY <1>7, <3>1
    <3>3. call.name = "FreeKick_" \/ Parse(call)[1] = "GoalieCatch_"
      BY <1>6, <3>1, <3>2
    <3>4. Parse(call)[1] = "GoalieCatch_" => call.name = "GoalieCatch_"
      BY ParseType DEF Sided, Neutral
    <3>5. call.name = "GoalieCatch_" => past'[p].catch
      BY <2>2, CallMade
    <3> QED
      BY <1>1, <3>1, <3>3, <3>4, <3>5
  <2> QED
    BY <2>1, <2>2
<1> QED
  BY <1>1, <1>8, <1>9 DEF CatchHeard, GameTime

LEMMA AnnounceInTouch ==
    ASSUME Inv, Touch, NEW call \in NextCalls, NEW deaf \in SUBSET Players,
           Announce(call, deaf)
    PROVE  InTouch'
<1> SUFFICES ASSUME NEW p \in Players, ~past'[p].astray
             PROVE  /\ <<player'[p].mode.type, player'[p].mode.side>> = Believed(p)'
                    /\ IsGameEndMode(player'[p].mode.type) \/ player'[p].world = player'[p].mode
                    /\ player'[p].stopped <=> ClockStops(pm')
  BY DEF InTouch, ClockStops, IsGameEndMode
<1> DEFINE mode == HeardMode(player[p], call, cycle)
<1>1. /\ CallOK(call) /\ cycle \in Nat /\ player[p] \in PlayerStates
      /\ phase \in {"begun", "called"} /\ (phase = "called" => Passing(pm))
  BY InvParts, NextCallsOK, CallMade DEF Inv, TypeOK
<1>2. p \notin deaf /\ Known(call)
  BY CallMade
<1>3. player'[p] = Hear(player[p], call, our_side, cycle)
  BY <1>2, CallMade
<1>4. /\ player'[p].mode = mode /\ player'[p].stopped = UpdateServerStatus(mode)
      /\ IsGameEndMode(mode.type) \/ player'[p].world = mode
  BY <1>1, <1>2, <1>3, HearParts
<1>5. <<mode.type, mode.side>> =
            IF call.name = "FreeKick_" /\ pm.name = "GoalieCatch_" /\ past[p].catch
            THEN <<"GoalieCatch_", call.side>> ELSE Parse(call)
  BY <1>1, <1>2, HeardBelieved DEF Touch
<1>6. Believed(p)' =
            IF call.name = "FreeKick_" /\ pm.name = "GoalieCatch_" /\ past[p].catch
            THEN <<"GoalieCatch_", call.side>> ELSE Parse(call)
  <2>1. pm' = call /\ (kick' <=> call.name = "FreeKick_" /\ pm.name = "GoalieCatch_")
    BY CallMade
  <2>2. call.name = "FreeKick_" => past'[p].catch = past[p].catch
    BY CallMade
  <2>3. kick' /\ past'[p].catch <=>
            call.name = "FreeKick_" /\ pm.name = "GoalieCatch_" /\ past[p].catch
    BY <2>1, <2>2
  <2>4. Believed(p)' = IF kick' /\ past'[p].catch THEN <<"GoalieCatch_", pm'.side>>
                       ELSE Parse(pm')
    BY DEF Believed, Parse
  <2> QED
    BY <2>1, <2>3, <2>4
<1> HIDE DEF mode
<1>7. UpdateServerStatus(mode) <=> ClockStops(call)
  <2>1. \/ mode.type = "GoalieCatch_" /\ call.name = "FreeKick_"
        \/ mode.type = Parse(call)[1]
    BY <1>5
  <2>2. CASE mode.type = "GoalieCatch_" /\ call.name = "FreeKick_"
    BY <2>2 DEF UpdateServerStatus, IsServerCycleStoppedMode, ClockStops
  <2>3. CASE mode.type = Parse(call)[1]
    <3>1. call.name \notin {"FoulPush_", "FreeKickFault_", "BackPass_", "unknown stop"}
      BY <1>2, CallsFollow DEF Known, Sided, Neutral
    <3>2. CASE call.name \in Sided \cup Neutral
      BY <2>3, <3>1, <3>2, ParseType
        DEF UpdateServerStatus, IsServerCycleStoppedMode, ClockStops
    <3>3. CASE call.name \notin Sided \cup Neutral
      <4>1. mode.type \in {"FreeKick_", "PlayOn", "FirstHalfOver", "TimeOver"}
        BY <2>3, <3>3, ParseType
      <4>2. ~ClockStops(call)
        BY <3>1, <3>3 DEF ClockStops, Sided, Neutral
      <4> QED
        BY <4>1, <4>2 DEF UpdateServerStatus, IsServerCycleStoppedMode
    <3> QED
      BY <3>2, <3>3
  <2> QED
    BY <2>1, <2>2, <2>3
<1>8. pm' = call
  BY CallMade
<1> QED
  BY <1>4, <1>5, <1>6, <1>7, <1>8

\* The kick after an offence goes on with the set play, whose ball is where it was
\* placed while the clock stood still; a mode that is called twice is a free kick.
LEMMA AnnounceAge ==
    ASSUME Inv, Touch, InTouch, SetPlayAge,
           NEW call \in NextCalls, NEW deaf \in SUBSET Players, Announce(call, deaf)
    PROVE  SetPlayAge'
<1> SUFFICES ASSUME NEW p \in Players, past'[p].whole,
                    player'[p].world.type \notin {"PlayOn", "BeforeKickOff"},
                    ~IsPenaltyKickMode(player'[p].world.type),
                    ~IsGameEndMode(player'[p].mode.type)
             PROVE  player'[p].start.cycle = placed'
  BY DEF SetPlayAge, IsPenaltyKickMode, IsGameEndMode
<1> DEFINE mode == HeardMode(player[p], call, cycle)
           time == HeardTime(player[p], cycle)
           old == player[p].world
<1>1. /\ CallOK(call) /\ CallOK(pm) /\ cycle \in Nat /\ player[p] \in PlayerStates
      /\ phase \in {"begun", "called"} /\ (phase = "called" => Passing(pm))
      /\ player[p].mode \in Modes
  BY InvParts, NextCallsOK, CallMade DEF Inv, TypeOK, PlayerStates
<1>2. p \notin deaf /\ Known(call) /\ past[p].whole
  BY CallMade
<1>3. player'[p] = Hear(player[p], call, our_side, cycle)
  BY <1>2, CallMade
<1>4. /\ player'[p].mode = mode /\ ~IsGameEndMode(mode.type) /\ player'[p].world = mode
      /\ player'[p].start = IF NewSetPlay(old.type, mode.type) THEN time ELSE player[p].start
  BY <1>1, <1>2, <1>3, HearParts
<1>5. /\ mode.type \notin {"PlayOn", "BeforeKickOff"} /\ ~IsPenaltyKickMode(mode.type)
      /\ time.cycle = cycle
  BY <1>1, <1>4, HeardTimeOK
<1>6. \/ /\ mode.type = "GoalieCatch_" /\ call.name = "FreeKick_" /\ pm.name = "GoalieCatch_"
      \/ mode.type = Parse(call)[1]
  <2>1. <<mode.type, mode.side>> =
            IF call.name = "FreeKick_" /\ pm.name = "GoalieCatch_" /\ past[p].catch
            THEN <<"GoalieCatch_", call.side>> ELSE Parse(call)
    BY <1>1, <1>2, HeardBelieved DEF Touch
  <2> HIDE DEF mode
  <2> QED
    BY <2>1
<1>7. placed' = cycle
  <2>1. call.name \notin {"PlayOn", "drop_ball"}
    <3>1. call.name \in {"PlayOn", "drop_ball"} => Parse(call)[1] = "PlayOn"
      BY ParseType DEF Sided, Neutral
    <3> QED
      BY <1>5, <1>6, <3>1
  <2> QED
    BY <2>1, CallMade
\* What it believed before.
<1>8. /\ ~past[p].astray /\ ~IsGameEndMode(player[p].mode.type) /\ old = player[p].mode
      /\ \/ kick /\ past[p].catch /\ old.type = "GoalieCatch_"
         \/ ~(kick /\ past[p].catch) /\ old.type = Parse(pm)[1]
  <2>1. ~past[p].astray
    BY <1>2 DEF Touch
  <2>2. /\ <<player[p].mode.type, player[p].mode.side>> = Believed(p)
        /\ IsGameEndMode(player[p].mode.type) \/ player[p].world = player[p].mode
    BY <2>1 DEF InTouch
  <2>3. \/ kick /\ past[p].catch /\ player[p].mode.type = "GoalieCatch_"
        \/ ~(kick /\ past[p].catch) /\ player[p].mode.type = Parse(pm)[1]
    BY <2>2 DEF Believed
  <2>4. ~IsGameEndMode(player[p].mode.type)
    <3>1. Known(pm)
      BY <2>1 DEF Touch
    <3>2. Parse(pm)[1] = "TimeOver" => pm.name \in Final
      BY <1>1, <3>1, ParseOK
    <3>3. pm.name \notin Final
      BY DEF NextCalls, Final
    <3> QED
      BY <2>3, <3>2, <3>3 DEF IsGameEndMode
  <2> QED
    BY <2>1, <2>2, <2>3, <2>4
<1>9. old.type \notin {"PlayOn", "BeforeKickOff"} /\ ~IsPenaltyKickMode(old.type) =>
            player[p].start.cycle = placed
  BY <1>2, <1>8 DEF SetPlayAge
<1> HIDE DEF mode, time, old
<1>10. CASE NewSetPlay(old.type, mode.type)
  BY <1>4, <1>5, <1>7, <1>10
<1>11. CASE mode.type = "GoalieCatch_" /\ call.name = "FreeKick_" /\ pm.name = "GoalieCatch_"
            /\ ~NewSetPlay(old.type, mode.type)
  <2>1. old.type = "GoalieCatch_"
    BY <1>11 DEF NewSetPlay, IsPenaltyKickMode
  <2>2. placed = cycle
    BY <1>11 DEF Touch, CallsKept
  <2> QED
    BY <1>4, <1>7, <1>9, <1>11, <2>1, <2>2 DEF IsPenaltyKickMode
<1>12. CASE mode.type = Parse(call)[1] /\ mode.type # "FreeKick_"
            /\ ~NewSetPlay(old.type, mode.type)
  <2>1. old.type = mode.type
    BY <1>5, <1>12 DEF NewSetPlay
  <2>2. CASE kick /\ old.type = "GoalieCatch_"
    <3>1. call.name \in {"PlayOn", "drop_ball", "FreeKick_"}
      BY <2>2, CallsFollow DEF Touch, CallsKept
    <3>2. Parse(call)[1] \in {"PlayOn", "FreeKick_"}
      BY <3>1, ParseType DEF Sided, Neutral
    <3> QED
      BY <1>12, <2>1, <2>2, <3>2
  <2>3. CASE old.type = Parse(pm)[1]
    BY <1>2, <1>5, <1>12, <2>1, <2>3, CallsDiffer
  <2> QED
    BY <1>8, <2>2, <2>3
<1>13. CASE mode.type = "FreeKick_" /\ ~NewSetPlay(old.type, mode.type)
  <2>1. old.type \in {"OffSide_", "FoulCharge_", "FoulPush_", "BackPass_", "FreeKickFault_",
                     "CatchFault_", "IndFreeKick_"}
    BY <1>13 DEF NewSetPlay, IsPenaltyKickMode
  <2>2. old.type = Parse(pm)[1]
    BY <1>8, <2>1
  <2>3. pm.name = old.type
    <3>1. old.type \in Sided
      BY <2>1 DEF Sided
    <3> QED
      BY <2>1, <2>2, ParseType
  <2>4. pm.name # "IndFreeKick_"
    BY DEF NextCalls
  <2>5. ClockStops(pm)
    BY <2>1, <2>3, <2>4 DEF Touch, CallsKept, ClockStops
  <2>6. placed = cycle
    BY <2>5 DEF Touch, CallsKept
  <2>7. player[p].start.cycle = placed
    BY <1>9, <2>1 DEF IsPenaltyKickMode
  <2> QED
    BY <1>4, <1>7, <1>13, <2>6, <2>7
<1> QED
  BY <1>6, <1>10, <1>11, <1>12, <1>13

-----------------------------------------------------------------------------
(* The other steps                                                         *)

LEMMA InitTouch == Init => Touch /\ InTouch /\ SetPlayAge
<1> SUFFICES ASSUME Init PROVE Touch /\ InTouch /\ SetPlayAge
  OBVIOUS
<1> DEFINE new == Reconnect(pm)
           mode == [new.mode EXCEPT !.left = 1]
<1>1. /\ pm.name \in {"BeforeKickOff", "PlayOn", "FirstHalfOver"}
      /\ cycle = 0 /\ placed = 0 /\ phase = "begun" /\ kick = FALSE
  BY DEF Init, One, Call
<1>2. CallOK(pm) /\ Known(pm) /\ Parse(pm) = <<pm.name, "neutral">>
  <2>1. pm.name \in Neutral /\ pm.name \notin Sided
    BY <1>1 DEF Neutral, Sided
  <2>2. Parse(pm) = <<pm.name, "neutral">>
    BY <1>1, <2>1 DEF Parse
  <2> QED
    BY <2>1, <2>2, InitInv DEF Known, Inv
<1>3. new \in PlayerStates
  BY <1>2, ReconnectOK
<1>4. /\ new.mode.type = pm.name /\ new.mode.side = "neutral" /\ new.mode.time = GameTime(0, 0)
      /\ new.stopped = IsServerCycleStoppedMode(pm.name)
      /\ new.time = GameTime(0, 0) /\ new.decided = NoTime /\ new.start = GameTime(0, 0)
  BY <1>2, ReconnectParts
<1> HIDE DEF new
<1>5. /\ new = [mode |-> new.mode, world |-> new.world, stopped |-> new.stopped,
                time |-> new.time, decided |-> new.decided, start |-> new.start,
                pk |-> new.pk, intention |-> new.intention]
      /\ new.mode = [type |-> new.mode.type, side |-> new.mode.side, time |-> new.mode.time,
                     left |-> new.mode.left, right |-> new.mode.right]
  BY <1>3 DEF PlayerStates, Modes
<1>6. mode.type = pm.name /\ mode.side = "neutral" /\ mode.time = GameTime(0, 0)
  BY <1>4, <1>5
<1>7. player = [p \in Players |-> [new EXCEPT !.mode = mode, !.world = mode]]
  BY DEF Init, new
<1> HIDE DEF mode
<1>8. ASSUME NEW p \in Players
      PROVE  /\ player[p].mode = mode /\ player[p].world = mode
             /\ player[p].stopped = IsServerCycleStoppedMode(pm.name)
             /\ player[p].time = GameTime(0, 0) /\ player[p].decided = NoTime
             /\ player[p].start = GameTime(0, 0)
  <2>1. player[p] = [new EXCEPT !.mode = mode, !.world = mode]
    BY <1>7
  <2> QED
    BY <1>4, <1>5, <2>1
<1>9. \A p \in Players : ~past[p].astray /\ ~past[p].catch
  BY DEF Init, NothingMissed
<1>10. /\ ClockStops(pm) <=> IsServerCycleStoppedMode(pm.name)
       /\ ~ClockStops(pm) => ~IsServerCycleStoppedMode(pm.name)
  BY <1>1 DEF ClockStops, IsServerCycleStoppedMode
<1>11. CallsKept
  BY <1>1 DEF CallsKept
<1>12. ASSUME NEW p \in Players PROVE TimeKept(p) /\ CatchHeard(p) /\ DecisionKept(p)
  <2>1. TimeKept(p)
    BY <1>1, <1>8, <1>10 DEF TimeKept, GameTime
  <2>2. CatchHeard(p)
    BY <1>1, <1>6, <1>8 DEF CatchHeard
  <2>3. DecisionKept(p)
    BY <1>1, <1>8 DEF DecisionKept, GameTime, NoTime
  <2> QED
    BY <2>1, <2>2, <2>3
<1>13. Touch
  BY <1>2, <1>9, <1>11, <1>12 DEF Touch
<1>14. InTouch
  <2>1. \A p \in Players : Believed(p) = <<pm.name, "neutral">>
    BY <1>1, <1>2 DEF Believed
  <2> QED
    BY <1>6, <1>8, <1>10, <2>1 DEF InTouch
<1>15. SetPlayAge
  BY <1>1, <1>8 DEF SetPlayAge, GameTime
<1> QED
  BY <1>13, <1>14, <1>15

\* The time of a sense_body: it counts the steps of a stopped clock.
LEMMA SensedTimeOK ==
    ASSUME NEW p \in PlayerStates, NEW c \in Nat
    PROVE  /\ SensedTime(p, c) \in Times /\ SensedTime(p, c).cycle = c
           /\ ~p.stopped \/ p.time.cycle # c => SensedTime(p, c).stopped = 0
           /\ p.stopped /\ p.time.cycle = c => SensedTime(p, c).stopped = p.time.stopped + 1
           /\ p.time.stopped \in Nat
  BY DEF SensedTime, UpdateCurrentTime, GameTime, PlayerStates, Times

LEMMA SenseTouch ==
    ASSUME Inv, Touch, InTouch, SetPlayAge, NEW choice \in Choices, SenseBody(choice)
    PROVE  Touch' /\ InTouch' /\ SetPlayAge'
<1>1. /\ phase \in {"begun", "called"} /\ phase' = "sensed" /\ ~Passing(pm)
      /\ pm' = pm /\ cycle' = cycle /\ kick' = kick /\ placed' = placed /\ past' = past
  BY DEF SenseBody, announced
<1>2. CallsKept'
  BY <1>1 DEF Touch, CallsKept, Passing, ClockStops
<1>3. ASSUME NEW p \in Players
      PROVE  /\ player'[p].mode = player[p].mode /\ player'[p].world = player[p].world
             /\ player'[p].stopped = player[p].stopped /\ player'[p].start = player[p].start
             /\ player'[p].time = SensedTime(player[p], cycle)
             /\ player'[p].decided = SensedTime(player[p], cycle)
  BY BodyParts
<1>4. ASSUME NEW p \in Players
      PROVE  TimeKept(p)' /\ CatchHeard(p)' /\ DecisionKept(p)'
  <2>1. player[p] \in PlayerStates /\ cycle \in Nat
    BY InvParts
  <2>2. TimeKept(p)'
    BY <1>1, <1>3, <2>1, SensedTimeOK DEF TimeKept
  <2>3. CatchHeard(p)'
    BY <1>1, <1>3 DEF Touch, CatchHeard, Passing, GameTime
  <2>4. DecisionKept(p)'
    <3> DEFINE time == SensedTime(player[p], cycle)
    <3>1. time.cycle = cycle /\ player'[p].decided = time /\ player'[p].time = time
      BY <1>3, <2>1, SensedTimeOK
    <3>2. ASSUME ~past[p].astray
          PROVE  IF ClockStops(pm) THEN time.stopped > 0 ELSE time.stopped = 0
      <4>1. player[p].stopped <=> ClockStops(pm)
        BY <3>2 DEF InTouch
      <4>2. CASE ClockStops(pm)
        <5>1. player[p].time.cycle = cycle
          BY <1>1, <3>2, <4>2 DEF Touch, DecisionKept
        <5> QED
          BY <2>1, <4>1, <4>2, <5>1, SensedTimeOK
      <4>3. CASE ~ClockStops(pm)
        BY <2>1, <4>1, <4>3, SensedTimeOK
      <4> QED
        BY <4>2, <4>3
    <3> HIDE DEF time
    <3> QED
      BY <1>1, <3>1, <3>2 DEF DecisionKept, ClockStops
  <2> QED
    BY <2>2, <2>3, <2>4
<1>5. Touch'
  BY <1>1, <1>2, <1>4 DEF Touch, Known
<1>6. InTouch'
  <2>1. ASSUME NEW p \in Players PROVE Believed(p)' = Believed(p)
    BY <1>1 DEF Believed
  <2> QED
    BY <1>1, <1>3, <2>1 DEF InTouch, ClockStops
<1>7. SetPlayAge'
  BY <1>1, <1>3 DEF SetPlayAge
<1> QED
  BY <1>5, <1>6, <1>7

LEMMA StepTouch ==
    ASSUME Inv, Touch, InTouch, SetPlayAge, NextStep
    PROVE  Touch' /\ InTouch' /\ SetPlayAge'
<1>1. /\ phase = "sensed" /\ phase' = "begun" /\ pm' = pm /\ kick' = kick /\ placed' = placed
      /\ cycle' = IF ClockStops(pm) THEN cycle ELSE cycle + 1
      /\ cycle \in Nat
  BY InvParts DEF NextStep, announced
<1>2. ASSUME NEW p \in Players
      PROVE  /\ player'[p] = player[p] /\ player[p] \in PlayerStates
             /\ past'[p].astray = past[p].astray /\ past'[p].catch = past[p].catch
             /\ past'[p].whole = past[p].whole
  BY InvParts, StepPast
<1>3. CallsKept'
  BY <1>1 DEF Touch, CallsKept, ClockStops
<1>4. ASSUME NEW p \in Players
      PROVE  TimeKept(p)' /\ CatchHeard(p)' /\ DecisionKept(p)'
  <2>1. player[p].time \in Times /\ player[p].decided \in Times
        /\ player[p].time.cycle \in Int /\ player[p].decided.cycle \in Int
    BY <1>2 DEF PlayerStates, Times
  <2>2. player[p].mode.time.cycle \in Int
    BY <1>2 DEF PlayerStates, Modes, Times
  <2>3. TimeKept(p)'
    <3>1. player[p].time.cycle <= cycle
      BY DEF Touch, TimeKept
    <3>2. CASE ClockStops(pm)
      BY <1>1, <1>2, <3>1, <3>2 DEF TimeKept, ClockStops
    <3>3. CASE ~ClockStops(pm)
      BY <1>1, <1>2, <2>1, <3>1, <3>3 DEF TimeKept
    <3> QED
      BY <3>2, <3>3
  <2>4. CatchHeard(p)'
    <3>1. pm.name # "GoalieCatch_"
      BY <1>1 DEF Touch, CallsKept
    <3>2. ASSUME player[p].mode.type = "GoalieCatch_"
          PROVE  player[p].mode.time.cycle < cycle'
      <4>1. /\ player[p].mode.time.cycle <= cycle
            /\ player[p].mode.time.cycle = cycle => pm.name \in {"GoalieCatch_", "FreeKick_"}
        BY <3>2 DEF Touch, CatchHeard
      <4>2. CASE ClockStops(pm)
        <5>1. player[p].mode.time.cycle # cycle
          BY <4>1, <4>2 DEF ClockStops
        <5> QED
          BY <1>1, <2>2, <4>1, <4>2, <5>1
      <4>3. CASE ~ClockStops(pm)
        BY <1>1, <2>2, <4>1, <4>3
      <4> QED
        BY <4>2, <4>3
    <3>3. cycle' \in Nat
      BY <1>1
    <3>4. player'[p].mode.type = "GoalieCatch_" =>
            player'[p].mode.time.cycle <= cycle' /\ player'[p].mode.time.cycle # cycle'
      BY <1>2, <2>2, <3>2, <3>3
    <3> QED
      BY <1>1, <3>1, <3>4 DEF CatchHeard
  <2>5. DecisionKept(p)'
    <3>1. ASSUME ~past[p].astray
          PROVE  /\ player[p].decided = player[p].time /\ player[p].time.cycle = cycle
                 /\ IF ClockStops(pm) THEN player[p].time.stopped > 0
                    ELSE player[p].time.stopped = 0
      BY <1>1, <3>1 DEF Touch, DecisionKept
    <3>2. CASE ClockStops(pm)
      BY <1>1, <1>2, <3>1, <3>2 DEF DecisionKept, ClockStops
    <3>3. CASE ~ClockStops(pm)
      <4>1. ~past[p].astray => player[p].decided.cycle < cycle'
        BY <1>1, <3>1, <3>3
      <4>2. ~ClockStops(pm')
        BY <1>1, <3>3
      <4> QED
        BY <1>1, <1>2, <4>1, <4>2 DEF DecisionKept, ClockStops
    <3> QED
      BY <3>2, <3>3
  <2> QED
    BY <2>3, <2>4, <2>5
<1>5. Touch'
  BY <1>1, <1>2, <1>3, <1>4 DEF Touch, Known
<1>6. InTouch'
  <2>1. ASSUME NEW p \in Players PROVE Believed(p)' = Believed(p)
    BY <1>1, <1>2 DEF Believed
  <2> QED
    BY <1>1, <1>2, <2>1 DEF InTouch, ClockStops
<1>7. SetPlayAge'
  BY <1>1, <1>2 DEF SetPlayAge
<1> QED
  BY <1>5, <1>6, <1>7

LEMMA RejoinTouch ==
    ASSUME Inv, Touch, InTouch, SetPlayAge, NEW q \in Players, Rejoin(q)
    PROVE  Touch' /\ InTouch' /\ SetPlayAge'
<1>1. /\ phase = "sensed" /\ phase' = phase /\ pm' = pm /\ kick' = kick
      /\ placed' = placed /\ cycle' = cycle /\ cycle \in Nat /\ CallOK(pm) /\ Known(pm)
  BY InvParts DEF Rejoin, announced, clock, Inv
<1>2. ASSUME NEW p \in Players
      PROVE  \/ player'[p] = player[p] /\ past'[p] = past[p]
             \/ /\ player'[p] = Reconnect(pm)
                /\ past'[p].astray /\ ~past'[p].catch /\ ~past'[p].whole
  BY InvParts, RejoinPast
<1>3. /\ Reconnect(pm).mode.type = Parse(pm)[1] /\ Reconnect(pm).time = GameTime(0, 0)
  BY ReconnectParts
<1>4. CallsKept'
  BY <1>1 DEF Touch, CallsKept, ClockStops
<1>5. pm.name # "GoalieCatch_" /\ Parse(pm)[1] # "GoalieCatch_"
  <2>1. pm.name # "GoalieCatch_"
    BY <1>1 DEF Touch, CallsKept
  <2>2. "GoalieCatch_" \in Sided \ {"FreeKick_"}
    BY DEF Sided
  <2> QED
    BY <2>1, <2>2, ParseType
<1>6. ASSUME NEW p \in Players
      PROVE  TimeKept(p)' /\ CatchHeard(p)' /\ DecisionKept(p)'
  <2>1. CASE player'[p] = player[p] /\ past'[p] = past[p]
    BY <1>1, <2>1 DEF Touch, TimeKept, CatchHeard, DecisionKept, ClockStops, Passing, GameTime
  <2>2. CASE player'[p] = Reconnect(pm) /\ past'[p].astray
    <3>1. TimeKept(p)'
      BY <1>1, <1>3, <2>2 DEF TimeKept, GameTime
    <3>2. CatchHeard(p)'
      BY <1>1, <1>3, <1>5, <2>2 DEF CatchHeard
    <3>3. DecisionKept(p)'
      BY <2>2 DEF DecisionKept
    <3> QED
      BY <3>1, <3>2, <3>3
  <2> QED
    BY <1>2, <2>1, <2>2
<1>7. Touch'
  BY <1>1, <1>2, <1>4, <1>6 DEF Touch, Known
<1>8. InTouch'
  <2> SUFFICES ASSUME NEW p \in Players, ~past'[p].astray
               PROVE  /\ <<player'[p].mode.type, player'[p].mode.side>> = Believed(p)'
                      /\ IsGameEndMode(player'[p].mode.type) \/ player'[p].world = player'[p].mode
                      /\ player'[p].stopped <=> ClockStops(pm')
    BY DEF InTouch, ClockStops, IsGameEndMode
  <2>1. player'[p] = player[p] /\ past'[p] = past[p]
    BY <1>2
  <2>2. Believed(p)' = Believed(p)
    BY <1>1, <2>1 DEF Believed
  <2> QED
    BY <1>1, <2>1, <2>2 DEF InTouch
<1>9. SetPlayAge'
  BY <1>1, <1>2 DEF SetPlayAge
<1> QED
  BY <1>7, <1>8, <1>9

LEMMA NextTouch ==
    Inv /\ Touch /\ InTouch /\ SetPlayAge /\ [Next]_vars => Touch' /\ InTouch' /\ SetPlayAge'
<1> SUFFICES ASSUME Inv, Touch, InTouch, SetPlayAge, [Next]_vars
             PROVE  Touch' /\ InTouch' /\ SetPlayAge'
  OBVIOUS
<1>1. ASSUME NEW call \in NextCalls, NEW deaf \in SUBSET Players, Announce(call, deaf)
      PROVE  Touch' /\ InTouch' /\ SetPlayAge'
  <2>1. CallsKept'
    BY <1>1, AnnounceCalls DEF Touch
  <2>2. ASSUME NEW p \in Players
        PROVE  /\ TimeKept(p)' /\ CatchHeard(p)' /\ DecisionKept(p)'
               /\ past'[p].whole => ~past'[p].astray
               /\ ~past'[p].astray => Known(pm')
    <3>1. TimeKept(p)' /\ DecisionKept(p)'
      BY <1>1, AnnounceTime DEF Touch
    <3>2. CatchHeard(p)'
      BY <1>1, AnnounceCatch DEF Touch
    <3>3. /\ past'[p].whole => ~past'[p].astray
          /\ ~past'[p].astray => Known(pm')
      BY <1>1, CallMade
    <3> QED
      BY <3>1, <3>2, <3>3
  <2>3. Touch'
    BY <2>1, <2>2 DEF Touch, Known
  <2> QED
    BY <1>1, <2>3, AnnounceInTouch, AnnounceAge
<1>2. CASE \E choice \in Choices : SenseBody(choice)
  BY <1>2, SenseTouch
<1>3. CASE NextStep
  BY <1>3, StepTouch
<1>4. CASE \E q \in Players : Rejoin(q)
  BY <1>4, RejoinTouch
<1>5. CASE UNCHANGED vars
  <2>1. /\ pm' = pm /\ kick' = kick /\ placed' = placed /\ cycle' = cycle /\ phase' = phase
        /\ player' = player /\ past' = past
    BY <1>5 DEF vars, announced, clock
  <2>2. CallsKept'
    BY <2>1 DEF Touch, CallsKept, ClockStops
  <2>3. \A p \in Players : TimeKept(p)' /\ CatchHeard(p)' /\ DecisionKept(p)'
    BY <2>1 DEF Touch, TimeKept, CatchHeard, DecisionKept, ClockStops, Passing, GameTime
  <2>4. Touch'
    BY <2>1, <2>2, <2>3 DEF Touch, Known
  <2>5. InTouch'
    BY <2>1 DEF InTouch, Believed, ClockStops, Parse, IsGameEndMode
  <2>6. SetPlayAge'
    BY <2>1 DEF SetPlayAge, IsPenaltyKickMode, IsGameEndMode
  <2> QED
    BY <2>4, <2>5, <2>6
<1> QED
  BY <1>1, <1>2, <1>3, <1>4, <1>5 DEF Next

LEMMA TouchHolds == Spec => [](Inv /\ Touch /\ InTouch /\ SetPlayAge)
<1>1. Init => Touch /\ InTouch /\ SetPlayAge
  BY InitTouch
<1>2. Inv /\ Touch /\ InTouch /\ SetPlayAge /\ [Next]_vars => Touch' /\ InTouch' /\ SetPlayAge'
  BY NextTouch
<1> QED
  BY <1>1, <1>2, Inductive, PTL DEF Spec

-----------------------------------------------------------------------------

\* A player that heard the last call knows the mode, by agent and by world model,
\* and whether the clock runs, whatever it missed before and however often it was
\* restarted (PlayerAgent::analyzeHearReferee, GameMode::update).
THEOREM KnowsMode == Spec => []InTouch
<1>1. Inv /\ Touch /\ InTouch /\ SetPlayAge => InTouch
  OBVIOUS
<1> QED
  BY <1>1, TouchHolds, PTL

\* A player that heard every call counts a set play from the cycle in which the ball
\* was placed, though WorldModel::updateGameMode does not restart the count for the
\* kick after an offence.
THEOREM SetPlayCounted == Spec => []SetPlayAge
<1>1. Inv /\ Touch /\ InTouch /\ SetPlayAge => SetPlayAge
  OBVIOUS
<1> QED
  BY <1>1, TouchHolds, PTL

LEMMA DecidesStep ==
    ASSUME Inv, Touch, InTouch, [Next]_vars, phase # "sensed", phase' = "sensed",
           NEW p \in Players, ~past[p].astray, ~past[p].returned
    PROVE  player'[p].decided # player[p].decided
<1>1. PICK choice \in Choices : SenseBody(choice)
  BY DEF Next, Announce, NextStep, Rejoin, vars
<1> DEFINE time == SensedTime(player[p], cycle)
           decided == player[p].decided
<1>2. player'[p].decided = time
  BY <1>1, BodyParts
<1>3. player[p] \in PlayerStates /\ cycle \in Nat /\ decided.cycle \in Int
      /\ player[p].time.stopped \in Nat
  BY InvParts DEF PlayerStates, Times
<1>4. /\ time.cycle = cycle
      /\ ~player[p].stopped => time.stopped = 0
      /\ player[p].stopped /\ player[p].time.cycle = cycle =>
            time.stopped = player[p].time.stopped + 1
  BY <1>3, SensedTimeOK
<1>5. player[p].stopped <=> ClockStops(pm)
  BY DEF InTouch
<1> SUFFICES ASSUME decided = time PROVE FALSE
  BY <1>2
<1> HIDE DEF time, decided
<1>6. CASE phase = "begun"
  <2>1. CASE ClockStops(pm)
    <3>1. /\ player[p].time.cycle = cycle
          /\ decided.cycle < cycle \/ decided = player[p].time
      BY <1>6, <2>1 DEF Touch, DecisionKept, decided
    <3> QED
      BY <1>3, <1>4, <1>5, <2>1, <3>1
  <2>2. CASE ~ClockStops(pm)
    <3>1. decided.cycle < cycle
      BY <1>6, <2>2 DEF Touch, DecisionKept, decided
    <3> QED
      BY <1>3, <1>4, <3>1
  <2> QED
    BY <2>1, <2>2
<1>7. CASE phase = "called"
  <2>1. decided.cycle < cycle \/ (decided.stopped > 0 /\ ~ClockStops(pm))
    BY <1>7 DEF Touch, DecisionKept, decided
  <2> QED
    BY <1>3, <1>4, <1>5, <2>1
<1> QED
  BY <1>1, <1>6, <1>7 DEF SenseBody

\* Every sense_body leads a player to a decision, also while the clock stands still,
\* unless it is out of touch with the referee or comes back in touch in this very step
\* (PlayerAgent::action, updateCurrentTime).
THEOREM DecidesAlways == Spec => DecidesInTouch
<1> DEFINE Decides ==
             phase # "sensed" /\ phase' = "sensed" =>
                \A p \in Players :
                    ~past[p].astray /\ ~past[p].returned =>
                        player'[p].decided # player[p].decided
<1>1. Inv /\ Touch /\ InTouch /\ SetPlayAge /\ [Next]_vars => Decides
  BY DecidesStep
<1>2. [][Next]_vars /\ [](Inv /\ Touch /\ InTouch /\ SetPlayAge) => [][Decides]_vars
  <2> HIDE DEF Decides
  <2> QED
    BY <1>1, PTL
<1> QED
  BY <1>2, TouchHolds DEF Spec, DecidesInTouch

\* A call is heard by a player whose mode changes.
LEMMA StaysStep ==
    ASSUME Inv, Touch, InTouch, InTouch', [Next]_vars, NEW p \in Players, NEW side \in Sides,
           IsServerCycleStoppedMode(player[p].mode.type), player[p].mode.type # "AfterGoal_",
           player'[p].mode.type = "FreeKick_", ~past[p].astray, ~past'[p].astray
    PROVE  IsTeamsSetPlay(player[p].mode, side) <=> IsTeamsSetPlay(player'[p].mode, side)
<1> DEFINE old == player[p].mode
           new == player'[p].mode
<1>1. PICK call \in NextCalls, deaf \in SUBSET Players : Announce(call, deaf)
  <2>1. new.type # old.type
    BY DEF IsServerCycleStoppedMode
  <2>2. ASSUME NEW choice \in Choices, SenseBody(choice) PROVE new = old
    BY <2>2, BodyParts
  <2>3. NextStep => new = old
    BY InvParts, StepPast
  <2>4. ASSUME NEW q \in Players, Rejoin(q) PROVE new = old
    BY <2>4, InvParts, RejoinPast
  <2>5. UNCHANGED vars => new = old
    BY DEF vars
  <2> HIDE DEF new, old
  <2> QED
    BY <2>1, <2>2, <2>3, <2>4, <2>5 DEF Next
<1>2. CallOK(pm) /\ CallOK(call) /\ pm' = call
  BY <1>1, NextCallsOK, CallMade DEF Inv, TypeOK
<1>3. old.type = Parse(pm)[1] /\ old.side = Parse(pm)[2]
  <2>1. <<old.type, old.side>> = IF kick /\ past[p].catch THEN <<"GoalieCatch_", pm.side>>
                                 ELSE Parse(pm)
    BY DEF InTouch, Believed
  <2>2. old.type # "GoalieCatch_"
    BY DEF IsServerCycleStoppedMode
  <2> HIDE DEF old
  <2> QED
    BY <2>1, <2>2
<1>4. new.type = Parse(call)[1] /\ new.side = Parse(call)[2]
  <2>1. <<new.type, new.side>> = Believed(p)'
    BY DEF InTouch
  <2>2. \/ Believed(p)' = <<"GoalieCatch_", call.side>>
        \/ Believed(p)' = Parse(call)
    BY <1>2 DEF Believed
  <2>3. new.type # "GoalieCatch_"
    OBVIOUS
  <2> HIDE DEF new
  <2> QED
    BY <2>1, <2>2, <2>3
<1>5. pm.name \in {"OffSide_", "FoulCharge_", "CatchFault_"} /\ pm.name = old.type
  <2>1. pm.name = old.type
    <3>1. old.type \in Sided \cup {"BeforeKickOff"}
      BY DEF IsServerCycleStoppedMode, Sided
    <3>2. old.type \notin {"FreeKick_", "PlayOn", "FirstHalfOver", "TimeOver"}
      BY DEF IsServerCycleStoppedMode
    <3> QED
      BY <1>3, <3>1, <3>2, ParseType
  <2>2. pm.name # "BeforeKickOff"
    <3>1. pm.name = "BeforeKickOff" => Parse(call)[1] = "KickOff_"
      BY CallsFollow, ParseType DEF Sided
    <3> QED
      BY <1>4, <3>1
  <2> QED
    BY <2>1, <2>2 DEF Touch, CallsKept, IsServerCycleStoppedMode
<1>6. call.name = "FreeKick_" /\ call.side = Opposite(pm.side)
  BY <1>5, CallsFollow, CallNames
<1>7. pm.name \in Sided /\ call.name \in Sided
  BY <1>5, <1>6 DEF Sided
<1>8. old.side = pm.side /\ new.side = Opposite(pm.side) /\ pm.side \in Sides
  <2>1. Parse(pm) = <<pm.name, pm.side>> /\ Parse(call) = <<call.name, call.side>>
    BY <1>2, <1>7, ParseOK DEF Known
  <2> QED
    BY <1>2, <1>3, <1>4, <1>6, <1>7, <2>1 DEF CallOK
<1>9. IsTeamsSetPlay(old, side) <=> side # pm.side
  BY <1>5, <1>8 DEF IsTeamsSetPlay
<1>10. IsTeamsSetPlay(new, side) <=> side = Opposite(pm.side)
  BY <1>8 DEF IsTeamsSetPlay
<1> QED
  BY <1>8, <1>9, <1>10 DEF Opposite, Sides

\* The side that a set play belongs to is the same from the offence, which is called
\* with the side of the offender, to the kick (GameMode::isTeamsSetPlay).
THEOREM SetPlayOwned == Spec => SetPlayStays
<1> DEFINE Stays ==
             \A p \in Players, side \in Sides :
                /\ IsServerCycleStoppedMode(player[p].mode.type) /\ player[p].mode.type # "AfterGoal_"
                /\ player'[p].mode.type = "FreeKick_" /\ ~past[p].astray
                /\ ~past'[p].astray
                => (IsTeamsSetPlay(player[p].mode, side) <=>
                        IsTeamsSetPlay(player'[p].mode, side))
<1>1. Inv /\ Touch /\ InTouch /\ SetPlayAge /\ InTouch' /\ [Next]_vars => Stays
  BY StaysStep
<1>2. [][Next]_vars /\ [](Inv /\ Touch /\ InTouch /\ SetPlayAge) => [][Stays]_vars
  <2> HIDE DEF Stays
  <2> QED
    BY <1>1, PTL
<1> QED
  BY <1>2, TouchHolds DEF Spec, SetPlayStays
=============================================================================
