-------------------------------- MODULE Coach --------------------------------
(***************************************************************************)
(* Substitutions: the online coach (lib/rcsc/coach/coach_agent.cpp,        *)
(* global_world_model.cpp, team/src/sample_coach.cpp), the players that    *)
(* tell it of their recovery (team/src/sample_communication.cpp) and the   *)
(* server that carries its commands out.                                   *)
(*                                                                         *)
(* A recovery is tired or fresh; a step is one decision of every client.   *)
(* Which of the candidate types is the fastest is left open.               *)
(***************************************************************************)
EXTENDS Integers, Sequences, FiniteSets, SequencesExt

CONSTANTS
    Players,        \* uniform numbers of our players
    Goalie,
    Types,          \* player types; Hetero_Default is 0
    PtMax,          \* players of one type
    SubsMax,        \* substitutions after the kick-off
    MultDefault,    \* allow_mult_default_type
    MaxFaults       \* bound on datagrams that are lost or arrive a step late

ASSUME CoachAssumption ==
    /\ IsFiniteSet(Players) /\ Players \subseteq Nat \ {0} /\ Goalie \in Players
    /\ 0 \in Types /\ IsFiniteSet(Types) /\ Types \subseteq Nat
    /\ PtMax \in Nat /\ SubsMax \in Nat /\ MultDefault \in BOOLEAN
    /\ MaxFaults \in Nat

VARIABLES
    \* the server
    mode,       \* before the kick-off, in play, or a set play
    late,       \* less than 500 cycles of normal time are left
    srv_type, srv_subs,
    tired,      \* the players whose recovery has fallen
    \* the network
    commands,   \* change_player_type commands on their way
    to_coach,   \* what the coach has not received yet
    said,       \* the players whose recovery is heard in the next step
    \* the players
    low,        \* those that believe they are tired
    turn,       \* whose turn it is to say something
    spoken,     \* the players have decided in this step
    \* the coach
    first_done, \* S_first_substituted
    available,  \* M_available_player_type_id: how many of each type
    subs,       \* the substitute count of our side
    recovery,   \* the players with a low recovery
    heard,      \* those whose recovery was heard at this time
    decided,    \* the coach has decided in this step
    \* history
    lost, delayed,
    asked,      \* the players that the coach has asked to replace in this step
    crossed,    \* recoveries said in the step of such a request
    missed,     \* the changes to a type the coach did not hear of, by type
    refused,    \* the server has refused a command
    wasted      \* the fresh players replaced in a set play

server == <<mode, late, srv_type, srv_subs, tired>>
network == <<commands, to_coach, said>>
team == <<low, turn, spoken>>
book == <<available, subs>>
coach == <<first_done, book, recovery, heard, decided>>
history == <<lost, delayed, asked, crossed, missed, refused, wasted>>
vars == <<server, network, team, coach, history>>

Hetero_Default == 0
Numbers == [Types -> Nat]

Change(u, t) == [kind |-> "change", unum |-> u, type |-> t]
Say(u) == [kind |-> "say", unum |-> u, type |-> 0]
Messages == [kind : {"change", "say"}, unum : Players, type : Types]

\* setPlayerParam: the default type is unlimited or one of the others.
Offered == [t \in Types |-> IF t = Hetero_Default /\ MultDefault THEN 0 ELSE PtMax]

TypeOK ==
    /\ mode \in {"BeforeKickOff", "PlayOn", "SetPlay"} /\ late \in BOOLEAN
    /\ srv_type \in [Players -> Types]
    /\ srv_subs \in Nat /\ subs \in Nat
    /\ tired \subseteq Players /\ low \subseteq Players /\ said \subseteq Players
    /\ recovery \subseteq Players /\ heard \subseteq Players
    /\ commands \in Seq(Messages) /\ to_coach \in Seq(Messages)
    /\ turn \in Players
    /\ spoken \in BOOLEAN /\ decided \in BOOLEAN /\ first_done \in BOOLEAN
    /\ available \in Numbers /\ missed \in Numbers
    /\ lost \in Nat /\ delayed \in Nat /\ crossed \in Nat /\ wasted \in Nat
    /\ asked \subseteq Players /\ refused \in BOOLEAN

Init ==
    /\ mode = "BeforeKickOff" /\ late = FALSE
    /\ srv_type = [u \in Players |-> Hetero_Default] /\ srv_subs = 0
    /\ tired = {}
    /\ commands = <<>> /\ to_coach = <<>> /\ said = {}
    /\ low = {} /\ turn \in Players /\ spoken = FALSE
    /\ first_done = FALSE /\ available = Offered /\ subs = 0
    /\ recovery = {} /\ heard = {} /\ decided = FALSE
    /\ lost = 0 /\ delayed = 0 /\ asked = {} /\ crossed = 0
    /\ missed = [t \in Types |-> 0] /\ refused = FALSE /\ wasted = 0

-----------------------------------------------------------------------------
(* The coach                                                               *)

\* Mutants: the type stays available, or is taken once more; the recovery is kept.
Taken_Kept(numbers, t) == numbers
Taken_NoFloor(numbers, t) == [numbers EXCEPT ![t] = @ - 1]
AfterChange_Kept(low_ones, u) == low_ones

\* One of a type is taken from the list, if the list has one.
Taken(numbers, t) ==
    [numbers EXCEPT ![t] = IF @ > 0 THEN @ - 1 ELSE 0]

AfterChange(low_ones, u) == low_ones \ {u}

\* analyzeChangePlayerType and GlobalWorldModel::setPlayerType.
HearChange(u, t) ==
    /\ subs' = IF mode = "BeforeKickOff" THEN subs ELSE subs + 1
    /\ recovery' = AfterChange(recovery, u)
    /\ available' = Taken(available, t)
    /\ UNCHANGED heard

\* AudioMemory::setRecovery.
HearSay(u) ==
    /\ heard' = heard \cup {u}
    /\ UNCHANGED <<book, recovery>>

CoachHear ==
    /\ to_coach # <<>> /\ to_coach' = Tail(to_coach)
    /\ \/ Head(to_coach).kind = "change"
          /\ HearChange(Head(to_coach).unum, Head(to_coach).type)
       \/ Head(to_coach).kind = "say" /\ HearSay(Head(to_coach).unum)
    /\ UNCHANGED <<server, commands, said, team, first_done, decided, history>>

CoachMisses ==
    /\ to_coach # <<>> /\ to_coach' = Tail(to_coach)
    /\ lost + delayed < MaxFaults /\ lost' = lost + 1
    /\ missed' = IF Head(to_coach).kind = "change"
                 THEN [missed EXCEPT ![Head(to_coach).type] = @ + 1] ELSE missed
    /\ UNCHANGED <<server, commands, said, team, coach, delayed, asked, crossed, refused, wasted>>

Wanted(assigned, t) == Cardinality({u \in DOMAIN assigned : assigned[u] = t})

\* getFastestType, player after player: "limit" of the players get one of the
\* candidate types, or as many as there are players or candidates for.
Assignments(players, candidates, limit) ==
    {assigned \in UNION {[some -> Types] : some \in SUBSET players} :
        /\ \A t \in Types : Wanted(assigned, t) <= candidates[t]
        /\ Cardinality(DOMAIN assigned) <= limit
        /\ \/ Cardinality(DOMAIN assigned) \in {limit, Cardinality(players)}
           \/ \A t \in Types : Wanted(assigned, t) = candidates[t]}

\* substituteTo: a type that is not available is not asked for.
Allowed(assigned) ==
    [u \in {v \in DOMAIN assigned : available[assigned[v]] > 0} |-> assigned[u]]

\* Mutant: only what was heard at this time counts.
UpdateTeammateStamina_Now ==
    recovery' = IF mode = "BeforeKickOff" THEN {} ELSE heard

\* updateTeammateStamina.
UpdateTeammateStamina ==
    recovery' = IF mode = "BeforeKickOff" THEN {} ELSE recovery \cup heard

\* doFirstSubstitute's candidates: the goalie takes one of the default type.
FirstCandidates ==
    [t \in Types |-> IF t # Hetero_Default THEN PtMax
                     ELSE PtMax + (IF MultDefault THEN Cardinality(Players) + 1 ELSE 0) - 1]

\* A decision of the coach.
DecisionReady ==
    /\ to_coach = <<>> /\ ~decided /\ decided' = TRUE
    /\ UpdateTeammateStamina /\ heard' = {}
    /\ UNCHANGED <<server, to_coach, said, team, book, lost, delayed, crossed, missed,
                   refused, wasted>>

\* The commands for an assignment, in any order.
Send(assigned) ==
    \E order \in SetToSeqs({Change(u, assigned[u]) : u \in DOMAIN assigned}) :
        commands' = commands \o order /\ asked' = DOMAIN assigned

\* doFirstSubstitute, ten steps after the start, of the players it sees.
FirstSubstitution ==
    /\ DecisionReady
    /\ mode = "BeforeKickOff" /\ ~first_done /\ first_done' = TRUE
    /\ \E present \in SUBSET (Players \ {Goalie}) :
       \E assigned \in Assignments(present, FirstCandidates, Cardinality(present)) :
          Send(Allowed([u \in DOMAIN assigned \cup {Goalie} |->
                            IF u = Goalie THEN Hetero_Default ELSE assigned[u]]))

SubstitutionTime == mode = "SetPlay" /\ late /\ subs < SubsMax

Left == SubsMax - subs

\* doSubstituteTiredPlayers.
TiredSubstitution ==
    /\ DecisionReady
    /\ SubstitutionTime
    /\ \E assigned \in Assignments(recovery', available, Left) : Send(Allowed(assigned))
    /\ UNCHANGED first_done

NoSubstitution ==
    /\ DecisionReady
    /\ ~SubstitutionTime
    /\ UNCHANGED <<commands, first_done, asked>>

-----------------------------------------------------------------------------
(* The server and the players                                              *)

Used(t) == Cardinality({u \in Players : srv_type[u] = t})

Accepts(t) ==
    /\ mode # "PlayOn"
    /\ mode = "BeforeKickOff" \/ srv_subs < SubsMax
    /\ t = Hetero_Default \/ Used(t) < PtMax

\* setOurPlayerType of the player itself: its stamina model starts anew.
OwnChange(low_ones, u) == low_ones \ {u}

\* The server carries a command out, and tells the coach and the player, which
\* may not hear of it; or it refuses.
Serve ==
    /\ commands # <<>> /\ commands' = Tail(commands)
    /\ LET u == Head(commands).unum
           t == Head(commands).type
       IN  IF Accepts(t)
           THEN /\ srv_type' = [srv_type EXCEPT ![u] = t]
                /\ srv_subs' = IF mode = "BeforeKickOff" THEN srv_subs ELSE srv_subs + 1
                /\ tired' = tired \ {u}
                /\ wasted' = IF mode = "SetPlay" /\ u \notin tired THEN wasted + 1 ELSE wasted
                /\ to_coach' = Append(to_coach, Head(commands))
                /\ \/ low' = OwnChange(low, u) /\ UNCHANGED lost
                   \/ lost + delayed < MaxFaults /\ lost' = lost + 1 /\ UNCHANGED low
                /\ UNCHANGED refused
           ELSE /\ refused' = TRUE
                /\ UNCHANGED <<srv_type, srv_subs, tired, wasted, to_coach, low, lost>>
    /\ UNCHANGED <<mode, late, said, turn, spoken, coach, delayed, asked, crossed,
                   missed>>

CommandLost ==
    /\ commands # <<>> /\ commands' = Tail(commands)
    /\ lost + delayed < MaxFaults /\ lost' = lost + 1
    /\ UNCHANGED <<server, to_coach, said, team, coach, delayed, asked, crossed, missed,
                   refused, wasted>>

\* A player's recovery falls while it runs, as it knows itself.
Tire(u) ==
    /\ mode = "PlayOn" /\ u \notin tired
    /\ tired' = tired \cup {u} /\ low' = low \cup {u}
    /\ UNCHANGED <<mode, late, srv_type, srv_subs, network, turn, spoken, coach, history>>

\* SampleCommunication::execute: the player whose turn it is adds its recovery,
\* and so does one that has something else to say.
Speak ==
    /\ ~spoken /\ spoken' = TRUE
    /\ said' \in IF mode = "PlayOn" THEN {{}} ELSE {low \cap ({turn} \cup others) : others \in SUBSET low}
    /\ UNCHANGED <<server, commands, to_coach, low, turn, coach, history>>

\* updateCurrentSender: the turn goes round.
NextTurn == CHOOSE u \in Players :
    IF \E v \in Players : v > turn
    THEN u > turn /\ \A v \in Players : v > turn => u <= v
    ELSE \A v \in Players : u <= v

NextMode ==
    CASE mode = "BeforeKickOff" -> {"BeforeKickOff", "PlayOn"}
      [] OTHER -> {"PlayOn", "SetPlay"}

\* The next step of the server, once everyone has decided.  What was said is heard.
\* What the server sends the coach reaches it in that step or is lost.
Step ==
    /\ spoken /\ decided /\ to_coach = <<>> /\ spoken' = FALSE /\ decided' = FALSE
    /\ delayed' = delayed + Len(commands)
    /\ lost + delayed' <= MaxFaults
    /\ mode' \in NextMode
    /\ late' \in IF mode' = "BeforeKickOff" THEN {FALSE} ELSE {late, TRUE}
    /\ \E order \in SetToSeqs({Say(u) : u \in said}) : to_coach' = order
    /\ said' = {} /\ asked' = {}
    /\ crossed' = Min({SubsMax, crossed + Cardinality(said \cap asked)})
    /\ turn' = NextTurn
    /\ UNCHANGED <<srv_type, srv_subs, tired, commands, low, first_done, book, recovery,
                   heard, lost, missed, refused, wasted>>

\* The ball goes out of play in the step of u's turn.
DeadBall(u) == Step /\ mode' = "SetPlay" /\ turn' = u

Next ==
    \/ CoachHear \/ CoachMisses
    \/ FirstSubstitution \/ TiredSubstitution \/ NoSubstitution
    \/ Serve \/ CommandLost
    \/ \E u \in Players : Tire(u)
    \/ Speak \/ Step

\* Every client decides in every step; the server answers; in the end play stops
\* in everyone's turn again.
Fairness ==
    /\ WF_vars(CoachHear) /\ WF_vars(Serve) /\ WF_vars(Speak) /\ WF_vars(Step)
    /\ WF_vars(FirstSubstitution \/ TiredSubstitution \/ NoSubstitution)
    /\ \A u \in Players : SF_vars(DeadBall(u))

Spec == Init /\ [][Next]_vars /\ Fairness

-----------------------------------------------------------------------------
(* Properties                                                              *)

\* The coach never counts on more than there is: the types it believes available
\* and those in use are within the limit, and so are the substitutions, but for
\* the changes it did not hear of or has not received yet.
OnTheWay(t) ==
    Cardinality({i \in DOMAIN to_coach : to_coach[i].kind = "change" /\ to_coach[i].type = t})

BookKept ==
    \A t \in Types \ {Hetero_Default} :
        available[t] + Used(t) <= PtMax + missed[t] + OnTheWay(t)

\* While nothing is lost or late, the server never refuses a command.
NeverRefused == lost = 0 /\ delayed = 0 => ~refused

\* A fresh player is replaced no more often than something was lost or late, or a
\* player said that it was tired while the coach was asking for its replacement.
WasteBounded == wasted <= lost + delayed + crossed

\* A tired player is replaced in the end, once little time is left, unless the
\* substitutions or the types run out, or something is lost.
TiredReplaced ==
    \A u \in Players :
        u \in tired /\ late ~>
            \/ u \notin tired \/ lost > 0
            \/ subs = SubsMax \/ \A t \in Types : available[t] = 0
=============================================================================
