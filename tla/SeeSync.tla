------------------------------ MODULE SeeSync -------------------------------
(***************************************************************************)
(* How a player keeps its decisions in step with the server's visual       *)
(* messages: SeeState driven by PlayerAgent (lib/rcsc/player), against the *)
(* server's see timer.                                                     *)
(*                                                                         *)
(* Time advances in units of 12.5 ms.  A cycle is 8 units and starts with  *)
(* a sense_body; the server's see timer ticks every 3 units (37.5 ms), so  *)
(* the two drift and meet again every 3 cycles.  The nine offsets of a     *)
(* tick within a cycle are the nine values of SeeState::Timing.  A player  *)
(* that has asked for synch_see, as the team does, gets its sees at one    *)
(* offset in a cycle instead, from the server's answer on.                 *)
(***************************************************************************)
EXTENDS SeeState, Sequences

CONSTANTS
    Configs,        \* the configurations of server and player
    ViewActions,    \* the view actions the team sets
    MaxLost,        \* bound on lost see and change_view datagrams
    MaxModeChanges  \* bound on the referee's switches from and to play_on

ASSUME SeeSyncAssumption ==
    /\ Configs \subseteq {"normal", "synch_mode", "synch_see"}
    /\ ViewActions \subseteq {"View_Wide", "View_Normal", "View_Synch"}
    /\ ViewActions # {}
    /\ MaxLost \in Nat
    /\ MaxModeChanges \in Nat

VARIABLES
    config,     \* the configuration, fixed from the start
    clock,      \* server time, in units, modulo ClockPeriod
    due,        \* a tick of the see timer has not been served yet
    srv_view,   \* the server's view mode of this player
    srv_cnt,    \* ticks since the server sent the last see
    mode,       \* the play mode: "PlayOn" or "Other"
    ss,         \* PlayerAgent::Impl::see_state_
    self_view,  \* the view mode WorldModel::self() believes in
    decided,    \* last_decision_time_ = current_time_
    lost,       \* datagrams lost so far
    changes     \* play mode changes so far

server == <<clock, due, srv_view, srv_cnt>>
agent == <<ss, self_view, decided>>
vars == <<config, server, agent, mode, lost, changes>>

\* In the server's synch mode a player decides on think, not on see or time;
\* with synch_see it asks for the synchronous see timer.
SynchMode == config = "synch_mode"
SynchSee == config = "synch_see"

\* Every sense_body starts a new game time.  A stale game time is mistaken
\* for a new one only after Cycles cycles without a see: out of reach of
\* the slowest view (3 cycles) and the bounded losses.
Cycles == 9
UnitsPerCycle == 8
UnitsPerTick == 3
ClockPeriod == Cycles * UnitsPerCycle

\* think comes 60 ms, the wait threshold 75 ms after the sense_body, and a
\* synchronous see at synch_see_offset, 30 ms (here 25).
ThinkPhase == 4
ThresholdPhase == 6
SynchSeePhase == 2

now == clock \div UnitsPerCycle
phase == clock % UnitsPerCycle

\* The see timer's period and the offset of its ticks: one tick in a cycle
\* for a synchronous see.
TickPeriod == IF ss.synch_see THEN UnitsPerCycle ELSE UnitsPerTick
TickOffset == IF ss.synch_see THEN SynchSeePhase ELSE 0

\* Ticks between two sees: 75 ms, 150 ms, 300 ms, halved in low quality; or
\* one, two and three cycles.
TicksPerSee(view) ==
    IF ss.synch_see THEN FullInterval(view.width) ELSE
    LET high == CASE view.width = "NARROW" -> 2
                  [] view.width = "NORMAL" -> 4
                  [] view.width = "WIDE"   -> 8
    IN  IF view.quality = "LOW" THEN high \div 2 ELSE high

View(width, quality) == [width |-> width, quality |-> quality]

Times == 0 .. Cycles - 1

TypeOK ==
    /\ config \in Configs
    /\ clock \in 0 .. ClockPeriod - 1
    /\ due \in BOOLEAN
    /\ srv_view \in Views /\ self_view \in Views
    /\ srv_cnt \in Nat
    /\ mode \in {"PlayOn", "Other"}
    /\ ss \in SeeStates(Times)
    /\ decided \in BOOLEAN
    /\ lost \in 0 .. MaxLost
    /\ changes \in 0 .. MaxModeChanges

\* The agent joins in the middle of a cycle, when the server has just
\* accepted its init; the server's default view is (normal, high).
Init ==
    /\ config \in Configs
    /\ clock \in { c \in 0 .. ClockPeriod - 1 : c \div UnitsPerCycle < 3 }
    /\ due = FALSE
    /\ srv_view = View("NORMAL", "HIGH")
    /\ self_view = srv_view
    /\ srv_cnt \in 0 .. 3
    /\ mode = "Other"
    /\ ss = NoSeeState(Cycles - 1)
    /\ decided = TRUE
    /\ lost = 0 /\ changes = 0

-----------------------------------------------------------------------------
(* What a handler does to the agent: the estimator and the believed view   *)
(* it leaves, and the change_view commands it sends on the way.            *)

Idle(s) == [ss |-> s, view |-> self_view, sent |-> <<>>]

SendView(o, view) ==
    [ss |-> SetViewMode(o.ss, view), view |-> view, sent |-> Append(o.sent, view)]

WithTiming(o, timing) == [o EXCEPT !.ss = SetLastSeeTiming(@, timing)]

\* A command reaches the server before its next tick, or is lost: i is the
\* last one that arrives, which makes the earlier ones irrelevant.
Commit(o) ==
    /\ ss' = o.ss
    /\ self_view' = o.view
    /\ \E i \in 0 .. Len(o.sent) :
          /\ srv_view' = IF i = 0 THEN srv_view ELSE o.sent[i]
          /\ lost' = lost + Len(o.sent) - i
          /\ lost' <= MaxLost

\* adjustSeeSynchNormalMode, called on every see that is not synchronised.
AdjustNormalMode(o) ==
    IF IsSynch(o.ss) THEN o
    ELSE IF IsSynchedSeeCountNormalMode(o.ss)
      THEN SendView(WithTiming(o, "0_00"), View("NORMAL", "HIGH"))
    ELSE IF mode = "PlayOn"
      THEN IF o.view.quality = "LOW" THEN SendView(o, View("NARROW", "HIGH")) ELSE o
    ELSE IF o.view.width # "NARROW" \/ o.view.quality # "LOW"
      THEN SendView(o, View("NARROW", "LOW"))
    ELSE o

\* adjustSeeSynchSynchMode, called on every think that is not synchronised.
AdjustSynchMode(o) ==
    IF IsSynch(o.ss) THEN o
    ELSE IF IsSynchedSeeCountSynchMode(o.ss)
      THEN SendView(WithTiming(o, "50_0"), View("NARROW", "HIGH"))
    ELSE IF mode = "PlayOn"
      THEN IF o.view.quality = "LOW" THEN SendView(o, View("NARROW", "HIGH")) ELSE o
    ELSE IF o.view.width # "NARROW" /\ o.view.quality # "LOW"
      THEN SendView(o, View("NARROW", "LOW"))
    ELSE o

\* action() gives up a synchronisation whose see did not come.
MissedSee(s) == IsSynch(s) /\ s.cycles_till_see = 0 /\ s.last_see_time # now

CheckMissedSee(o) == IF MissedSee(o.ss) THEN WithTiming(o, "NOSYNCH") ELSE o

\* View_Synch without synchronisation goes by the time of the see within the
\* cycle; in the server's synch mode it enforces NARROW.
TimerSynchWidths == IF SynchMode THEN {"NARROW"} ELSE {"NARROW", "NORMAL"}

\* The widths a view action may ask for.  View_Tactical, which the team sets
\* by default, comes down to one of the three.
WidthsOf(view_action, s) ==
    CASE view_action = "View_Wide" -> {"WIDE"}
      [] view_action = "View_Normal" -> {"NORMAL"}
      [] view_action = "View_Synch" /\ ~IsSynch(s) -> TimerSynchWidths
      [] view_action = "View_Synch" /\ IsSynch(s) ->
            IF ~s.synch_see /\ s.last_timing = "0_00" THEN {"NORMAL"} ELSE {"NARROW"}

RequestedWidths(s) == UNION { WidthsOf(v, s) : v \in ViewActions }

\* doViewAction and doChangeView: whether a request is let through.
MayChangeTo(o, width) ==
    /\ IF IsSynch(o.ss) THEN CanChangeViewTo(o.ss, width, now) ELSE mode = "PlayOn"
    /\ width # o.view.width

\* doViewAction; setCommandEffect and setViewMode then run in any case.
DoViewAction(o) ==
    { IF MayChangeTo(o, width) THEN SendView(o, View(width, "HIGH"))
      ELSE [o EXCEPT !.ss = SetViewMode(@, o.view)] : width \in RequestedWidths(o.ss) }

\* PlayerAgent::action.
Decisions(o) ==
    LET c == CheckMissedSee(o)
    IN  DoViewAction(IF SynchMode THEN AdjustSynchMode(c) ELSE c)

Decide(o) ==
    /\ decided' = TRUE
    /\ \E d \in Decisions(o) : Commit(d)

-----------------------------------------------------------------------------
(* Time and the server                                                     *)

IsTick(c) == (c % TickPeriod) = TickOffset

next_clock == (clock + 1) % ClockPeriod

\* The agent does not sleep through a cycle, nor through a think.
AgentIsPrompt ==
    /\ phase = UnitsPerCycle - 1 => decided
    /\ SynchMode /\ phase = ThinkPhase => decided

\* synch_see is asked for on joining and granted within the cycle.
AnswerIsPrompt == SynchSee /\ phase = UnitsPerCycle - 1 => ss.synch_see

Advance ==
    /\ ~due /\ AgentIsPrompt /\ AnswerIsPrompt
    /\ clock' = next_clock
    /\ due' = IsTick(next_clock)

\* Time passes within a cycle.
Pass ==
    /\ Advance
    /\ phase # UnitsPerCycle - 1
    /\ UNCHANGED <<config, srv_view, srv_cnt, agent, mode, lost, changes>>

\* A new cycle: analyzeSenseBody; the body sensor carries the server's view.
SenseBody ==
    /\ Advance
    /\ phase = UnitsPerCycle - 1
    /\ ss' = UpdateBySenseBody(ss, next_clock \div UnitsPerCycle)
    /\ self_view' = srv_view
    /\ decided' = FALSE
    /\ UNCHANGED <<config, srv_view, srv_cnt, mode, lost, changes>>

\* The server serves a tick of its see timer.
SeeIsDue == srv_cnt + 1 >= TicksPerSee(srv_view)

SkipTick ==
    /\ due /\ ~SeeIsDue
    /\ due' = FALSE
    /\ srv_cnt' = srv_cnt + 1
    /\ UNCHANGED <<config, clock, srv_view, agent, mode, lost, changes>>

SendSee ==
    /\ due /\ SeeIsDue
    /\ due' = FALSE
    /\ srv_cnt' = 0
    /\ UNCHANGED <<config, clock, mode, changes>>

LoseSee ==
    /\ SendSee
    /\ lost < MaxLost /\ lost' = lost + 1
    /\ UNCHANGED <<srv_view, agent>>

\* The server grants synch_see, in high quality, and analyzeOK is told before
\* any see that follows.
GetSynchSee ==
    /\ SynchSee /\ ~ss.synch_see /\ ~due
    /\ ss' = SetViewMode(SetSynchSeeMode(ss), self_view)
    /\ srv_view' = View(srv_view.width, "HIGH")
    /\ UNCHANGED <<config, clock, due, srv_cnt, self_view, decided, mode, lost,
                   changes>>

\* The referee announces another play mode.
Referee ==
    /\ changes < MaxModeChanges /\ changes' = changes + 1
    /\ mode' = IF mode = "PlayOn" THEN "Other" ELSE "PlayOn"
    /\ UNCHANGED <<config, server, agent, lost>>

-----------------------------------------------------------------------------
(* The agent                                                               *)

AfterSee == Idle(UpdateBySee(ss, now, self_view))

\* analyzeSee, then handleMessage: in the server's normal mode the first see
\* of a cycle is decided upon at once.
ReceiveSee ==
    /\ SendSee
    /\ IF SynchMode
       THEN Commit(AfterSee) /\ UNCHANGED decided
       ELSE IF decided
       THEN Commit(AdjustNormalMode(AfterSee)) /\ UNCHANGED decided
       ELSE Decide(AdjustNormalMode(AfterSee))

\* Mutant: a synchronised player does not wait for the see of its cycle.
WaitIsOver_Eager == IsSynch(ss) \/ phase >= ThresholdPhase

\* isDecisionTiming, polled by handleTimeout, for a cycle with no see yet: at
\* once when no see is expected, else when the wait threshold has passed
\* (75 ms, or 79 ms when synchronised; a see at 75 ms races with the first).
WaitIsOver ==
    \/ IsSynch(ss) /\ ss.cycles_till_see > 0
    \/ phase >= ThresholdPhase /\ (IsSynch(ss) /\ phase = ThresholdPhase => ~due)

Timeout ==
    /\ ~SynchMode
    /\ ~decided
    /\ WaitIsOver
    /\ Decide(Idle(ss))
    /\ UNCHANGED <<config, clock, due, srv_cnt, mode, changes>>

\* handleMessage on a think, in the server's synch mode.
Think ==
    /\ SynchMode
    /\ phase = ThinkPhase /\ ~due
    /\ ~decided
    /\ Decide(Idle(ss))
    /\ UNCHANGED <<config, clock, due, srv_cnt, mode, changes>>

Next ==
    \/ Pass \/ SenseBody \/ SkipTick \/ LoseSee \/ Referee
    \/ GetSynchSee \/ ReceiveSee \/ Timeout \/ Think

\* The server's clock does not stop, and the agent answers in time; losses
\* and referee calls may happen or not.
Fairness ==
    /\ WF_vars(Pass \/ SenseBody)
    /\ WF_vars(SkipTick \/ ReceiveSee)
    /\ WF_vars(GetSynchSee)
    /\ WF_vars(Timeout \/ Think)

Spec == Init /\ [][Next]_vars /\ Fairness

-----------------------------------------------------------------------------
(* Properties                                                              *)

\* The phase at which the see of each synchronised timing arrives.
PhaseOf(timing) ==
    CASE timing = "0_00" -> 0 [] timing = "50_0" -> 4 [] timing = "22_5" -> 2
      [] timing = "SYNC" -> SynchSeePhase

\* The player relies on its estimate: in synch_see mode, from the first see.
Relies == IF ss.synch_see THEN ss.last_timing = "SYNC" ELSE IsSynch(ss)

\* The clock value of the last tick the server served, and of its last see.
LastTick ==
    clock - (IF due THEN TickPeriod ELSE (clock - TickOffset) % TickPeriod)
LastSeeSent == LastTick - TickPeriod * srv_cnt

\* The cycles from now to the next see, if the view does not change again.
CyclesToNextSee ==
    LET missing == TicksPerSee(srv_view) - srv_cnt
        ticks == IF missing < 1 THEN 1 ELSE missing
    IN  ((LastTick + TickPeriod * ticks) \div UnitsPerCycle) - now

\* Nothing was lost and, but for the server's synch mode and synch_see, no
\* change of play mode cut an adjustment short.
Undisturbed == lost = 0 /\ (config = "normal" => changes = 0)

\* The estimate is exact: a player that believes itself synchronised with
\* timing T got its last see at offset T of a cycle.
TimingExact ==
    Undisturbed /\ Relies =>
        (LastSeeSent + ClockPeriod) % UnitsPerCycle = PhaseOf(ss.last_timing)

\* Once it has decided, and until the see of a new cycle comes, a synchronised
\* player knows the cycle of its next see.
Foreseen ==
    Relies /\ (decided \/ ss.last_see_time # now) =>
        CyclesToNextSee = ss.cycles_till_see

\* The prediction is exact: a synchronised player neither waits for a see that
\* cannot come nor decides before one that will.
SeeForeseen == Undisturbed => Foreseen

\* A player that relies on its estimate decides after the see of the cycle:
\* none comes between a decision and the end of its cycle.
SeenBeforeDecision ==
    [][Undisturbed' /\ Relies /\ ~decided /\ decided' => CyclesToNextSee' > 0]_vars

\* doChangeView refuses what "will break see synch": no step of a player,
\* whatever view it asks for, gives up a synchronisation.
KeepsSynch == [][Undisturbed' /\ IsSynch(ss) => IsSynch(ss')]_vars

\* isSynchedSeeCountNormalMode: "this condition means last see timing is
\* TIME_0_00", and "just 50ms from sense_body" in the server's synch mode.  A
\* player that gains synchronisation got its last see at that offset, whatever
\* the play mode did meanwhile.
DetectedExactly ==
    [][lost = 0 /\ ~IsSynch(ss) /\ IsSynch(ss') =>
         (LastSeeSent' + ClockPeriod) % UnitsPerCycle = PhaseOf(ss'.last_timing)]_vars

\* Out of play and not synchronised, the agent must "try adjustment": it
\* changes the view mode to (Narrow, Low), the one mode in which the count of
\* sees betrays their timing.
OutOfPlayPrepares ==
    (mode # "PlayOn" /\ ~IsSynch(ss)) ~>
        (mode = "PlayOn" \/ IsSynch(ss) \/ self_view = View("NARROW", "LOW"))

\* Whatever was lost, a player becomes synchronised and stays so with an exact
\* prediction of the cycle of every see: in the server's normal mode once play
\* has stopped for good, with synch_see in any play mode.
SynchAtLast ==
    (SynchSee \/ (config = "normal" /\ <>[](mode # "PlayOn"))) =>
        <>[](Relies /\ Foreseen)
=============================================================================
