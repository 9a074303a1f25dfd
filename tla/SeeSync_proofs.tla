--------------------------- MODULE SeeSync_proofs ---------------------------
(***************************************************************************)
(* Type correctness of SeeSync, and that the estimate of an undisturbed    *)
(* player is exact.                                                        *)
(*                                                                         *)
(* Every operator of the estimator maps see states to see states, every    *)
(* handler leaves an outcome of the right type, and so TypeOK is           *)
(* inductive as it stands.  The exactness of the estimate is not: IInv     *)
(* relates the estimator's counts to the ticks of the server's timer, from *)
(* the first see that is counted to the see that an estimate predicts.     *)
(***************************************************************************)
EXTENDS SeeSync, TLAPS

-----------------------------------------------------------------------------
(* The estimator's operators map see states to see states.                 *)

LEMMA FullIntervalType ==
    ASSUME NEW width \in Widths
    PROVE  FullInterval(width) \in 1 .. 3
BY DEF Widths, FullInterval

LEMMA SetViewModeType ==
    ASSUME NEW T, NEW s \in SeeStates(T), NEW view \in Views
    PROVE  SetViewMode(s, view) \in SeeStates(T)
<1>1. view.width \in Widths
  BY DEF Views
<1>2. CyclesOf(s, view.width) \in Nat
  BY <1>1, FullIntervalType DEF CyclesOf
<1>. QED
  BY <1>2 DEF SetViewMode, SeeStates

LEMMA SetLastSeeTimingType ==
    ASSUME NEW T, NEW s \in SeeStates(T), NEW timing \in Timings
    PROVE  SetLastSeeTiming(s, timing) \in SeeStates(T)
BY DEF SetLastSeeTiming, SeeStates

LEMMA SetSynchSeeModeType ==
    ASSUME NEW T, NEW s \in SeeStates(T)
    PROVE  SetSynchSeeMode(s) \in SeeStates(T)
BY DEF SetSynchSeeMode, SeeStates

LEMMA SetNewCycleType ==
    ASSUME NEW T, NEW s \in SeeStates(T), NEW t \in T
    PROVE  SetNewCycle(s, t) \in SeeStates(T)
<1>1. (IF s.cycles_till_see > 0 THEN s.cycles_till_see - 1 ELSE 0) \in Nat
  BY DEF SeeStates
<1>2. [i \in HistoryIndex |-> IF i = 0 THEN s.see_count ELSE s.history[i - 1]]
        \in [HistoryIndex -> Nat]
  BY DEF SeeStates, HistoryIndex
<1>. QED
  BY <1>1, <1>2 DEF SetNewCycle, SeeStates

LEMMA CountSeeType ==
    ASSUME NEW T, NEW s \in SeeStates(T), NEW t \in T
    PROVE  CountSee(s, t) \in SeeStates(T)
<1>1. CASE t = s.last_see_time
  <2>. DEFINE timing == IF IsSynch(s) THEN "NOSYNCH" ELSE s.last_timing
  <2>1. timing \in Timings
    BY DEF SeeStates, Timings
  <2>. DEFINE count == s.see_count + 1
  <2>2. count \in Nat
    BY DEF SeeStates
  <2>3. CountSee(s, t) = [s EXCEPT !.see_count = count, !.last_timing = timing]
    BY <1>1 DEF CountSee
  <2>. HIDE DEF timing, count
  <2>. QED
    BY <2>1, <2>2, <2>3 DEF SeeStates
<1>2. CASE t # s.last_see_time
  <2>. DEFINE n == SetNewCycle(s, t)
  <2>1. n \in SeeStates(T)
    BY SetNewCycleType
  <2>. HIDE DEF n
  <2>2. [n EXCEPT !.last_see_time = t, !.see_count = 1] \in SeeStates(T)
    BY <2>1 DEF SeeStates
  <2>. QED
    BY <1>2, <2>2 DEF CountSee, n
<1>. QED
  BY <1>1, <1>2

LEMMA GetNextTimingType ==
    ASSUME NEW s, NEW view
    PROVE  GetNextTiming(s, view) \in Timings
<1>. DEFINE kept == { r \in TimingAfter : /\ view.quality # "LOW"
                                          /\ r.from = s.last_timing
                                          /\ r.width = view.width }
<1>1. ASSUME kept # {}
      PROVE  (CHOOSE r \in kept : TRUE).to \in Timings
  <2>1. \A r \in TimingAfter : r.to \in Timings
    BY DEF TimingAfter, Timings, SynchTimings
  <2>. QED
    BY <1>1, <2>1
<1>. QED
  BY <1>1 DEF GetNextTiming, Timings

LEMMA UpdateBySeeType ==
    ASSUME NEW T, NEW s \in SeeStates(T), NEW t \in T, NEW view \in Views
    PROVE  UpdateBySee(s, t, view) \in SeeStates(T)
<1>. DEFINE c == CountSee(s, t)
            r == RestartCount(c, view)
<1>1. c \in SeeStates(T)
  BY CountSeeType
<1>. HIDE DEF c
<1>2. [c EXCEPT !.cycles_till_see = 0] \in SeeStates(T)
  BY <1>1 DEF SeeStates
<1>3. r \in SeeStates(T)
  BY <1>1, <1>2, SetViewModeType DEF RestartCount
<1>. HIDE DEF r
<1>4. "NOSYNCH" \in Timings
  BY DEF Timings
<1>. QED
  BY <1>1, <1>3, <1>4, SetLastSeeTimingType, GetNextTimingType DEF UpdateBySee, c, r

-----------------------------------------------------------------------------
(* What a handler leaves behind has the right type.                        *)

Outcomes == [ss : SeeStates(Times), view : Views, sent : Seq(Views)]

LEMMA NowType ==
    ASSUME TypeOK
    PROVE  now \in Times
BY DEF TypeOK, now, Times, ClockPeriod, Cycles, UnitsPerCycle

LEMMA ViewType ==
    ASSUME NEW width \in Widths, NEW quality \in Qualities
    PROVE  View(width, quality) \in Views
BY DEF View, Views

LEMMA SendViewType ==
    ASSUME NEW o \in Outcomes, NEW view \in Views
    PROVE  SendView(o, view) \in Outcomes
<1>1. SetViewMode(o.ss, view) \in SeeStates(Times)
  BY SetViewModeType DEF Outcomes
<1>2. Append(o.sent, view) \in Seq(Views)
  BY DEF Outcomes
<1>. QED
  BY <1>1, <1>2 DEF SendView, Outcomes

LEMMA WithTimingType ==
    ASSUME NEW o \in Outcomes, NEW timing \in Timings
    PROVE  WithTiming(o, timing) \in Outcomes
<1>1. SetLastSeeTiming(o.ss, timing) \in SeeStates(Times)
  BY SetLastSeeTimingType DEF Outcomes
<1>. QED
  BY <1>1 DEF WithTiming, Outcomes

LEMMA AdjustType ==
    ASSUME NEW o \in Outcomes
    PROVE  /\ AdjustNormalMode(o) \in Outcomes
           /\ AdjustSynchMode(o) \in Outcomes
<1>1. /\ View("NORMAL", "HIGH") \in Views
      /\ View("NARROW", "HIGH") \in Views
      /\ View("NARROW", "LOW") \in Views
  BY ViewType DEF Widths, Qualities
<1>2. WithTiming(o, "0_00") \in Outcomes /\ WithTiming(o, "50_0") \in Outcomes
  BY WithTimingType DEF Timings, SynchTimings
<1>3. \A p \in Outcomes : \A view \in Views : SendView(p, view) \in Outcomes
  BY SendViewType
<1>4. AdjustNormalMode(o) \in Outcomes
  BY <1>1, <1>2, <1>3 DEF AdjustNormalMode
<1>5. AdjustSynchMode(o) \in Outcomes
  BY <1>1, <1>2, <1>3 DEF AdjustSynchMode
<1>. QED
  BY <1>4, <1>5

\* A view action asks for one of the three widths.
LEMMA RequestedType == ASSUME NEW s PROVE RequestedWidths(s) \subseteq Widths
<1>1. TimerSynchWidths \subseteq Widths
  BY DEF TimerSynchWidths, Widths
<1>2. \A v \in ViewActions : WidthsOf(v, s) \subseteq Widths
  <2>. TAKE v \in ViewActions
  <2>1. v \in {"View_Wide", "View_Normal", "View_Synch"}
    BY SeeSyncAssumption
  <2>2. CASE v = "View_Wide"
    BY <2>2 DEF WidthsOf, Widths
  <2>3. CASE v = "View_Normal"
    BY <2>3 DEF WidthsOf, Widths
  <2>4. CASE v = "View_Synch" /\ ~IsSynch(s)
    BY <1>1, <2>4 DEF WidthsOf
  <2>5. CASE v = "View_Synch" /\ IsSynch(s)
    BY <2>5 DEF WidthsOf, Widths
  <2>. QED
    BY <2>1, <2>2, <2>3, <2>4, <2>5
<1>. QED
  BY <1>2 DEF RequestedWidths

LEMMA DoViewActionType ==
    ASSUME NEW o \in Outcomes
    PROVE  DoViewAction(o) \subseteq Outcomes
<1>1. RequestedWidths(o.ss) \subseteq Widths
  BY RequestedType
<1>2. \A width \in Widths : SendView(o, View(width, "HIGH")) \in Outcomes
  BY SendViewType, ViewType DEF Qualities
<1>3. SetViewMode(o.ss, o.view) \in SeeStates(Times)
  BY SetViewModeType DEF Outcomes
<1>4. [o EXCEPT !.ss = SetViewMode(o.ss, o.view)] \in Outcomes
  BY <1>3 DEF Outcomes
<1>. QED
  BY <1>1, <1>2, <1>4 DEF DoViewAction

LEMMA DecisionsType ==
    ASSUME NEW o \in Outcomes
    PROVE  Decisions(o) \subseteq Outcomes
<1>1. CheckMissedSee(o) \in Outcomes
  BY WithTimingType DEF CheckMissedSee, Timings
<1>. QED
  BY <1>1, AdjustType, DoViewActionType DEF Decisions

LEMMA CommitType ==
    ASSUME TypeOK, NEW o \in Outcomes, Commit(o)
    PROVE  /\ ss' \in SeeStates(Times)
           /\ self_view' \in Views
           /\ srv_view' \in Views
           /\ lost' \in 0 .. MaxLost
<1>1. ss' \in SeeStates(Times) /\ self_view' \in Views
  BY DEF Commit, Outcomes
<1>2. PICK i \in 0 .. Len(o.sent) :
         /\ srv_view' = IF i = 0 THEN srv_view ELSE o.sent[i]
         /\ lost' = lost + Len(o.sent) - i
         /\ lost' <= MaxLost
  BY DEF Commit
<1>3. Len(o.sent) \in Nat /\ o.sent \in Seq(Views)
  BY DEF Outcomes
<1>4. srv_view' \in Views
  BY <1>2, <1>3 DEF TypeOK
<1>5. lost' \in 0 .. MaxLost
  BY <1>2, <1>3, SeeSyncAssumption DEF TypeOK
<1>. QED
  BY <1>1, <1>4, <1>5

-----------------------------------------------------------------------------
(* Type correctness                                                        *)

LEMMA AfterSeeType ==
    ASSUME TypeOK
    PROVE  AfterSee \in Outcomes
<1>1. UpdateBySee(ss, now, self_view) \in SeeStates(Times)
  BY UpdateBySeeType, NowType DEF TypeOK
<1>. QED
  BY <1>1 DEF AfterSee, Idle, Outcomes, TypeOK

LEMMA DecideType ==
    ASSUME TypeOK, NEW o \in Outcomes, Decide(o)
    PROVE  /\ decided' \in BOOLEAN
           /\ ss' \in SeeStates(Times)
           /\ self_view' \in Views
           /\ srv_view' \in Views
           /\ lost' \in 0 .. MaxLost
<1>1. PICK d \in Outcomes : Commit(d)
  BY DecisionsType DEF Decide
<1>. QED
  BY <1>1, CommitType DEF Decide

LEMMA InitType == Init => TypeOK
<1>. SUFFICES ASSUME Init PROVE TypeOK
  OBVIOUS
<1>1. NoSeeState(Cycles - 1) \in SeeStates(Times)
  BY DEF NoSeeState, SeeStates, Times, Cycles, Timings, HistoryIndex
<1>2. View("NORMAL", "HIGH") \in Views
  BY ViewType DEF Widths, Qualities
<1>3. lost \in 0 .. MaxLost /\ changes \in 0 .. MaxModeChanges
  BY SeeSyncAssumption DEF Init
<1>4. clock \in 0 .. ClockPeriod - 1 /\ srv_cnt \in Nat
  BY DEF Init
<1>. QED
  BY <1>1, <1>2, <1>3, <1>4 DEF Init, TypeOK

LEMMA NextType == TypeOK /\ [Next]_vars => TypeOK'
<1>. SUFFICES ASSUME TypeOK, [Next]_vars
              PROVE  TypeOK'
  OBVIOUS
<1>1. next_clock \in 0 .. ClockPeriod - 1 /\ IsTick(next_clock) \in BOOLEAN
  BY DEF TypeOK, next_clock, IsTick, ClockPeriod, Cycles, UnitsPerCycle
<1>2. next_clock \div UnitsPerCycle \in Times
  BY DEF TypeOK, next_clock, ClockPeriod, Cycles, UnitsPerCycle, Times
<1>3. CASE Pass
  BY <1>1, <1>3 DEF Pass, Advance, agent, TypeOK
<1>4. CASE SenseBody
  <2>1. ss' \in SeeStates(Times)
    BY <1>2, <1>4, SetNewCycleType DEF SenseBody, UpdateBySenseBody, TypeOK
  <2>. QED
    BY <1>1, <1>4, <2>1 DEF SenseBody, Advance, TypeOK
<1>5. CASE SkipTick
  <2>1. srv_cnt' \in Nat
    BY <1>5 DEF SkipTick, TypeOK
  <2>. QED
    BY <1>5, <2>1 DEF SkipTick, agent, TypeOK
<1>6. CASE LoseSee
  <2>1. lost' \in 0 .. MaxLost
    BY <1>6, SeeSyncAssumption DEF LoseSee, TypeOK
  <2>. QED
    BY <1>6, <2>1 DEF LoseSee, SendSee, agent, TypeOK
<1>7. CASE Referee
  BY <1>7, SeeSyncAssumption DEF Referee, server, agent, TypeOK
<1>8. CASE ReceiveSee
  <2>1. AfterSee \in Outcomes /\ AdjustNormalMode(AfterSee) \in Outcomes
    BY AfterSeeType, AdjustType
  <2>2. /\ ss' \in SeeStates(Times) /\ self_view' \in Views /\ srv_view' \in Views
        /\ lost' \in 0 .. MaxLost /\ decided' \in BOOLEAN
    BY <1>8, <2>1, CommitType, DecideType DEF ReceiveSee, TypeOK
  <2>. QED
    BY <1>8, <2>2 DEF ReceiveSee, SendSee, TypeOK
<1>9. Idle(ss) \in Outcomes
  BY DEF Idle, Outcomes, TypeOK
<1>10. CASE Timeout
  <2>1. Decide(Idle(ss))
    BY <1>10 DEF Timeout
  <2>. QED
    BY <1>9, <1>10, <2>1, DecideType DEF Timeout, TypeOK
<1>11. CASE Think
  <2>1. Decide(Idle(ss))
    BY <1>11 DEF Think
  <2>. QED
    BY <1>9, <1>11, <2>1, DecideType DEF Think, TypeOK
<1>12. CASE GetSynchSee
  <2>1. ss' \in SeeStates(Times)
    BY <1>12, SetSynchSeeModeType, SetViewModeType DEF GetSynchSee, TypeOK
  <2>2. srv_view' \in Views
    BY <1>12 DEF GetSynchSee, View, Views, Qualities, TypeOK
  <2>. QED
    BY <1>12, <2>1, <2>2 DEF GetSynchSee, TypeOK
<1>13. CASE UNCHANGED vars
  BY <1>13 DEF vars, server, agent, TypeOK
<1>. QED
  BY <1>3, <1>4, <1>5, <1>6, <1>7, <1>8, <1>10, <1>11, <1>12, <1>13 DEF Next

\* Every reachable state is typed: the estimator's counters never leave the
\* naturals and no more datagrams are lost than the bound allows.
THEOREM TypeCorrect == Spec => []TypeOK
<1>. QED
  BY InitType, NextType, PTL DEF Spec

-----------------------------------------------------------------------------
(* The clock                                                               *)

\* The units since the last see, as the server counts them.
Age == TickPeriod * srv_cnt
         + (IF due THEN TickPeriod ELSE (clock - TickOffset) % TickPeriod)

\* The ticks of a synchronised see timer in a cycle, and those of this one served.
Ticks(cycle) == IF cycle % 3 = 2 THEN 2 ELSE 3

Served ==
    (clock \div 3) + 1 - ((UnitsPerCycle * now + 2) \div 3) - (IF due THEN 1 ELSE 0)

\* A cycle and a phase make the clock.
LEMMA ClockParts ==
    ASSUME TypeOK
    PROVE  now \in 0 .. 8 /\ phase \in 0 .. 7 /\ clock = 8 * now + phase
BY DEF TypeOK, now, phase, ClockPeriod, Cycles, UnitsPerCycle

\* A unit passes within the cycle, or the next one begins.
LEMMA Passes ==
    ASSUME TypeOK, Advance
    PROVE  /\ phase # 7 => now' = now /\ phase' = phase + 1
           /\ phase = 7 => now' = (IF now = 8 THEN 0 ELSE now + 1) /\ phase' = 0
           /\ now' = next_clock \div UnitsPerCycle
<1>1. clock \in 0 .. 71 /\ clock' = (clock + 1) % 72 /\ clock' = next_clock
  BY DEF TypeOK, Advance, next_clock, ClockPeriod, Cycles, UnitsPerCycle
<1>2. /\ now = clock \div 8 /\ now' = clock' \div 8
      /\ phase = clock % 8 /\ phase' = clock' % 8
  BY DEF now, phase, UnitsPerCycle
<1>3. CASE clock = 71
  BY <1>1, <1>2, <1>3 DEF UnitsPerCycle
<1>4. CASE clock < 71
  <2>1. clock' = clock + 1
    BY <1>1, <1>4
  <2> QED
    BY <1>1, <1>2, <1>4, <2>1 DEF UnitsPerCycle
<1> QED
  BY <1>1, <1>3, <1>4

\* The age of a see grows with the clock.
LEMMA AgePasses ==
    ASSUME TypeOK, Advance, srv_cnt' = srv_cnt, ss'.synch_see = ss.synch_see
    PROVE  /\ Age' = Age + 1 /\ Age \in Nat
           /\ due' => IsTick(clock)'
           /\ ss.synch_see => (due' => phase' = 2)
<1>1. clock \in 0 .. 71 /\ clock' = (clock + 1) % 72 /\ ~due /\ srv_cnt \in Nat
  BY DEF TypeOK, Advance, next_clock, ClockPeriod, Cycles, UnitsPerCycle
<1>2. due' = IsTick(clock')
  BY DEF Advance
<1>3. CASE ~ss.synch_see
  <2>1. TickPeriod = 3 /\ TickOffset = 0 /\ TickPeriod' = 3 /\ TickOffset' = 0
    BY <1>3 DEF TickPeriod, TickOffset, UnitsPerTick
  <2>2. due' <=> clock' % 3 = 0
    BY <1>2, <2>1 DEF IsTick
  <2>3. Age = 3 * srv_cnt + (clock % 3)
    BY <1>1, <2>1 DEF Age
  <2>4. Age' = 3 * srv_cnt + (IF due' THEN 3 ELSE clock' % 3)
    BY <1>1, <2>1 DEF Age
  <2>5. clock' % 3 = (IF clock % 3 = 2 THEN 0 ELSE (clock % 3) + 1) /\ clock % 3 \in 0 .. 2
    BY <1>1
  <2> QED
    BY <1>1, <1>2, <1>3, <2>1, <2>2, <2>3, <2>4, <2>5 DEF IsTick
<1>4. CASE ss.synch_see
  <2>1. TickPeriod = 8 /\ TickOffset = 2 /\ TickPeriod' = 8 /\ TickOffset' = 2
    BY <1>4 DEF TickPeriod, TickOffset, UnitsPerCycle, SynchSeePhase
  <2>2. due' <=> clock' % 8 = 2
    BY <1>2, <2>1 DEF IsTick
  <2>3. Age = 8 * srv_cnt + ((clock - 2) % 8)
    BY <1>1, <2>1 DEF Age
  <2>4. Age' = 8 * srv_cnt + (IF due' THEN 8 ELSE (clock' - 2) % 8)
    BY <1>1, <2>1 DEF Age
  <2>5. /\ (clock - 2) % 8 \in 0 .. 7
        /\ IF clock' % 8 = 2 THEN (clock - 2) % 8 = 7
           ELSE (clock' - 2) % 8 = ((clock - 2) % 8) + 1
    BY <1>1
  <2> QED
    BY <1>1, <1>2, <1>4, <2>1, <2>2, <2>3, <2>4, <2>5 DEF IsTick, phase, UnitsPerCycle
<1> QED
  BY <1>3, <1>4

\* A tick that brings no see is one more; a see starts anew.
LEMMA AgeAtTick ==
    ASSUME TypeOK, due, ~due', IsTick(clock), clock' = clock,
           ss'.synch_see = ss.synch_see
    PROVE  /\ Age = TickPeriod * srv_cnt + TickPeriod
           /\ ss.synch_see => phase = 2
           /\ srv_cnt' = srv_cnt + 1 => Age' = Age
           /\ srv_cnt' = 0 => Age' = 0
<1>1. clock \in 0 .. 71 /\ srv_cnt \in Nat
  BY DEF TypeOK, ClockPeriod, Cycles, UnitsPerCycle
<1>2. CASE ~ss.synch_see
  <2>1. TickPeriod = 3 /\ TickOffset = 0 /\ TickPeriod' = 3 /\ TickOffset' = 0
    BY <1>2 DEF TickPeriod, TickOffset, UnitsPerTick
  <2>2. clock % 3 = 0
    BY <2>1 DEF IsTick
  <2> QED
    BY <1>1, <1>2, <2>1, <2>2 DEF Age
<1>3. CASE ss.synch_see
  <2>1. TickPeriod = 8 /\ TickOffset = 2 /\ TickPeriod' = 8 /\ TickOffset' = 2
    BY <1>3 DEF TickPeriod, TickOffset, UnitsPerCycle, SynchSeePhase
  <2>2. (clock - 2) % 8 = 0
    BY <1>1, <2>1 DEF IsTick
  <2>3. phase = 2
    BY <2>1 DEF IsTick, phase, UnitsPerCycle
  <2> QED
    BY <1>1, <2>1, <2>2, <2>3 DEF Age
<1> QED
  BY <1>2, <1>3

\* Whether a cycle starts with a tick.
LEMMA CycleStarts ==
    \A n \in 0 .. 8, tick \in BOOLEAN : (tick <=> (8 * n) % 3 = 0) =>
        ((8 * n) \div 3) + 1 - ((8 * n + 2) \div 3) - (IF tick THEN 1 ELSE 0) = 0
<1> TAKE n \in 0 .. 8, tick \in BOOLEAN
<1>1. n \in {0, 1, 2, 3, 4, 5, 6, 7, 8}
  OBVIOUS
<1> QED
  BY <1>1

\* The ticks served in a cycle: none at its start, all of them at its end.
LEMMA ServedPasses ==
    ASSUME TypeOK, Advance, ~ss.synch_see
    PROVE  /\ Served \in Nat
           /\ phase # 7 => Served' = Served
           /\ phase = 7 => Served = Ticks(now) /\ Served' = 0
           /\ due' <=> clock' % 3 = 0
<1>1. clock \in 0 .. 71 /\ clock' = (clock + 1) % 72 /\ ~due
  BY DEF TypeOK, Advance, next_clock, ClockPeriod, Cycles, UnitsPerCycle
<1>2. due' <=> clock' % 3 = 0
  BY DEF Advance, IsTick, TickPeriod, TickOffset, UnitsPerTick
<1>3. now \in 0 .. 8 /\ phase \in 0 .. 7 /\ clock = 8 * now + phase
  BY ClockParts
<1>4. Served = (clock \div 3) + 1 - ((8 * now + 2) \div 3)
  BY <1>1, <1>3 DEF Served, UnitsPerCycle
<1>5. Served' = (clock' \div 3) + 1 - ((8 * now' + 2) \div 3) - (IF due' THEN 1 ELSE 0)
  BY DEF Served, UnitsPerCycle
<1>6. Served \in Nat
  BY <1>3, <1>4
<1>7. ASSUME phase # 7 PROVE Served' = Served
  <2>1. now' = now /\ clock' = clock + 1
    BY <1>1, <1>3, <1>7, Passes
  <2> QED
    BY <1>1, <1>2, <1>3, <1>4, <1>5, <2>1
<1>8. ASSUME phase = 7 PROVE Served = Ticks(now) /\ Served' = 0
  <2>1. Served = Ticks(now)
    BY <1>3, <1>4, <1>8 DEF Ticks
  <2>2. now' \in 0 .. 8 /\ clock' = 8 * now'
    BY <1>1, <1>3, <1>8, Passes
  <2>3. Served' = ((8 * now') \div 3) + 1 - ((8 * now' + 2) \div 3) - (IF due' THEN 1 ELSE 0)
    BY <1>5, <2>2
  <2>4. due' <=> (8 * now') % 3 = 0
    BY <1>2, <2>2
  <2>5. due' \in BOOLEAN
    BY DEF Advance, IsTick
  <2>6. Served' = 0
    BY <2>2, <2>3, <2>4, <2>5, CycleStarts
  <2> QED
    BY <2>1, <2>6
<1> QED
  BY <1>2, <1>6, <1>7, <1>8

\* A tick that is served is one more.
LEMMA ServedAtTick ==
    ASSUME TypeOK, due, ~due', IsTick(clock), clock' = clock, ~ss.synch_see
    PROVE  Served \in Nat /\ Served' = Served + 1
<1>1. clock \in 0 .. 71
  BY DEF TypeOK, ClockPeriod, Cycles, UnitsPerCycle
<1>2. clock % 3 = 0
  BY DEF IsTick, TickPeriod, TickOffset, UnitsPerTick
<1>3. now \in 0 .. 8 /\ phase \in 0 .. 7 /\ clock = 8 * now + phase
  BY ClockParts
<1>4. now' = now
  BY DEF now
<1>5. /\ Served = (clock \div 3) + 1 - ((8 * now + 2) \div 3) - 1
      /\ Served' = (clock \div 3) + 1 - ((8 * now + 2) \div 3)
  BY <1>1, <1>3, <1>4 DEF Served, UnitsPerCycle
<1>6. (8 * now + 2) \div 3 <= clock \div 3
  <2>1. CASE phase >= 2
    BY <1>3, <2>1
  <2>2. CASE phase = 0
    BY <1>2, <1>3, <2>2
  <2>3. CASE phase = 1
    BY <1>2, <1>3, <2>3
  <2> QED
    BY <1>3, <2>1, <2>2, <2>3
<1> QED
  BY <1>1, <1>3, <1>5, <1>6

-----------------------------------------------------------------------------
(* Estimates and views                                                     *)

\* The cycles between two sees, the first of which came at a timing.
Gap(timing, width) ==
    IF timing = "0_00" /\ width = "NORMAL" THEN 1 ELSE FullInterval(width)

\* The views that a see of a timing may find, and those that a decision leaves.
Arrives(timing, width) == ~(timing = "22_5" /\ width = "NORMAL")
Legal(timing, width) ==
    Arrives(timing, width) /\ ~(timing = "0_00" /\ width = "NARROW")

\* An estimate is there, and what may stand in its place.
Estimates(s) ==
    IF s.synch_see THEN s.last_timing = "SYNC" ELSE s.last_timing \in SynchTimings

Plausible(s) == Estimates(s) \/ s.last_timing = "NOSYNCH"

\* All but the count of cycles is the same.
Recounted(s, r) ==
    /\ r \in SeeStates(Times)
    /\ r.current_time = s.current_time /\ r.last_see_time = s.last_see_time
    /\ r.last_timing = s.last_timing /\ r.synch_see = s.synch_see
    /\ r.see_count = s.see_count /\ r.history = s.history

\* The last view sent is the one that is believed in.
Told(o) ==
    IF o.sent = <<>> THEN o.view = self_view ELSE o.sent[Len(o.sent)] = o.view

\* One to three cycles lie between two sees.
LEMMA GapType == ASSUME NEW timing, NEW width \in Widths PROVE Gap(timing, width) \in 1 .. 3
BY FullIntervalType DEF Gap

\* A state differs from itself in nothing.
LEMMA RecountedRefl == ASSUME NEW s \in SeeStates(Times) PROVE Recounted(s, s)
BY DEF Recounted

\* A new view mode restarts the count of cycles in a cycle with a see.
LEMMA SetViewModeParts ==
    ASSUME NEW s \in SeeStates(Times), NEW view \in Views, Plausible(s)
    PROVE  /\ Recounted(s, SetViewMode(s, view))
           /\ SetViewMode(s, view).cycles_till_see =
                IF s.last_see_time = s.current_time /\ Legal(s.last_timing, view.width)
                THEN Gap(s.last_timing, view.width) ELSE s.cycles_till_see
<1>1. IllegalWidth(s, view.width) <=> ~Legal(s.last_timing, view.width)
  BY DEF IllegalWidth, Legal, Arrives, Plausible, Estimates, SynchTimings
<1>2. CyclesOf(s, view.width) = Gap(s.last_timing, view.width)
  BY DEF CyclesOf, Gap, Plausible, Estimates
<1>3. SetViewMode(s, view) \in SeeStates(Times)
  BY SetViewModeType
<1> QED
  BY <1>1, <1>2, <1>3 DEF SetViewMode, Recounted, SeeStates

\* change_view tells the server what the player then believes.
LEMMA SendViewParts ==
    ASSUME NEW o \in Outcomes, NEW view \in Views, Plausible(o.ss)
    PROVE  /\ SendView(o, view).ss = SetViewMode(o.ss, view)
           /\ SendView(o, view).view = view
           /\ Told(SendView(o, view))
<1>1. o.sent \in Seq(Views)
  BY DEF Outcomes
<1>2. Append(o.sent, view) # <<>> /\ Append(o.sent, view)[Len(Append(o.sent, view))] = view
  BY <1>1
<1> QED
  BY <1>2 DEF SendView, Told

\* A new timing changes nothing else.
LEMMA WithTimingParts ==
    ASSUME NEW o \in Outcomes, NEW timing
    PROVE  /\ WithTiming(o, timing).ss = [o.ss EXCEPT !.last_timing = timing]
           /\ WithTiming(o, timing).view = o.view
           /\ WithTiming(o, timing).sent = o.sent
BY DEF WithTiming, SetLastSeeTiming, Outcomes

\* A view that is not changed is told to the estimator alone.
LEMMA KeptViewParts ==
    ASSUME NEW o \in Outcomes, Plausible(o.ss)
    PROVE  LET d == [o EXCEPT !.ss = SetViewMode(@, o.view)]
           IN  d.ss = SetViewMode(o.ss, o.view) /\ d.view = o.view /\ (Told(o) => Told(d))
BY DEF Outcomes, Told

\* What a view action comes to.
LEMMA ViewChoice ==
    ASSUME NEW o \in Outcomes, Plausible(o.ss), NEW d \in DoViewAction(o)
    PROVE  /\ d \in Outcomes
           /\ d.ss = SetViewMode(o.ss, d.view)
           /\ Told(o) => Told(d)
           /\ \E width \in RequestedWidths(o.ss) :
                IF MayChangeTo(o, width) THEN d.view = View(width, "HIGH")
                ELSE d.view = o.view
<1>1. d \in Outcomes
  BY DoViewActionType
<1>2. RequestedWidths(o.ss) \subseteq Widths
  BY RequestedType
<1>3. PICK width \in RequestedWidths(o.ss) :
        d = IF MayChangeTo(o, width) THEN SendView(o, View(width, "HIGH"))
            ELSE [o EXCEPT !.ss = SetViewMode(@, o.view)]
  BY DEF DoViewAction
<1>4. View(width, "HIGH") \in Views
  BY <1>2, ViewType DEF Qualities
<1>5. CASE MayChangeTo(o, width)
  BY <1>1, <1>3, <1>4, <1>5, SendViewParts
<1>6. CASE ~MayChangeTo(o, width)
  BY <1>1, <1>3, <1>6, KeptViewParts
<1> QED
  BY <1>5, <1>6

\* A synchronised player asks for no view that breaks its timing.
LEMMA Requests ==
    ASSUME NEW s, IsSynch(s), NEW width \in RequestedWidths(s)
    PROVE  width = "NARROW" => s.synch_see \/ s.last_timing # "0_00"
<1>1. PICK v \in ViewActions : width \in WidthsOf(v, s)
  BY DEF RequestedWidths
<1>2. v \in {"View_Wide", "View_Normal", "View_Synch"}
  BY SeeSyncAssumption
<1>3. CASE v = "View_Wide"
  BY <1>1, <1>3 DEF WidthsOf
<1>4. CASE v = "View_Normal"
  BY <1>1, <1>4 DEF WidthsOf
<1>5. CASE v = "View_Synch"
  BY <1>1, <1>5 DEF WidthsOf
<1> QED
  BY <1>2, <1>3, <1>4, <1>5

\* After the see of a cycle a synchronised player takes a view that keeps it so,
\* and counts the cycles to the next see; without a see it changes nothing.
LEMMA SynchedView ==
    ASSUME TypeOK, NEW o \in Outcomes, Estimates(o.ss), o.ss.current_time = now,
           o.view.quality = "HIGH", NEW d \in DoViewAction(o)
    PROVE  /\ Recounted(o.ss, d.ss) /\ d \in Outcomes /\ d.view.quality = "HIGH"
           /\ Told(o) => Told(d)
           /\ o.ss.last_see_time # now =>
                d.view = o.view /\ d.ss.cycles_till_see = o.ss.cycles_till_see
           /\ o.ss.last_see_time = now /\ Arrives(o.ss.last_timing, o.view.width) =>
                /\ Legal(d.ss.last_timing, d.view.width)
                /\ d.ss.cycles_till_see = Gap(d.ss.last_timing, d.view.width)
<1>1. Plausible(o.ss) /\ IsSynch(o.ss)
  BY DEF Plausible, Estimates, IsSynch
<1>2. /\ d \in Outcomes /\ d.ss = SetViewMode(o.ss, d.view) /\ (Told(o) => Told(d))
      /\ d.view \in Views /\ o.ss \in SeeStates(Times) /\ o.view \in Views
  BY <1>1, ViewChoice DEF Outcomes
<1>3. PICK width \in RequestedWidths(o.ss) :
        IF MayChangeTo(o, width) THEN d.view = View(width, "HIGH") ELSE d.view = o.view
  BY <1>1, ViewChoice
<1>4. width \in Widths
  BY RequestedType
<1>5. /\ Recounted(o.ss, d.ss)
      /\ d.ss.cycles_till_see =
           IF o.ss.last_see_time = o.ss.current_time /\ Legal(o.ss.last_timing, d.view.width)
           THEN Gap(o.ss.last_timing, d.view.width) ELSE o.ss.cycles_till_see
  BY <1>1, <1>2, SetViewModeParts
<1>6. d.view.quality = "HIGH"
  BY <1>3 DEF View
<1>7. ASSUME o.ss.last_see_time # now
      PROVE  d.view = o.view /\ d.ss.cycles_till_see = o.ss.cycles_till_see
  <2>1. ~MayChangeTo(o, width)
    BY <1>1, <1>7 DEF MayChangeTo, CanChangeViewTo
  <2> QED
    BY <1>3, <1>5, <1>7, <2>1
<1>8. ASSUME o.ss.last_see_time = now, Arrives(o.ss.last_timing, o.view.width)
      PROVE  Legal(o.ss.last_timing, d.view.width)
  <2>1. CASE MayChangeTo(o, width)
    <3>1. CanChangeViewTo(o.ss, width, now)
      BY <1>1, <2>1 DEF MayChangeTo
    <3>2. d.view.width = width
      BY <1>3, <2>1 DEF View
    <3> QED
      BY <1>4, <3>1, <3>2 DEF CanChangeViewTo, Legal, Arrives, Widths, Estimates, SynchTimings
  <2>2. CASE ~MayChangeTo(o, width)
    <3>1. d.view = o.view
      BY <1>3, <2>2
    <3>2. ASSUME o.ss.last_timing = "0_00", o.view.width = "NARROW" PROVE FALSE
      <4>1. ~o.ss.synch_see
        BY <3>2 DEF Estimates
      <4>2. width # "NARROW"
        BY <1>1, <3>2, <4>1, Requests
      <4>3. CanChangeViewTo(o.ss, width, now)
        BY <1>4, <1>8, <3>2, <4>2 DEF CanChangeViewTo, Widths
      <4> QED
        BY <1>1, <2>2, <3>2, <4>2, <4>3 DEF MayChangeTo
    <3> QED
      BY <1>8, <3>1, <3>2 DEF Legal
  <2> QED
    BY <2>1, <2>2
<1>9. ASSUME o.ss.last_see_time = now, Arrives(o.ss.last_timing, o.view.width)
      PROVE  /\ Legal(d.ss.last_timing, d.view.width)
             /\ d.ss.cycles_till_see = Gap(d.ss.last_timing, d.view.width)
  BY <1>5, <1>8, <1>9 DEF Recounted
<1> QED
  BY <1>2, <1>5, <1>6, <1>7, <1>9

\* Any view action: only the count of cycles changes, and it does not become zero.
LEMMA AnyView ==
    ASSUME NEW o \in Outcomes, Plausible(o.ss), NEW d \in DoViewAction(o)
    PROVE  /\ Recounted(o.ss, d.ss) /\ d \in Outcomes
           /\ Told(o) => Told(d)
           /\ d.view = o.view \/ d.view.quality = "HIGH"
           /\ ~IsSynch(o.ss) /\ mode # "PlayOn" => d.view = o.view
           /\ d.ss.cycles_till_see = o.ss.cycles_till_see \/ d.ss.cycles_till_see > 0
<1>1. /\ d \in Outcomes /\ d.ss = SetViewMode(o.ss, d.view) /\ (Told(o) => Told(d))
      /\ d.view \in Views /\ o.ss \in SeeStates(Times)
  BY ViewChoice DEF Outcomes
<1>2. PICK width \in RequestedWidths(o.ss) :
        IF MayChangeTo(o, width) THEN d.view = View(width, "HIGH") ELSE d.view = o.view
  BY ViewChoice
<1>3. /\ Recounted(o.ss, d.ss)
      /\ d.ss.cycles_till_see = Gap(o.ss.last_timing, d.view.width)
         \/ d.ss.cycles_till_see = o.ss.cycles_till_see
  BY <1>1, SetViewModeParts
<1>4. Gap(o.ss.last_timing, d.view.width) > 0
  BY <1>1, GapType DEF Views
<1>5. d.view = o.view \/ d.view.quality = "HIGH"
  BY <1>2 DEF View
<1>6. ~IsSynch(o.ss) /\ mode # "PlayOn" => d.view = o.view
  BY <1>2 DEF MayChangeTo
<1> QED
  BY <1>1, <1>3, <1>4, <1>5, <1>6

\* A decision that has missed no see is a view action, but for the adjustment in
\* the server's synch mode.
LEMMA DecisionsAre ==
    ASSUME NEW o, ~MissedSee(o.ss)
    PROVE  Decisions(o) = DoViewAction(IF SynchMode THEN AdjustSynchMode(o) ELSE o)
BY DEF Decisions, CheckMissedSee

\* When nothing is lost, the server has the view that the player believes in.
LEMMA CommitTold ==
    ASSUME TypeOK, NEW o \in Outcomes, Told(o), Commit(o), lost = 0, lost' = 0
    PROVE  /\ ss' = o.ss /\ self_view' = o.view
           /\ self_view = srv_view => srv_view' = o.view
           /\ o.sent = <<>> => srv_view' = srv_view
<1>1. PICK i \in 0 .. Len(o.sent) :
        /\ srv_view' = IF i = 0 THEN srv_view ELSE o.sent[i]
        /\ lost' = lost + Len(o.sent) - i
  BY DEF Commit
<1>2. Len(o.sent) \in Nat /\ o.sent \in Seq(Views)
  BY DEF Outcomes
<1>3. i = Len(o.sent)
  BY <1>1, <1>2
<1>4. o.sent = <<>> <=> i = 0
  BY <1>2, <1>3
<1> QED
  BY <1>1, <1>3, <1>4 DEF Commit, Told

-----------------------------------------------------------------------------
(* What a see tells                                                        *)

Rotated(s) == [i \in HistoryIndex |-> IF i = 0 THEN s.see_count ELSE s.history[i - 1]]

CountedDown(n) == IF n > 0 THEN n - 1 ELSE 0

\* A new cycle moves the counts of sees on and counts the cycles down.
LEMMA SetNewCycleParts ==
    ASSUME NEW s \in SeeStates(Times), NEW t \in Times, t # s.current_time
    PROVE  LET n == SetNewCycle(s, t)
           IN  /\ n \in SeeStates(Times)
               /\ n.current_time = t /\ n.last_see_time = s.last_see_time
               /\ n.last_timing = s.last_timing /\ n.synch_see = s.synch_see
               /\ n.see_count = 0 /\ n.history = Rotated(s)
               /\ n.cycles_till_see = CountedDown(s.cycles_till_see)
<1>1. SetNewCycle(s, t) \in SeeStates(Times)
  BY SetNewCycleType
<1>2. SetNewCycle(s, t) = [s EXCEPT !.current_time = t,
                             !.cycles_till_see = CountedDown(s.cycles_till_see),
                             !.history = Rotated(s), !.see_count = 0]
  BY DEF SetNewCycle, CountedDown, Rotated
<1> QED
  BY <1>1, <1>2 DEF SeeStates

\* A see is counted in its cycle; a second one disproves the estimate.
LEMMA CountSeeParts ==
    ASSUME NEW s \in SeeStates(Times), NEW t \in Times
    PROVE  LET c == CountSee(s, t)
           IN  /\ c \in SeeStates(Times)
               /\ c.last_see_time = t /\ c.synch_see = s.synch_see
               /\ s.last_see_time # t => c.current_time = t
               /\ s.last_see_time = t => c.current_time = s.current_time
               /\ c.see_count = IF s.last_see_time = t THEN s.see_count + 1 ELSE 1
               /\ c.history = IF t \in {s.last_see_time, s.current_time}
                              THEN s.history ELSE Rotated(s)
               /\ c.cycles_till_see = IF t \in {s.last_see_time, s.current_time}
                                      THEN s.cycles_till_see
                                      ELSE CountedDown(s.cycles_till_see)
               /\ c.last_timing = IF s.last_see_time = t /\ IsSynch(s)
                                  THEN "NOSYNCH" ELSE s.last_timing
<1> DEFINE c == CountSee(s, t)
<1>1. c \in SeeStates(Times)
  BY CountSeeType
<1>2. CASE t = s.last_see_time
  <2>1. c = [s EXCEPT !.see_count = s.see_count + 1,
                      !.last_timing = IF IsSynch(s) THEN "NOSYNCH" ELSE s.last_timing]
    BY <1>2 DEF CountSee
  <2> QED
    BY <1>1, <1>2, <2>1 DEF SeeStates
<1>3. CASE t # s.last_see_time /\ t # s.current_time
  <2>1. c = [SetNewCycle(s, t) EXCEPT !.last_see_time = t, !.see_count = 1]
    BY <1>3 DEF CountSee
  <2> QED
    BY <1>1, <1>3, <2>1, SetNewCycleParts DEF SeeStates
<1>4. CASE t # s.last_see_time /\ t = s.current_time
  <2>1. c = [s EXCEPT !.last_see_time = t, !.see_count = 1]
    BY <1>4 DEF CountSee, SetNewCycle
  <2> QED
    BY <1>1, <1>4, <2>1 DEF SeeStates
<1> QED
  BY <1>2, <1>3, <1>4

\* A see that nothing was expected of.
LEMMA SeeUnsynched ==
    ASSUME NEW s \in SeeStates(Times), NEW t \in Times, NEW view \in Views,
           s.last_timing = "NOSYNCH", ~s.synch_see
    PROVE  UpdateBySee(s, t, view) = CountSee(s, t)
<1> DEFINE c == CountSee(s, t)
<1>1. c \in SeeStates(Times) /\ c.last_timing = "NOSYNCH" /\ ~c.synch_see
  BY CountSeeParts
<1>2. ~IsSynch(c)
  BY <1>1 DEF IsSynch, SynchTimings
<1> HIDE DEF c
<1>3. SetLastSeeTiming(c, "NOSYNCH") = c
  BY <1>1 DEF SetLastSeeTiming, SeeStates
<1> QED
  BY <1>2, <1>3 DEF UpdateBySee, c

\* The see that was expected in this cycle.
LEMMA SeeExpected ==
    ASSUME NEW s \in SeeStates(Times), NEW t \in Times, NEW view \in Views,
           view.quality = "HIGH", Estimates(s), s.current_time = t,
           s.last_see_time # t, s.cycles_till_see = 0
    PROVE  LET u == UpdateBySee(s, t, view)
           IN  /\ u \in SeeStates(Times)
               /\ u.current_time = t /\ u.last_see_time = t
               /\ u.synch_see = s.synch_see
               /\ u.last_timing = GetNextTiming(s, view)
               /\ u.cycles_till_see = 0
<1> DEFINE c == CountSee(s, t)
<1>1. /\ c \in SeeStates(Times) /\ c.current_time = t /\ c.last_see_time = t
      /\ c.last_timing = s.last_timing /\ c.synch_see = s.synch_see
      /\ c.cycles_till_see = 0
  BY CountSeeParts
<1>2. IsSynch(c)
  BY <1>1 DEF IsSynch, Estimates
<1>3. GetNextTiming(c, view) = GetNextTiming(s, view)
  BY <1>1 DEF GetNextTiming
<1> HIDE DEF c
<1>4. RestartCount(c, view) = c
  BY <1>1 DEF RestartCount
<1>5. UpdateBySee(s, t, view) = [c EXCEPT !.last_timing = GetNextTiming(s, view)]
  BY <1>2, <1>3, <1>4 DEF UpdateBySee, SetLastSeeTiming, c
<1>6. GetNextTiming(s, view) \in Timings
  BY GetNextTimingType
<1> QED
  BY <1>1, <1>5, <1>6 DEF SeeStates

\* A see of the synchronous timer, whatever was expected.
LEMMA SeeSynchronous ==
    ASSUME NEW s \in SeeStates(Times), NEW t \in Times, NEW view \in Views,
           Plausible(s), s.synch_see, s.current_time = t \/ s.last_see_time # t
    PROVE  LET u == UpdateBySee(s, t, view)
               c == CountSee(s, t)
           IN  /\ u \in SeeStates(Times)
               /\ u.current_time = t /\ u.last_see_time = t /\ u.synch_see
               /\ u.last_timing = IF view.quality = "LOW" THEN "NOSYNCH" ELSE "SYNC"
               /\ u.cycles_till_see =
                    IF view.quality # "LOW" /\ c.cycles_till_see > 0
                    THEN Gap("SYNC", view.width) ELSE c.cycles_till_see
<1> DEFINE c == CountSee(s, t)
           u == UpdateBySee(s, t, view)
           z == [c EXCEPT !.cycles_till_see = 0]
           r == RestartCount(c, view)
<1>1. /\ c \in SeeStates(Times) /\ c.current_time = t /\ c.last_see_time = t
      /\ c.synch_see /\ c.last_timing \in {"NOSYNCH", "SYNC"}
  BY CountSeeParts DEF Plausible, Estimates
<1>2. u \in SeeStates(Times)
  BY UpdateBySeeType
<1> HIDE DEF c
<1>3. /\ z \in SeeStates(Times) /\ z.current_time = t /\ z.last_see_time = t
      /\ z.synch_see /\ z.last_timing = c.last_timing
  BY <1>1 DEF SeeStates
<1>4. CASE view.quality = "LOW"
  <2>1. u = [c EXCEPT !.last_timing = "NOSYNCH"]
    BY <1>4 DEF UpdateBySee, SetLastSeeTiming, c
  <2> QED
    BY <1>1, <1>2, <1>4, <2>1 DEF SeeStates, c
<1>5. CASE view.quality # "LOW"
  <2>1. IsSynch(c)
    BY <1>1 DEF IsSynch
  <2>2. u = SetLastSeeTiming(r, GetNextTiming(r, view))
    BY <1>5, <2>1 DEF UpdateBySee, c
  <2>3. /\ r \in SeeStates(Times) /\ r.current_time = t /\ r.last_see_time = t /\ r.synch_see
        /\ r.cycles_till_see = IF c.cycles_till_see > 0
                               THEN Gap("SYNC", view.width) ELSE c.cycles_till_see
    <3>1. CASE c.cycles_till_see > 0
      <4>1. r = SetViewMode(z, view) /\ Plausible(z)
        BY <1>1, <1>3, <3>1 DEF RestartCount, Plausible, Estimates
      <4>2. Legal(z.last_timing, view.width) /\ Gap(z.last_timing, view.width) = Gap("SYNC", view.width)
        BY <1>1, <1>3 DEF Legal, Arrives, Gap
      <4>3. Recounted(z, r) /\ r.cycles_till_see = Gap("SYNC", view.width)
        BY <1>3, <4>1, <4>2, SetViewModeParts
      <4> QED
        BY <1>3, <3>1, <4>3 DEF Recounted
    <3>2. CASE ~(c.cycles_till_see > 0)
      BY <1>1, <3>2 DEF RestartCount
    <3> QED
      BY <3>1, <3>2
  <2> HIDE DEF r
  <2>4. GetNextTiming(r, view) = "SYNC"
    BY <2>3 DEF GetNextTiming
  <2>5. u = [r EXCEPT !.last_timing = "SYNC"]
    BY <2>2, <2>4 DEF SetLastSeeTiming
  <2> QED
    BY <1>2, <1>5, <2>3, <2>5 DEF SeeStates, c
<1> QED
  BY <1>4, <1>5

\* The table of timings is right, and speaks of every view that keeps the timing.
HighTicks(width) == CASE width = "NARROW" -> 2 [] width = "NORMAL" -> 4 [] width = "WIDE" -> 8

LEMMA TimingTable ==
    /\ \A r \in TimingAfter :
          /\ r.to \in SynchTimings /\ Arrives(r.to, r.width) /\ PhaseOf(r.to) \in 0 .. 4
          /\ 3 * HighTicks(r.width) = 8 * Gap(r.from, r.width) + PhaseOf(r.to) - PhaseOf(r.from)
    /\ \A timing \in SynchTimings, width \in Widths :
          Legal(timing, width) => \E r \in TimingAfter : r.from = timing /\ r.width = width
<1>1. ASSUME NEW r \in TimingAfter
      PROVE  /\ r.to \in SynchTimings /\ Arrives(r.to, r.width) /\ PhaseOf(r.to) \in 0 .. 4
             /\ 3 * HighTicks(r.width) = 8 * Gap(r.from, r.width) + PhaseOf(r.to) - PhaseOf(r.from)
  BY DEF TimingAfter, HighTicks, PhaseOf, Gap, FullInterval, Arrives, SynchTimings
<1>2. ASSUME NEW timing \in SynchTimings, NEW width \in Widths, Legal(timing, width)
      PROVE  \E r \in TimingAfter : r.from = timing /\ r.width = width
  <2> DEFINE Row(to) == [from |-> timing, width |-> width, to |-> to]
  <2>1. \E to \in SynchTimings : Row(to) \in TimingAfter
    BY <1>2 DEF TimingAfter, SynchTimings, Widths, Legal, Arrives
  <2> QED
    BY <2>1
<1> QED
  BY <1>1, <1>2

\* The next see of a view that keeps the timing comes after the cycles counted,
\* at the timing that getNextTiming says.
LEMMA NextSee ==
    ASSUME TypeOK, Estimates(ss), srv_view.quality = "HIGH",
           Legal(ss.last_timing, srv_view.width)
    PROVE  LET next == GetNextTiming(ss, srv_view)
           IN  /\ IF ss.synch_see THEN next = "SYNC" ELSE next \in SynchTimings
               /\ Arrives(next, srv_view.width)
               /\ PhaseOf(next) \in 0 .. 4
               /\ TickPeriod * TicksPerSee(srv_view) =
                    8 * Gap(ss.last_timing, srv_view.width)
                      + PhaseOf(next) - PhaseOf(ss.last_timing)
<1> DEFINE next == GetNextTiming(ss, srv_view)
           T == ss.last_timing
           w == srv_view.width
<1>1. w \in Widths
  BY DEF TypeOK, Views
<1>2. CASE ss.synch_see
  <2>1. next = "SYNC" /\ T = "SYNC" /\ TickPeriod = 8
    BY <1>2 DEF GetNextTiming, Estimates, TickPeriod, UnitsPerCycle
  <2>2. TicksPerSee(srv_view) = Gap(T, w) /\ Gap(T, w) \in 1 .. 3
    BY <1>1, <1>2, <2>1, FullIntervalType DEF TicksPerSee, Gap
  <2> QED
    BY <1>2, <2>1, <2>2 DEF PhaseOf, SynchSeePhase, Arrives
<1>3. CASE ~ss.synch_see
  <2>1. TickPeriod = 3 /\ T \in SynchTimings
    BY <1>3 DEF TickPeriod, UnitsPerTick, Estimates
  <2>2. TicksPerSee(srv_view) = HighTicks(w)
    BY <1>3 DEF TicksPerSee, HighTicks
  <2> DEFINE kept == { r \in TimingAfter : /\ srv_view.quality # "LOW"
                                            /\ r.from = T /\ r.width = w }
  <2>3. kept # {}
    BY <1>1, <2>1, TimingTable
  <2>4. next = (CHOOSE r \in kept : TRUE).to
    BY <1>3, <2>3 DEF GetNextTiming
  <2>5. PICK r \in TimingAfter : r.from = T /\ r.width = w /\ next = r.to
    BY <2>3, <2>4
  <2> QED
    BY <1>3, <2>1, <2>2, <2>5, TimingTable
<1> QED
  BY <1>2, <1>3

\* An estimate names one of the phases a see may have.
LEMMA EstimatedPhase ==
    ASSUME NEW s, Estimates(s)
    PROVE  PhaseOf(s.last_timing) \in 0 .. 4
BY DEF Estimates, SynchTimings, PhaseOf, SynchSeePhase

-----------------------------------------------------------------------------
(* The invariant of an undisturbed player                                  *)

\* Before the first see or sense_body.
Joining ==
    /\ decided /\ now < 3
    /\ ss.current_time = 8 /\ ss.last_see_time = 8
    /\ ss.last_timing = "NOSYNCH" /\ ss.cycles_till_see > 1
    /\ self_view = View("NORMAL", "HIGH")
    /\ ss.see_count = 0 /\ \A i \in HistoryIndex : ss.history[i] = 0

\* Player and server agree on the cycle and the view.
Clocked ==
    /\ ss.current_time = now \/ Joining
    /\ due => IsTick(clock)
    /\ Plausible(ss)
    /\ ss.synch_see => SynchSee
    /\ ~ss.synch_see \/ ~decided => self_view = srv_view
    /\ SynchMode /\ phase > ThinkPhase => decided

\* No cycle counts more sees than it had ticks.
Counted ==
    /\ ss.see_count > 0 =>
          ss.last_see_time = now /\ ss.see_count + srv_cnt <= Served
    /\ \A i \in HistoryIndex : ss.history[i] <= Ticks(now + 8 - i)

\* In the server's normal mode every tick is a see, from the first see on.
AllSeen ==
    /\ ss.see_count > 0 \/ ss.history[0] > 0 \/ ss.history[1] > 0 =>
          self_view = View("NARROW", "LOW")
    /\ ss.history[0] = 3 => ss.see_count = Served
    /\ ss.history[1] = 3 => ss.history[0] = Ticks(now + 8)
    /\ IsSynchedSeeCountNormalMode(ss) => due /\ phase = 0

\* With synch_see: granted in the first cycle, which counts no sees before; then a
\* player that decides before the see of a cycle expects it later.
Asked ==
    /\ ~ss.synch_see =>
          /\ decided /\ ss.last_timing = "NOSYNCH" /\ ss.cycles_till_see > 0
          /\ \A i \in HistoryIndex : ss.history[i] = 0
    /\ ss.synch_see =>
          /\ srv_view.quality = "HIGH" /\ self_view.width = srv_view.width
          /\ decided /\ (phase < SynchSeePhase \/ due) => ss.cycles_till_see > 0

\* The last see came "cycles" cycles ago at the phase of its timing; the
\* next one comes in as many cycles as the player counts.
SeenAgo(cycles) ==
    /\ Age = 8 * cycles + phase - PhaseOf(ss.last_timing)
    /\ ss.last_see_time = IF now >= cycles THEN now - cycles ELSE now + 9 - cycles
    /\ IF cycles = 0 /\ ~decided
       THEN /\ SynchMode /\ phase <= ThinkPhase
            /\ Arrives(ss.last_timing, self_view.width)
       ELSE /\ Legal(ss.last_timing, self_view.width)
            /\ ss.cycles_till_see = Gap(ss.last_timing, self_view.width) - cycles
            /\ decided => ss.cycles_till_see > 0

Timed ==
    /\ ss.current_time = now
    /\ self_view = srv_view /\ self_view.quality = "HIGH"
    /\ srv_cnt < TicksPerSee(srv_view)
    /\ \E cycles \in 0 .. 3 : SeenAgo(cycles)

SeeInv ==
    /\ Clocked
    /\ config = "normal" => mode = "Other"
    /\ Estimates(ss) => Timed
    /\ ~Estimates(ss) /\ ~SynchSee => Counted
    /\ ~Estimates(ss) /\ config = "normal" => AllSeen
    /\ SynchSee => Asked

IInv == Undisturbed => SeeInv

-----------------------------------------------------------------------------
(* Every step keeps the invariant: time                                    *)

\* What is lost stays lost, and play that was resumed has been resumed.
LEMMA UndisturbedBefore ==
    ASSUME TypeOK, TypeOK', [Next]_vars, Undisturbed'
    PROVE  Undisturbed /\ lost' = 0 /\ lost = 0
<1>1. ASSUME NEW o \in Outcomes, Commit(o) PROVE lost' >= lost
  <2>1. PICK i \in 0 .. Len(o.sent) : lost' = lost + Len(o.sent) - i
    BY <1>1 DEF Commit
  <2>2. Len(o.sent) \in Nat
    BY DEF Outcomes
  <2> QED
    BY <2>1, <2>2, SeeSyncAssumption DEF TypeOK
<1>2. ASSUME NEW o \in Outcomes, Decide(o) PROVE lost' >= lost
  BY <1>1, <1>2, DecisionsType DEF Decide
<1>3. Idle(ss) \in Outcomes /\ AfterSee \in Outcomes /\ AdjustNormalMode(AfterSee) \in Outcomes
  BY AfterSeeType, AdjustType DEF Idle, Outcomes, TypeOK
<1>4. lost' = 0
  BY DEF Undisturbed
<1>5. lost \in Nat /\ changes \in Nat
  BY SeeSyncAssumption DEF TypeOK
<1>6. CASE Pass
  BY <1>4, <1>6 DEF Pass, Undisturbed
<1>7. CASE SenseBody
  BY <1>4, <1>7 DEF SenseBody, Undisturbed
<1>8. CASE SkipTick
  BY <1>4, <1>8 DEF SkipTick, Undisturbed
<1>9. CASE LoseSee
  BY <1>4, <1>5, <1>9 DEF LoseSee
<1>10. CASE Referee
  BY <1>4, <1>5, <1>10 DEF Referee, Undisturbed
<1>11. CASE GetSynchSee
  BY <1>4, <1>11 DEF GetSynchSee, Undisturbed
<1>12. CASE ReceiveSee
  <2>1. lost' >= lost
    BY <1>1, <1>2, <1>3, <1>12 DEF ReceiveSee
  <2> QED
    BY <1>4, <1>5, <1>12, <2>1 DEF ReceiveSee, SendSee, Undisturbed
<1>13. CASE Timeout
  BY <1>2, <1>3, <1>4, <1>5, <1>13 DEF Timeout, Undisturbed
<1>14. CASE Think
  BY <1>2, <1>3, <1>4, <1>5, <1>14 DEF Think, Undisturbed
<1>15. CASE UNCHANGED vars
  BY <1>4, <1>15 DEF vars, Undisturbed
<1> QED
  BY <1>6, <1>7, <1>8, <1>9, <1>10, <1>11, <1>12, <1>13, <1>14, <1>15 DEF Next

\* A unit within a cycle: the last see is one unit older.
LEMMA PassKeeps == ASSUME TypeOK, SeeInv, Pass PROVE SeeInv'
<1>1. /\ now' = now /\ phase' = phase + 1 /\ phase \in 0 .. 6 /\ now \in 0 .. 8
      /\ ss' = ss /\ self_view' = self_view /\ srv_view' = srv_view /\ srv_cnt' = srv_cnt
      /\ decided' = decided /\ mode' = mode /\ config' = config
  BY Passes, ClockParts DEF Pass, agent, UnitsPerCycle
<1>2. /\ Age' = Age + 1 /\ Age \in Nat
      /\ due' => IsTick(clock)'
      /\ ss.synch_see => (due' => phase' = 2)
  BY <1>1, AgePasses DEF Pass
<1>3. ~due /\ AgentIsPrompt
  BY DEF Pass, Advance
<1>4. SynchMode /\ phase = ThinkPhase => decided
  BY <1>3 DEF AgentIsPrompt
<1>5. Clocked'
  BY <1>1, <1>2, <1>4 DEF SeeInv, Clocked, Joining, Plausible, Estimates, SynchSee, SynchMode, ThinkPhase
<1>6. Estimates(ss) => Timed'
  <2> SUFFICES ASSUME Estimates(ss) PROVE Timed'
    OBVIOUS
  <2>1. PICK cycles \in 0 .. 3 : SeenAgo(cycles)
    BY DEF SeeInv, Timed
  <2>2. SeenAgo(cycles)'
    <3>1. PhaseOf(ss.last_timing) \in 0 .. 4
      BY EstimatedPhase
    <3> QED
      BY <1>1, <1>2, <1>4, <2>1, <3>1 DEF SeenAgo, ThinkPhase, SynchMode
  <2> QED
    BY <1>1, <2>1, <2>2 DEF SeeInv, Timed, TicksPerSee
<1>7. ~Estimates(ss) /\ ~SynchSee => Counted'
  <2>1. ASSUME ~SynchSee PROVE Served' = Served
    BY <1>1, <2>1, ServedPasses DEF SeeInv, Clocked, Pass
  <2> QED
    BY <1>1, <2>1 DEF SeeInv, Counted
<1>8. ~Estimates(ss) /\ config = "normal" => AllSeen'
  <2>1. ASSUME config = "normal" PROVE Served' = Served
    BY <1>1, <2>1, ServedPasses DEF SeeInv, Clocked, SynchSee, Pass
  <2> QED
    BY <1>1, <1>3, <2>1 DEF SeeInv, AllSeen, IsSynchedSeeCountNormalMode
<1>9. SynchSee => Asked'
  BY <1>1, <1>2 DEF SeeInv, Asked, SynchSeePhase, SynchSee
<1> QED
  BY <1>1, <1>5, <1>6, <1>7, <1>8, <1>9 DEF SeeInv, SynchSee, Estimates

\* A tick without a see.
LEMMA SkipTickKeeps == ASSUME TypeOK, SeeInv, SkipTick PROVE SeeInv'
<1>1. /\ now' = now /\ phase' = phase /\ phase \in 0 .. 7 /\ now \in 0 .. 8
      /\ ss' = ss /\ self_view' = self_view /\ srv_view' = srv_view
      /\ srv_cnt' = srv_cnt + 1 /\ srv_cnt \in Nat
      /\ decided' = decided /\ mode' = mode /\ config' = config
      /\ due /\ ~due' /\ IsTick(clock) /\ clock' = clock
  BY ClockParts DEF SkipTick, agent, now, phase, SeeInv, Clocked, TypeOK
<1>2. Age' = Age
  BY <1>1, AgeAtTick
<1>3. ~(srv_cnt + 1 >= TicksPerSee(srv_view))
  BY DEF SkipTick, SeeIsDue
<1>4. Clocked'
  BY <1>1 DEF SeeInv, Clocked, Joining, Plausible, Estimates, SynchSee, SynchMode
<1>5. Estimates(ss) => Timed'
  <2> SUFFICES ASSUME Estimates(ss) PROVE Timed'
    OBVIOUS
  <2>1. PICK cycles \in 0 .. 3 : SeenAgo(cycles)
    BY DEF SeeInv, Timed
  <2>2. SeenAgo(cycles)'
    BY <1>1, <1>2, <2>1 DEF SeenAgo, SynchMode
  <2>3. srv_view.width \in Widths
    BY DEF TypeOK, Views
  <2>4. TicksPerSee(srv_view) \in Nat /\ TicksPerSee(srv_view)' = TicksPerSee(srv_view)
    BY <1>1, <2>3, FullIntervalType DEF TicksPerSee, SeeInv, Timed, Widths
  <2>5. srv_cnt' < TicksPerSee(srv_view)'
    BY <1>1, <1>3, <2>4
  <2> QED
    BY <1>1, <2>1, <2>2, <2>5 DEF SeeInv, Timed
<1>6. ~Estimates(ss) /\ ~SynchSee => Counted'
  <2>1. ASSUME ~SynchSee PROVE Served \in Nat /\ Served' = Served + 1
    BY <1>1, <2>1, ServedAtTick DEF SeeInv, Clocked
  <2>2. ss.see_count \in Nat
    BY DEF TypeOK, SeeStates
  <2> QED
    BY <1>1, <2>1, <2>2 DEF SeeInv, Counted
<1>7. ~Estimates(ss) /\ config = "normal" => AllSeen'
  <2> SUFFICES ASSUME ~Estimates(ss), config = "normal" PROVE AllSeen'
    OBVIOUS
  <2>1. ~ss.synch_see /\ self_view = srv_view /\ AllSeen
    BY DEF SeeInv, Clocked, SynchSee
  <2>2. self_view # View("NARROW", "LOW")
    <3>1. SUFFICES ASSUME srv_view = View("NARROW", "LOW") PROVE FALSE
      BY <2>1
    <3>2. TicksPerSee(srv_view) = 1
      BY <2>1, <3>1 DEF TicksPerSee, View
    <3> QED
      BY <1>1, <1>3, <3>2
  <2>3. ss.history[0] \in Nat /\ ss.history[1] \in Nat
    BY DEF TypeOK, SeeStates, HistoryIndex
  <2>4. ss.history[0] = 0 /\ ss.history[1] = 0 /\ ~(ss.see_count > 0)
    BY <2>1, <2>2, <2>3 DEF AllSeen
  <2> QED
    BY <1>1, <2>4 DEF AllSeen, IsSynchedSeeCountNormalMode
<1>8. SynchSee => Asked'
  BY <1>1 DEF SeeInv, Asked, SynchSee
<1> QED
  BY <1>1, <1>4, <1>5, <1>6, <1>7, <1>8 DEF SeeInv, SynchSee, Estimates

\* The ticks of the cycles before are the same ones a cycle later.
LEMMA TicksShift ==
    ASSUME NEW n \in 0 .. 8, NEW k, k = IF n = 8 THEN 0 ELSE n + 1
    PROVE  /\ Ticks(k + 8) = Ticks(n) /\ Ticks(k + 7) = Ticks(n + 8)
           /\ Ticks(k + 6) = Ticks(n + 7)
           /\ Ticks(n) = 2 => (8 * k) % 3 = 0
<1>1. CASE n = 8
  BY <1>1 DEF Ticks
<1>2. CASE n \in 0 .. 7
  BY <1>2 DEF Ticks
<1> QED
  BY <1>1, <1>2

\* A new cycle: the counts move on with the cycles they belong to.
LEMMA SenseBodyKeeps == ASSUME TypeOK, SeeInv, SenseBody PROVE SeeInv'
<1> DEFINE next == IF now = 8 THEN 0 ELSE now + 1
<1>1. /\ phase = 7 /\ phase' = 0 /\ now \in 0 .. 8
      /\ now' = next /\ now' = next_clock \div UnitsPerCycle /\ next \in 0 .. 8
      /\ next # now
  BY Passes, ClockParts DEF SenseBody, UnitsPerCycle
<1>2. /\ srv_view' = srv_view /\ self_view' = srv_view /\ srv_cnt' = srv_cnt
      /\ ~decided' /\ mode' = mode /\ config' = config /\ ~due
      /\ ss' = SetNewCycle(ss, next)
  BY <1>1 DEF SenseBody, Advance, UpdateBySenseBody
<1>3. decided /\ (SynchSee => ss.synch_see)
  BY <1>1 DEF SenseBody, Advance, AgentIsPrompt, AnswerIsPrompt, UnitsPerCycle
<1>4. next # ss.current_time
  BY <1>1 DEF SeeInv, Clocked, Joining
<1>5. /\ ss'.current_time = next /\ ss'.last_see_time = ss.last_see_time
      /\ ss'.last_timing = ss.last_timing /\ ss'.synch_see = ss.synch_see
      /\ ss'.see_count = 0 /\ ss'.history = Rotated(ss)
      /\ ss'.cycles_till_see = CountedDown(ss.cycles_till_see)
  BY <1>1, <1>2, <1>4, SetNewCycleParts DEF TypeOK, Times, Cycles
<1>6. /\ Age' = Age + 1 /\ Age \in Nat /\ (due' => IsTick(clock)')
  BY <1>2, <1>5, AgePasses DEF SenseBody
<1> HIDE DEF next
<1>7. Clocked'
  <2>1. ss'.current_time = now'
    BY <1>1, <1>5
  <2>2. Plausible(ss') /\ (ss'.synch_see => SynchSee')
    BY <1>2, <1>5 DEF SeeInv, Clocked, Plausible, Estimates, SynchSee
  <2>3. self_view' = srv_view'
    BY <1>2
  <2>4. ~(phase' > ThinkPhase)
    BY <1>1 DEF ThinkPhase
  <2> QED
    BY <1>6, <2>1, <2>2, <2>3, <2>4 DEF Clocked
<1>8. Estimates(ss) => Timed'
  <2> SUFFICES ASSUME Estimates(ss) PROVE Timed'
    OBVIOUS
  <2>1. PICK cycles \in 0 .. 3 : SeenAgo(cycles)
    BY DEF SeeInv, Timed
  <2>2. self_view.width \in Widths /\ self_view = srv_view
    BY DEF TypeOK, Views, SeeInv, Timed
  <2>3. Gap(ss.last_timing, self_view.width) \in 1 .. 3
    BY <2>2, GapType
  <2>4. /\ Legal(ss.last_timing, self_view.width)
        /\ ss.cycles_till_see = Gap(ss.last_timing, self_view.width) - cycles
        /\ ss.cycles_till_see > 0
    BY <1>3, <2>1 DEF SeenAgo
  <2>5. cycles + 1 \in 0 .. 3
    BY <2>1, <2>3, <2>4
  <2>6. PhaseOf(ss.last_timing) \in 0 .. 4
    BY EstimatedPhase
  <2>7. SeenAgo(cycles + 1)'
    <3>1. Age' = 8 * (cycles + 1) + phase' - PhaseOf(ss.last_timing)
      BY <1>1, <1>6, <2>1, <2>6 DEF SeenAgo
    <3>2. ss.last_see_time =
            IF next >= cycles + 1 THEN next - (cycles + 1) ELSE next + 9 - (cycles + 1)
      BY <1>1, <2>1, <2>5 DEF SeenAgo, next
    <3>3. ss'.cycles_till_see = Gap(ss.last_timing, self_view.width) - (cycles + 1)
      BY <1>5, <2>3, <2>4 DEF CountedDown
    <3>4. cycles + 1 # 0 /\ now' = next /\ ss'.last_timing = ss.last_timing
          /\ self_view' = self_view /\ ss'.last_see_time = ss.last_see_time
      BY <1>1, <1>2, <1>5, <2>1, <2>2
    <3> QED
      BY <1>2, <2>4, <3>1, <3>2, <3>3, <3>4 DEF SeenAgo
  <2> QED
    BY <1>1, <1>2, <1>5, <2>2, <2>5, <2>7 DEF SeeInv, Timed, TicksPerSee
<1>9. ss.see_count \in Nat /\ \A i \in HistoryIndex : ss.history[i] \in Nat
  BY DEF TypeOK, SeeStates
<1>10. ASSUME ~SynchSee
       PROVE  Served = Ticks(now) /\ Served' = 0 /\ (due' <=> clock' % 3 = 0)
  BY <1>1, <1>10, ServedPasses DEF SenseBody, SeeInv, Clocked
<1>11. /\ ss'.history[0] = ss.see_count /\ ss'.history[1] = ss.history[0]
       /\ ss'.history[2] = ss.history[1]
  BY <1>5 DEF Rotated, HistoryIndex
<1>12. srv_cnt \in Nat
  BY DEF TypeOK
<1>13. /\ Ticks(now' + 8) = Ticks(now) /\ Ticks(now' + 7) = Ticks(now + 8)
       /\ Ticks(now' + 6) = Ticks(now + 7) /\ (Ticks(now) = 2 => (8 * now') % 3 = 0)
  BY <1>1, TicksShift DEF next
<1>14. ~Estimates(ss) /\ ~SynchSee => Counted'
  <2> SUFFICES ASSUME ~Estimates(ss), ~SynchSee PROVE Counted'
    OBVIOUS
  <2>1. Counted
    BY DEF SeeInv
  <2>2. ss.see_count <= Ticks(now)
    BY <1>9, <1>10, <1>12, <2>1 DEF Counted, Ticks
  <2>3. ss.history[0] <= Ticks(now + 8) /\ ss.history[1] <= Ticks(now + 7)
    BY <1>1, <2>1 DEF Counted, HistoryIndex
  <2>4. \A i \in HistoryIndex : ss'.history[i] <= Ticks(now' + 8 - i)
    <3> TAKE i \in HistoryIndex
    <3>1. CASE i = 0
      BY <1>1, <1>11, <1>13, <2>2, <3>1
    <3>2. CASE i = 1
      BY <1>1, <1>11, <1>13, <2>3, <3>2
    <3>3. CASE i = 2
      BY <1>1, <1>11, <1>13, <2>3, <3>3
    <3> QED
      BY <3>1, <3>2, <3>3 DEF HistoryIndex
  <2> QED
    BY <1>5, <2>4 DEF Counted
<1>15. ~Estimates(ss) /\ config = "normal" => AllSeen'
  <2> SUFFICES ASSUME ~Estimates(ss), config = "normal" PROVE AllSeen'
    OBVIOUS
  <2>1. AllSeen /\ ~SynchSee /\ self_view = srv_view
    BY DEF SeeInv, Clocked, SynchSee
  <2>2. clock' = 8 * now'
    <3>1. clock \in 0 .. 71 /\ clock' = (clock + 1) % 72
      BY DEF TypeOK, SenseBody, Advance, next_clock, ClockPeriod, Cycles, UnitsPerCycle
    <3>2. clock = 8 * now + 7
      BY <1>1, ClockParts
    <3> QED
      BY <1>1, <3>1, <3>2 DEF next
  <2>3. IsSynchedSeeCountNormalMode(ss') => due'
    BY <1>10, <1>11, <1>13, <2>1, <2>2 DEF AllSeen, IsSynchedSeeCountNormalMode
  <2>4. /\ ss'.see_count = 0 /\ ~(ss'.see_count > 0) /\ Served' = 0
        /\ Served = Ticks(now) /\ Ticks(now' + 8) = Ticks(now)
    BY <1>5, <1>10, <1>13, <2>1
  <2> QED
    BY <1>1, <1>2, <1>11, <2>1, <2>3, <2>4 DEF AllSeen
<1>16. SynchSee => Asked'
  BY <1>2, <1>3, <1>5 DEF SeeInv, Asked, SynchSee
<1> QED
  BY <1>2, <1>5, <1>7, <1>8, <1>14, <1>15, <1>16 DEF SeeInv, SynchSee, Estimates

\* The grant of synch_see.
LEMMA GetSynchSeeKeeps == ASSUME TypeOK, SeeInv, GetSynchSee PROVE SeeInv'
<1> DEFINE s == SetSynchSeeMode(ss)
<1>1. /\ SynchSee /\ ~ss.synch_see /\ ~due
      /\ ss' = SetViewMode(s, self_view) /\ srv_view' = View(srv_view.width, "HIGH")
      /\ now' = now /\ phase' = phase /\ due' = due /\ clock' = clock /\ config' = config
      /\ self_view' = self_view /\ decided' = decided /\ mode' = mode
  BY DEF GetSynchSee, now, phase
<1>2. /\ s \in SeeStates(Times) /\ s.synch_see /\ s.last_timing = "NOSYNCH"
      /\ s.current_time = ss.current_time /\ s.last_see_time = ss.last_see_time
      /\ s.cycles_till_see = ss.cycles_till_see
      /\ s.see_count = ss.see_count /\ s.history = ss.history
  BY <1>1 DEF SetSynchSeeMode, TypeOK, SeeStates, SeeInv, Asked
<1>3. self_view = srv_view /\ self_view \in Views /\ decided
  BY <1>1 DEF SeeInv, Clocked, Asked, TypeOK
<1> HIDE DEF s
<1>4. Plausible(s)
  BY <1>2 DEF Plausible
<1>5. /\ Recounted(s, ss')
      /\ ss'.cycles_till_see =
           IF s.last_see_time = s.current_time THEN Gap("NOSYNCH", self_view.width)
           ELSE s.cycles_till_see
  BY <1>1, <1>2, <1>3, <1>4, SetViewModeParts DEF Legal, Arrives
<1>6. Gap("NOSYNCH", self_view.width) > 0 /\ Gap("NOSYNCH", "NORMAL") = 2
  <2>1. Gap("NOSYNCH", self_view.width) > 0
    BY <1>3, GapType DEF Views
  <2> QED
    BY <2>1 DEF Gap, FullInterval
<1>7. ss'.synch_see /\ ~Estimates(ss') /\ Plausible(ss')
  BY <1>2, <1>5 DEF Recounted, Estimates, Plausible
<1>8. Clocked'
  <2>1. CASE ss.current_time = now
    BY <1>1, <1>2, <1>3, <1>5, <1>7, <2>1 DEF SeeInv, Clocked, Recounted, SynchSee, SynchMode, Plausible, Estimates
  <2>2. CASE Joining
    <3>1. Joining'
      BY <1>1, <1>2, <1>5, <1>6, <2>2 DEF Joining, Recounted, View
    <3> QED
      BY <1>1, <1>3, <1>7, <3>1 DEF SeeInv, Clocked, SynchSee, SynchMode, Plausible, Estimates
  <2> QED
    BY <2>1, <2>2 DEF SeeInv, Clocked
<1>9. Asked'
  BY <1>1, <1>2, <1>3, <1>5, <1>6, <1>7 DEF SeeInv, Asked, View
<1> QED
  BY <1>1, <1>7, <1>8, <1>9 DEF SeeInv, SynchSee, Estimates

\* A call of the referee, which an undisturbed normal mode does not see.
LEMMA RefereeKeeps == ASSUME TypeOK, SeeInv, Referee, Undisturbed' PROVE SeeInv'
<1>1. config # "normal"
  BY DEF TypeOK, Referee, Undisturbed
<1>2. /\ now' = now /\ phase' = phase /\ ss' = ss /\ self_view' = self_view
      /\ srv_view' = srv_view /\ srv_cnt' = srv_cnt /\ decided' = decided
      /\ config' = config /\ due' = due /\ clock' = clock
  BY DEF Referee, server, agent, now, phase
<1>3. Age' = Age /\ Served' = Served
  BY <1>2 DEF Age, Served, TickPeriod, TickOffset
<1>4. Clocked'
  BY <1>2 DEF SeeInv, Clocked, Joining, Plausible, Estimates, SynchSee, SynchMode, IsTick, TickPeriod, TickOffset
<1>5. Timed => Timed'
  BY <1>2, <1>3 DEF Timed, SeenAgo, TicksPerSee, SynchMode
<1>6. (Counted => Counted') /\ (Asked => Asked')
  BY <1>2, <1>3 DEF Counted, Asked
<1> QED
  BY <1>1, <1>2, <1>4, <1>5, <1>6 DEF SeeInv, SynchSee, Estimates

\* A step of others.
LEMMA StutterKeeps == ASSUME SeeInv, UNCHANGED vars PROVE SeeInv'
<1>1. /\ now' = now /\ phase' = phase /\ ss' = ss /\ self_view' = self_view
      /\ srv_view' = srv_view /\ srv_cnt' = srv_cnt /\ decided' = decided
      /\ config' = config /\ due' = due /\ clock' = clock /\ mode' = mode
  BY DEF vars, server, agent, now, phase
<1>2. Age' = Age /\ Served' = Served
  BY <1>1 DEF Age, Served, TickPeriod, TickOffset
<1>3. Clocked'
  BY <1>1 DEF SeeInv, Clocked, Joining, Plausible, Estimates, SynchSee, SynchMode, IsTick, TickPeriod, TickOffset
<1>4. Timed => Timed'
  BY <1>1, <1>2 DEF Timed, SeenAgo, TicksPerSee, SynchMode
<1>5. (Counted => Counted') /\ (Asked => Asked') /\ (AllSeen => AllSeen')
  BY <1>1, <1>2 DEF Counted, Asked, AllSeen, IsSynchedSeeCountNormalMode
<1> QED
  BY <1>1, <1>3, <1>4, <1>5 DEF SeeInv, SynchSee, Estimates

-----------------------------------------------------------------------------
(* Every step keeps the invariant: the agent                               *)

\* An adjustment that does not find its pattern changes the view at most.
Adjusted(o, q) ==
    /\ q \in Outcomes /\ Recounted(o.ss, q.ss)
    /\ Told(o) => Told(q)
    /\ q.ss.cycles_till_see = o.ss.cycles_till_see \/ q.ss.cycles_till_see > 0

\* An adjustment that sends a view.
LEMMA SendAdjusts ==
    ASSUME NEW o \in Outcomes, Plausible(o.ss), NEW view \in Views
    PROVE  Adjusted(o, SendView(o, view)) /\ SendView(o, view).view = view
<1>1. SendView(o, view) \in Outcomes
  BY SendViewType
<1>2. o.ss \in SeeStates(Times)
  BY DEF Outcomes
<1>3. Gap(o.ss.last_timing, view.width) > 0
  BY GapType DEF Views
<1> QED
  BY <1>1, <1>2, <1>3, SendViewParts, SetViewModeParts DEF Adjusted

\* An adjustment that does nothing.
LEMMA KeptAdjusts == ASSUME NEW o \in Outcomes PROVE Adjusted(o, o)
BY RecountedRefl DEF Adjusted, Outcomes

\* Without the pattern an adjustment starts no estimate; out of play it leaves (narrow, low).
LEMMA AdjustUnsynched ==
    ASSUME NEW o \in Outcomes, o.ss.last_timing = "NOSYNCH"
    PROVE  /\ ~IsSynchedSeeCountNormalMode(o.ss) =>
                /\ Adjusted(o, AdjustNormalMode(o))
                /\ mode # "PlayOn" /\ ~o.ss.synch_see =>
                     AdjustNormalMode(o).view = View("NARROW", "LOW")
           /\ ~IsSynchedSeeCountSynchMode(o.ss) => Adjusted(o, AdjustSynchMode(o))
<1>1. /\ View("NARROW", "HIGH") \in Views
      /\ View("NARROW", "LOW") \in Views
  BY ViewType DEF Widths, Qualities
<1>2. Plausible(o.ss)
  BY DEF Plausible
<1>3. \A view \in Views : Adjusted(o, SendView(o, view)) /\ SendView(o, view).view = view
  BY <1>2, SendAdjusts
<1>4. Adjusted(o, o)
  BY KeptAdjusts
<1>5. ASSUME ~IsSynchedSeeCountNormalMode(o.ss) PROVE Adjusted(o, AdjustNormalMode(o))
  BY <1>1, <1>3, <1>4, <1>5 DEF AdjustNormalMode
<1>6. ASSUME ~IsSynchedSeeCountSynchMode(o.ss) PROVE Adjusted(o, AdjustSynchMode(o))
  BY <1>1, <1>3, <1>4, <1>6 DEF AdjustSynchMode
<1>7. ASSUME ~IsSynchedSeeCountNormalMode(o.ss), mode # "PlayOn", ~o.ss.synch_see
      PROVE  AdjustNormalMode(o).view = View("NARROW", "LOW")
  <2>1. ~IsSynch(o.ss)
    BY <1>7 DEF IsSynch, SynchTimings
  <2>2. CASE o.view.width # "NARROW" \/ o.view.quality # "LOW"
    BY <1>1, <1>3, <1>7, <2>1, <2>2 DEF AdjustNormalMode
  <2>3. CASE o.view.width = "NARROW" /\ o.view.quality = "LOW"
    <3>1. AdjustNormalMode(o) = o
      BY <1>7, <2>1, <2>3 DEF AdjustNormalMode
    <3>2. o.view = View("NARROW", "LOW")
      BY <2>3 DEF View, Views, Outcomes
    <3> QED
      BY <3>1, <3>2
  <2> QED
    BY <2>2, <2>3
<1> QED
  BY <1>5, <1>6, <1>7

\* With an estimate there is nothing to adjust.
LEMMA AdjustSynched ==
    ASSUME NEW o, IsSynch(o.ss)
    PROVE  AdjustNormalMode(o) = o /\ AdjustSynchMode(o) = o
BY DEF AdjustNormalMode, AdjustSynchMode

\* The adjustment that finds its pattern starts an estimate.
LEMMA Detects ==
    ASSUME TypeOK, NEW o \in Outcomes, NEW timing \in SynchTimings, NEW view \in Views,
           ~o.ss.synch_see, o.ss.current_time = now, o.ss.last_see_time = now,
           Legal(timing, view.width)
    PROVE  LET q == SendView(WithTiming(o, timing), view)
           IN  /\ q \in Outcomes /\ Told(q) /\ q.view = view
               /\ Estimates(q.ss) /\ ~q.ss.synch_see /\ q.ss.last_timing = timing
               /\ q.ss.current_time = now /\ q.ss.last_see_time = now
               /\ q.ss.cycles_till_see = Gap(timing, view.width)
<1> DEFINE p == WithTiming(o, timing)
           q == SendView(p, view)
<1>1. timing \in Timings
  BY DEF Timings
<1>2. /\ p \in Outcomes /\ p.ss \in SeeStates(Times) /\ ~p.ss.synch_see
      /\ p.ss.last_timing = timing /\ p.ss.current_time = now /\ p.ss.last_see_time = now
  <2>1. p \in Outcomes /\ p.ss = [o.ss EXCEPT !.last_timing = timing]
    BY <1>1, WithTimingType, WithTimingParts
  <2>2. o.ss \in SeeStates(Times)
    BY DEF Outcomes
  <2> QED
    BY <2>1, <2>2 DEF SeeStates, Outcomes
<1> HIDE DEF p
<1>3. Plausible(p.ss)
  BY <1>2 DEF Plausible, Estimates
<1>4. q \in Outcomes /\ q.ss = SetViewMode(p.ss, view) /\ q.view = view /\ Told(q)
  BY <1>2, <1>3, SendViewType, SendViewParts
<1>5. Recounted(p.ss, q.ss) /\ q.ss.cycles_till_see = Gap(timing, view.width)
  BY <1>2, <1>3, <1>4, SetViewModeParts
<1> QED
  BY <1>2, <1>4, <1>5 DEF Recounted, Estimates, p

\* An estimate that is made or confirmed now and was decided upon.
LEMMA TimedNow ==
    ASSUME TypeOK, TypeOK', NEW s \in SeeStates(Times), Estimates(s),
           s.current_time = now, s.last_see_time = now,
           now' = now, phase' = phase, Age' = phase - PhaseOf(s.last_timing),
           NEW o \in Outcomes, lost = 0, lost' = 0, Told(o), Commit(o),
           o.view.quality = "HIGH", self_view = srv_view,
           Recounted(s, o.ss), Legal(s.last_timing, o.view.width),
           o.ss.cycles_till_see = Gap(s.last_timing, o.view.width), decided',
           srv_cnt' < 2, ~s.synch_see \/ srv_cnt' = 0
    PROVE  Timed' /\ Estimates(ss')
<1>1. /\ ss' = o.ss /\ self_view' = o.view /\ srv_view' = o.view /\ o.view \in Views
  BY CommitTold DEF Outcomes
<1>2. Gap(s.last_timing, o.view.width) \in 1 .. 3
  BY <1>1, GapType DEF Views
<1>3. srv_cnt' < TicksPerSee(srv_view)'
  <2>1. srv_view'.quality = "HIGH" /\ srv_view'.width \in Widths /\ srv_cnt' \in Nat
    BY <1>1 DEF Views, TypeOK
  <2>2. ss'.synch_see = s.synch_see
    BY <1>1 DEF Recounted
  <2>3. CASE s.synch_see
    BY <2>1, <2>2, <2>3, FullIntervalType DEF TicksPerSee
  <2>4. CASE ~s.synch_see
    BY <2>1, <2>2, <2>4 DEF TicksPerSee, Widths
  <2> QED
    BY <2>3, <2>4
<1>4. /\ ss'.last_timing = s.last_timing /\ ss'.current_time = now
      /\ ss'.last_see_time = now /\ ss'.synch_see = s.synch_see
      /\ ss'.cycles_till_see = Gap(s.last_timing, o.view.width)
  BY <1>1 DEF Recounted
<1>5. now \in 0 .. 8 /\ phase \in 0 .. 7
  BY ClockParts
<1>6. SeenAgo(0)'
  <2>1. Age' = 8 * 0 + phase' - PhaseOf(s.last_timing)
    BY <1>5, EstimatedPhase
  <2>2. ss'.last_see_time = IF now' >= 0 THEN now' - 0 ELSE now' + 9 - 0
    BY <1>4, <1>5
  <2>3. ss'.cycles_till_see = Gap(s.last_timing, o.view.width) - 0 /\ ss'.cycles_till_see > 0
    BY <1>2, <1>4
  <2> QED
    BY <1>1, <1>4, <2>1, <2>2, <2>3 DEF SeenAgo
<1>7. Estimates(ss')
  BY <1>4 DEF Estimates
<1> QED
  BY <1>1, <1>3, <1>4, <1>6, <1>7 DEF Timed

\* What a decision, timeout or think, leaves alone.
LEMMA DecisionFrame ==
    ASSUME Timeout \/ Think
    PROVE  /\ now' = now /\ phase' = phase /\ config' = config /\ mode' = mode
           /\ due' = due /\ clock' = clock /\ srv_cnt' = srv_cnt
           /\ ~decided /\ decided'
           /\ SynchMode => Think /\ phase = 4 /\ ~due
           /\ ~SynchMode => WaitIsOver
           /\ \E d \in Decisions(Idle(ss)) : Commit(d)
BY DEF Timeout, Think, Decide, now, phase, ThinkPhase

\* The age and the ticks served are the same when time stands still.
LEMMA SameAge ==
    ASSUME clock' = clock, due' = due, srv_cnt' = srv_cnt,
           ss'.synch_see = ss.synch_see
    PROVE  Age' = Age /\ Served' = Served /\ (IsTick(clock) => IsTick(clock)')
BY DEF Age, Served, IsTick, TickPeriod, TickOffset, now

\* The synchronous see timer ticks at its offset.
LEMMA SynchTick ==
    ASSUME TypeOK, ss.synch_see, IsTick(clock)
    PROVE  phase = 2
BY DEF TypeOK, IsTick, TickPeriod, TickOffset, phase, UnitsPerCycle, SynchSeePhase

\* A handler that has done nothing yet.
LEMMA IdleParts ==
    ASSUME NEW s \in SeeStates(Times), TypeOK
    PROVE  /\ Idle(s) \in Outcomes /\ Idle(s).ss = s /\ Idle(s).view = self_view
           /\ Told(Idle(s)) /\ Idle(s).sent = <<>>
BY DEF Idle, Outcomes, Told, TypeOK

\* A synchronised player that decides has seen the see of the cycle, or knows
\* that none is to come in it.
LEMMA NotMissed ==
    ASSUME TypeOK, SeeInv, Estimates(ss), ~decided, NEW cycles \in 0 .. 3, SeenAgo(cycles),
           SynchMode => phase = 4 /\ ~due, ~SynchMode => WaitIsOver
    PROVE  /\ cycles = 0 => ss.last_see_time = now
           /\ cycles # 0 => ss.cycles_till_see > 0 /\ ss.last_see_time # now
           /\ ~MissedSee(ss)
<1>1. now \in 0 .. 8 /\ phase \in 0 .. 7 /\ srv_cnt \in Nat
  BY ClockParts DEF TypeOK
<1>2. ASSUME cycles # 0 PROVE ss.cycles_till_see > 0
  <2> SUFFICES ASSUME ~(ss.cycles_till_see > 0) PROVE FALSE
    OBVIOUS
  <2> DEFINE next == GetNextTiming(ss, srv_view)
             gap == Gap(ss.last_timing, srv_view.width)
  <2>1. /\ self_view = srv_view /\ srv_view.quality = "HIGH"
        /\ srv_cnt < TicksPerSee(srv_view)
    BY DEF SeeInv, Timed
  <2>2. /\ Legal(ss.last_timing, srv_view.width)
        /\ ss.cycles_till_see = gap - cycles
    BY <1>2, <2>1 DEF SeenAgo
  <2>3. ss.cycles_till_see = 0 /\ gap \in 1 .. 3
    BY <2>2, GapType DEF TypeOK, SeeStates, Views
  <2>4. /\ PhaseOf(next) \in 0 .. 4
        /\ TickPeriod * TicksPerSee(srv_view) = 8 * gap + PhaseOf(next) - PhaseOf(ss.last_timing)
    BY <2>1, <2>2, NextSee
  <2>5. PhaseOf(ss.last_timing) \in 0 .. 4
    BY EstimatedPhase
  <2>6. Age = 8 * gap + phase - PhaseOf(ss.last_timing)
    BY <2>2, <2>3 DEF SeenAgo
  <2>7. TicksPerSee(srv_view) \in Nat
    BY <2>1, FullIntervalType DEF TicksPerSee, TypeOK, Views, Widths
  <2>8. TickPeriod \in {3, 8}
    BY DEF TickPeriod, UnitsPerTick, UnitsPerCycle
  <2>9. Age <= TickPeriod * srv_cnt + TickPeriod /\ (~due => Age < TickPeriod * srv_cnt + TickPeriod)
    <3>1. CASE TickPeriod = 3
      BY <1>1, <3>1 DEF Age, TypeOK, TickOffset, TickPeriod, UnitsPerTick, UnitsPerCycle, ClockPeriod, Cycles
    <3>2. CASE TickPeriod = 8
      <4>1. TickOffset \in {0, 2} /\ clock \in 0 .. 71
        BY DEF TickOffset, SynchSeePhase, TypeOK, UnitsPerCycle, ClockPeriod, Cycles
      <4> QED
        BY <1>1, <3>2, <4>1 DEF Age
    <3> QED
      BY <2>8, <3>1, <3>2
  <2>10. TickPeriod * srv_cnt + TickPeriod <= TickPeriod * TicksPerSee(srv_view)
    <3>1. CASE TickPeriod = 3
      BY <1>1, <2>1, <2>7, <3>1
    <3>2. CASE TickPeriod = 8
      BY <1>1, <2>1, <2>7, <3>2
    <3> QED
      BY <2>8, <3>1, <3>2
  <2>11. Age \in Int /\ TickPeriod * srv_cnt + TickPeriod \in Nat /\ TickPeriod * TicksPerSee(srv_view) \in Nat
    BY <1>1, <2>3, <2>5, <2>6, <2>7, <2>8
  <2> HIDE DEF next, gap
  <2>12. phase <= PhaseOf(next) /\ (~due => phase < PhaseOf(next))
    BY <1>1, <2>3, <2>4, <2>5, <2>6, <2>9, <2>10, <2>11
  <2>13. phase <= 4 /\ (~due => phase < 4)
    BY <1>1, <2>4, <2>12
  <2>14. ~SynchMode /\ phase < ThresholdPhase
    BY <1>1, <2>13 DEF ThresholdPhase
  <2> QED
    BY <2>3, <1>1, <2>14 DEF WaitIsOver, ThresholdPhase
<1>3. cycles = 0 => ss.last_see_time = now
  BY <1>1 DEF SeenAgo
<1>4. cycles # 0 => ss.last_see_time # now
  BY <1>1 DEF SeenAgo
<1> QED
  BY <1>2, <1>3, <1>4 DEF MissedSee

\* A decision upon an estimate keeps it exact.
LEMMA DecisionTimed ==
    ASSUME TypeOK, TypeOK', SeeInv, Timeout \/ Think, lost = 0, lost' = 0, Estimates(ss)
    PROVE  Timed' /\ Estimates(ss') /\ ss'.synch_see = ss.synch_see
<1>1. /\ now' = now /\ phase' = phase /\ config' = config /\ due' = due /\ clock' = clock
      /\ srv_cnt' = srv_cnt /\ ~decided /\ decided'
      /\ SynchMode => phase = 4 /\ ~due
      /\ ~SynchMode => WaitIsOver
  BY DecisionFrame
<1>2. PICK d \in Decisions(Idle(ss)) : Commit(d)
  BY DecisionFrame
<1>3. PICK cycles \in 0 .. 3 : SeenAgo(cycles)
  BY DEF SeeInv, Timed
<1>4. ss \in SeeStates(Times) /\ IsSynch(ss)
  BY DEF TypeOK, IsSynch, Estimates
<1>5. /\ Idle(ss) \in Outcomes /\ Idle(ss).ss = ss /\ Idle(ss).view = self_view /\ Told(Idle(ss))
  BY <1>4, IdleParts
<1>6. /\ cycles = 0 => ss.last_see_time = now
      /\ cycles # 0 => ss.cycles_till_see > 0 /\ ss.last_see_time # now
      /\ ~MissedSee(ss)
  BY <1>1, <1>3, NotMissed
<1>7. /\ self_view = srv_view /\ self_view.quality = "HIGH" /\ ss.current_time = now
      /\ srv_cnt < TicksPerSee(srv_view)
  BY DEF SeeInv, Timed
<1>8. d \in DoViewAction(Idle(ss))
  BY <1>2, <1>4, <1>5, <1>6, DecisionsAre, AdjustSynched
<1>9. /\ Recounted(ss, d.ss) /\ d \in Outcomes /\ d.view.quality = "HIGH" /\ Told(d)
      /\ ss.last_see_time # now =>
           d.view = self_view /\ d.ss.cycles_till_see = ss.cycles_till_see
      /\ ss.last_see_time = now /\ Arrives(ss.last_timing, self_view.width) =>
           /\ Legal(d.ss.last_timing, d.view.width)
           /\ d.ss.cycles_till_see = Gap(d.ss.last_timing, d.view.width)
  BY <1>5, <1>7, <1>8, SynchedView
<1>10. ss' = d.ss /\ self_view' = d.view /\ srv_view' = d.view
  BY <1>2, <1>7, <1>9, CommitTold
<1>11. ss'.synch_see = ss.synch_see /\ ss'.last_timing = ss.last_timing
       /\ ss'.current_time = ss.current_time /\ ss'.last_see_time = ss.last_see_time
  BY <1>9, <1>10 DEF Recounted
<1>12. Age' = Age
  BY <1>1, <1>11, SameAge
<1>13. now \in 0 .. 8 /\ phase \in 0 .. 7 /\ srv_cnt \in Nat
  BY ClockParts DEF TypeOK
<1>14. CASE cycles = 0
  <2>1. SynchMode /\ phase <= 4 /\ Arrives(ss.last_timing, self_view.width)
    BY <1>1, <1>3, <1>14 DEF SeenAgo, ThinkPhase
  <2>2. ~ss.synch_see
    BY <2>1 DEF SeeInv, Clocked, SynchMode, SynchSee
  <2>3. PhaseOf(ss.last_timing) \in 0 .. 4
    BY EstimatedPhase
  <2>4. Age = phase - PhaseOf(ss.last_timing)
    BY <1>3, <1>13, <1>14, <2>3 DEF SeenAgo
  <2>5. srv_cnt < 2
    <3>1. Age >= 3 * srv_cnt
      BY <1>13, <2>2 DEF Age, TickPeriod, TickOffset, UnitsPerTick, TypeOK, ClockPeriod, Cycles, UnitsPerCycle
    <3> QED
      BY <1>13, <2>1, <2>3, <2>4, <3>1
  <2>6. /\ Legal(ss.last_timing, d.view.width)
        /\ d.ss.cycles_till_see = Gap(ss.last_timing, d.view.width)
    BY <1>6, <1>9, <1>14, <2>1 DEF Recounted
  <2> QED
    BY <1>1, <1>2, <1>4, <1>6, <1>7, <1>9, <1>11, <1>12, <1>14, <2>2, <2>4, <2>5, <2>6, TimedNow
<1>15. CASE cycles # 0
  <2>1. self_view' = self_view /\ srv_view' = srv_view /\ ss'.cycles_till_see = ss.cycles_till_see
    BY <1>6, <1>7, <1>9, <1>10, <1>15
  <2>2. SeenAgo(cycles)'
    BY <1>1, <1>3, <1>6, <1>11, <1>12, <1>15, <2>1 DEF SeenAgo
  <2>3. TicksPerSee(srv_view)' = TicksPerSee(srv_view)
    BY <1>11, <2>1 DEF TicksPerSee
  <2> QED
    BY <1>1, <1>7, <1>11, <2>1, <2>2, <2>3 DEF Timed, Estimates
<1> QED
  BY <1>14, <1>15

\* Sees are counted as before; a decision counts none.
LEMMA CountsStay ==
    ASSUME TypeOK, now' = now, srv_cnt' = srv_cnt, Served' = Served, due' = due, phase' = phase,
           Recounted(ss, ss')
    PROVE  /\ Counted => Counted'
           /\ AllSeen /\ self_view' = self_view => AllSeen'
BY DEF Counted, AllSeen, Recounted, IsSynchedSeeCountNormalMode

\* A decision without an estimate, the server's own timer.
LEMMA DecisionUntimed ==
    ASSUME TypeOK, TypeOK', SeeInv, Timeout \/ Think, lost = 0, lost' = 0,
           ~Estimates(ss), ~SynchSee
    PROVE  /\ ~ss'.synch_see /\ Plausible(ss') /\ ss'.current_time = ss.current_time
           /\ Estimates(ss') => Timed'
           /\ ~Estimates(ss') => Counted'
           /\ ~Estimates(ss') /\ config = "normal" => AllSeen'
           /\ self_view' = srv_view'
           /\ Joining => FALSE
<1>1. /\ now' = now /\ phase' = phase /\ config' = config /\ due' = due /\ clock' = clock
      /\ srv_cnt' = srv_cnt /\ ~decided /\ decided'
      /\ SynchMode => phase = 4 /\ ~due
  BY DecisionFrame
<1>2. PICK d \in Decisions(Idle(ss)) : Commit(d)
  BY DecisionFrame
<1>3. /\ ~ss.synch_see /\ ss.last_timing = "NOSYNCH" /\ ~IsSynch(ss) /\ Counted
      /\ ss \in SeeStates(Times) /\ self_view = srv_view
  BY DEF SeeInv, Clocked, Plausible, IsSynch, SynchTimings, TypeOK, Estimates
<1>4. /\ Idle(ss) \in Outcomes /\ Idle(ss).ss = ss /\ Idle(ss).view = self_view /\ Told(Idle(ss))
  BY <1>3, IdleParts
<1>5. ss.current_time = now /\ (Joining => FALSE)
  BY <1>1 DEF SeeInv, Clocked, Joining
<1> DEFINE q == IF SynchMode THEN AdjustSynchMode(Idle(ss)) ELSE Idle(ss)
<1>6. d \in DoViewAction(q)
  BY <1>2, <1>3, <1>4, DecisionsAre DEF MissedSee
<1>7. CASE SynchMode /\ IsSynchedSeeCountSynchMode(ss)
  <2> DEFINE view == View("NARROW", "HIGH")
             p == SendView(WithTiming(Idle(ss), "50_0"), view)
  <2>1. q = p
    BY <1>3, <1>4, <1>7 DEF AdjustSynchMode
  <2>2. view \in Views /\ view.quality = "HIGH" /\ view.width = "NARROW"
    BY ViewType DEF Widths, Qualities, View
  <2>3. ss.see_count = 2 /\ ss.history[0] = 3 /\ ss.history[2] = 3
    BY <1>7 DEF IsSynchedSeeCountSynchMode
  <2>4. ss.last_see_time = now /\ 2 + srv_cnt <= Served /\ 3 <= Ticks(now + 8) /\ 3 <= Ticks(now + 6)
    BY <1>1, <1>3, <2>3, ClockParts DEF Counted, HistoryIndex
  <2>5. now \in 0 .. 8 /\ srv_cnt \in Nat /\ clock = 8 * now + 4
    BY <1>1, <1>7, ClockParts DEF TypeOK
  <2>6. now % 3 = 1
    BY <2>4, <2>5 DEF Ticks
  <2>7. srv_cnt = 0 /\ clock % 3 = 0
    <3>1. now \in {1, 4, 7}
      BY <2>5, <2>6
    <3>2. Served = (clock \div 3) + 1 - ((8 * now + 2) \div 3)
      BY <1>1, <1>7, <2>5 DEF Served, UnitsPerCycle
    <3>3. Served = 2
      BY <2>5, <3>1, <3>2
    <3> QED
      BY <2>4, <2>5, <3>1, <3>3
  <2>8. Age = 0
    BY <1>1, <1>3, <1>7, <2>5, <2>7 DEF Age, TickPeriod, TickOffset, UnitsPerTick
  <2>9. Legal("50_0", view.width) /\ Arrives("50_0", view.width) /\ "50_0" \in SynchTimings
    BY DEF Legal, Arrives, SynchTimings
  <2>10. /\ p \in Outcomes /\ Told(p) /\ p.view = view
         /\ Estimates(p.ss) /\ ~p.ss.synch_see /\ p.ss.last_timing = "50_0"
         /\ p.ss.current_time = now /\ p.ss.last_see_time = now
    BY <1>3, <1>4, <1>5, <2>2, <2>4, <2>9, Detects
  <2> HIDE DEF p, view, q
  <2>11. /\ Recounted(p.ss, d.ss) /\ d \in Outcomes /\ d.view.quality = "HIGH" /\ Told(d)
         /\ Legal(d.ss.last_timing, d.view.width)
         /\ d.ss.cycles_till_see = Gap(d.ss.last_timing, d.view.width)
    BY <1>6, <2>1, <2>2, <2>9, <2>10, SynchedView
  <2>12. ss' = d.ss
    BY <1>2, <1>3, <2>11, CommitTold
  <2>13. p.ss \in SeeStates(Times) /\ d.ss.last_timing = "50_0"
    BY <2>10, <2>11 DEF Outcomes, Recounted
  <2>14. /\ ~ss'.synch_see /\ ss'.current_time = now /\ Age' = Age
    <3>1. /\ ~p.ss.synch_see /\ p.ss.current_time = now
          /\ d.ss.synch_see = p.ss.synch_see /\ d.ss.current_time = p.ss.current_time
      BY <2>10, <2>11 DEF Recounted
    <3>2. ~ss'.synch_see /\ ss'.current_time = now
      BY <2>12, <3>1
    <3>3. ss.synch_see \in BOOLEAN /\ ss'.synch_see \in BOOLEAN
      BY DEF TypeOK, SeeStates
    <3>4. ss'.synch_see = ss.synch_see
      BY <1>3, <3>2, <3>3
    <3> QED
      BY <1>1, <3>2, <3>4, SameAge
  <2>15. Age' = phase - PhaseOf("50_0") /\ srv_cnt' < 2
    BY <1>1, <1>7, <2>7, <2>8, <2>14 DEF PhaseOf
  <2>16. Timed' /\ Estimates(ss')
    BY <1>1, <1>2, <1>3, <2>10, <2>11, <2>13, <2>15, TimedNow
  <2> QED
    BY <1>5, <2>14, <2>16 DEF Timed, Plausible
<1>8. CASE ~(SynchMode /\ IsSynchedSeeCountSynchMode(ss))
  <2>1. Adjusted(Idle(ss), q)
    BY <1>3, <1>4, <1>8, AdjustUnsynched, KeptAdjusts
  <2>2. q \in Outcomes /\ Recounted(ss, q.ss) /\ Told(q)
    BY <1>4, <2>1 DEF Adjusted
  <2>3. q.ss.last_timing = "NOSYNCH" /\ Plausible(q.ss) /\ ~IsSynch(q.ss)
    BY <1>3, <2>2 DEF Recounted, Plausible, IsSynch
  <2>4. ~SynchMode => q.view = self_view
    BY <1>4
  <2> HIDE DEF q
  <2>5. /\ Recounted(q.ss, d.ss) /\ d \in Outcomes /\ Told(d)
        /\ mode # "PlayOn" => d.view = q.view
    BY <1>6, <2>2, <2>3, AnyView
  <2>6. ss' = d.ss /\ self_view' = d.view /\ srv_view' = d.view
    BY <1>2, <1>3, <2>5, CommitTold
  <2>7. Recounted(ss, ss')
    BY <2>2, <2>5, <2>6 DEF Recounted
  <2>8. /\ ~ss'.synch_see /\ ss'.last_timing = "NOSYNCH" /\ ss'.current_time = now
        /\ Served' = Served
    BY <1>1, <1>3, <1>5, <2>7, SameAge DEF Recounted
  <2>9. config = "normal" => self_view' = self_view
    BY <2>4, <2>5, <2>6 DEF SeeInv, SynchMode
  <2>10. Counted' /\ (config = "normal" => AllSeen')
    BY <1>1, <1>3, <2>7, <2>8, <2>9, CountsStay DEF SeeInv
  <2>11. ~Estimates(ss') /\ Plausible(ss')
    BY <2>8 DEF Estimates, Plausible, SynchTimings
  <2> QED
    BY <1>5, <2>6, <2>8, <2>10, <2>11
<1> QED
  BY <1>7, <1>8

\* A decision without an estimate, after synch_see was granted.
LEMMA DecisionAsked ==
    ASSUME TypeOK, TypeOK', SeeInv, Timeout \/ Think, lost = 0, lost' = 0,
           ~Estimates(ss), SynchSee
    PROVE  /\ ss'.synch_see /\ Plausible(ss') /\ ~Estimates(ss')
           /\ ss'.current_time = ss.current_time
           /\ self_view' = srv_view' /\ srv_view'.quality = "HIGH"
           /\ (phase < SynchSeePhase \/ due) => ss'.cycles_till_see > 0
<1>1. /\ ~decided /\ ~SynchMode /\ WaitIsOver
  BY DecisionFrame DEF SynchSee, SynchMode
<1>2. PICK d \in Decisions(Idle(ss)) : Commit(d)
  BY DecisionFrame
<1>3. /\ ss.synch_see /\ ss.last_timing = "NOSYNCH"
      /\ ss \in SeeStates(Times) /\ self_view = srv_view /\ srv_view.quality = "HIGH"
  BY <1>1 DEF SeeInv, Clocked, Plausible, Asked, TypeOK
<1>4. /\ Idle(ss) \in Outcomes /\ Idle(ss).ss = ss /\ Idle(ss).view = self_view /\ Told(Idle(ss))
      /\ Idle(ss).sent = <<>>
  BY <1>3, IdleParts
<1>5. CheckMissedSee(Idle(ss)) = Idle(ss)
  BY <1>3 DEF CheckMissedSee, WithTiming, SetLastSeeTiming, Idle, SeeStates
<1>6. d \in DoViewAction(Idle(ss))
  BY <1>1, <1>2, <1>5 DEF Decisions
<1>7. /\ Recounted(ss, d.ss) /\ d \in Outcomes /\ Told(d)
      /\ d.view = self_view \/ d.view.quality = "HIGH"
      /\ d.ss.cycles_till_see = ss.cycles_till_see \/ d.ss.cycles_till_see > 0
  BY <1>3, <1>4, <1>6, AnyView DEF Plausible
<1>8. ss' = d.ss /\ self_view' = d.view /\ srv_view' = d.view
  BY <1>2, <1>3, <1>7, CommitTold
<1>9. ASSUME phase < SynchSeePhase \/ due PROVE ss.cycles_till_see > 0
  <2>1. phase <= 2
    BY <1>3, <1>9, SynchTick, ClockParts DEF SeeInv, Clocked, SynchSeePhase
  <2> QED
    BY <1>1, <2>1, ClockParts DEF WaitIsOver, ThresholdPhase
<1> QED
  BY <1>3, <1>7, <1>8, <1>9 DEF Recounted, Plausible, Estimates

\* A decision at the wait threshold or on a think.
LEMMA DecisionKeeps ==
    ASSUME TypeOK, TypeOK', SeeInv, Timeout \/ Think, lost = 0, lost' = 0
    PROVE  SeeInv'
<1>1. /\ now' = now /\ phase' = phase /\ config' = config /\ mode' = mode
      /\ due' = due /\ clock' = clock /\ srv_cnt' = srv_cnt /\ ~decided /\ decided'
  BY DecisionFrame
<1>2. ss.current_time = now
  BY <1>1 DEF SeeInv, Clocked, Joining
<1>3. /\ ss'.current_time = now /\ ss'.synch_see = ss.synch_see /\ Plausible(ss')
      /\ self_view' = srv_view'
      /\ Estimates(ss') => Timed'
  <2>1. CASE Estimates(ss)
    BY <1>1, <2>1, DecisionTimed DEF Timed, Plausible
  <2>4. ss.synch_see \in BOOLEAN /\ ss'.synch_see \in BOOLEAN
    BY DEF TypeOK, SeeStates
  <2>2. CASE ~Estimates(ss) /\ ~SynchSee
    <3>1. ~ss.synch_see
      BY <2>2 DEF SeeInv, Clocked
    <3>2. /\ ~ss'.synch_see /\ Plausible(ss') /\ ss'.current_time = ss.current_time
          /\ self_view' = srv_view' /\ (Estimates(ss') => Timed')
      BY <2>2, DecisionUntimed
    <3>3. ss'.synch_see = ss.synch_see
      BY <2>4, <3>1, <3>2
    <3> QED
      BY <1>2, <3>2, <3>3
  <2>3. CASE ~Estimates(ss) /\ SynchSee
    <3>1. ss.synch_see
      BY <1>1, <2>3 DEF SeeInv, Asked
    <3>2. /\ ss'.synch_see /\ Plausible(ss') /\ ss'.current_time = ss.current_time
          /\ self_view' = srv_view' /\ ~Estimates(ss')
      BY <2>3, DecisionAsked
    <3>3. ss'.synch_see = ss.synch_see
      BY <2>4, <3>1, <3>2
    <3> QED
      BY <1>2, <3>2, <3>3
  <2> QED
    BY <2>1, <2>2, <2>3
<1>4. Clocked'
  <2>1. IsTick(clock) => IsTick(clock)'
    BY <1>1, <1>3, SameAge
  <2> QED
    BY <1>1, <1>3, <2>1 DEF SeeInv, Clocked, SynchSee, SynchMode
<1>5. ~Estimates(ss') /\ ~SynchSee => Counted'
  BY DecisionTimed, DecisionUntimed
<1>6. ~Estimates(ss') /\ config = "normal" => AllSeen'
  BY DecisionTimed, DecisionUntimed DEF SynchSee
<1>7. SynchSee => Asked'
  <2> SUFFICES ASSUME SynchSee PROVE Asked'
    OBVIOUS
  <2>1. ss.synch_see
    BY <1>1 DEF SeeInv, Asked
  <2>2. CASE Estimates(ss)
    <3>1. Timed' /\ ss'.synch_see
      BY <2>1, <2>2, DecisionTimed
    <3>2. ss'.cycles_till_see > 0 /\ srv_view'.quality = "HIGH" /\ self_view' = srv_view'
      BY <1>1, <3>1 DEF Timed, SeenAgo
    <3> QED
      BY <3>1, <3>2 DEF Asked
  <2>3. CASE ~Estimates(ss)
    BY <1>1, <2>3, DecisionAsked DEF Asked
  <2> QED
    BY <2>2, <2>3
<1> QED
  BY <1>1, <1>3, <1>4, <1>5, <1>6, <1>7 DEF SeeInv, SynchSee

-----------------------------------------------------------------------------
(* Every step keeps the invariant: a see                                   *)

\* What the receipt of a see leaves alone, and what it comes to.
LEMMA SeeFrame ==
    ASSUME TypeOK, SeeInv, ReceiveSee
    PROVE  /\ now' = now /\ phase' = phase /\ config' = config /\ mode' = mode
           /\ clock' = clock /\ due /\ ~due' /\ IsTick(clock) /\ SeeIsDue /\ srv_cnt' = 0
           /\ SynchMode => Commit(AfterSee) /\ decided' = decided
           /\ ~SynchMode /\ decided =>
                Commit(AdjustNormalMode(AfterSee)) /\ decided' = decided
           /\ ~SynchMode /\ ~decided =>
                decided' /\ \E d \in Decisions(AdjustNormalMode(AfterSee)) : Commit(d)
<1>1. /\ now' = now /\ phase' = phase /\ config' = config /\ mode' = mode
      /\ clock' = clock /\ due /\ ~due' /\ SeeIsDue /\ srv_cnt' = 0
  BY DEF ReceiveSee, SendSee, now, phase
<1>2. IsTick(clock)
  BY <1>1 DEF SeeInv, Clocked
<1>3. /\ SynchMode => Commit(AfterSee) /\ decided' = decided
      /\ ~SynchMode /\ decided =>
           Commit(AdjustNormalMode(AfterSee)) /\ decided' = decided
      /\ ~SynchMode /\ ~decided =>
           decided' /\ \E d \in Decisions(AdjustNormalMode(AfterSee)) : Commit(d)
  BY DEF ReceiveSee, Decide
<1> QED
  BY <1>1, <1>2, <1>3

\* What analyzeSee leaves to the rest of the handler.
LEMMA AfterSeeParts ==
    ASSUME TypeOK
    PROVE  /\ AfterSee \in Outcomes /\ Told(AfterSee) /\ AfterSee.sent = <<>>
           /\ AfterSee.ss = UpdateBySee(ss, now, self_view) /\ AfterSee.view = self_view
           /\ UpdateBySee(ss, now, self_view) \in SeeStates(Times)
<1>1. now \in Times /\ ss \in SeeStates(Times) /\ self_view \in Views
  BY ClockParts DEF Times, Cycles, TypeOK
<1>2. UpdateBySee(ss, now, self_view) \in SeeStates(Times)
  BY <1>1, UpdateBySeeType
<1> QED
  BY <1>2, IdleParts DEF AfterSee

\* The see that a player with an estimate gets is the one it waits for.
LEMMA ExpectedSee ==
    ASSUME TypeOK, SeeInv, Estimates(ss), due, IsTick(clock), SeeIsDue
    PROVE  LET next == GetNextTiming(ss, srv_view)
           IN  /\ ss.cycles_till_see = 0 /\ ss.last_see_time # now /\ ~decided
               /\ phase = PhaseOf(next) /\ phase <= 4
               /\ Arrives(next, srv_view.width)
               /\ IF ss.synch_see THEN next = "SYNC" ELSE next \in SynchTimings
<1> DEFINE next == GetNextTiming(ss, srv_view)
           gap == Gap(ss.last_timing, srv_view.width)
<1>1. now \in 0 .. 8 /\ phase \in 0 .. 7 /\ srv_cnt \in Nat
  BY ClockParts DEF TypeOK
<1>2. PICK cycles \in 0 .. 3 : SeenAgo(cycles)
  BY DEF SeeInv, Timed
<1>3. /\ self_view = srv_view /\ srv_view.quality = "HIGH" /\ srv_view.width \in Widths
      /\ srv_cnt < TicksPerSee(srv_view)
  BY DEF SeeInv, Timed, TypeOK, Views
<1>4. TicksPerSee(srv_view) \in Nat
  BY <1>3, FullIntervalType DEF TicksPerSee, Widths
<1>5. srv_cnt + 1 = TicksPerSee(srv_view)
  BY <1>1, <1>3, <1>4 DEF SeeIsDue
<1>6. PhaseOf(ss.last_timing) \in 0 .. 4
  BY EstimatedPhase
<1>7. Age = TickPeriod * srv_cnt + TickPeriod /\ TickPeriod \in {3, 8}
  BY DEF Age, TickPeriod, UnitsPerTick, UnitsPerCycle
<1>8. Age = 8 * cycles + phase - PhaseOf(ss.last_timing)
  BY <1>2 DEF SeenAgo
<1>9. ~(cycles = 0 /\ ~decided)
  <2> SUFFICES ASSUME cycles = 0, ~decided PROVE FALSE
    OBVIOUS
  <2>1. SynchMode /\ phase <= 4
    BY <1>2 DEF SeenAgo, ThinkPhase
  <2>2. ~ss.synch_see
    BY <2>1 DEF SeeInv, Clocked, SynchMode, SynchSee
  <2>3. TicksPerSee(srv_view) >= 2 /\ TickPeriod = 3
    BY <1>3, <2>2 DEF TicksPerSee, Widths, TickPeriod, UnitsPerTick
  <2>4. Age >= 6
    BY <1>1, <1>5, <1>7, <2>3
  <2> QED
    BY <1>1, <1>6, <1>8, <2>1, <2>4
<1>10. /\ Legal(ss.last_timing, srv_view.width)
       /\ ss.cycles_till_see = gap - cycles
       /\ decided => ss.cycles_till_see > 0
  BY <1>2, <1>3, <1>9 DEF SeenAgo
<1>11. /\ IF ss.synch_see THEN next = "SYNC" ELSE next \in SynchTimings
       /\ Arrives(next, srv_view.width) /\ PhaseOf(next) \in 0 .. 4
       /\ TickPeriod * TicksPerSee(srv_view) = 8 * gap + PhaseOf(next) - PhaseOf(ss.last_timing)
  BY <1>3, <1>10, NextSee
<1>12. gap \in 1 .. 3
  BY <1>3, GapType
<1> HIDE DEF next, gap
<1>13. TickPeriod * TicksPerSee(srv_view) = Age
  <2>1. CASE TickPeriod = 3
    BY <1>1, <1>5, <1>7, <2>1
  <2>2. CASE TickPeriod = 8
    BY <1>1, <1>5, <1>7, <2>2
  <2> QED
    BY <1>7, <2>1, <2>2
<1>14. cycles = gap /\ phase = PhaseOf(next)
  <2>1. 8 * cycles + phase = 8 * gap + PhaseOf(next)
    BY <1>1, <1>6, <1>8, <1>11, <1>12, <1>13
  <2> QED
    BY <1>1, <1>11, <1>12, <2>1
<1>15. ss.cycles_till_see = 0 /\ ~decided
  BY <1>10, <1>12, <1>14
<1>16. ss.last_see_time # now
  BY <1>1, <1>2, <1>12, <1>14 DEF SeenAgo
<1> QED
  BY <1>11, <1>14, <1>15, <1>16 DEF next

\* The see of a player with an estimate confirms it.
LEMMA SeeTimed ==
    ASSUME TypeOK, TypeOK', SeeInv, ReceiveSee, lost = 0, lost' = 0, Estimates(ss)
    PROVE  Timed' /\ Estimates(ss') /\ ss'.synch_see = ss.synch_see
<1> DEFINE u == UpdateBySee(ss, now, self_view)
           next == GetNextTiming(ss, srv_view)
<1>1. /\ now' = now /\ phase' = phase /\ config' = config
      /\ clock' = clock /\ due /\ ~due' /\ IsTick(clock) /\ SeeIsDue /\ srv_cnt' = 0
  BY SeeFrame
<1>2. /\ ss.cycles_till_see = 0 /\ ss.last_see_time # now /\ ~decided
      /\ phase = PhaseOf(next) /\ phase <= 4
      /\ Arrives(next, srv_view.width)
      /\ IF ss.synch_see THEN next = "SYNC" ELSE next \in SynchTimings
  BY <1>1, ExpectedSee
<1>3. /\ self_view = srv_view /\ self_view.quality = "HIGH" /\ ss.current_time = now
      /\ self_view \in Views /\ ss \in SeeStates(Times) /\ now \in Times
  BY ClockParts DEF SeeInv, Timed, TypeOK, Times, Cycles
<1>4. /\ u \in SeeStates(Times) /\ u.current_time = now /\ u.last_see_time = now
      /\ u.synch_see = ss.synch_see /\ u.last_timing = next /\ u.cycles_till_see = 0
  BY <1>2, <1>3, SeeExpected
<1>5. /\ AfterSee \in Outcomes /\ Told(AfterSee) /\ AfterSee.ss = u /\ AfterSee.view = self_view
  BY AfterSeeParts
<1> HIDE DEF u, next
<1>6. Estimates(u) /\ IsSynch(u)
  BY <1>2, <1>4 DEF Estimates, IsSynch
<1>7. ASSUME ss'.synch_see = ss.synch_see PROVE Age' = phase - PhaseOf(u.last_timing)
  <2>1. Age' = 0
    BY <1>1, <1>7, AgeAtTick
  <2>2. phase \in 0 .. 7
    BY ClockParts
  <2> QED
    BY <1>2, <1>4, <2>1, <2>2
<1>8. CASE SynchMode
  <2>1. Commit(AfterSee) /\ decided' = decided
    BY <1>8, SeeFrame
  <2>2. ss' = u /\ self_view' = self_view /\ srv_view' = srv_view
    BY <1>3, <1>5, <2>1, CommitTold
  <2>3. SeenAgo(0)'
    <3>1. Age' = 8 * 0 + phase' - PhaseOf(ss'.last_timing)
      BY <1>1, <1>2, <1>4, <1>7, <2>2, ClockParts
    <3>2. ss'.last_see_time = IF now' >= 0 THEN now' - 0 ELSE now' + 9 - 0
      BY <1>1, <1>4, <2>2, ClockParts
    <3>3. ~decided' /\ SynchMode' /\ phase' <= ThinkPhase /\ Arrives(ss'.last_timing, self_view'.width)
      BY <1>1, <1>2, <1>3, <1>4, <1>8, <2>1, <2>2 DEF SynchMode, ThinkPhase
    <3> QED
      BY <3>1, <3>2, <3>3 DEF SeenAgo
  <2>4. srv_cnt' < TicksPerSee(srv_view)'
    <3>1. TicksPerSee(srv_view)' = TicksPerSee(srv_view)
      <4>1. ss'.synch_see = ss.synch_see
        BY <1>4, <2>2
      <4> QED
        BY <2>2, <4>1 DEF TicksPerSee
    <3>2. TicksPerSee(srv_view) \in Nat /\ srv_cnt < TicksPerSee(srv_view) /\ srv_cnt \in Nat
      BY FullIntervalType DEF SeeInv, Timed, TicksPerSee, Widths, Views, TypeOK
    <3> QED
      BY <1>1, <3>1, <3>2
  <2>5. Timed'
    BY <1>1, <1>3, <1>4, <2>2, <2>3, <2>4 DEF Timed
  <2> QED
    BY <1>4, <1>6, <2>2, <2>5
<1>9. CASE ~SynchMode
  <2>1. decided' /\ \E d \in Decisions(AfterSee) : Commit(d)
    BY <1>2, <1>5, <1>6, <1>9, SeeFrame, AdjustSynched
  <2>2. PICK d \in Decisions(AfterSee) : Commit(d)
    BY <2>1
  <2>3. d \in DoViewAction(AfterSee)
    BY <1>4, <1>5, <1>9, <2>2, DecisionsAre DEF MissedSee
  <2>4. /\ Recounted(u, d.ss) /\ d \in Outcomes /\ d.view.quality = "HIGH" /\ Told(d)
        /\ Legal(d.ss.last_timing, d.view.width)
        /\ d.ss.cycles_till_see = Gap(d.ss.last_timing, d.view.width)
    BY <1>2, <1>3, <1>4, <1>5, <1>6, <2>3, SynchedView
  <2>5. ss' = d.ss /\ d.ss.synch_see = u.synch_see /\ d.ss.last_timing = u.last_timing
    BY <1>3, <2>2, <2>4, CommitTold DEF Recounted
  <2>6. ss'.synch_see = ss.synch_see
    BY <1>4, <2>5
  <2>7. Timed' /\ Estimates(ss')
    BY <1>1, <1>3, <1>4, <1>6, <1>7, <2>1, <2>2, <2>4, <2>5, <2>6, TimedNow
  <2> QED
    BY <2>6, <2>7
<1> QED
  BY <1>8, <1>9

\* The see of a player without an estimate, on the server's own timer, is counted.
LEMMA CountedSee ==
    ASSUME TypeOK, SeeInv, ss.last_timing = "NOSYNCH", ~ss.synch_see
    PROVE  LET u == UpdateBySee(ss, now, self_view)
           IN  /\ u.current_time = now /\ u.last_see_time = now
               /\ ~u.synch_see /\ u.last_timing = "NOSYNCH"
               /\ u.see_count = IF ss.last_see_time = now THEN ss.see_count + 1 ELSE 1
               /\ \A i \in HistoryIndex : u.history[i] = ss.history[i]
               /\ ss.cycles_till_see > 0 => u.cycles_till_see > 0
<1> DEFINE u == UpdateBySee(ss, now, self_view)
<1>1. now \in Times /\ ss \in SeeStates(Times) /\ self_view \in Views
  BY ClockParts DEF Times, Cycles, TypeOK
<1>2. u = CountSee(ss, now)
  BY <1>1, SeeUnsynched
<1> HIDE DEF u
<1>3. /\ u.last_see_time = now /\ u.synch_see = ss.synch_see
      /\ ss.last_see_time # now => u.current_time = now
      /\ ss.last_see_time = now => u.current_time = ss.current_time
      /\ u.see_count = IF ss.last_see_time = now THEN ss.see_count + 1 ELSE 1
      /\ u.history = IF now \in {ss.last_see_time, ss.current_time}
                     THEN ss.history ELSE Rotated(ss)
      /\ u.cycles_till_see = IF now \in {ss.last_see_time, ss.current_time}
                             THEN ss.cycles_till_see ELSE CountedDown(ss.cycles_till_see)
      /\ u.last_timing = IF ss.last_see_time = now /\ IsSynch(ss)
                         THEN "NOSYNCH" ELSE ss.last_timing
  BY <1>1, <1>2, CountSeeParts
<1>4. ss.current_time = now \/ Joining
  BY DEF SeeInv, Clocked
<1>5. CASE ss.current_time = now
  BY <1>3, <1>5 DEF u
<1>6. CASE Joining /\ ss.current_time # now
  <2>1. now \in 0 .. 8 /\ ss.last_see_time # now /\ ss.cycles_till_see \in Nat
    BY <1>1, <1>6, ClockParts DEF Joining, SeeStates
  <2>2. u.history = Rotated(ss) /\ u.cycles_till_see = CountedDown(ss.cycles_till_see)
    BY <1>3, <1>6, <2>1
  <2>3. \A i \in HistoryIndex : u.history[i] = ss.history[i]
    <3> TAKE i \in HistoryIndex
    <3>1. Rotated(ss)[i] = 0
      BY <1>6 DEF Rotated, Joining, HistoryIndex
    <3> QED
      BY <1>6, <2>2, <3>1 DEF Joining
  <2>4. u.cycles_till_see > 0
    BY <1>6, <2>1, <2>2 DEF CountedDown, Joining
  <2>5. u.current_time = now /\ u.last_timing = "NOSYNCH"
    BY <1>3, <2>1
  <2> QED
    BY <1>3, <2>3, <2>4, <2>5 DEF u
<1> QED
  BY <1>4, <1>5, <1>6

\* The player that counts a see keeps to its count.
LEMMA CountGrows ==
    ASSUME TypeOK, TypeOK', SeeInv, ss.last_timing = "NOSYNCH", ~ss.synch_see, ~ss'.synch_see,
           due, ~due', IsTick(clock), clock' = clock, now' = now, srv_cnt' = 0,
           Counted, Recounted(UpdateBySee(ss, now, self_view), ss')
    PROVE  /\ Counted'
           /\ /\ AllSeen /\ self_view' = View("NARROW", "LOW")
              /\ ~IsSynchedSeeCountNormalMode(ss)
              => AllSeen'
<1>1. /\ ss'.last_see_time = now
      /\ ss'.see_count = IF ss.last_see_time = now THEN ss.see_count + 1 ELSE 1
      /\ \A i \in HistoryIndex : ss'.history[i] = ss.history[i]
  BY CountedSee DEF Recounted
<1>2. Served \in Nat /\ Served' = Served + 1
  BY ServedAtTick
<1>3. ss.see_count \in Nat /\ srv_cnt \in Nat
  BY DEF TypeOK, SeeStates
<1>4. Counted'
  <2>1. ss'.see_count + srv_cnt' <= Served'
    <3>1. CASE ss.see_count > 0
      BY <1>1, <1>2, <1>3, <3>1 DEF Counted
    <3>2. CASE ss.see_count = 0
      BY <1>1, <1>2, <1>3, <3>2
    <3> QED
      BY <1>3, <3>1, <3>2
  <2>2. \A i \in HistoryIndex : ss'.history[i] <= Ticks(now' + 8 - i)
    BY <1>1 DEF Counted
  <2> QED
    BY <1>1, <2>1, <2>2 DEF Counted
<1>5. ASSUME AllSeen, self_view' = View("NARROW", "LOW"), ~IsSynchedSeeCountNormalMode(ss)
      PROVE  AllSeen'
  <2>1. ss'.history[0] = ss.history[0] /\ ss'.history[1] = ss.history[1]
    BY <1>1 DEF HistoryIndex
  <2>2. ASSUME ss.history[0] = 3 PROVE ss'.see_count = Served'
    <3>1. ss.see_count = Served
      BY <1>5, <2>2 DEF AllSeen
    <3>2. CASE ss.see_count > 0
      BY <1>1, <1>2, <3>1, <3>2 DEF Counted
    <3>3. CASE ss.see_count = 0
      BY <1>1, <1>2, <3>1, <3>3
    <3> QED
      BY <1>3, <3>2, <3>3
  <2>3. ss'.history[1] = 3 => ss'.history[0] = Ticks(now' + 8)
    BY <1>5, <2>1 DEF AllSeen
  <2>4. ~IsSynchedSeeCountNormalMode(ss')
    BY <1>5, <2>1 DEF IsSynchedSeeCountNormalMode
  <2> QED
    BY <1>5, <2>1, <2>2, <2>3, <2>4 DEF AllSeen
<1> QED
  BY <1>4, <1>5

\* The see that completes the pattern starts the estimate "0_00".
LEMMA SeeDetects ==
    ASSUME TypeOK, TypeOK', SeeInv, ReceiveSee, lost = 0, lost' = 0,
           ~Estimates(ss), config = "normal", IsSynchedSeeCountNormalMode(ss)
    PROVE  Timed' /\ Estimates(ss') /\ ~ss'.synch_see
<1> DEFINE view == View("NORMAL", "HIGH")
           q == SendView(WithTiming(AfterSee, "0_00"), view)
<1>1. /\ now' = now /\ phase' = phase /\ clock' = clock /\ due /\ ~due' /\ IsTick(clock)
      /\ srv_cnt' = 0
  BY SeeFrame
<1>2. /\ ss.last_timing = "NOSYNCH" /\ ~ss.synch_see /\ self_view = srv_view
      /\ ~SynchMode /\ phase = 0
  BY DEF SeeInv, Clocked, Plausible, SynchSee, SynchMode, AllSeen
<1>3. /\ AfterSee \in Outcomes /\ AfterSee.ss.current_time = now
      /\ AfterSee.ss.last_see_time = now /\ ~AfterSee.ss.synch_see
      /\ AfterSee.ss.last_timing = "NOSYNCH"
      /\ IsSynchedSeeCountNormalMode(AfterSee.ss)
  BY <1>2, CountedSee, AfterSeeParts DEF IsSynchedSeeCountNormalMode, HistoryIndex
<1>4. AdjustNormalMode(AfterSee) = q
  BY <1>3 DEF AdjustNormalMode, IsSynch, SynchTimings
<1>5. /\ view \in Views /\ view.width = "NORMAL" /\ view.quality = "HIGH"
      /\ Legal("0_00", view.width) /\ Arrives("0_00", view.width) /\ "0_00" \in SynchTimings
  BY ViewType DEF View, Widths, Qualities, Legal, Arrives, SynchTimings
<1>6. /\ q \in Outcomes /\ Told(q) /\ q.view = view
      /\ Estimates(q.ss) /\ ~q.ss.synch_see /\ q.ss.last_timing = "0_00"
      /\ q.ss.current_time = now /\ q.ss.last_see_time = now
      /\ q.ss.cycles_till_see = Gap("0_00", view.width)
  BY <1>3, <1>5, Detects
<1>7. q.ss \in SeeStates(Times)
  BY <1>6 DEF Outcomes
<1> HIDE DEF q, view
<1>8. PICK o \in Outcomes :
        /\ Commit(o) /\ Told(o) /\ o.view.quality = "HIGH"
        /\ Recounted(q.ss, o.ss) /\ Legal("0_00", o.view.width)
        /\ o.ss.cycles_till_see = Gap("0_00", o.view.width)
        /\ decided'
  <2>1. CASE decided
    <3>1. Commit(q) /\ decided'
      BY <1>2, <1>4, <2>1, SeeFrame
    <3> QED
      BY <1>5, <1>6, <1>7, <3>1, RecountedRefl
  <2>2. CASE ~decided
    <3>1. decided' /\ \E d \in Decisions(q) : Commit(d)
      BY <1>2, <1>4, <2>2, SeeFrame
    <3>2. PICK d \in Decisions(q) : Commit(d)
      BY <3>1
    <3>3. d \in DoViewAction(q)
      BY <1>2, <1>6, <3>2, DecisionsAre DEF MissedSee
    <3>4. /\ Recounted(q.ss, d.ss) /\ d \in Outcomes /\ d.view.quality = "HIGH" /\ Told(d)
          /\ Legal(d.ss.last_timing, d.view.width)
          /\ d.ss.cycles_till_see = Gap(d.ss.last_timing, d.view.width)
      BY <1>5, <1>6, <3>3, SynchedView
    <3>5. d.ss.last_timing = "0_00"
      BY <1>6, <3>4 DEF Recounted
    <3> QED
      BY <3>1, <3>2, <3>4, <3>5
  <2> QED
    BY <2>1, <2>2
<1>9. ss' = o.ss /\ ~o.ss.synch_see
  BY <1>6, <1>8, CommitTold DEF Recounted
<1>10. Age' = phase - PhaseOf(q.ss.last_timing)
  <2>1. ss.synch_see \in BOOLEAN /\ ss'.synch_see \in BOOLEAN
    BY DEF TypeOK, SeeStates
  <2>2. ss'.synch_see = ss.synch_see
    BY <1>2, <1>9, <2>1
  <2>3. Age' = 0
    BY <1>1, <2>2, AgeAtTick
  <2> QED
    BY <1>2, <1>6, <2>3 DEF PhaseOf
<1>11. Timed' /\ Estimates(ss')
  BY <1>1, <1>2, <1>6, <1>7, <1>8, <1>10, TimedNow
<1> QED
  BY <1>9, <1>11

\* The see of a player without an estimate, on the server's own timer.
LEMMA SeeUntimed ==
    ASSUME TypeOK, TypeOK', SeeInv, ReceiveSee, lost = 0, lost' = 0,
           ~Estimates(ss), ~SynchSee
    PROVE  /\ ~ss'.synch_see /\ ss'.current_time = now /\ Plausible(ss')
           /\ self_view' = srv_view'
           /\ Estimates(ss') => Timed'
           /\ ~Estimates(ss') => Counted'
           /\ ~Estimates(ss') /\ config = "normal" => AllSeen'
<1> DEFINE u == UpdateBySee(ss, now, self_view)
<1>1. /\ now' = now /\ phase' = phase /\ mode' = mode /\ clock' = clock /\ due /\ ~due'
      /\ IsTick(clock) /\ srv_cnt' = 0
  BY SeeFrame
<1>2. /\ ss.last_timing = "NOSYNCH" /\ ~ss.synch_see /\ self_view = srv_view /\ Counted
      /\ config = "normal" => AllSeen /\ mode = "Other"
  BY DEF SeeInv, Clocked, Plausible
<1>3. /\ u.current_time = now /\ u.last_see_time = now /\ ~u.synch_see
      /\ u.last_timing = "NOSYNCH"
      /\ \A i \in HistoryIndex : u.history[i] = ss.history[i]
  BY <1>2, CountedSee
<1>4. /\ AfterSee \in Outcomes /\ Told(AfterSee) /\ AfterSee.ss = u /\ AfterSee.view = self_view
      /\ u \in SeeStates(Times)
  BY AfterSeeParts
<1> HIDE DEF u
<1>5. CASE config = "normal" /\ IsSynchedSeeCountNormalMode(ss)
  <2>1. Timed' /\ Estimates(ss') /\ ~ss'.synch_see
    BY <1>5, SeeDetects
  <2> QED
    BY <1>1, <1>5, <2>1 DEF Timed, Plausible
<1>6. CASE ~(config = "normal" /\ IsSynchedSeeCountNormalMode(ss))
  <2>1. PICK o \in Outcomes :
          /\ Commit(o) /\ Told(o) /\ Recounted(u, o.ss)
          /\ config = "normal" => o.view = View("NARROW", "LOW")
    <3>1. CASE SynchMode
      <4>1. Commit(AfterSee) /\ config # "normal"
        BY <3>1, SeeFrame DEF SynchMode
      <4> QED
        BY <1>4, <4>1, RecountedRefl
    <3>2. CASE ~SynchMode
      <4> DEFINE q == AdjustNormalMode(AfterSee)
      <4>1. config = "normal" /\ mode # "PlayOn"
        BY <1>2, <3>2, SeeSyncAssumption DEF TypeOK, SynchMode, SynchSee
      <4>2. ~IsSynchedSeeCountNormalMode(u)
        BY <1>3, <1>6, <4>1 DEF IsSynchedSeeCountNormalMode, HistoryIndex
      <4>3. Adjusted(AfterSee, q) /\ q.view = View("NARROW", "LOW")
        BY <1>3, <1>4, <4>1, <4>2, AdjustUnsynched
      <4>4. q \in Outcomes /\ Recounted(u, q.ss) /\ Told(q)
        BY <1>4, <4>3 DEF Adjusted
      <4>5. q.ss.last_timing = "NOSYNCH" /\ ~q.ss.synch_see
        BY <1>3, <4>4 DEF Recounted
      <4>6. Plausible(q.ss) /\ ~IsSynch(q.ss)
        BY <4>5 DEF Plausible, IsSynch, SynchTimings
      <4> HIDE DEF q
      <4>7. CASE decided
        <5>1. Commit(q)
          BY <3>2, <4>7, SeeFrame DEF q
        <5> QED
          BY <4>3, <4>4, <5>1
      <4>8. CASE ~decided
        <5>1. PICK d \in Decisions(q) : Commit(d)
          BY <3>2, <4>8, SeeFrame DEF q
        <5>2. d \in DoViewAction(q)
          BY <3>2, <4>6, <5>1, DecisionsAre DEF MissedSee
        <5>3. Recounted(q.ss, d.ss) /\ d \in Outcomes /\ Told(d) /\ d.view = q.view
          BY <4>1, <4>4, <4>6, <5>2, AnyView
        <5>4. Recounted(u, d.ss)
          BY <4>4, <5>3 DEF Recounted
        <5> QED
          BY <4>3, <5>1, <5>3, <5>4
      <4> QED
        BY <4>7, <4>8
    <3> QED
      BY <3>1, <3>2
  <2>2. ss' = o.ss /\ self_view' = o.view /\ srv_view' = o.view
    BY <1>2, <2>1, CommitTold
  <2>3. Recounted(u, ss') /\ ~ss'.synch_see /\ ss'.last_timing = "NOSYNCH" /\ ss'.current_time = now
    BY <1>3, <2>1, <2>2 DEF Recounted
  <2>4. Counted' /\ (config = "normal" => AllSeen')
    BY <1>1, <1>2, <1>6, <2>1, <2>2, <2>3, CountGrows DEF u
  <2>5. ~Estimates(ss') /\ Plausible(ss')
    BY <2>3 DEF Estimates, Plausible, SynchTimings
  <2> QED
    BY <2>2, <2>3, <2>4, <2>5
<1> QED
  BY <1>5, <1>6

\* The see of a player that synch_see was granted: in high quality it starts the
\* estimate, in the low quality of before it counts for nothing.
LEMMA SeeSynched ==
    ASSUME TypeOK, TypeOK', SeeInv, ReceiveSee, lost = 0, lost' = 0,
           ~Estimates(ss), SynchSee, ss.synch_see
    PROVE  /\ ss'.synch_see /\ ss'.current_time = now /\ Plausible(ss')
           /\ ~decided' => self_view' = srv_view'
           /\ Estimates(ss') => Timed'
           /\ Asked'
<1> DEFINE u == UpdateBySee(ss, now, self_view)
           c == CountSee(ss, now)
<1>1. /\ now' = now /\ phase' = phase /\ clock' = clock /\ due /\ ~due' /\ IsTick(clock)
      /\ srv_cnt' = 0
  BY SeeFrame
<1>2. /\ Plausible(ss) /\ Asked /\ ~SynchMode
      /\ ss.current_time = now \/ Joining
      /\ ~decided => self_view = srv_view
  BY DEF SeeInv, Clocked, SynchSee, SynchMode
<1>3. phase = 2
  BY <1>1, SynchTick
<1>4. /\ now \in Times /\ ss \in SeeStates(Times) /\ self_view \in Views /\ srv_view \in Views
      /\ ss.current_time = now \/ ss.last_see_time # now
  BY <1>2, ClockParts DEF Times, Cycles, TypeOK, Joining
<1>5. /\ AfterSee \in Outcomes /\ Told(AfterSee) /\ AfterSee.sent = <<>>
      /\ AfterSee.ss = u /\ AfterSee.view = self_view /\ u \in SeeStates(Times)
  BY AfterSeeParts
<1>6. /\ u.current_time = now /\ u.last_see_time = now /\ u.synch_see
      /\ u.last_timing = IF self_view.quality = "LOW" THEN "NOSYNCH" ELSE "SYNC"
      /\ u.cycles_till_see = IF self_view.quality # "LOW" /\ c.cycles_till_see > 0
                             THEN Gap("SYNC", self_view.width) ELSE c.cycles_till_see
  BY <1>2, <1>4, SeeSynchronous
<1>7. decided => c.cycles_till_see > 0
  <2> SUFFICES ASSUME decided PROVE c.cycles_till_see > 0
    OBVIOUS
  <2>1. ss.cycles_till_see > 0
    BY <1>1, <1>2 DEF Asked
  <2>2. c.cycles_till_see = IF now \in {ss.last_see_time, ss.current_time}
                            THEN ss.cycles_till_see ELSE CountedDown(ss.cycles_till_see)
    BY <1>4, CountSeeParts
  <2>3. CASE ss.current_time = now
    BY <2>1, <2>2, <2>3
  <2>4. CASE Joining
    <3>1. CountedDown(ss.cycles_till_see) > 0
      BY <1>4, <2>4 DEF Joining, CountedDown, SeeStates
    <3> QED
      BY <2>1, <2>2, <3>1
  <2> QED
    BY <1>2, <2>3, <2>4
<1>8. IsSynch(u) /\ AdjustNormalMode(AfterSee) = AfterSee
  BY <1>5, <1>6, AdjustSynched DEF IsSynch
<1> HIDE DEF u, c
<1>9. ASSUME NEW o \in Outcomes, Commit(o), Told(o), o.view.quality = "HIGH",
             Recounted(u, o.ss), u.last_timing = "SYNC", self_view = srv_view, decided',
             o.ss.cycles_till_see = Gap("SYNC", o.view.width)
      PROVE  Timed' /\ Estimates(ss') /\ ss'.synch_see
  <2>1. ss' = o.ss /\ o.ss.synch_see = u.synch_see
    BY <1>9, CommitTold DEF Recounted
  <2>2. ss'.synch_see
    BY <1>6, <2>1
  <2>3. Age' = phase - PhaseOf(u.last_timing)
    <3>1. ss.synch_see \in BOOLEAN /\ ss'.synch_see \in BOOLEAN
      BY DEF TypeOK, SeeStates
    <3>2. ss'.synch_see = ss.synch_see
      BY <2>2, <3>1
    <3>3. Age' = 0
      BY <1>1, <3>2, AgeAtTick
    <3> QED
      BY <1>3, <1>9, <3>3 DEF PhaseOf, SynchSeePhase
  <2>4. Estimates(u) /\ Legal(u.last_timing, o.view.width)
    BY <1>6, <1>9 DEF Estimates, Legal, Arrives
  <2>5. o.ss.cycles_till_see = Gap(u.last_timing, o.view.width) /\ srv_cnt' < 2 /\ srv_cnt' = 0
    BY <1>1, <1>9
  <2>6. Timed' /\ Estimates(ss')
    BY <1>1, <1>5, <1>6, <1>9, <2>3, <2>4, <2>5, TimedNow
  <2> QED
    BY <2>2, <2>6
<1>10. ASSUME Timed', Estimates(ss'), ss'.synch_see
       PROVE  /\ ss'.synch_see /\ ss'.current_time = now /\ Plausible(ss')
              /\ ~decided' => self_view' = srv_view'
              /\ Estimates(ss') => Timed'
              /\ Asked'
  <2>1. ss'.cycles_till_see > 0 \/ ~decided'
    <3>1. PICK cycles \in 0 .. 3 : SeenAgo(cycles)'
      BY <1>10 DEF Timed
    <3> QED
      BY <3>1 DEF SeenAgo
  <2>2. Asked'
    BY <1>10, <2>1 DEF Timed, Asked
  <2> QED
    BY <1>1, <1>10, <2>2 DEF Timed, Plausible
<1>11. CASE decided /\ self_view.quality = "HIGH"
  <2>1. Commit(AfterSee) /\ decided'
    BY <1>2, <1>8, <1>11, SeeFrame
  <2>2. self_view = srv_view
    BY <1>2, <1>4, <1>11 DEF Asked, Views
  <2>3. u.last_timing = "SYNC" /\ u.cycles_till_see = Gap("SYNC", self_view.width)
    BY <1>6, <1>7, <1>11
  <2>4. Recounted(u, AfterSee.ss)
    BY <1>5, RecountedRefl
  <2>5. Timed' /\ Estimates(ss') /\ ss'.synch_see
    BY <1>5, <1>9, <1>11, <2>1, <2>2, <2>3, <2>4
  <2> QED
    BY <1>10, <2>5
<1>12. CASE decided /\ self_view.quality # "HIGH"
  <2>1. Commit(AfterSee) /\ decided'
    BY <1>2, <1>8, <1>12, SeeFrame
  <2>2. ss' = u /\ self_view' = self_view /\ srv_view' = srv_view
    BY <1>5, <2>1, CommitTold
  <2>3. self_view.quality = "LOW"
    BY <1>4, <1>12 DEF Views, Qualities
  <2>4. ss'.synch_see /\ ss'.last_timing = "NOSYNCH" /\ ss'.current_time = now
    BY <1>6, <2>2, <2>3
  <2>5. ~Estimates(ss') /\ Plausible(ss')
    BY <2>4 DEF Estimates, Plausible
  <2>6. ~(phase' < SynchSeePhase \/ due')
    BY <1>1, <1>3 DEF SynchSeePhase
  <2>7. Asked'
    BY <1>2, <2>2, <2>4, <2>6 DEF Asked
  <2> QED
    BY <2>1, <2>4, <2>5, <2>7
<1>13. CASE ~decided
  <2>1. decided' /\ \E d \in Decisions(AfterSee) : Commit(d)
    BY <1>2, <1>8, <1>13, SeeFrame
  <2>2. PICK d \in Decisions(AfterSee) : Commit(d)
    BY <2>1
  <2>3. self_view = srv_view /\ self_view.quality = "HIGH"
    BY <1>2, <1>13 DEF Asked
  <2>4. u.last_timing = "SYNC" /\ Estimates(u) /\ Arrives(u.last_timing, self_view.width)
    BY <1>6, <2>3 DEF Estimates, Arrives
  <2>5. d \in DoViewAction(AfterSee)
    BY <1>2, <1>5, <1>6, <2>2, DecisionsAre DEF MissedSee
  <2>6. /\ Recounted(u, d.ss) /\ d \in Outcomes /\ d.view.quality = "HIGH" /\ Told(d)
        /\ d.ss.cycles_till_see = Gap(d.ss.last_timing, d.view.width)
    BY <1>5, <1>6, <2>3, <2>4, <2>5, SynchedView
  <2>7. d.ss.cycles_till_see = Gap("SYNC", d.view.width)
    BY <2>4, <2>6 DEF Recounted
  <2>8. Timed' /\ Estimates(ss') /\ ss'.synch_see
    BY <1>9, <2>1, <2>2, <2>3, <2>4, <2>6, <2>7
  <2> QED
    BY <1>10, <2>8
<1> QED
  BY <1>11, <1>12, <1>13

\* The see of a player that waits for synch_see: of the server's own timer.
LEMMA SeeAsked ==
    ASSUME TypeOK, TypeOK', SeeInv, ReceiveSee, lost = 0, lost' = 0,
           SynchSee, ~ss.synch_see
    PROVE  /\ ~ss'.synch_see /\ ss'.current_time = now /\ Plausible(ss') /\ ~Estimates(ss')
           /\ self_view' = srv_view' /\ Asked'
<1> DEFINE u == UpdateBySee(ss, now, self_view)
           q == AdjustNormalMode(AfterSee)
<1>1. /\ ss.last_timing = "NOSYNCH" /\ decided /\ ss.cycles_till_see > 0 /\ ~SynchMode
      /\ self_view = srv_view
      /\ \A i \in HistoryIndex : ss.history[i] = 0
  BY DEF SeeInv, Clocked, Asked, SynchSee, SynchMode
<1>2. /\ u.current_time = now /\ ~u.synch_see /\ u.last_timing = "NOSYNCH"
      /\ u.cycles_till_see > 0
      /\ \A i \in HistoryIndex : u.history[i] = 0
  BY <1>1, CountedSee
<1>3. AfterSee \in Outcomes /\ Told(AfterSee) /\ AfterSee.ss = u
  BY AfterSeeParts
<1> HIDE DEF u
<1>4. ~IsSynchedSeeCountNormalMode(u)
  BY <1>2 DEF IsSynchedSeeCountNormalMode, HistoryIndex
<1>5. Adjusted(AfterSee, q)
  BY <1>2, <1>3, <1>4, AdjustUnsynched
<1>6. Commit(q) /\ decided'
  BY <1>1, SeeFrame
<1> HIDE DEF q
<1>7. /\ q \in Outcomes /\ Recounted(u, q.ss) /\ Told(q) /\ q.ss.cycles_till_see > 0
  BY <1>2, <1>3, <1>5 DEF Adjusted
<1>8. ss' = q.ss /\ self_view' = q.view /\ srv_view' = q.view
  BY <1>1, <1>6, <1>7, CommitTold
<1>9. /\ ~ss'.synch_see /\ ss'.current_time = now /\ ss'.last_timing = "NOSYNCH"
      /\ ss'.cycles_till_see > 0
      /\ \A i \in HistoryIndex : ss'.history[i] = 0
  BY <1>2, <1>7, <1>8 DEF Recounted
<1> QED
  BY <1>6, <1>8, <1>9 DEF Asked, Plausible, Estimates, SynchTimings

\* A see, with the adjustment and the decision it leads to.
LEMMA ReceiveSeeKeeps ==
    ASSUME TypeOK, TypeOK', SeeInv, ReceiveSee, lost = 0, lost' = 0
    PROVE  SeeInv'
<1>1. /\ now' = now /\ phase' = phase /\ config' = config /\ mode' = mode /\ ~due'
      /\ SynchMode => decided' = decided
  BY SeeFrame
<1>2. /\ ss'.current_time = now /\ Plausible(ss') /\ (ss'.synch_see => SynchSee)
      /\ ~ss'.synch_see \/ ~decided' => self_view' = srv_view'
      /\ Estimates(ss') => Timed'
  <2>1. CASE Estimates(ss)
    <3>1. ss'.current_time = now /\ self_view' = srv_view'
      BY <1>1, <2>1, SeeTimed DEF Timed
    <3>2. ss'.synch_see => SynchSee
      BY <2>1, SeeTimed DEF SeeInv, Clocked
    <3> QED
      BY <2>1, <3>1, <3>2, SeeTimed DEF Plausible
  <2>2. CASE ~Estimates(ss) /\ ~SynchSee
    BY <2>2, SeeUntimed
  <2>3. CASE ~Estimates(ss) /\ SynchSee /\ ss.synch_see
    BY <2>3, SeeSynched
  <2>4. CASE SynchSee /\ ~ss.synch_see
    BY <2>4, SeeAsked
  <2> QED
    BY <2>1, <2>2, <2>3, <2>4
<1>3. Clocked'
  <2>1. SynchMode' /\ phase' > ThinkPhase => decided'
    BY <1>1 DEF SeeInv, Clocked, SynchMode
  <2>2. ss'.synch_see => SynchSee'
    BY <1>1, <1>2 DEF SynchSee
  <2> QED
    BY <1>1, <1>2, <2>1, <2>2 DEF Clocked
<1>4. ~Estimates(ss') /\ ~SynchSee => Counted'
  BY SeeTimed, SeeUntimed
<1>5. ~Estimates(ss') /\ config = "normal" => AllSeen'
  BY SeeTimed, SeeUntimed DEF SynchSee
<1>6. SynchSee => Asked'
  <2> SUFFICES ASSUME SynchSee PROVE Asked'
    OBVIOUS
  <2>1. CASE Estimates(ss)
    <3>1. ss.synch_see
      BY <2>1 DEF SeeInv, Asked, Estimates, SynchTimings
    <3>2. Timed' /\ ss'.synch_see
      BY <2>1, <3>1, SeeTimed
    <3>3. PICK cycles \in 0 .. 3 : SeenAgo(cycles)'
      BY <3>2 DEF Timed
    <3>4. decided' => ss'.cycles_till_see > 0
      BY <3>3 DEF SeenAgo
    <3> QED
      BY <3>2, <3>4 DEF Timed, Asked
  <2>2. CASE ~Estimates(ss) /\ ss.synch_see
    BY <2>2, SeeSynched
  <2>3. CASE ~ss.synch_see
    BY <2>3, SeeAsked
  <2> QED
    BY <2>1, <2>2, <2>3
<1> QED
  BY <1>1, <1>2, <1>3, <1>4, <1>5, <1>6 DEF SeeInv, SynchSee

-----------------------------------------------------------------------------
(* The invariant, and what follows from it                                 *)

\* A player that joins has counted nothing.
LEMMA InitKeeps == Init => IInv
<1> SUFFICES ASSUME Init PROVE SeeInv
  BY DEF IInv
<1>1. clock \in 0 .. 71 /\ now = clock \div 8 /\ clock \div 8 < 3
  BY DEF Init, ClockPeriod, Cycles, UnitsPerCycle, now
<1>2. /\ ss.current_time = 8 /\ ss.last_see_time = 8 /\ ss.last_timing = "NOSYNCH"
      /\ ss.see_count = 0 /\ ss.cycles_till_see = 100 /\ ~ss.synch_see
      /\ \A i \in HistoryIndex : ss.history[i] = 0
  BY DEF Init, NoSeeState, Cycles
<1>3. Joining
  BY <1>1, <1>2 DEF Init, Joining
<1>4. Clocked
  BY <1>2, <1>3 DEF Init, Clocked, Plausible
<1>5. ~Estimates(ss)
  BY <1>2 DEF Estimates, SynchTimings
<1>6. Counted
  BY <1>2 DEF Counted, Ticks
<1>7. AllSeen
  BY <1>2 DEF AllSeen, IsSynchedSeeCountNormalMode, HistoryIndex
<1>8. Asked
  BY <1>2 DEF Asked, Init
<1> QED
  BY <1>4, <1>5, <1>6, <1>7, <1>8 DEF SeeInv, Init

\* The invariant is inductive.
LEMMA NextKeeps ==
    ASSUME TypeOK, TypeOK', IInv, [Next]_vars
    PROVE  IInv'
<1> SUFFICES ASSUME Undisturbed' PROVE SeeInv'
  BY DEF IInv
<1>1. SeeInv /\ lost = 0 /\ lost' = 0
  BY UndisturbedBefore DEF IInv
<1>2. CASE Pass
  BY <1>1, <1>2, PassKeeps
<1>3. CASE SenseBody
  BY <1>1, <1>3, SenseBodyKeeps
<1>4. CASE SkipTick
  BY <1>1, <1>4, SkipTickKeeps
<1>5. CASE LoseSee
  BY <1>1, <1>5 DEF LoseSee
<1>6. CASE Referee
  BY <1>1, <1>6, RefereeKeeps
<1>7. CASE GetSynchSee
  BY <1>1, <1>7, GetSynchSeeKeeps
<1>8. CASE ReceiveSee
  BY <1>1, <1>8, ReceiveSeeKeeps
<1>9. CASE Timeout \/ Think
  BY <1>1, <1>9, DecisionKeeps
<1>10. CASE UNCHANGED vars
  BY <1>1, <1>10, StutterKeeps
<1> QED
  BY <1>2, <1>3, <1>4, <1>5, <1>6, <1>7, <1>8, <1>9, <1>10 DEF Next

\* So it holds in every reachable state.
LEMMA Invariant == Spec => []IInv
BY TypeCorrect, InitKeeps, NextKeeps, PTL DEF Spec

\* The player relies on what the invariant calls an estimate.
LEMMA ReliesEstimates == Relies <=> Estimates(ss)
BY DEF Relies, Estimates, IsSynch

\* A player that relies on its estimate in an undisturbed run is right about the
\* phase of its last see within the server's cycle: SeeState::Timing is the truth.
THEOREM TimingIsExact == Spec => []TimingExact
<1>1. ASSUME TypeOK, IInv PROVE TimingExact
  <2> SUFFICES ASSUME Undisturbed, Relies
               PROVE  (LastSeeSent + ClockPeriod) % UnitsPerCycle = PhaseOf(ss.last_timing)
    BY DEF TimingExact
  <2>1. Timed /\ Estimates(ss)
    BY <1>1, ReliesEstimates DEF IInv, SeeInv
  <2>2. PICK cycles \in 0 .. 3 : Age = 8 * cycles + phase - PhaseOf(ss.last_timing)
    BY <2>1 DEF Timed, SeenAgo
  <2>3. /\ now \in 0 .. 8 /\ phase \in 0 .. 7 /\ clock = 8 * now + phase
        /\ PhaseOf(ss.last_timing) \in 0 .. 4
    BY <1>1, <2>1, ClockParts, EstimatedPhase
  <2>4. LastSeeSent = clock - Age
    <3> DEFINE since == IF due THEN TickPeriod ELSE (clock - TickOffset) % TickPeriod
               before == TickPeriod * srv_cnt
    <3>1. LastSeeSent = clock - since - before /\ Age = before + since
      BY DEF LastSeeSent, LastTick, Age
    <3>2. clock \in Int /\ since \in Int /\ before \in Int
      BY <1>1, <2>3 DEF TypeOK, TickPeriod, TickOffset, UnitsPerTick, UnitsPerCycle, SynchSeePhase
    <3> HIDE DEF since, before
    <3> QED
      BY <3>1, <3>2
  <2> QED
    BY <2>2, <2>3, <2>4 DEF ClockPeriod, Cycles, UnitsPerCycle
<1> QED
  BY <1>1, TypeCorrect, Invariant, PTL

\* Once a synchronised player has decided, and until the see of a new cycle, the
\* cycle of its next see is the one it counts down to.
LEMMA Predicted ==
    ASSUME TypeOK, Timed, Estimates(ss), decided \/ ss.last_see_time # now
    PROVE  CyclesToNextSee = ss.cycles_till_see
<1> DEFINE since == IF due THEN TickPeriod ELSE (clock - TickOffset) % TickPeriod
           missing == TicksPerSee(srv_view) - srv_cnt
           next == GetNextTiming(ss, srv_view)
           gap == Gap(ss.last_timing, srv_view.width)
<1>1. /\ now \in 0 .. 8 /\ phase \in 0 .. 7 /\ clock = 8 * now + phase /\ srv_cnt \in Nat
      /\ PhaseOf(ss.last_timing) \in 0 .. 4
  BY ClockParts, EstimatedPhase DEF TypeOK
<1>2. PICK cycles \in 0 .. 3 : SeenAgo(cycles)
  BY DEF Timed
<1>3. /\ self_view = srv_view /\ srv_view.quality = "HIGH" /\ srv_view.width \in Widths
      /\ srv_cnt < TicksPerSee(srv_view)
  BY DEF Timed, TypeOK, Views
<1>4. /\ Legal(ss.last_timing, srv_view.width)
      /\ ss.cycles_till_see = gap - cycles
  BY <1>1, <1>2, <1>3 DEF SeenAgo
<1>5. /\ PhaseOf(next) \in 0 .. 4
      /\ TickPeriod * TicksPerSee(srv_view) = 8 * gap + PhaseOf(next) - PhaseOf(ss.last_timing)
  BY <1>3, <1>4, NextSee
<1>6. gap \in 1 .. 3 /\ TicksPerSee(srv_view) \in Nat
  BY <1>3, GapType, FullIntervalType DEF TicksPerSee, Widths
<1>7. /\ TickPeriod \in {3, 8} /\ TickOffset \in {0, 2} /\ since \in Int
      /\ LastTick = clock - since /\ Age = TickPeriod * srv_cnt + since
  BY <1>1 DEF TickPeriod, TickOffset, UnitsPerTick, UnitsPerCycle, SynchSeePhase, LastTick, Age
<1>8. Age = 8 * cycles + phase - PhaseOf(ss.last_timing)
  BY <1>2 DEF SeenAgo
<1>9. CyclesToNextSee = ((LastTick + TickPeriod * missing) \div 8) - now
  <2>1. ~(missing < 1)
    BY <1>1, <1>3, <1>6
  <2> QED
    BY <2>1 DEF CyclesToNextSee, UnitsPerCycle
<1> HIDE DEF since, next, gap
<1>10. TickPeriod * missing = TickPeriod * TicksPerSee(srv_view) - TickPeriod * srv_cnt
  <2>1. CASE TickPeriod = 3
    BY <1>1, <1>6, <2>1
  <2>2. CASE TickPeriod = 8
    BY <1>1, <1>6, <2>2
  <2> QED
    BY <1>7, <2>1, <2>2
<1> DEFINE served == TickPeriod * srv_cnt
           ahead == TickPeriod * missing
           period == TickPeriod * TicksPerSee(srv_view)
<1>11. /\ served \in Int /\ ahead = period - served
       /\ period = 8 * gap + PhaseOf(next) - PhaseOf(ss.last_timing)
       /\ served + since = 8 * cycles + phase - PhaseOf(ss.last_timing)
  BY <1>1, <1>5, <1>7, <1>8, <1>10
<1> HIDE DEF served, ahead, period
<1>12. LastTick + ahead = 8 * (now + gap - cycles) + PhaseOf(next)
  BY <1>1, <1>5, <1>6, <1>7, <1>11
<1>13. (8 * (now + gap - cycles) + PhaseOf(next)) \div 8 = now + gap - cycles
  BY <1>1, <1>5, <1>6
<1> QED
  BY <1>1, <1>4, <1>6, <1>9, <1>12, <1>13 DEF ahead

\* In an undisturbed run a synchronised player predicts the cycle of its next see
\* exactly, once it has decided and until the see of a new cycle: it waits for no
\* see that cannot come.
THEOREM SeesForeseen == Spec => []SeeForeseen
<1>1. ASSUME TypeOK, IInv PROVE SeeForeseen
  <2> SUFFICES ASSUME Undisturbed, Relies, decided \/ ss.last_see_time # now
               PROVE  CyclesToNextSee = ss.cycles_till_see
    BY DEF SeeForeseen, Foreseen
  <2>1. Timed /\ Estimates(ss)
    BY <1>1, ReliesEstimates DEF IInv, SeeInv
  <2> QED
    BY <1>1, <2>1, Predicted
<1> QED
  BY <1>1, TypeCorrect, Invariant, PTL

\* A synchronised player that has decided expects no see in this cycle.
Answered == Undisturbed /\ Relies /\ decided => ss.cycles_till_see > 0

\* So it is in every reachable state.
LEMMA AlwaysAnswered == Spec => []Answered
<1>1. ASSUME TypeOK, IInv PROVE Answered
  <2> SUFFICES ASSUME Undisturbed, Relies, decided PROVE ss.cycles_till_see > 0
    BY DEF Answered
  <2>1. Timed
    BY <1>1, ReliesEstimates DEF IInv, SeeInv
  <2>2. PICK cycles \in 0 .. 3 : SeenAgo(cycles)
    BY <2>1 DEF Timed
  <2> QED
    BY <2>2 DEF SeenAgo
<1> QED
  BY <1>1, TypeCorrect, Invariant, PTL

\* No step of an undisturbed player gives up an estimate or the synchronous see.
LEMMA StepKeepsSynch ==
    ASSUME TypeOK, TypeOK', IInv, [Next]_vars, Undisturbed'
    PROVE  /\ Estimates(ss) => Estimates(ss')
           /\ ss.synch_see => ss'.synch_see
<1>1. SeeInv /\ lost = 0 /\ lost' = 0
  BY UndisturbedBefore DEF IInv
<1>2. CASE Pass \/ SkipTick \/ Referee \/ UNCHANGED vars
  BY <1>2 DEF Pass, SkipTick, Referee, vars, agent
<1>3. CASE SenseBody
  <2>1. ss' = SetNewCycle(ss, next_clock \div UnitsPerCycle) /\ ss \in SeeStates(Times)
    BY <1>3 DEF SenseBody, UpdateBySenseBody, TypeOK
  <2>2. ss'.last_timing = ss.last_timing /\ ss'.synch_see = ss.synch_see
    BY <2>1 DEF SetNewCycle, SeeStates
  <2> QED
    BY <2>2 DEF Estimates
<1>4. CASE LoseSee
  BY <1>1, <1>4 DEF LoseSee
<1>5. CASE GetSynchSee
  BY <1>1, <1>5 DEF GetSynchSee, SeeInv, Asked, Estimates, SynchTimings
<1>6. CASE ReceiveSee
  <2>1. Estimates(ss) => Estimates(ss') /\ ss'.synch_see = ss.synch_see
    BY <1>1, <1>6, SeeTimed
  <2>2. ASSUME ~Estimates(ss), ss.synch_see PROVE ss'.synch_see
    BY <1>1, <1>6, <2>2, SeeSynched DEF SeeInv, Clocked
  <2> QED
    BY <2>1, <2>2
<1>7. CASE Timeout \/ Think
  <2>1. Estimates(ss) => Estimates(ss') /\ ss'.synch_see = ss.synch_see
    BY <1>1, <1>7, DecisionTimed
  <2>2. ASSUME ~Estimates(ss), ss.synch_see PROVE ss'.synch_see
    BY <1>1, <1>7, <2>2, DecisionAsked DEF SeeInv, Clocked
  <2> QED
    BY <2>1, <2>2
<1> QED
  BY <1>2, <1>3, <1>4, <1>5, <1>6, <1>7 DEF Next

\* An undisturbed player that relies on its estimate decides after the see of the
\* cycle: at each decision the server's next see belongs to a later cycle.
THEOREM SeesBeforeDeciding == Spec => SeenBeforeDecision
<1>1. ASSUME TypeOK, TypeOK', IInv, SeeForeseen', Answered', [Next]_vars
      PROVE  [Undisturbed' /\ Relies /\ ~decided /\ decided' => CyclesToNextSee' > 0]_vars
  <2> SUFFICES ASSUME Undisturbed', Relies, decided' PROVE CyclesToNextSee' > 0
    OBVIOUS
  <2>1. Estimates(ss) /\ Estimates(ss')
    BY <1>1, StepKeepsSynch, ReliesEstimates
  <2>2. Relies'
    BY <2>1 DEF Relies, Estimates, IsSynch
  <2> QED
    BY <1>1, <2>2 DEF SeeForeseen, Foreseen, Answered
<1> QED
  BY <1>1, TypeCorrect, Invariant, SeesForeseen, AlwaysAnswered, PTL DEF Spec, SeenBeforeDecision

\* Whatever view the team's actions ask for, no step of an undisturbed player
\* gives up its synchronisation: doChangeView refuses the views that break it.
THEOREM StaysSynched == Spec => KeepsSynch
<1>1. ASSUME TypeOK, TypeOK', IInv, [Next]_vars
      PROVE  [Undisturbed' /\ IsSynch(ss) => IsSynch(ss')]_vars
  <2> SUFFICES ASSUME Undisturbed', IsSynch(ss) PROVE IsSynch(ss')
    OBVIOUS
  <2>1. CASE ss.synch_see
    BY <1>1, <2>1, StepKeepsSynch DEF IsSynch
  <2>2. CASE ~ss.synch_see
    <3>1. Estimates(ss)
      BY <2>2 DEF IsSynch, Estimates
    <3>2. Estimates(ss')
      BY <1>1, <3>1, StepKeepsSynch
    <3> QED
      BY <3>2 DEF IsSynch, Estimates
  <2> QED
    BY <2>1, <2>2
<1> QED
  BY <1>1, TypeCorrect, Invariant, PTL DEF Spec, KeepsSynch
=============================================================================
