------------------------------ MODULE SeeState ------------------------------
(***************************************************************************)
(* The see timing estimator of a player, lib/rcsc/player/see_state.cpp.    *)
(*                                                                         *)
(* A see state is a record; every method of the class is an operator that  *)
(* maps the state before the call to the state after it, so that a         *)
(* handler that calls several of them composes the operators.              *)
(*                                                                         *)
(* Left out: M_view_width and M_view_quality (written, and read only to    *)
(* word a log line) and M_synch_type (written; its one reader compares it  *)
(* with SYNCH_SYNC, which no statement assigns).  The five Timing values   *)
(* no statement assigns (37.5, 75, 12.5, 87.5, 62.5) are left out too.     *)
(***************************************************************************)
EXTENDS Integers

Widths == {"WIDE", "NORMAL", "NARROW"}
Qualities == {"HIGH", "LOW"}
Views == [width : Widths, quality : Qualities]

SynchTimings == {"0_00", "50_0", "22_5"}
Timings == SynchTimings \cup {"SYNC", "NOSYNCH"}

\* HISTORY_SIZE = 3: see_count_history[0..2].
HistoryIndex == 0 .. 2

SeeStates(times) ==
    [ current_time    : times,
      last_see_time   : times,
      last_timing     : Timings,
      see_count       : Nat,
      history         : [HistoryIndex -> Nat],
      cycles_till_see : Nat,
      synch_see       : BOOLEAN ]

NoSeeState(t0) ==
    [ current_time    |-> t0,
      last_see_time   |-> t0,
      last_timing     |-> "NOSYNCH",
      see_count       |-> 0,
      history         |-> [i \in HistoryIndex |-> 0],
      cycles_till_see |-> 100,
      synch_see       |-> FALSE ]

SetSynchSeeMode(s) == [s EXCEPT !.synch_see = TRUE]

SetLastSeeTiming(s, timing) == [s EXCEPT !.last_timing = timing]

IsSynch(s) == s.synch_see \/ s.last_timing \in SynchTimings

\* The view widths that keep a synchronised see on a known timing, and the
\* timing of the next see under each of them.
TimingAfter ==
    [ from : {"0_00"}, width : {"WIDE"},   to : {"0_00"} ] \cup
    [ from : {"0_00"}, width : {"NORMAL"}, to : {"50_0"} ] \cup
    [ from : {"50_0"}, width : {"WIDE"},   to : {"50_0"} ] \cup
    [ from : {"50_0"}, width : {"NORMAL"}, to : {"0_00"} ] \cup
    [ from : {"50_0"}, width : {"NARROW"}, to : {"22_5"} ] \cup
    [ from : {"22_5"}, width : {"WIDE"},   to : {"22_5"} ] \cup
    [ from : {"22_5"}, width : {"NARROW"}, to : {"0_00"} ]

\* Mutant: the timing taken to stay where it is.
GetNextTiming_Same(s, view) ==
    IF s.synch_see THEN "SYNC"
    ELSE IF view.quality = "LOW" THEN "NOSYNCH" ELSE s.last_timing

GetNextTiming(s, view) ==
    IF s.synch_see THEN "SYNC"
    ELSE LET kept == { r \in TimingAfter : /\ view.quality # "LOW"
                                           /\ r.from = s.last_timing
                                           /\ r.width = view.width }
         IN  IF kept = {} THEN "NOSYNCH" ELSE (CHOOSE r \in kept : TRUE).to

\* Cycles until the next see of a view width that is not cut short by the
\* offset of the last see within its cycle.
FullInterval(width) ==
    CASE width = "WIDE" -> 3 [] width = "NORMAL" -> 2 [] width = "NARROW" -> 1

\* The widths setViewMode calls illegal: it leaves the cycle count alone.
IllegalWidth(s, width) ==
    /\ ~s.synch_see
    /\ \/ s.last_timing = "0_00" /\ width = "NARROW"
       \/ s.last_timing = "22_5" /\ width = "NORMAL"

CyclesOf(s, width) ==
    IF ~s.synch_see /\ s.last_timing = "0_00" /\ width = "NORMAL"
    THEN 1
    ELSE FullInterval(width)

\* Mutant: the count restarts in cycles without a see.
SetViewMode_Always(s, view) ==
    IF IllegalWidth(s, view.width)
    THEN s
    ELSE [s EXCEPT !.cycles_till_see = CyclesOf(s, view.width)]

\* setViewMode does nothing before the see of the current cycle.
SetViewMode(s, view) ==
    IF s.last_see_time # s.current_time \/ IllegalWidth(s, view.width)
    THEN s
    ELSE [s EXCEPT !.cycles_till_see = CyclesOf(s, view.width)]

\* Mutant: the count of cycles runs below zero.
SetNewCycle_NoFloor(s, now) ==
    IF now = s.current_time
    THEN s
    ELSE [s EXCEPT !.current_time = now,
                   !.cycles_till_see = @ - 1,
                   !.history = [i \in HistoryIndex |->
                                  IF i = 0 THEN s.see_count ELSE @[i - 1]],
                   !.see_count = 0]

\* Mutant: the see counts of earlier cycles are not rotated.
SetNewCycle_NoRotate(s, now) ==
    IF now = s.current_time
    THEN s
    ELSE [s EXCEPT !.current_time = now,
                   !.cycles_till_see = IF @ > 0 THEN @ - 1 ELSE 0,
                   !.history = [@ EXCEPT ![0] = s.see_count],
                   !.see_count = 0]

SetNewCycle(s, now) ==
    IF now = s.current_time
    THEN s
    ELSE [s EXCEPT !.current_time = now,
                   !.cycles_till_see = IF @ > 0 THEN @ - 1 ELSE 0,
                   !.history = [i \in HistoryIndex |->
                                  IF i = 0 THEN s.see_count ELSE @[i - 1]],
                   !.see_count = 0]

UpdateBySenseBody(s, now) == SetNewCycle(s, now)

\* The counters of updateBySee: a second see of one cycle disproves a
\* synchronised estimate.
CountSee(s, now) ==
    IF now = s.last_see_time
    THEN [s EXCEPT !.see_count = @ + 1,
                   !.last_timing = IF IsSynch(s) THEN "NOSYNCH" ELSE @]
    ELSE [SetNewCycle(s, now) EXCEPT !.last_see_time = now,
                                     !.see_count = 1]

\* A synchronised see that came before the count reached zero restarts it.
RestartCount(s, view) ==
    IF s.cycles_till_see > 0
    THEN SetViewMode([s EXCEPT !.cycles_till_see = 0], view)
    ELSE s

UpdateBySee(s, now, view) ==
    LET c == CountSee(s, now)
        r == RestartCount(c, view)
    IN  IF view.quality = "LOW" THEN SetLastSeeTiming(c, "NOSYNCH")
        ELSE IF ~IsSynch(c) THEN c
        ELSE SetLastSeeTiming(r, GetNextTiming(r, view))

\* The count patterns of (NARROW, LOW) that betray the timing of a see.
IsSynchedSeeCountNormalMode(s) == s.history[0] = 2 /\ s.history[1] = 3

IsSynchedSeeCountSynchMode(s) ==
    /\ s.see_count = 2
    /\ s.history[0] = 3 /\ s.history[1] = 2 /\ s.history[2] = 3

\* Mutant: a normal view granted on every synchronised timing.
CanChangeViewTo_Normal(s, width, now) ==
    /\ now = s.last_see_time
    /\ width = "NARROW" => s.last_timing # "0_00"

CanChangeViewTo(s, width, now) ==
    /\ now = s.last_see_time
    /\ \/ s.synch_see
       \/ width = "WIDE"
       \/ width = "NARROW" /\ s.last_timing # "0_00"
       \/ width = "NORMAL" /\ s.last_timing \in {"0_00", "50_0"}
=============================================================================
