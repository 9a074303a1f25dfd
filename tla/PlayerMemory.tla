---------------------------- MODULE PlayerMemory ----------------------------
(***************************************************************************)
(* What a player remembers of the others (lib/rcsc/player/world_model.cpp, *)
(* player_object.cpp): each see is matched with the remembered players,    *)
(* what is heard corrects them, and what is not confirmed is forgotten.    *)
(*                                                                         *)
(* The players move on a line, with the one that remembers at 0.  It sees  *)
(* positions exactly, and takes a player that it does not see for standing *)
(* still: velocities, angles and noise are left out.                       *)
(***************************************************************************)
EXTENDS Integers, Sequences, FiniteSets, TLC, SequencesExt

CONSTANTS
    Mates, Opps,            \* uniform numbers of the other players
    OurGoalie, TheirGoalie,
    Places,                 \* distances from the player
    MatePlaces, OppPlaces, Area,    \* where ours, theirs and their goalie may be
    Views,                  \* the parts of the line that a see may show
    NumberFar,              \* up to here a uniform number is always seen
    SeeBuf,                 \* how far off a seen player may be remembered
    Bias,                   \* how much nearer a team mate must be to be preferred
    FarDist,                \* beyond, what is heard replaces what was seen
    GhostDist,              \* beyond, an unknown player is given a second look
    CountThr,               \* player_pos_count_thr
    GhostAge, GhostMax,     \* a ghost of this age is erased when detected once more
    MateMax, OppMax,        \* how many are remembered
    MaxTold,                \* bound on messages about players
    MaxVague                \* bound on players seen without their number

\* The distance that a search begins with.
Infinite == 100

ASSUME PlayerMemoryAssumption ==
    /\ 0 \notin Mates /\ 0 \notin Opps /\ IsFiniteSet(Mates) /\ IsFiniteSet(Opps)
    /\ TheirGoalie \in Opps
    /\ Places \subseteq Nat /\ MatePlaces \cup OppPlaces \cup Area \subseteq Places /\ Views \subseteq SUBSET Places
    /\ {NumberFar, SeeBuf, Bias, FarDist, GhostDist, MaxTold, MaxVague} \subseteq Nat
    /\ {CountThr, GhostAge, GhostMax, MateMax, OppMax} \subseteq Nat \ {0}
    /\ CountThr > 1 /\ CountThr + SeeBuf <= Infinite

Players == ({"our"} \X Mates) \cup ({"their"} \X Opps)
Lists == {"our", "their", "neutral"}
Unum_Unknown == 0

VARIABLES
    where,      \* the players' real places
    placing,    \* before the kick-off, or in the first cycles after a goal
    phase,      \* of the step: sensed, seen, decided
    memory,     \* M_teammates, M_opponents and M_unknown_players
    \* history
    seen,       \* the players of the step's see
    vague,      \* players seen without their number
    told,       \* messages about players
    named       \* one of them named an opponent

vars == <<where, placing, phase, memory, seen, vague, told, named>>

\* Their goalie stays in the penalty area.
Ground(p) ==
    IF p[1] = "our" THEN MatePlaces
    ELSE IF p[2] = TheirGoalie THEN Area ELSE OppPlaces

Placements == {w \in [Players -> Places] : \A p \in Players : w[p] \in Ground(p)}

Objects == [unum : {Unum_Unknown} \cup Mates \cup Opps,
            fresh : BOOLEAN,    \* the number was seen in this step
            goalie : BOOLEAN,
            pos : Places,
            count : 0 .. (CountThr - 1),
            ghost : 0 .. GhostMax]

TypeOK ==
    /\ where \in Placements
    /\ placing \in BOOLEAN
    /\ phase \in {"sensed", "seen", "decided"}
    /\ memory \in [Lists -> Seq(Objects)]
    /\ \A o \in ToSet(memory["neutral"]) : o.unum = Unum_Unknown /\ ~o.goalie
    /\ seen \subseteq Players
    /\ vague \in 0 .. MaxVague /\ told \in 0 .. MaxTold /\ named \in BOOLEAN

Init ==
    /\ where \in Placements
    /\ placing = TRUE /\ phase = "decided"
    /\ memory = [l \in Lists |-> <<>>]
    /\ seen = {} /\ vague = 0 /\ told = 0 /\ named = FALSE

Distance(a, b) == IF a < b THEN b - a ELSE a - b

\* The members of a list at the indices "among", in the order "earlier" of indices.
Arranged(list, among, earlier) ==
    [k \in 1 .. Cardinality(among) |->
        list[CHOOSE i \in among :
                Cardinality({j \in among : <<j, i>> \in earlier}) = k - 1]]

\* The order of the list itself.
Earlier(list) == {p \in (DOMAIN list) \X (DOMAIN list) : p[1] < p[2]}

Pick(list, among) == Arranged(list, among, Earlier(list))

-----------------------------------------------------------------------------
(* A new step                                                              *)

\* Mutant: an object may reach the threshold.
IsValid_Late(o) == o.count <= CountThr

IsValid(o) == o.count < CountThr

\* Mutant: the count is not raised.
Aged_Certain(o) == [o EXCEPT !.fresh = FALSE]

\* PlayerObject::update.  Counts past the threshold are not told apart.
Aged(o) == [o EXCEPT !.count = Min({@ + 1, CountThr}), !.fresh = FALSE]

\* WorldModel::update.
Updated(list) ==
    LET aged == [i \in DOMAIN list |-> Aged(list[i])]
    IN  IF placing THEN <<>> ELSE Pick(aged, {i \in DOMAIN aged : IsValid(aged[i])})

\* The players are placed anew, or one of them moves.
Step ==
    /\ phase = "decided" /\ phase' = "sensed"
    /\ \/ placing /\ where' \in Placements
       \/ \E p \in Players : \E x \in Ground(p) :
            /\ ~placing /\ Distance(x, where[p]) <= 1
            /\ where' = [where EXCEPT ![p] = x]
    /\ memory' = [l \in Lists |-> Updated(memory[l])]
    /\ placing' \in BOOLEAN
    /\ UNCHANGED <<seen, vague, told, named>>

-----------------------------------------------------------------------------
(* A see                                                                   *)

\* What is seen of a player: its number when it is near, else perhaps less.
Looks(p) ==
    IF where[p] <= NumberFar THEN {"number"} ELSE {"number", "side", "player"}

Seen(p, look) ==
    [list |-> IF look = "player" THEN "neutral" ELSE p[1],
     unum |-> IF look = "number" THEN p[2] ELSE Unum_Unknown,
     goalie |-> look = "number" /\ p[2] = (IF p[1] = "our" THEN OurGoalie ELSE TheirGoalie),
     pos |-> where[p], who |-> p]

\* Mutant: players without a number come first.
Rank_SideFirst(s) ==
    CASE s.list = "their" -> IF s.unum # Unum_Unknown THEN 2 ELSE 1
      [] s.list = "our" -> IF s.unum # Unum_Unknown THEN 4 ELSE 3
      [] OTHER -> 5

\* The search order: first the numbered opponents, at last the unknown players.
Rank(s) ==
    CASE s.list = "their" -> IF s.unum # Unum_Unknown THEN 1 ELSE 2
      [] s.list = "our" -> IF s.unum # Unum_Unknown THEN 3 ELSE 4
      [] OTHER -> 5

Orders(players) ==
    {order \in SetToSeqs(players) :
        \A i, j \in DOMAIN order : i < j => Rank(order[i]) <= Rank(order[j])}

\* PlayerObject::updateBySee and the constructor from a seen player.
NewObject(s) ==
    [unum |-> s.unum, fresh |-> s.unum # Unum_Unknown, goalie |-> s.goalie,
     pos |-> s.pos, count |-> 0, ghost |-> 0]

UpdateBySee(o, s) ==
    IF s.unum # Unum_Unknown THEN NewObject(s)
    ELSE [o EXCEPT !.pos = s.pos, !.count = 0, !.ghost = 0]

\* The nearest of the objects of a list at the indices "among", the first of
\* them; 0 if there is none.
Nearest(list, among, pos) ==
    IF among = {} THEN 0
    ELSE CHOOSE i \in among : \A j \in among :
            LET di == Distance(list[i].pos, pos)
                dj == Distance(list[j].pos, pos)
            IN  di < dj \/ (di = dj /\ i <= j)

DistanceTo(list, i, pos) == IF i = 0 THEN Infinite ELSE Distance(list[i].pos, pos)

\* Matching works on the old lists and the new ones.
Found(work, from, i, to, s) ==
    [old |-> [work.old EXCEPT ![from] = RemoveAt(@, i)],
     new |-> [work.new EXCEPT ![to] = Append(@, UpdateBySee(work.old[from][i], s))]]

NotFound(work, to, s) ==
    [old |-> work.old,
     new |-> [work.new EXCEPT ![to] = Append(@, NewObject(s))]]

\* Within reach of a seen player since it was last confirmed.
InReach(list, pos) ==
    {i \in DOMAIN list : Distance(list[i].pos, pos) <= list[i].count + SeeBuf}

CheckTeamPlayer(work, s) ==
    LET team == work.old[s.list]
        unknown == work.old["neutral"]
        same == {i \in DOMAIN team : s.unum # Unum_Unknown /\ team[i].unum = s.unum}
        free == {i \in InReach(team, s.pos) : Unum_Unknown \in {s.unum, team[i].unum}}
        t == Nearest(team, free, s.pos)
        u == Nearest(unknown, InReach(unknown, s.pos), s.pos)
        dt == DistanceTo(team, t, s.pos)
        du == DistanceTo(unknown, u, s.pos)
    IN  CASE same # {} -> Found(work, s.list, Min(same), s.list, s)
          [] same = {} /\ dt < du -> Found(work, s.list, t, s.list, s)
          [] same = {} /\ du < dt -> Found(work, "neutral", u, s.list, s)
          [] OTHER -> NotFound(work, s.list, s)

\* An opponent or an unknown player is preferred to a team mate that is a bit nearer.
CheckUnknownPlayer(work, s) ==
    LET at == [l \in Lists |-> Nearest(work.old[l], InReach(work.old[l], s.pos), s.pos)]
        d == [l \in Lists |-> DistanceTo(work.old[l], at[l], s.pos)]
        Preferred(l) == at[l] # 0 /\ d[l] < 2 * d["our"] + Bias
        list == IF Preferred("neutral") /\ d["neutral"] < d["their"] THEN "neutral"
                ELSE IF Preferred("their") /\ d["their"] < d["neutral"] THEN "their"
                ELSE IF at["our"] # 0 /\ d["our"] < Min({d["their"], d["neutral"]}) THEN "our"
                ELSE "none"
    IN  IF list = "none" THEN NotFound(work, "neutral", s)
        ELSE Found(work, list, at[list], list, s)

Check(work, s) ==
    IF s.list = "neutral" THEN CheckUnknownPlayer(work, s) ELSE CheckTeamPlayer(work, s)

\* localizePlayers: the seen players one after the other, and the merging of the new
\* objects with the old ones.
Work(order) ==
    LET work[k \in 0 .. Len(order)] ==
            IF k = 0 THEN [old |-> memory, new |-> [l \in Lists |-> <<>>]]
            ELSE Check(work[k - 1], order[k])
    IN  work

Matched(order) ==
    LET work == Work(order)[Len(order)]
    IN  [l \in Lists |-> work.old[l] \o work.new[l]]

\* Mutants: one more is kept; the least certain are kept.
Limit_More(n) == n + 1
Before_Least(o, p) == o.count >= p.count

Limit(n) == n

\* The order of PtrCountCmp: a goalie first, then the most certain.
Before(o, p) == o.goalie \/ (~p.goalie /\ o.count <= p.count)

\* The choices of "limit" members of a list: those that come first are kept.
Keep(list, limit) ==
    {Pick(list, kept) :
        kept \in {k \in SUBSET DOMAIN list :
            /\ Cardinality(k) = Min({Len(list), limit})
            /\ \A i \in k, j \in DOMAIN list \ k : Before(list[i], list[j])}}

\* The order of CountCmp, in a stable sort.
Fresher(list) ==
    {p \in (DOMAIN list) \X (DOMAIN list) :
        \/ list[p[1]].count < list[p[2]].count
        \/ list[p[1]].count = list[p[2]].count /\ p[1] < p[2]}

\* The unknown players, sorted, while there is room or they are seen now.
KeepUnknown(list, room) ==
    LET earlier == Fresher(list)
    IN  Arranged(list, {i \in DOMAIN list :
                            \/ list[i].count = 0
                            \/ Cardinality({j \in DOMAIN list : <<j, i>> \in earlier}) < room},
                 earlier)

\* With the team mates and opponents that are kept, and the unknown players there is
\* room for beside them.
Remembered(lists, our, their) ==
    [our |-> our, their |-> their,
     neutral |-> KeepUnknown(lists["neutral"], Max({0, MateMax + OppMax - Len(our) - Len(their)}))]

Limited(lists) ==
    {Remembered(lists, our, their) :
        our \in Keep(lists["our"], Limit(MateMax)), their \in Keep(lists["their"], Limit(OppMax))}

\* checkGhost: what should have been seen and was not.
Haunts(o, view) == o.count > 0 /\ o.pos \in view

IsErased(l, o) ==
    IF l = "neutral" THEN o.pos < GhostDist \/ o.ghost > 0
    ELSE o.unum = Unum_Unknown /\ o.count >= GhostAge /\ o.ghost >= GhostMax

CheckGhost(lists, view) ==
    [l \in Lists |->
        LET left == Pick(lists[l], {i \in DOMAIN lists[l] :
                            ~(Haunts(lists[l][i], view) /\ IsErased(l, lists[l][i]))})
        IN  [i \in DOMAIN left |->
                IF Haunts(left[i], view)
                THEN [left[i] EXCEPT !.ghost = Min({@ + 1, GhostMax})] ELSE left[i]]]

\* updateAfterSee, for a see of high quality of a player that knows where it is.
See(view) ==
    /\ phase = "sensed" /\ phase' = "seen"
    /\ seen' = {p \in Players : where[p] \in view}
    /\ \E look \in [seen' -> {"number", "side", "player"}] :
        /\ \A p \in seen' : look[p] \in Looks(p)
        /\ vague' = vague + Cardinality({p \in seen' : look[p] # "number"})
        /\ vague' <= MaxVague
        /\ \E order \in Orders({Seen(p, look[p]) : p \in seen'}) :
           \E lists \in Limited(Matched(order)) :
              memory' = CheckGhost(lists, view)
    /\ UNCHANGED <<where, placing, told, named>>

-----------------------------------------------------------------------------
(* What is heard                                                           *)

\* Mutant: what is heard always replaces what was seen.
Replaced_Always(o) == TRUE

Replaced(o) == o.count >= 2 \/ o.pos > FarDist

\* What a message tells of their goalie, and of a player.
ToldGoalie(pos) == [unum |-> TheirGoalie, goalie |-> TRUE, pos |-> pos]
ToldPlayer(unum, pos) == [unum |-> unum, goalie |-> FALSE, pos |-> pos]

UpdateByHear(o, h) ==
    [o EXCEPT !.ghost = 0,
              !.unum = IF o.fresh THEN @ ELSE h.unum,
              !.goalie = @ \/ h.goalie,
              !.pos = IF Replaced(o) THEN h.pos ELSE @,
              !.count = Min({@, 1})]

HeardObject(h) ==
    [unum |-> h.unum, fresh |-> FALSE, goalie |-> h.goalie, pos |-> h.pos, count |-> 1, ghost |-> 0]

\* Within reach of a place that is told.
NearTo(list, pos) == {i \in DOMAIN list : Distance(list[i].pos, pos) <= list[i].count}

\* Their goalie, or an opponent without a number in their penalty area.  The unknown
\* players are searched up to begin(): never.
GoalieAmong(opps, pos) ==
    LET goalies == {i \in DOMAIN opps : opps[i].goalie}
        near == {i \in NearTo(opps, pos) : opps[i].unum = Unum_Unknown /\ opps[i].pos \in Area}
    IN  IF goalies # {} THEN Min(goalies) ELSE Nearest(opps, near, pos)

\* updateGoalieByHear.  It leaves a goalie whose body is seen in this step alone, as
\* DecideDeaf does: bodies are left out.
HearGoalie(lists, pos) ==
    LET heard == ToldGoalie(pos)
        opps == lists["their"]
        g == GoalieAmong(opps, pos)
    IN  [lists EXCEPT !["their"] =
            IF g = 0 THEN Append(opps, HeardObject(heard))
            ELSE [opps EXCEPT ![g] = UpdateByHear(opps[g], heard)]]

\* updatePlayerByHear, for one player: that of its number, else the nearest one,
\* whatever its number.
HearPlayer(lists, l, unum, pos) ==
    LET heard == ToldPlayer(unum, pos)
        team == lists[l]
        unknown == lists["neutral"]
        same == {i \in DOMAIN team : team[i].unum = unum}
        t == IF same # {} THEN Min(same) ELSE Nearest(team, NearTo(team, pos), pos)
        u == IF same # {} THEN 0 ELSE Nearest(unknown, NearTo(unknown, pos), pos)
        nearer == u # 0 /\ DistanceTo(unknown, u, pos) < DistanceTo(team, t, pos)
    IN  CASE nearer ->
               [lists EXCEPT !["neutral"] = RemoveAt(@, u),
                             ![l] = Append(team, UpdateByHear(unknown[u], heard))]
          [] ~nearer /\ t # 0 ->
               [lists EXCEPT ![l] = [team EXCEPT ![t] = UpdateByHear(team[t], heard)]]
          [] ~nearer /\ t = 0 ->
               [lists EXCEPT ![l] = Append(team, HeardObject(heard))]

\* The decision, with nothing heard, with their goalie or a player told by a team
\* mate that is up to a place off.
Decide ==
    /\ phase \in {"sensed", "seen"} /\ phase' = "decided"
    /\ seen' = {}
    /\ UNCHANGED <<where, placing, vague>>

DecideDeaf == Decide /\ UNCHANGED <<memory, told, named>>

TellGoalie(pos) ==
    /\ Decide
    /\ told < MaxTold /\ told' = told + 1 /\ UNCHANGED named
    /\ Distance(pos, where[<<"their", TheirGoalie>>]) <= 1
    /\ memory' = HearGoalie(memory, pos)

TellPlayer(p, pos) ==
    /\ Decide
    /\ told < MaxTold /\ told' = told + 1 /\ named' = (named \/ p[1] = "their")
    /\ Distance(pos, where[p]) <= 1
    /\ memory' = HearPlayer(memory, p[1], p[2], pos)

Next ==
    \/ Step
    \/ \E view \in Views : See(view)
    \/ DecideDeaf
    \/ \E pos \in Places : TellGoalie(pos)
    \/ \E p \in Players, pos \in Places : TellPlayer(p, pos)

Spec == Init /\ [][Next]_vars /\ WF_vars(Step) /\ WF_vars(DecideDeaf)

-----------------------------------------------------------------------------
(* Properties                                                              *)

Bearing(l, unum) == {i \in DOMAIN memory[l] : memory[l][i].unum = unum}

\* No uniform number is remembered twice, whatever was mistaken for whom; their
\* goalie's is, but only once an opponent was told of in a message about players.
NumbersUnique ==
    \A p \in Players :
        Cardinality(Bearing(p[1], p[2])) <= 1 \/ (named /\ p = <<"their", TheirGoalie>>)

\* A player seen by its number is where it was seen, whatever is heard in the same
\* step, unless it is so far away that hearing is trusted more.
SeenTrue ==
    \A p \in Players : \A i \in Bearing(p[1], p[2]) :
        memory[p[1]][i].fresh => memory[p[1]][i].pos = where[p] \/ where[p] > FarDist

SeenIn(list) == Cardinality({i \in DOMAIN list : list[i].count = 0})

SeenNow(lists) == SeenIn(lists["our"]) + SeenIn(lists["their"]) + SeenIn(lists["neutral"])

\* Each player that is seen becomes one object, no two of them the same, and it is
\* crowded out only of a full list of players seen now and goalies.
SeenKept ==
    [][phase' = "seen" =>
        \/ SeenNow(memory') = Cardinality(seen')
        \/ \E l \in {"our", "their"} :
             /\ Len(memory'[l]) >= IF l = "our" THEN MateMax ELSE OppMax
             /\ \A o \in ToSet(memory'[l]) : o.goalie \/ o.count = 0]_vars

\* After a see no more are remembered than there can be; an unknown player may be
\* one too many only while it is seen.
Bounded ==
    phase = "seen" =>
        /\ Len(memory["our"]) <= MateMax /\ Len(memory["their"]) <= OppMax
        /\ \/ Len(memory["our"]) + Len(memory["their"]) + Len(memory["neutral"]) <= MateMax + OppMax
           \/ \A o \in ToSet(memory["neutral"]) : o.count = 0

\* Every player is remembered once, by its number, where it is, and no one else.
Exact ==
    /\ \A p \in Players : Cardinality(Bearing(p[1], p[2])) = 1
    /\ \A p \in Players : \A i \in Bearing(p[1], p[2]) : memory[p[1]][i].pos = where[p]
    /\ Len(memory["our"]) = Cardinality(Mates) /\ Len(memory["their"]) = Cardinality(Opps)
    /\ memory["neutral"] = <<>>

\* However the players were mistaken for each other: in the end a look at all of
\* them leaves them all in memory, and nobody else, unless their goalie is there
\* twice, which then stays so.
Settles ==
    <>[](phase = "seen" /\ seen = Players =>
            Exact \/ Cardinality(Bearing("their", TheirGoalie)) > 1)
=============================================================================
