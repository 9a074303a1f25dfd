-------------------------- MODULE Shootout_proofs --------------------------
(***************************************************************************)
(* The players of a team of any size agree who takes the next penalty kick,*)
(* though each only counts what it hears, and on which goal they play.     *)
(***************************************************************************)
EXTENDS Referee_proofs

\* The taker that a player knows is the one that its counter stands for.
TakerFits(pk) == pk.taker # NoTaker => pk.our_count > 0 /\ pk.taker.unum = TakerUnum(pk.our_count)

\* What a player in touch makes of the kick that is called.
TakerCalled(pk, call) ==
    call.name \in {"PenaltySetup_", "PenaltyReady_", "PenaltyTaken_"} =>
        pk.taker = IF pk.our_count > 0
                   THEN [side |-> call.side, unum |-> TakerUnum(pk.our_count)] ELSE NoTaker

Shootouts ==
    /\ turn = IF setups[our_side] = 0 THEN 1 ELSE TakerUnum(setups[our_side])
    /\ Kicking /\ pm.side = our_side => setups[our_side] > 0
    /\ \A p \in Players :
         /\ TakerFits(player[p].pk)
         /\ ~past[p].astray => TakerCalled(player[p].pk, pm)

-----------------------------------------------------------------------------

(* The order of takers                                                     *)

LEMMA Multiple ==
    ASSUME NEW T \in Nat, T > 0, NEW k \in Int, k >= 1
    PROVE  T * k >= T
  BY SMT

\* A number has one remainder.
LEMMA OneRemainder ==
    ASSUME NEW T \in Nat, T > 0, NEW q1 \in Int, NEW q2 \in Int,
           NEW r1 \in 0 .. (T - 1), NEW r2 \in 0 .. (T - 1), T * q1 + r1 = T * q2 + r2
    PROVE  r1 = r2
<1>1. CASE q1 = q2
  BY <1>1, SMT
<1>2. CASE q1 > q2
  <2>1. T * (q1 - q2) >= T
    BY <1>2, Multiple, SMT
  <2>2. T * (q1 - q2) = T * q1 - T * q2
    BY SMT
  <2> QED
    BY <2>1, <2>2, SMT
<1>3. CASE q1 < q2
  <2>1. T * (q2 - q1) >= T
    BY <1>3, Multiple, SMT
  <2>2. T * (q2 - q1) = T * q2 - T * q1
    BY SMT
  <2> QED
    BY <2>1, <2>2, SMT
<1> QED
  BY <1>1, <1>2, <1>3, SMT

LEMMA Division ==
    ASSUME NEW T \in Nat, T > 0, NEW m \in Nat
    PROVE  m \div T \in Int /\ m % T \in 0 .. (T - 1) /\ m = T * (m \div T) + (m % T)
  BY SMT

LEMMA NextRemainder ==
    ASSUME NEW T \in Nat, T > 0, NEW m \in Nat
    PROVE  (m + 1) % T = IF m % T = T - 1 THEN 0 ELSE (m % T) + 1
<1> DEFINE q == m \div T
           r == m % T
           q1 == (m + 1) \div T
           r1 == (m + 1) % T
<1>1. m + 1 \in Nat
  OBVIOUS
<1>2. /\ q \in Int /\ r \in 0 .. (T - 1) /\ m = T * q + r
      /\ q1 \in Int /\ r1 \in 0 .. (T - 1) /\ m + 1 = T * q1 + r1
  BY <1>1, Division
<1> HIDE DEF q, r, q1, r1
<1>3. CASE r = T - 1
  <2>1. T * q1 + r1 = T * (q + 1) + 0
    BY <1>2, <1>3, SMT
  <2>2. 0 \in 0 .. (T - 1) /\ q + 1 \in Int
    BY <1>2, SMT
  <2>3. r1 = 0
    BY <1>2, <2>1, <2>2, OneRemainder
  <2> QED
    BY <1>3, <2>3 DEF r, r1
<1>4. CASE r # T - 1
  <2>1. T * q1 + r1 = T * q + (r + 1)
    BY <1>2, SMT
  <2>2. r + 1 \in 0 .. (T - 1)
    BY <1>2, <1>4, SMT
  <2>3. r1 = r + 1
    BY <1>2, <2>1, <2>2, OneRemainder
  <2> QED
    BY <1>4, <2>3 DEF r, r1
<1> QED
  BY <1>3, <1>4

\* The turn goes from the highest number down, and round again.
LEMMA NextTaker ==
    ASSUME NEW n \in Nat, n > 0
    PROVE  TakerUnum(n + 1) = IF TakerUnum(n) = 1 THEN TeamSize ELSE TakerUnum(n) - 1
<1>1. TeamSize \in Nat /\ TeamSize > 0
  BY GameModeAssumption
<1> DEFINE m == n - 1
           r == m % TeamSize
<1>2. m \in Nat /\ (n + 1) - 1 = m + 1
  BY SMT
<1>3. r \in 0 .. (TeamSize - 1)
  BY <1>1, <1>2, Division
<1>4. (m + 1) % TeamSize = IF r = TeamSize - 1 THEN 0 ELSE r + 1
  BY <1>1, <1>2, NextRemainder
<1> QED
  BY <1>1, <1>2, <1>3, <1>4, SMT DEF TakerUnum

LEMMA FirstTaker == TakerUnum(1) = TeamSize
<1>1. TeamSize \in Nat /\ TeamSize > 0
  BY GameModeAssumption
<1>2. (1 - 1) % TeamSize = 0
  BY <1>1, SMT
<1> QED
  BY <1>1, <1>2, SMT DEF TakerUnum

-----------------------------------------------------------------------------
(* What a player makes of a call                                           *)

LEMMA UpdateFits ==
    ASSUME NEW pk, NEW mode, NEW side
    PROVE  LET new == UpdatePenalty(pk, mode, side)
           IN  /\ TakerFits(new)
               /\ mode.type \in {"PenaltySetup_", "PenaltyReady_", "PenaltyTaken_"} =>
                    new.taker = IF new.our_count > 0
                                THEN [side |-> mode.side, unum |-> TakerUnum(new.our_count)]
                                ELSE NoTaker
  BY DEF UpdatePenalty, TakerFits

LEMMA HearTaker ==
    ASSUME NEW p \in PlayerStates, NEW call, CallOK(call), NEW side \in Sides, NEW c \in Nat,
           TakerFits(p.pk)
    PROVE  LET new == Hear(p, call, side, c)
           IN  TakerFits(new.pk) /\ (Known(call) => TakerCalled(new.pk, call))
<1> DEFINE time == UpdateCurrentTime(p, c, FALSE)
           heard == IF Known(call) THEN call ELSE Call("PlayOn", "neutral")
           mode == UpdateMode(p.mode, heard, time)
           new == Hear(p, call, side, c)
           pk == IF IsPenaltyKickMode(mode.type) THEN UpdatePenalty(p.pk, mode, side) ELSE p.pk
<1>1. \/ new.pk = p.pk /\ (~Known(call) \/ IsGameEndMode(mode.type))
      \/ new.pk = pk /\ Known(call)
  <2>1. p = [mode |-> p.mode, world |-> p.world, stopped |-> p.stopped, time |-> p.time,
             decided |-> p.decided, start |-> p.start, pk |-> p.pk,
             intention |-> p.intention]
    BY DEF PlayerStates
  <2>2. new = IF ~Known(call) THEN [p EXCEPT !.time = time, !.mode = mode]
              ELSE IF IsGameEndMode(mode.type)
              THEN [p EXCEPT !.time = time, !.mode = mode, !.stopped = UpdateServerStatus(mode)]
              ELSE [p EXCEPT !.time = time, !.mode = mode,
                             !.stopped = UpdateServerStatus(mode), !.world = mode,
                             !.start = IF NewSetPlay(p.world.type, mode.type) THEN time ELSE @,
                             !.pk = pk,
                             !.intention = IF KeepsIntention(mode.type) THEN @
                                           ELSE NoIntention]
    BY DEF Hear
  <2> HIDE DEF time, mode, pk, new
  <2> QED
    BY <2>1, <2>2
<1>2. TakerFits(UpdatePenalty(p.pk, mode, side))
  BY UpdateFits
<1>3. TakerFits(new.pk)
  <2> HIDE DEF time, heard, mode, new
  <2> QED
    BY <1>1, <1>2
<1>4. ASSUME Known(call), call.name \in {"PenaltySetup_", "PenaltyReady_", "PenaltyTaken_"}
      PROVE  TakerCalled(new.pk, call)
  <2>1. mode.type = call.name /\ mode.side = call.side
    <3>1. time \in Times /\ p.mode \in Modes /\ heard = call
      BY <1>4, TimeOK DEF PlayerStates
    <3>2. call.name \in Sided \ {"FreeKick_", "GoalieCatch_"}
      BY <1>4 DEF Sided
    <3> HIDE DEF time
    <3> QED
      BY <1>4, <3>1, <3>2, ModeOK
  <2> HIDE DEF time, heard, mode, new
  <2>2. new.pk = UpdatePenalty(p.pk, mode, side)
    BY <1>1, <1>4, <2>1 DEF IsPenaltyKickMode, IsGameEndMode
  <2> QED
    BY <1>4, <2>1, <2>2, UpdateFits DEF TakerCalled
<1>5. Known(call) => TakerCalled(new.pk, call)
  BY <1>4 DEF TakerCalled
<1> QED
  BY <1>3, <1>5

-----------------------------------------------------------------------------
(* The invariant                                                           *)

LEMMA InitShootouts == Init => Shootouts
<1> SUFFICES ASSUME Init PROVE Shootouts
  OBVIOUS
<1>1. setups[our_side] = 0 /\ turn = 1
  BY DEF Init
<1>2. pm.name \in {"BeforeKickOff", "PlayOn", "FirstHalfOver"}
  BY DEF Init, One, Call
<1>3. \A p \in Players : player[p].pk = InitialPenalty
  <2>1. CallOK(pm) /\ Known(pm)
    <3>1. {"BeforeKickOff", "PlayOn", "FirstHalfOver"} \subseteq Neutral
      BY DEF Neutral
    <3> QED
      BY <1>2, <3>1, InitInv DEF Known, Inv
  <2>2. Reconnect(pm) \in PlayerStates /\ Reconnect(pm).pk = InitialPenalty
    BY <2>1, ReconnectOK
  <2>3. PICK mode, world : player = [p \in Players |->
                [Reconnect(pm) EXCEPT !.mode = mode, !.world = world]]
    BY DEF Init
  <2>4. Reconnect(pm) = [mode |-> Reconnect(pm).mode, world |-> Reconnect(pm).world,
            stopped |-> Reconnect(pm).stopped, time |-> Reconnect(pm).time,
            decided |-> Reconnect(pm).decided, start |-> Reconnect(pm).start,
            pk |-> Reconnect(pm).pk, intention |-> Reconnect(pm).intention]
    BY <2>2 DEF PlayerStates
  <2> QED
    BY <2>2, <2>3, <2>4
<1>4. TakerFits(InitialPenalty)
  BY DEF TakerFits, InitialPenalty
<1>5. \A pk : TakerCalled(pk, pm)
  BY <1>2 DEF TakerCalled
<1> QED
  BY <1>1, <1>2, <1>3, <1>4, <1>5 DEF Shootouts, Kicking

\* A kick is ready and taken by the side that it was set up for.
LEMMA CallsInOrder ==
    ASSUME CallOK(pm), NEW call \in NextCalls
    PROVE  /\ call.name = "PenaltyReady_" => pm.name = "PenaltySetup_" /\ call.side = pm.side
           /\ call.name = "PenaltyTaken_" => pm.name = "PenaltyReady_" /\ call.side = pm.side
<1> DEFINE Other(k) == k.name \notin {"PenaltyReady_", "PenaltyTaken_"}
<1>1. ASSUME NEW S, {"PenaltyReady_", "PenaltyTaken_"} \cap S = {}
      PROVE  \A k \in Each(S) \cup One(S) : Other(k)
  BY <1>1 DEF Each, One, Call
<1>2. \A side : Other(Goal(side))
  BY DEF Goal, Call
<1>3. \A name, side : Call(name, side).name = name /\ Call(name, side).side = side
  BY DEF Call
<1>4. \A side : \A name \in {"KickOff_", "FreeKick_", "PenaltySetup_", "PenaltyMiss_",
                             "PenaltyScore_"} : Other(Call(name, side))
  BY <1>3
<1> HIDE DEF Other
<1>5. \/ Other(call)
      \/ pm.name = "PenaltySetup_" /\ call = Call("PenaltyReady_", pm.side)
      \/ pm.name = "PenaltyReady_" /\ call = Call("PenaltyTaken_", pm.side)
  BY <1>1, <1>2, <1>4 DEF NextCalls
<1> QED
  BY <1>3, <1>5 DEF Other

LEMMA AnnounceShootouts ==
    ASSUME Inv, Shootouts, NEW call \in NextCalls, NEW deaf \in SUBSET Players,
           Announce(call, deaf)
    PROVE  Shootouts'
<1>1. /\ CallOK(call) /\ CallOK(pm) /\ our_side \in Sides /\ cycle \in Nat
      /\ setups \in [Sides -> Nat]
      /\ \A p \in Players : player[p] \in PlayerStates
  BY NextCallsOK, InvParts DEF Inv, TypeOK
<1>2. our_side' = our_side /\ pm' = call
  BY DEF Announce
<1>3. setups'[our_side] = setups[our_side] + Added(call, "PenaltySetup_", our_side)
  <2>1. setups' = Tallied(setups, call, "PenaltySetup_")
    BY DEF Announce, Tallied
  <2>2. call.name = "PenaltySetup_" => call.side \in Sides
    BY <1>1 DEF CallOK, Sided
  <2> QED
    BY <1>1, <2>1, <2>2, AddedOK
<1> DEFINE n == setups[our_side]
<1>4. n \in Nat
  BY <1>1
<1>5. turn' = IF setups'[our_side] = 0 THEN 1 ELSE TakerUnum(setups'[our_side])
  <2>1. turn = IF n = 0 THEN 1 ELSE TakerUnum(n)
    BY DEF Shootouts
  <2>2. turn' = IF call.name = "PenaltySetup_" /\ call.side = our_side
                THEN IF turn = 1 THEN TeamSize ELSE turn - 1 ELSE turn
    BY DEF Announce
  <2>3. CASE call.name = "PenaltySetup_" /\ call.side = our_side
    <3>1. setups'[our_side] = n + 1
      BY <1>3, <2>3 DEF Added
    <3>2. CASE n = 0
      BY <1>4, <2>1, <2>2, <2>3, <3>1, <3>2, FirstTaker
    <3>3. CASE n > 0
      BY <1>4, <2>1, <2>2, <2>3, <3>1, <3>3, NextTaker
    <3> QED
      BY <1>4, <3>2, <3>3
  <2>4. CASE ~(call.name = "PenaltySetup_" /\ call.side = our_side)
    <3>1. setups'[our_side] = n
      BY <1>3, <1>4, <2>4 DEF Added
    <3> QED
      BY <2>1, <2>2, <2>4, <3>1
  <2> QED
    BY <2>3, <2>4
<1>6. Kicking' /\ pm'.side = our_side' => setups'[our_side'] > 0
  <2> SUFFICES ASSUME call.name \in {"PenaltySetup_", "PenaltyReady_", "PenaltyTaken_"},
                      call.side = our_side
               PROVE  setups'[our_side] > 0
    BY <1>2 DEF Kicking
  <2>1. CASE call.name = "PenaltySetup_"
    BY <1>3, <1>4, <2>1 DEF Added
  <2>2. CASE call.name # "PenaltySetup_"
    <3>1. pm.name \in {"PenaltySetup_", "PenaltyReady_"} /\ pm.side = our_side
      BY <1>1, <2>2, CallsInOrder
    <3>2. n > 0
      BY <3>1 DEF Shootouts, Kicking
    <3> QED
      BY <1>3, <1>4, <2>2, <3>2 DEF Added
  <2> QED
    BY <2>1, <2>2
<1>7. ASSUME NEW p \in Players
      PROVE  /\ TakerFits(player'[p].pk)
             /\ ~past'[p].astray => TakerCalled(player'[p].pk, call)
  <2>1. TakerFits(player[p].pk)
    BY DEF Shootouts
  <2>2. past'[p].astray <=> p \in deaf \/ ~Known(call)
    BY DEF Announce, Missing
  <2>3. CASE p \in deaf
    <3>1. player'[p] = player[p]
      BY <2>3 DEF Announce
    <3> QED
      BY <2>1, <2>2, <2>3, <3>1
  <2>4. CASE p \notin deaf
    <3>1. player'[p] = Hear(player[p], call, our_side, cycle)
      BY <2>4 DEF Announce
    <3> QED
      BY <1>1, <2>1, <2>2, <2>4, <3>1, HearTaker
  <2> QED
    BY <2>3, <2>4
<1> QED
  BY <1>2, <1>5, <1>6, <1>7 DEF Shootouts

LEMMA NextShootouts == Inv /\ Shootouts /\ [Next]_vars => Shootouts'
<1> SUFFICES ASSUME Inv, Shootouts, [Next]_vars PROVE Shootouts'
  OBVIOUS
<1> DEFINE Same == /\ our_side' = our_side /\ pm' = pm /\ setups' = setups /\ turn' = turn
                   /\ \A p \in Players :
                        \/ /\ player'[p].pk = player[p].pk
                           /\ past'[p].astray = past[p].astray
                        \/ player'[p].pk = InitialPenalty /\ past'[p].astray
<1>1. ASSUME Same PROVE Shootouts'
  <2>1. TakerFits(InitialPenalty)
    BY DEF TakerFits, InitialPenalty
  <2> QED
    BY <1>1, <2>1 DEF Shootouts, Kicking
<1>2. CASE \E call \in NextCalls, deaf \in SUBSET Players : Announce(call, deaf)
  BY <1>2, AnnounceShootouts
<1>3. ASSUME NEW choice \in Choices, SenseBody(choice)
      PROVE  Same
  <2>1. ASSUME NEW p \in Players PROVE player'[p].pk = player[p].pk
    <3>1. /\ player[p] \in PlayerStates /\ cycle \in Nat /\ step \in Nat
          /\ Timely(player[p].intention)
      BY InvParts
    <3>2. PICK chosen \in Choices : player'[p] = Sense(player[p], cycle, chosen)
      BY <1>3 DEF SenseBody, Choices
    <3>3. Sense(player[p], cycle, chosen).pk = player[p].pk
      BY <3>1, SenseOK
    <3> QED
      BY <3>2, <3>3
  <2> QED
    BY <1>3, <2>1 DEF SenseBody, announced
<1>4. CASE NextStep
  <2>1. past \in [Players -> PastStates]
    BY InvParts
  <2>2. past' = [p \in Players |-> [past[p] EXCEPT !.returned = FALSE]]
    BY <1>4 DEF NextStep
  <2>3. ASSUME NEW p \in Players PROVE past'[p].astray = past[p].astray
    <3>1. past'[p] = [past[p] EXCEPT !.returned = FALSE] /\ past[p] \in PastStates
      BY <2>1, <2>2
    <3> QED
      BY <3>1 DEF PastStates
  <2>4. Same
    BY <1>4, <2>3 DEF NextStep, announced
  <2> QED
    BY <1>1, <2>4
<1>5. ASSUME NEW q \in Players, Rejoin(q)
      PROVE  Same
  <2>1. player \in [Players -> PlayerStates] /\ past \in [Players -> PastStates]
    BY InvParts
  <2>2. Reconnect(pm).pk = InitialPenalty
    BY <1>5, ReconnectOK DEF Inv, Rejoin
  <2>3. player'[q] = Reconnect(pm) /\ past'[q].astray
    BY <1>5, <2>1 DEF Rejoin
  <2>4. \A p \in Players : p # q => player'[p] = player[p] /\ past'[p] = past[p]
    BY <1>5, <2>1 DEF Rejoin
  <2> QED
    BY <1>5, <2>2, <2>3, <2>4 DEF Rejoin, announced
<1>6. CASE UNCHANGED vars
  BY <1>1, <1>6 DEF vars, announced
<1> QED
  BY <1>1, <1>2, <1>3, <1>4, <1>5, <1>6 DEF Next

LEMMA ShootoutsOneTaker == Inv /\ Shootouts => OneTaker
<1> SUFFICES ASSUME Inv, Shootouts PROVE OneTaker
  OBVIOUS
<1>1. our_side \in Sides /\ setups \in [Sides -> Nat]
  BY DEF Inv, TypeOK
<1>2. ASSUME NEW p \in Counting
      PROVE  /\ p \in Players /\ player[p].pk.our_count = setups[our_side]
             /\ setups[our_side] \in Nat
             /\ TakerFits(player[p].pk) /\ TakerCalled(player[p].pk, pm)
  <2>1. p \in Players /\ past[p].setups[our_side] = 0 /\ ~past[p].astray
    BY DEF Counting
  <2>2. player[p].pk.our_count + past[p].setups[our_side] = setups[our_side]
    BY <2>1 DEF Inv, ShootoutCounted
  <2>3. player[p].pk.our_count \in Nat
    BY <2>1, InvParts DEF PlayerStates, Penalties
  <2> QED
    BY <1>1, <2>1, <2>2, <2>3 DEF Shootouts
<1>3. NoTaker.side = "neutral" /\ "neutral" \notin Sides
  BY DEF NoTaker, Sides
<1>4. turn = IF setups[our_side] = 0 THEN 1 ELSE TakerUnum(setups[our_side])
  BY DEF Shootouts
<1>5. OurTakers \cap Counting \subseteq {turn}
  <2> SUFFICES ASSUME NEW p \in Counting, player[p].pk.taker = [side |-> our_side, unum |-> p]
               PROVE  p = turn
    BY DEF OurTakers, IsKickTaker
  <2>1. player[p].pk.taker # NoTaker /\ player[p].pk.taker.unum = p
    BY <1>1, <1>3
  <2> QED
    BY <1>2, <1>4, <2>1 DEF TakerFits
<1>6. ASSUME Kicking, pm.side = our_side, turn \in Counting
      PROVE  turn \in OurTakers
  <2>1. setups[our_side] > 0
    BY <1>6 DEF Shootouts
  <2>2. player[turn].pk.taker = [side |-> our_side, unum |-> turn]
    <3> DEFINE pk == player[turn].pk
    <3>1. pk.our_count = setups[our_side] /\ TakerCalled(pk, pm)
      BY <1>2, <1>6
    <3>2. turn = TakerUnum(setups[our_side])
      BY <1>4, <2>1, <1>1
    <3> HIDE DEF pk
    <3>3. pk.taker = [side |-> pm.side, unum |-> TakerUnum(pk.our_count)]
      BY <1>6, <2>1, <3>1 DEF TakerCalled, Kicking
    <3> QED
      BY <1>6, <3>1, <3>2, <3>3 DEF pk
  <2> QED
    BY <1>2, <1>6, <2>2 DEF OurTakers, IsKickTaker
<1>7. ASSUME Kicking, pm.side # our_side, NEW p \in Counting
      PROVE  p \notin OurTakers
  <2>1. player[p].pk.taker.side # our_side
    <3> DEFINE pk == player[p].pk
    <3>1. TakerCalled(pk, pm)
      BY <1>2
    <3> HIDE DEF pk
    <3>2. \/ pk.taker = [side |-> pm.side, unum |-> TakerUnum(pk.our_count)]
          \/ pk.taker = NoTaker
      BY <1>7, <3>1 DEF TakerCalled, Kicking
    <3>3. pk.taker.side # our_side
      BY <1>1, <1>3, <1>7, <3>2
    <3> QED
      BY <3>3 DEF pk
  <2> QED
    BY <2>1 DEF OurTakers, IsKickTaker
<1> QED
  BY <1>5, <1>6, <1>7 DEF OneTaker

-----------------------------------------------------------------------------

\* In a shootout the players of a team of any size that heard all our kicks set up
\* agree whose turn it is, everyone takes a kick before anyone takes a second one,
\* and none of ours takes theirs (PenaltyKickState::update, getKickTakerUnum).
THEOREM TakersAgree == Spec => []OneTaker
<1>1. Init => Shootouts
  BY InitShootouts
<1>2. Inv /\ Shootouts /\ [Next]_vars => Shootouts'
  BY NextShootouts
<1>3. Inv /\ Shootouts => OneTaker
  BY ShootoutsOneTaker
<1> QED
  BY <1>1, <1>2, <1>3, Inductive, PTL DEF Spec

-----------------------------------------------------------------------------
(* Facing the goal                                                         *)

\* A player that heard where the kicks are taken keeps it.
Facing ==
    \A p \in Players :
        past[p].onfield => field \in Sides /\ player[p].pk.onfield = field

LEMMA HearOnfield ==
    ASSUME NEW p \in PlayerStates, NEW call, CallOK(call), NEW side \in Sides, NEW c \in Nat
    PROVE  LET new == Hear(p, call, side, c)
           IN  new.pk.onfield = IF call.name = "PenaltyOnfield_" THEN call.side
                                ELSE p.pk.onfield
<1> DEFINE mode == HeardMode(p, call, c)
           new == Hear(p, call, side, c)
<1>1. Known(call) =>
        /\ mode.type = "PenaltyOnfield_" <=> call.name = "PenaltyOnfield_"
        /\ call.name = "PenaltyOnfield_" => mode.side = call.side
  <2>1. HeardTime(p, c) \in Times /\ p.mode \in Modes
    BY HeardTimeOK DEF PlayerStates
  <2>2. "PenaltyOnfield_" \in Sided \ {"FreeKick_", "GoalieCatch_"}
    BY DEF Sided
  <2>3. Known(call) => mode = UpdateMode(p.mode, call, HeardTime(p, c))
    BY DEF HeardMode
  <2> HIDE DEF mode
  <2> QED
    BY <2>1, <2>2, <2>3, ModeOK
<1>2. call.name = "PenaltyOnfield_" => Known(call)
  BY DEF Known, Sided
<1>3. new.pk = IF Known(call) /\ ~IsGameEndMode(mode.type) /\ IsPenaltyKickMode(mode.type)
               THEN UpdatePenalty(p.pk, mode, side) ELSE p.pk
  <2> HIDE DEF mode, new
  <2> QED
    BY HearParts DEF mode, new
<1>4. UpdatePenalty(p.pk, mode, side).onfield =
        IF mode.type = "PenaltyOnfield_" THEN mode.side ELSE p.pk.onfield
  BY DEF UpdatePenalty
<1> HIDE DEF mode, new
<1>5. mode.type = "PenaltyOnfield_" => IsPenaltyKickMode(mode.type) /\ ~IsGameEndMode(mode.type)
  BY DEF IsPenaltyKickMode, IsGameEndMode
<1> QED
  BY <1>1, <1>2, <1>3, <1>4, <1>5 DEF new

LEMMA InitFacing == Init => Facing
  BY DEF Init, Facing, NothingMissed

LEMMA AnnounceFacing ==
    ASSUME Inv, Facing, NEW call \in NextCalls, NEW deaf \in SUBSET Players,
           Announce(call, deaf)
    PROVE  Facing'
<1>1. /\ CallOK(call) /\ our_side \in Sides /\ cycle \in Nat
      /\ \A p \in Players : player[p] \in PlayerStates
  BY NextCallsOK, InvParts DEF Inv, TypeOK
<1>2. field' = IF call.name = "PenaltyOnfield_" THEN call.side ELSE field
  BY DEF Announce
<1>3. call.name = "PenaltyOnfield_" => call.side \in Sides
  BY <1>1 DEF CallOK, Sided
<1> SUFFICES ASSUME NEW p \in Players, past'[p].onfield
             PROVE  field' \in Sides /\ player'[p].pk.onfield = field'
  BY DEF Facing
<1>4. past'[p].onfield = IF call.name = "PenaltyOnfield_" THEN p \notin deaf
                         ELSE past[p].onfield
  BY DEF Announce, Missing
<1>5. player'[p] = IF p \in deaf THEN player[p] ELSE Hear(player[p], call, our_side, cycle)
  BY DEF Announce
<1>6. CASE call.name = "PenaltyOnfield_"
  <2>1. player'[p] = Hear(player[p], call, our_side, cycle)
    BY <1>4, <1>5, <1>6
  <2> QED
    BY <1>1, <1>2, <1>3, <1>6, <2>1, HearOnfield
<1>7. CASE call.name # "PenaltyOnfield_"
  <2>1. field \in Sides /\ player[p].pk.onfield = field
    BY <1>4, <1>7 DEF Facing
  <2>2. player'[p].pk.onfield = player[p].pk.onfield
    BY <1>1, <1>5, <1>7, HearOnfield
  <2> QED
    BY <1>2, <1>7, <2>1, <2>2
<1> QED
  BY <1>6, <1>7

LEMMA NextFacing == Inv /\ Facing /\ [Next]_vars => Facing'
<1> SUFFICES ASSUME Inv, Facing, [Next]_vars PROVE Facing'
  OBVIOUS
<1> DEFINE Same == /\ field' = field
                   /\ \A p \in Players :
                        past'[p].onfield => /\ past[p].onfield
                                            /\ player'[p].pk = player[p].pk
<1>1. ASSUME Same PROVE Facing'
  BY <1>1 DEF Facing
<1>2. CASE \E call \in NextCalls, deaf \in SUBSET Players : Announce(call, deaf)
  BY <1>2, AnnounceFacing
<1>3. ASSUME NEW choice \in Choices, SenseBody(choice)
      PROVE  Same
  BY <1>3, BodyParts DEF SenseBody, announced
<1>4. CASE NextStep
  <2>1. field' = field
    BY <1>4 DEF NextStep, announced
  <2> QED
    BY <1>1, <1>4, <2>1, StepPast, InvParts
<1>5. ASSUME NEW q \in Players, Rejoin(q)
      PROVE  Same
  <2>1. field' = field
    BY <1>5 DEF Rejoin, announced
  <2> QED
    BY <1>5, <2>1, RejoinPast, InvParts
<1>6. CASE UNCHANGED vars
  BY <1>1, <1>6 DEF vars, announced
<1> QED
  BY <1>1, <1>2, <1>3, <1>4, <1>5, <1>6 DEF Next

LEMMA FacingGoal == Inv /\ OneTaker /\ Facing => FacesGoal
<1> SUFFICES ASSUME Inv, OneTaker, Facing, NEW p \in Counting, Kicking, past[p].onfield
             PROVE  LET attacks == IF Reversed(player[p].pk, our_side, p, p = Goalie)
                                   THEN "l" ELSE "r"
                    IN  /\ pm.side = our_side /\ p = turn => attacks = field
                        /\ pm.side # our_side /\ p = Goalie => attacks # field
  BY DEF FacesGoal
<1>1. p \in Players /\ field \in Sides /\ player[p].pk.onfield = field
  BY DEF Counting, Facing
<1> DEFINE taking == IsKickTaker(player[p].pk, our_side, p)
           reversed == Reversed(player[p].pk, our_side, p, p = Goalie)
<1>2. ASSUME pm.side = our_side, p = turn PROVE (IF reversed THEN "l" ELSE "r") = field
  <2>1. taking
    BY <1>1, <1>2 DEF OneTaker, OurTakers
  <2> HIDE DEF taking
  <2>2. reversed <=> field = "l"
    BY <1>1, <2>1 DEF Reversed, taking
  <2> HIDE DEF reversed
  <2> QED
    BY <1>1, <2>2 DEF Sides
<1>3. ASSUME pm.side # our_side, p = Goalie PROVE (IF reversed THEN "l" ELSE "r") # field
  <2>1. ~taking
    BY <1>1, <1>3 DEF OneTaker, OurTakers
  <2>2. reversed <=> field = "r"
    BY <1>1, <1>3, <2>1 DEF Reversed
  <2> HIDE DEF reversed
  <2> QED
    BY <1>1, <2>2 DEF Sides
<1> QED
  BY <1>2, <1>3

\* At a penalty kick of ours the player whose turn it is attacks the goal that the
\* kicks are taken at, and at theirs our goalie defends it, on whichever side the
\* team has played (WorldModel::updateGameMode, get_self_face_angle).
THEOREM GoalFaced == Spec => []FacesGoal
<1>1. Init => Facing
  BY InitFacing
<1>2. Inv /\ Facing /\ [Next]_vars => Facing'
  BY NextFacing
<1>3. Inv /\ OneTaker /\ Facing => FacesGoal
  BY FacingGoal
<1> QED
  BY <1>1, <1>2, <1>3, Inductive, TakersAgree, PTL DEF Spec
=============================================================================
