---------------------------- MODULE Waste_proofs ----------------------------
(***************************************************************************)
(* Every fresh player that is replaced in a set play is paid for: by a     *)
(* datagram that was lost or late, or by a recovery that was said while    *)
(* the coach asked for the replacement.                                    *)
(*                                                                         *)
(* The coach, its players and the network hold beliefs that a player is    *)
(* tired.  One such belief of a fresh player, however many hold it, leads  *)
(* to one replacement, unless a fault or a crossing makes it another one.  *)
(***************************************************************************)
EXTENDS Coach_proofs

\* The players that the messages of a kind in a queue are about.
Unums(q, kind) == {q[i].unum : i \in {j \in DOMAIN q : q[j].kind = kind}}

Said == Unums(to_coach, "say")
Told == Unums(to_coach, "change")

\* The requests of this step that the server has still to carry out.
Awaited == asked \cap Unums(commands, "change")

\* Those that someone takes for tired: the player itself, who hears it, or the
\* coach, unless the news of a replacement is on its way.
Believed == low \cup (said \ asked) \cup Said \cup heard \cup (recovery \ Told)

\* The fresh players that are to be replaced.
Doomed ==
    {u \in (Believed \cup Awaited) \ tired : mode # "BeforeKickOff"}

Orderly ==
    /\ ~decided => asked = {}
    /\ decided => heard = {} /\ Said = {}
    /\ tired \subseteq low
    /\ mode = "BeforeKickOff" =>
          low = {} /\ said = {} /\ Said = {} /\ heard = {} /\ recovery = {}
    /\ wasted <= srv_subs /\ srv_subs <= SubsMax

\* What is wasted, and what is to be; the commands of steps before, each of which
\* was late.
Due == wasted + Cardinality(Doomed)
Late == Len(commands) - Cardinality(Awaited)

PaidFor == crossed = SubsMax \/ Due + Late <= lost + delayed + crossed

WInv == Inv /\ Orderly /\ PaidFor

-----------------------------------------------------------------------------
(* Queues and sets                                                         *)

\* An empty queue is about nobody.
LEMMA UnumsEmpty == ASSUME NEW kind PROVE Unums(<<>>, kind) = {}
BY EmptySeq DEF Unums

\* A message put at the end of a queue.
LEMMA UnumsAppend ==
    ASSUME NEW q \in Seq(Messages), NEW m \in Messages, NEW kind
    PROVE  Unums(Append(q, m), kind)
            = Unums(q, kind) \cup (IF m.kind = kind THEN {m.unum} ELSE {})
<1> DEFINE r == Append(q, m)
           n == Len(q) + 1
<1>1. /\ r \in Seq(Messages) /\ Len(r) = n /\ r[n] = m
      /\ \A i \in 1 .. Len(q) : r[i] = q[i]
  BY AppendProperties
<1>2. DOMAIN q = 1 .. Len(q) /\ Len(q) \in Nat /\ DOMAIN r = 1 .. n
  BY <1>1, LenProperties
<1>3. 1 .. n = (1 .. Len(q)) \cup {n}
  BY <1>2
<1> HIDE DEF r, n
<1>4. Unums(r, kind) = Unums(q, kind) \cup (IF m.kind = kind THEN {m.unum} ELSE {})
  BY <1>1, <1>2, <1>3 DEF Unums
<1> QED
  BY <1>4 DEF r

\* A message taken from the front of a queue.
LEMMA UnumsTail ==
    ASSUME NEW q \in Seq(Messages), q # <<>>, NEW kind
    PROVE  Unums(q, kind)
            = Unums(Tail(q), kind) \cup (IF Head(q).kind = kind THEN {Head(q).unum} ELSE {})
<1> DEFINE r == Tail(q)
<1>1. /\ r \in Seq(Messages) /\ Len(r) = Len(q) - 1
      /\ \A i \in 1 .. Len(r) : r[i] = q[i + 1]
  BY HeadTailProperties
<1>2. /\ DOMAIN q = 1 .. Len(q) /\ Len(q) \in Nat /\ Len(q) > 0
      /\ DOMAIN r = 1 .. Len(r)
  BY <1>1, LenProperties, EmptySeq
<1>3. Head(q) = q[1]
  BY <1>2
<1> HIDE DEF r
<1>4. \A i \in 1 .. Len(q) : i = 1 \/ (i - 1 \in 1 .. Len(r) /\ r[i - 1] = q[i])
  BY <1>1, <1>2
<1>5. \A i \in 1 .. Len(r) : i + 1 \in 1 .. Len(q)
  BY <1>1, <1>2
<1>6. 1 \in 1 .. Len(q)
  BY <1>2
<1> DEFINE front == IF Head(q).kind = kind THEN {Head(q).unum} ELSE {}
<1>7. ASSUME NEW u \in Unums(q, kind) PROVE u \in Unums(r, kind) \cup front
  <2>1. PICK i \in 1 .. Len(q) : q[i].kind = kind /\ u = q[i].unum
    BY <1>2, <1>7 DEF Unums
  <2>2. CASE i = 1
    BY <1>3, <2>1, <2>2
  <2>3. CASE i - 1 \in 1 .. Len(r) /\ r[i - 1] = q[i]
    BY <1>2, <2>1, <2>3 DEF Unums
  <2> QED
    BY <1>4, <2>2, <2>3
<1>8. Unums(r, kind) \subseteq Unums(q, kind)
  BY <1>1, <1>2, <1>5 DEF Unums
<1>9. front \subseteq Unums(q, kind)
  BY <1>2, <1>3, <1>6 DEF Unums
<1> QED
  BY <1>7, <1>8, <1>9 DEF r

\* The messages of a queue are about our players, and no more of them than the
\* queue is long.
LEMMA UnumsOK ==
    ASSUME NEW q \in Seq(Messages), NEW kind
    PROVE  /\ Unums(q, kind) \subseteq Players
           /\ Cardinality(Unums(q, kind)) <= Len(q)
           /\ Len(q) \in Nat
<1> DEFINE D == {j \in DOMAIN q : q[j].kind = kind}
           U == Unums(q, kind)
           f == [i \in D |-> q[i].unum]
<1>1. DOMAIN q = 1 .. Len(q) /\ Len(q) \in Nat /\ \A i \in 1 .. Len(q) : q[i] \in Messages
  BY LenProperties, ElementOfSeq
<1>2. U \subseteq Players
  BY <1>1, MessageOK DEF Unums
<1>3. IsFiniteSet(D) /\ Cardinality(D) <= Len(q) /\ Cardinality(D) \in Nat
  <2>1. IsFiniteSet(1 .. Len(q)) /\ Cardinality(1 .. Len(q)) = Len(q)
    <3>1. ASSUME NEW n \in Nat PROVE IsFiniteSet(1 .. n) /\ Cardinality(1 .. n) = n
      BY FS_Interval
    <3> QED
      BY <1>1, <3>1
  <2>2. D \subseteq 1 .. Len(q)
    BY <1>1
  <2> HIDE DEF D
  <2> QED
    BY <2>1, <2>2, FS_Subset, FS_CardinalityType
<1>4. f \in Surjection(D, U)
  BY DEF Surjection, Unums
<1>5. Cardinality(U) <= Cardinality(D) /\ IsFiniteSet(U)
  <2> HIDE DEF D, U, f
  <2> QED
    BY <1>3, <1>4, FS_Surjection
<1>6. Cardinality(U) \in Nat
  <2> HIDE DEF U
  <2> QED
    BY <1>5, FS_CardinalityType
<1> HIDE DEF D, U
<1> QED
  BY <1>1, <1>2, <1>3, <1>5, <1>6 DEF U

\* Sets of players that differ in one player at most.
LEMMA Sizes ==
    ASSUME NEW A, A \subseteq Players, NEW B, B \subseteq Players, NEW u
    PROVE  /\ IsFiniteSet(A) /\ Cardinality(A) \in Nat /\ Cardinality(B) \in Nat
           /\ B \subseteq A => Cardinality(B) <= Cardinality(A)
           /\ B \subseteq A \cup {u} => Cardinality(B) <= Cardinality(A) + 1
           /\ u \in A /\ B \subseteq A \ {u} => Cardinality(B) + 1 <= Cardinality(A)
<1>1. /\ IsFiniteSet(A) /\ IsFiniteSet(B)
      /\ Cardinality(A) \in Nat /\ Cardinality(B) \in Nat
  BY CoachAssumption, FS_Subset, FS_CardinalityType
<1>2. B \subseteq A => Cardinality(B) <= Cardinality(A)
  BY <1>1, FS_Subset
<1>3. ASSUME B \subseteq A \cup {u} PROVE Cardinality(B) <= Cardinality(A) + 1
  <2>1. /\ IsFiniteSet(A \cup {u})
        /\ Cardinality(A \cup {u}) = IF u \in A THEN Cardinality(A) ELSE Cardinality(A) + 1
    BY <1>1, FS_AddElement
  <2>2. Cardinality(B) <= Cardinality(A \cup {u})
    BY <1>3, <2>1, FS_Subset
  <2> QED
    BY <1>1, <2>1, <2>2
<1>4. ASSUME u \in A, B \subseteq A \ {u} PROVE Cardinality(B) + 1 <= Cardinality(A)
  <2>1. IsFiniteSet(A \ {u}) /\ Cardinality(A \ {u}) = Cardinality(A) - 1
    BY <1>1, <1>4, FS_RemoveElement
  <2>2. Cardinality(B) <= Cardinality(A \ {u})
    BY <1>4, <2>1, FS_Subset
  <2> QED
    BY <1>1, <2>1, <2>2
<1> QED
  BY <1>1, <1>2, <1>3, <1>4

\* What the invariant says of the types of these sets.
SetsType ==
    /\ Doomed \subseteq Players /\ Awaited \subseteq Players
    /\ Cardinality(Doomed) \in Nat /\ Cardinality(Awaited) \in Nat
    /\ Cardinality(Awaited) <= Len(commands) /\ Len(commands) \in Nat
    /\ commands \in Seq(Messages) /\ to_coach \in Seq(Messages)
    /\ lost \in Nat /\ delayed \in Nat /\ crossed \in Nat /\ wasted \in Nat
    /\ srv_subs \in Nat /\ SubsMax \in Nat
    /\ Due \in Nat /\ Late \in Nat

LEMMA SetsOK == Inv => SetsType
<1> SUFFICES ASSUME Inv PROVE SetsType
  OBVIOUS
<1>1. TypeOK /\ commands \in Seq(Messages) /\ to_coach \in Seq(Messages)
  BY DEF Inv, TypeOK
<1>2. Said \subseteq Players /\ Unums(commands, "change") \subseteq Players
  BY <1>1, UnumsOK DEF Said
<1>3. Doomed \subseteq Players /\ Awaited \subseteq Players
  BY <1>1, <1>2 DEF Doomed, Awaited, Believed, TypeOK
<1>4. Cardinality(Awaited) <= Len(commands) /\ Len(commands) \in Nat
  <2>1. Cardinality(Awaited) <= Cardinality(Unums(commands, "change"))
    BY <1>2, <1>3, Sizes DEF Awaited
  <2>2. /\ Cardinality(Unums(commands, "change")) <= Len(commands)
        /\ Len(commands) \in Nat
    BY <1>1, UnumsOK
  <2>3. Cardinality(Awaited) \in Nat /\ Cardinality(Unums(commands, "change")) \in Nat
    BY <1>2, <1>3, Sizes
  <2> QED
    BY <2>1, <2>2, <2>3
<1>5. Due \in Nat
  BY <1>1, <1>3, Sizes DEF Due, TypeOK
<1>6. Late \in Nat
  BY <1>3, <1>4, Sizes DEF Late
<1> QED
  BY <1>1, <1>3, <1>4, <1>5, <1>6, Sizes, CoachAssumption DEF SetsType, TypeOK

LEMMA SetsNext == Inv' => SetsType'
BY SetsOK, PTL

-----------------------------------------------------------------------------
(* Actions that doom nobody                                                *)

\* What becomes due in a step is covered by a command of another step that leaves
\* the network, or by what is lost.
LEMMA Settled ==
    ASSUME WInv, Inv', UNCHANGED <<delayed, crossed>>,
           \/ Due' <= Due /\ Late' <= Late /\ lost <= lost'
           \/ Due' <= Due + 1 /\ Late' <= Late - 1 /\ lost <= lost'
           \/ Due' <= Due + 1 /\ Late' <= Late /\ lost' = lost + 1
    PROVE  PaidFor'
<1>1. CASE crossed = SubsMax
  BY <1>1 DEF PaidFor
<1>2. CASE Due + Late <= lost + delayed + crossed
  <2> DEFINE due1 == Due'
             late1 == Late'
             lost1 == lost'
             delayed1 == delayed'
             crossed1 == crossed'
  <2>1. /\ Due \in Nat /\ due1 \in Nat /\ Late \in Nat /\ late1 \in Nat
        /\ lost \in Nat /\ lost1 \in Nat /\ delayed \in Nat /\ crossed \in Nat
    BY SetsOK, SetsNext DEF WInv, SetsType
  <2>2. \/ due1 <= Due /\ late1 <= Late /\ lost <= lost1
        \/ due1 <= Due + 1 /\ late1 <= Late - 1 /\ lost <= lost1
        \/ due1 <= Due + 1 /\ late1 <= Late /\ lost1 = lost + 1
    OBVIOUS
  <2>3. delayed1 = delayed /\ crossed1 = crossed
    OBVIOUS
  <2> HIDE DEF due1, late1, lost1, delayed1, crossed1
  <2>4. due1 + late1 <= lost1 + delayed1 + crossed1
    BY <1>2, <2>1, <2>2, <2>3
  <2> QED
    BY <2>4, Zenon DEF PaidFor, due1, late1, lost1, delayed1, crossed1
<1> QED
  BY <1>1, <1>2 DEF PaidFor, WInv

\* Nothing is asked for or carried out, and no more is believed.
LEMMA NoDebt ==
    ASSUME WInv, Inv', UNCHANGED <<commands, delayed, crossed, wasted>>,
           Awaited' = Awaited,
           NEW u,
           \/ Doomed' \subseteq Doomed /\ lost' = lost
           \/ Doomed' \subseteq Doomed \cup {u} /\ lost' = lost + 1
    PROVE  PaidFor'
<1>1. \/ Cardinality(Doomed') <= Cardinality(Doomed) /\ lost' = lost
      \/ Cardinality(Doomed') <= Cardinality(Doomed) + 1 /\ lost' = lost + 1
  <2>1. Doomed \subseteq Players /\ Doomed' \subseteq Players
    BY SetsOK, SetsNext DEF WInv, SetsType
  <2> QED
    BY <2>1, Sizes
<1>2. /\ Cardinality(Doomed) \in Nat /\ Cardinality(Doomed') \in Nat
      /\ wasted \in Nat /\ lost \in Nat /\ Late \in Nat
      /\ Due \in Nat /\ Due' \in Nat
  BY SetsOK, SetsNext DEF WInv, SetsType
<1>3. Late' = Late
  BY DEF Late
<1>4. \/ Due' <= Due /\ lost' = lost
      \/ Due' <= Due + 1 /\ lost' = lost + 1
  BY <1>1, <1>2 DEF Due
<1>5. \/ Due' <= Due /\ Late' <= Late /\ lost <= lost'
      \/ Due' <= Due + 1 /\ Late' <= Late /\ lost' = lost + 1
  BY <1>2, <1>3, <1>4
<1> QED
  BY <1>5, Settled

\* The coach hears a message.
LEMMA HearPaid == ASSUME WInv, Inv', CoachHear PROVE WInv'
<1> DEFINE m == Head(to_coach)
<1>1. /\ to_coach # <<>> /\ to_coach' = Tail(to_coach) /\ to_coach \in Seq(Messages)
      /\ UNCHANGED <<server, commands, said, team, first_done, decided, history>>
  BY SetsOK DEF CoachHear, WInv, SetsType
<1>2. Said = Said' \cup (IF m.kind = "say" THEN {m.unum} ELSE {})
  BY <1>1, UnumsTail DEF Said
<1>3. Told = Told' \cup (IF m.kind = "change" THEN {m.unum} ELSE {})
  BY <1>1, UnumsTail DEF Told
<1>4. \/ m.kind = "change" /\ recovery' = recovery \ {m.unum} /\ heard' = heard
      \/ m.kind = "say" /\ recovery' = recovery /\ heard' = heard \cup {m.unum}
  BY DEF CoachHear, HearChange, HearSay, AfterChange
<1> HIDE DEF m
<1>5. Believed' \subseteq Believed
  BY <1>1, <1>2, <1>3, <1>4 DEF Believed, team, history
<1>6. Awaited' = Awaited
  BY <1>1 DEF Awaited, history
<1>7. Doomed' \subseteq Doomed
  BY <1>1, <1>5, <1>6 DEF Doomed, server
<1>8. Orderly'
  BY <1>1, <1>2, <1>4 DEF WInv, Orderly, server, team, history
<1>9. PaidFor'
  BY <1>1, <1>6, <1>7, NoDebt DEF history
<1> QED
  BY <1>8, <1>9 DEF WInv

\* A message to the coach is lost: the coach may go on believing.
LEMMA MissesPaid == ASSUME WInv, Inv', CoachMisses PROVE WInv'
<1> DEFINE m == Head(to_coach)
<1>1. /\ to_coach # <<>> /\ to_coach' = Tail(to_coach) /\ to_coach \in Seq(Messages)
      /\ lost' = lost + 1
      /\ UNCHANGED <<server, commands, said, team, coach, delayed, asked, crossed, wasted>>
  BY SetsOK DEF CoachMisses, WInv, SetsType
<1>2. Said = Said' \cup (IF m.kind = "say" THEN {m.unum} ELSE {})
  BY <1>1, UnumsTail DEF Said
<1>3. Told = Told' \cup (IF m.kind = "change" THEN {m.unum} ELSE {})
  BY <1>1, UnumsTail DEF Told
<1> HIDE DEF m
<1>4. Believed' \subseteq Believed \cup {m.unum}
  BY <1>1, <1>2, <1>3 DEF Believed, team, coach
<1>5. Awaited' = Awaited
  BY <1>1 DEF Awaited
<1>6. Doomed' \subseteq Doomed \cup {m.unum}
  BY <1>1, <1>4, <1>5 DEF Doomed, server
<1>7. Orderly'
  BY <1>1, <1>2 DEF WInv, Orderly, server, team, coach
<1>8. PaidFor'
  BY <1>1, <1>5, <1>6, NoDebt
<1> QED
  BY <1>7, <1>8 DEF WInv

\* A player tires, and knows.
LEMMA TirePaid == ASSUME WInv, Inv', NEW u \in Players, Tire(u) PROVE WInv'
<1>1. /\ mode = "PlayOn" /\ tired' = tired \cup {u} /\ low' = low \cup {u}
      /\ UNCHANGED <<mode, late, srv_type, srv_subs, network, turn, spoken, coach, history>>
  BY DEF Tire
<1>2. Said' = Said /\ Told' = Told /\ Awaited' = Awaited
  BY <1>1 DEF Said, Told, Awaited, network, history
<1>3. Doomed' \subseteq Doomed
  BY <1>1, <1>2 DEF Doomed, Believed, network, coach, history
<1>4. Orderly'
  BY <1>1, <1>2 DEF WInv, Orderly, network, coach, history
<1>5. PaidFor'
  BY <1>1, <1>2, <1>3, NoDebt DEF network, history
<1> QED
  BY <1>4, <1>5 DEF WInv

\* What a player says, it believes.
LEMMA SpeakPaid == ASSUME WInv, Inv', Speak PROVE WInv'
<1>1. /\ said' \subseteq low /\ spoken' = TRUE
      /\ UNCHANGED <<server, commands, to_coach, low, turn, coach, history>>
  BY DEF Speak
<1>2. Said' = Said /\ Told' = Told /\ Awaited' = Awaited
  BY <1>1 DEF Said, Told, Awaited, history
<1>3. Doomed' \subseteq Doomed
  BY <1>1, <1>2 DEF Doomed, Believed, server, coach, history
<1>4. Orderly'
  BY <1>1, <1>2 DEF WInv, Orderly, server, coach, history
<1>5. PaidFor'
  BY <1>1, <1>2, <1>3, NoDebt DEF history
<1> QED
  BY <1>4, <1>5 DEF WInv

-----------------------------------------------------------------------------
(* Decisions                                                               *)

\* A decision of the coach turns beliefs into requests.
LEMMA DecisionSets ==
    ASSUME WInv, DecisionReady
    PROVE  /\ asked = {} /\ Awaited = {} /\ Said = {} /\ Told = {} /\ Said' = {} /\ Told' = {}
           /\ decided' /\ heard' = {}
           /\ recovery' = IF mode = "BeforeKickOff" THEN {} ELSE recovery \cup heard
           /\ UNCHANGED <<mode, tired, srv_subs, said, low, lost, delayed, crossed, wasted>>
<1>1. /\ to_coach = <<>> /\ to_coach' = <<>> /\ ~decided /\ decided' /\ heard' = {}
      /\ recovery' = IF mode = "BeforeKickOff" THEN {} ELSE recovery \cup heard
      /\ UNCHANGED <<mode, tired, srv_subs, said, low, lost, delayed, crossed, wasted>>
  BY DEF DecisionReady, UpdateTeammateStamina, server, team
<1>2. asked = {}
  BY <1>1 DEF WInv, Orderly
<1> QED
  BY <1>1, <1>2, UnumsEmpty DEF Said, Told, Awaited

\* A decision whose every request is for a player believed tired, or made before
\* the kick-off, and which sends one command for each.
LEMMA DecisionPaid ==
    ASSUME WInv, Inv', DecisionReady,
           mode = "BeforeKickOff" \/ asked' \subseteq recovery',
           asked' \subseteq Players,
           asked' \subseteq Unums(commands', "change"),
           Len(commands') <= Len(commands) + Cardinality(asked')
    PROVE  WInv'
<1>1. /\ asked = {} /\ Awaited = {} /\ Said = {} /\ Told = {} /\ Said' = {} /\ Told' = {}
      /\ decided' /\ heard' = {}
      /\ recovery' = IF mode = "BeforeKickOff" THEN {} ELSE recovery \cup heard
      /\ UNCHANGED <<mode, tired, srv_subs, said, low, lost, delayed, crossed, wasted>>
  BY DecisionSets
<1>2. Awaited' = asked'
  BY DEF Awaited
<1>3. Doomed' \subseteq Doomed
  BY <1>1, <1>2 DEF Doomed, Believed
<1>4. Orderly'
  BY <1>1 DEF WInv, Orderly
<1>5. /\ Cardinality(Doomed') <= Cardinality(Doomed)
      /\ Cardinality(Awaited) = 0 /\ Cardinality(Awaited') = Cardinality(asked')
      /\ Cardinality(asked') \in Nat
  <2>1. Doomed \subseteq Players /\ Doomed' \subseteq Players
    BY SetsOK, SetsNext DEF WInv, SetsType
  <2>2. Cardinality(Awaited) = 0
    BY <1>1, FS_EmptySet
  <2> QED
    BY <1>2, <1>3, <2>1, <2>2, Sizes
<1>6. /\ Cardinality(Doomed) \in Nat /\ Cardinality(Doomed') \in Nat
      /\ Len(commands) \in Nat /\ Len(commands') \in Nat
      /\ lost \in Nat /\ delayed \in Nat /\ crossed \in Nat /\ wasted \in Nat
  BY SetsOK, SetsNext DEF WInv, SetsType
<1>7. Due' <= Due
  BY <1>1, <1>5, <1>6 DEF Due
<1>8. Late' <= Late
  BY <1>5, <1>6 DEF Late
<1>9. PaidFor'
  <2>1. Due \in Nat /\ Due' \in Nat /\ Late \in Nat /\ Late' \in Nat
    BY SetsOK, SetsNext DEF WInv, SetsType
  <2> QED
    <3>1. lost <= lost' /\ UNCHANGED <<delayed, crossed>>
      BY <1>1, <1>6
    <3> QED
      BY <1>7, <1>8, <3>1, Settled
<1> QED
  BY <1>4, <1>9 DEF WInv

\* One command is sent for each player of an assignment.
LEMMA SentForEach ==
    ASSUME WInv, NEW some, some \subseteq Players, NEW assigned \in [some -> Types],
           Send(assigned)
    PROVE  /\ asked' = some /\ asked' \subseteq Unums(commands', "change")
           /\ Len(commands') <= Len(commands) + Cardinality(asked')
<1> DEFINE S == {Change(u, assigned[u]) : u \in DOMAIN assigned}
           n == Cardinality(S)
<1>1. DOMAIN assigned = some /\ IsFiniteSet(some) /\ Cardinality(some) \in Nat
  BY CoachAssumption, FS_Subset, FS_CardinalityType
<1>2. PICK order \in SetToSeqs(S) : commands' = commands \o order /\ asked' = DOMAIN assigned
  BY DEF Send
<1>3. S \subseteq Messages
  BY <1>1, ChangeOK DEF Changes
<1>4. IsFiniteSet(S) /\ n <= Cardinality(some) /\ n \in Nat
  <2> DEFINE f == [u \in some |-> Change(u, assigned[u])]
  <2>1. f \in Surjection(some, S)
    BY <1>1 DEF Surjection
  <2> HIDE DEF f, S
  <2> QED
    BY <1>1, <2>1, FS_Surjection, FS_CardinalityType
<1>5. order \in [1 .. n -> S] /\ \A i, j \in 1 .. n : i # j => order[i] # order[j]
  BY <1>2 DEF SetToSeqs
<1>6. order \in Surjection(1 .. n, S)
  <2> HIDE DEF S
  <2>1. order \in Injection(1 .. n, S)
    BY <1>5 DEF Injection, IsInjective
  <2>2. Cardinality(1 .. n) = n
    <3> HIDE DEF n
    <3>1. ASSUME NEW k \in Nat PROVE Cardinality(1 .. k) = k
      BY FS_Interval
    <3> QED
      BY <1>4, <3>1
  <2> QED
    BY <1>4, <2>1, <2>2, FS_Injection
<1>7. order \in Seq(Messages) /\ Len(order) = n
  <2>0. order \in SetToSeqs(S)
    BY <1>2
  <2> HIDE DEF S
  <2>1. order \in Seq(Messages)
    BY <1>3, <1>4, <2>0, OrderOK
  <2>2. DOMAIN order = 1 .. n /\ DOMAIN order = 1 .. Len(order) /\ Len(order) \in Nat
    BY <1>5, <2>1, LenProperties
  <2> HIDE DEF n
  <2> QED
    BY <1>4, <2>1, <2>2
<1>8. commands \in Seq(Messages) /\ Len(commands) \in Nat
  BY SetsOK DEF WInv, SetsType
<1> DEFINE r == commands \o order
<1>9. /\ r \in Seq(Messages) /\ Len(r) = Len(commands) + n
      /\ \A i \in 1 .. Len(order) : r[Len(commands) + i] = order[i]
      /\ DOMAIN r = 1 .. Len(r)
  <2> HIDE DEF S, n
  <2>1. r \in Seq(Messages) /\ Len(r) = Len(commands) + Len(order)
    BY <1>7, <1>8, ConcatProperties
  <2>2. \A i \in 1 .. Len(order) : r[Len(commands) + i] = order[i]
    BY <1>7, <1>8
  <2> QED
    BY <1>7, <2>1, <2>2, LenProperties
<1>10. ASSUME NEW u \in some PROVE u \in Unums(r, "change")
  <2>1. Change(u, assigned[u]) \in S
    BY <1>1
  <2>2. PICK i \in 1 .. n : order[i] = Change(u, assigned[u])
    <3> HIDE DEF S, n
    <3> QED
      BY <1>6, <2>1 DEF Surjection
  <2>3. Len(commands) + i \in DOMAIN r /\ r[Len(commands) + i] = Change(u, assigned[u])
    <3> HIDE DEF S, n, r
    <3> QED
      BY <1>4, <1>7, <1>8, <1>9, <2>2
  <2> HIDE DEF r
  <2> QED
    BY <2>3 DEF Unums, Change
<1> HIDE DEF S, n, r
<1> QED
  BY <1>1, <1>2, <1>4, <1>8, <1>9, <1>10 DEF r

\* What is asked for of an assignment is a part of it.
LEMMA AllowedPart ==
    ASSUME NEW some, NEW assigned \in [some -> Types]
    PROVE  \E fewer \in SUBSET some : Allowed(assigned) \in [fewer -> Types]
<1> DEFINE fewer == {v \in DOMAIN assigned : available[assigned[v]] > 0}
<1>1. fewer \in SUBSET some
  OBVIOUS
<1>2. Allowed(assigned) = [u \in fewer |-> assigned[u]]
  BY DEF Allowed
<1>3. \A u \in fewer : assigned[u] \in Types
  OBVIOUS
<1> HIDE DEF fewer
<1> QED
  BY <1>1, <1>2, <1>3

\* Before the kick-off nobody is believed tired.
LEMMA FirstPaid == ASSUME WInv, Inv', FirstSubstitution PROVE WInv'
<1> DEFINE WithGoalie(assigned) ==
               [u \in DOMAIN assigned \cup {Goalie} |->
                    IF u = Goalie THEN Hetero_Default ELSE assigned[u]]
<1>1. DecisionReady /\ mode = "BeforeKickOff"
  BY DEF FirstSubstitution
<1>2. PICK present \in SUBSET (Players \ {Goalie}) :
      \E assigned \in Assignments(present, FirstCandidates, Cardinality(present)) :
          Send(Allowed(WithGoalie(assigned)))
  BY DEF FirstSubstitution
<1>3. PICK assigned \in Assignments(present, FirstCandidates, Cardinality(present)) :
          Send(Allowed(WithGoalie(assigned)))
  BY <1>2
<1>4. PICK some \in SUBSET present : assigned \in [some -> Types]
  BY DEF Assignments
<1> DEFINE all == WithGoalie(assigned)
<1>5. all \in [some \cup {Goalie} -> Types]
  BY <1>4, CoachAssumption DEF Hetero_Default
<1>6. Send(Allowed(all))
  BY <1>3
<1> HIDE DEF all
<1>7. PICK fewer \in SUBSET (some \cup {Goalie}) : Allowed(all) \in [fewer -> Types]
  BY <1>5, AllowedPart
<1>8. fewer \subseteq Players
  BY CoachAssumption
<1>9. /\ asked' = fewer /\ asked' \subseteq Unums(commands', "change")
      /\ Len(commands') <= Len(commands) + Cardinality(asked')
  BY <1>6, <1>7, <1>8, SentForEach
<1> QED
  BY <1>1, <1>8, <1>9, DecisionPaid

\* Only players believed tired are replaced later.
LEMMA TiredPaid == ASSUME WInv, Inv', TiredSubstitution PROVE WInv'
<1>1. DecisionReady
  BY DEF TiredSubstitution
<1>2. PICK assigned \in Assignments(recovery', available, Left) : Send(Allowed(assigned))
  BY DEF TiredSubstitution
<1>3. recovery' \subseteq Players
  BY <1>1 DEF DecisionReady, UpdateTeammateStamina, WInv, Inv, TypeOK
<1>4. PICK some \in SUBSET recovery' : assigned \in [some -> Types]
  BY DEF Assignments
<1>5. PICK fewer \in SUBSET some : Allowed(assigned) \in [fewer -> Types]
  BY <1>4, AllowedPart
<1>6. /\ asked' = fewer /\ asked' \subseteq Unums(commands', "change")
      /\ Len(commands') <= Len(commands) + Cardinality(asked')
  BY <1>2, <1>3, <1>4, <1>5, SentForEach
<1> QED
  BY <1>1, <1>3, <1>4, <1>5, <1>6, DecisionPaid

LEMMA NonePaid == ASSUME WInv, Inv', NoSubstitution PROVE WInv'
<1>1. DecisionReady /\ commands' = commands /\ asked' = asked
  BY DEF NoSubstitution
<1>2. asked' = {} /\ Cardinality(asked') = 0
  BY <1>1, DecisionSets, FS_EmptySet
<1>3. Len(commands) \in Nat
  BY SetsOK DEF WInv, SetsType
<1>4. Len(commands') <= Len(commands) + Cardinality(asked')
  BY <1>1, <1>2, <1>3
<1> QED
  BY <1>1, <1>2, <1>4, DecisionPaid

-----------------------------------------------------------------------------
(* Commands                                                                *)

\* A command leaves the network: it was the one awaited, or another one.
LEMMA HeadTaken ==
    ASSUME WInv, Inv', commands # <<>>, commands' = Tail(commands), UNCHANGED asked
    PROVE  /\ Head(commands) \in Changes
           /\ Len(commands') = Len(commands) - 1
           /\ \/ Awaited' = Awaited
              \/ /\ Head(commands).unum \in asked
                 /\ Awaited' = Awaited \ {Head(commands).unum}
                 /\ Head(commands).unum \in Awaited
           /\ Late' <= Late
           /\ Awaited' = Awaited => Late' <= Late - 1
<1> DEFINE u == Head(commands).unum
           P == Unums(commands, "change")
<1>1. commands \in Seq(Changes)
  BY DEF WInv, Inv
<1>2. Head(commands) \in Changes /\ Len(commands') = Len(commands) - 1
  BY <1>1, HeadTailProperties
<1>3. P = P' \cup {u}
  <2>1. Head(commands).kind = "change" /\ commands \in Seq(Messages)
    BY <1>1, <1>2, ChangesAreMessages DEF Changes
  <2> QED
    BY <2>1, UnumsTail
<1> HIDE DEF P
<1>4. Awaited = asked \cap P /\ Awaited' = asked \cap P'
  BY DEF Awaited, P
<1> HIDE DEF u
<1>5. \/ Awaited' = Awaited
      \/ u \in asked /\ u \in Awaited /\ Awaited' = Awaited \ {u}
  BY <1>3, <1>4
<1>6. Awaited \subseteq Awaited' \cup {u} /\ Awaited \subseteq Players /\ Awaited' \subseteq Players
  BY <1>3, <1>4, SetsOK, SetsNext DEF WInv, SetsType
<1>7. Cardinality(Awaited) <= Cardinality(Awaited') + 1
  BY <1>6, Sizes
<1>8. /\ Cardinality(Awaited) \in Nat /\ Cardinality(Awaited') \in Nat
      /\ Len(commands) \in Nat
  BY SetsOK, SetsNext DEF WInv, SetsType
<1>9. Late' <= Late
  BY <1>2, <1>7, <1>8 DEF Late
<1>10. ASSUME Awaited' = Awaited PROVE Late' <= Late - 1
  <2>1. Cardinality(Awaited') = Cardinality(Awaited)
    BY <1>10
  <2> QED
    BY <1>2, <1>8, <2>1 DEF Late
<1> QED
  BY <1>2, <1>5, <1>9, <1>10 DEF u

\* A command that does nothing, refused or lost, dooms nobody.
LEMMA CommandGone ==
    ASSUME WInv, Inv', commands # <<>>, commands' = Tail(commands),
           UNCHANGED <<mode, tired, srv_subs, to_coach, said, low, heard, recovery, decided,
                       delayed, crossed, wasted, asked>>,
           lost' = lost \/ lost' = lost + 1
    PROVE  WInv'
<1>1. Awaited' \subseteq Awaited /\ Late' <= Late
  BY HeadTaken
<1>2. Said' = Said /\ Told' = Told
  BY DEF Said, Told
<1>3. Doomed' \subseteq Doomed /\ Doomed \subseteq Players /\ Doomed' \subseteq Players
  BY <1>1, <1>2, SetsOK, SetsNext DEF Doomed, Believed, WInv, SetsType
<1>4. Cardinality(Doomed') <= Cardinality(Doomed)
  BY <1>3, Sizes
<1>5. Orderly'
  BY <1>2 DEF WInv, Orderly
<1>6. /\ Cardinality(Doomed) \in Nat /\ Cardinality(Doomed') \in Nat
      /\ wasted \in Nat /\ lost \in Nat /\ lost' \in Nat
      /\ Due \in Nat /\ Due' \in Nat /\ Late \in Nat /\ Late' \in Nat
  BY SetsOK, SetsNext DEF WInv, SetsType
<1>7. Due' <= Due /\ lost <= lost'
  BY <1>4, <1>6 DEF Due
<1>8. PaidFor'
  BY <1>1, <1>7, Settled
<1> QED
  BY <1>5, <1>8 DEF WInv

LEMMA LostPaid == ASSUME WInv, Inv', CommandLost PROVE WInv'
<1>1. /\ commands # <<>> /\ commands' = Tail(commands) /\ lost' = lost + 1
      /\ UNCHANGED <<mode, tired, srv_subs, to_coach, said, low, heard, recovery, decided,
                     delayed, crossed, wasted, asked>>
  BY DEF CommandLost, server, team, coach
<1> QED
  BY <1>1, CommandGone

\* A command that is carried out pays for itself when nothing goes wrong: the
\* player and the coach stop believing, and so does whoever would hear it.
LEMMA ServePaid == ASSUME WInv, Inv', Serve PROVE WInv'
<1> DEFINE m == Head(commands)
           u == m.unum
<1>1. /\ commands # <<>> /\ commands' = Tail(commands)
      /\ UNCHANGED <<mode, said, heard, recovery, decided, delayed, crossed, asked>>
  BY DEF Serve, coach
<1>2. CASE ~Accepts(m.type)
  <2>1. UNCHANGED <<srv_subs, tired, wasted, to_coach, low, lost>>
    BY <1>2 DEF Serve
  <2> QED
    BY <1>1, <2>1, CommandGone
<1>3. CASE Accepts(m.type)
  <2>1. /\ srv_subs' = IF mode = "BeforeKickOff" THEN srv_subs ELSE srv_subs + 1
        /\ tired' = tired \ {u}
        /\ wasted' = IF mode = "SetPlay" /\ u \notin tired THEN wasted + 1 ELSE wasted
        /\ to_coach' = Append(to_coach, m)
        /\ \/ low' = low \ {u} /\ lost' = lost
           \/ low' = low /\ lost' = lost + 1
    BY <1>3 DEF Serve, OwnChange
  <2>2. mode # "PlayOn" /\ (mode = "BeforeKickOff" \/ srv_subs < SubsMax)
    BY <1>3 DEF Accepts
  <2>3. /\ m \in Messages /\ m.kind = "change"
        /\ Late' <= Late
        /\ \/ Awaited' = Awaited /\ Late' <= Late - 1
           \/ u \in asked /\ Awaited' = Awaited \ {u} /\ u \in Awaited
    BY <1>1, HeadTaken DEF Changes
  <2>4. /\ Cardinality(Doomed) \in Nat /\ Cardinality(Doomed') \in Nat
        /\ to_coach \in Seq(Messages)
        /\ lost \in Nat /\ lost' \in Nat /\ wasted \in Nat /\ wasted' \in Nat
        /\ Due \in Nat /\ Due' \in Nat /\ Late \in Nat /\ Late' \in Nat
        /\ srv_subs \in Nat /\ SubsMax \in Nat
        /\ Doomed \subseteq Players /\ Doomed' \subseteq Players
    BY SetsOK, SetsNext DEF WInv, SetsType
  <2> HIDE DEF m
  <2>5. Said' = Said /\ Told' = Told \cup {u}
    <3>1. \A kind : Unums(Append(to_coach, m), kind)
                = Unums(to_coach, kind) \cup (IF m.kind = kind THEN {m.unum} ELSE {})
      BY <2>3, <2>4, UnumsAppend
    <3>2. Said' = Unums(Append(to_coach, m), "say") /\ Told' = Unums(Append(to_coach, m), "change")
      BY <2>1 DEF Said, Told
    <3> QED
      BY <2>3, <3>1, <3>2 DEF Said, Told
  <2> HIDE DEF u
  <2>6. Believed' \subseteq Believed /\ Awaited' \subseteq Awaited
    BY <1>1, <2>1, <2>3, <2>5 DEF Believed
  <2>7. /\ Doomed' \subseteq Doomed \cup {u}
        /\ u \notin tired => Doomed' \subseteq Doomed
        /\ mode = "BeforeKickOff" => Doomed' = {}
    BY <1>1, <2>1, <2>6 DEF Doomed
  <2>8. Orderly'
    <3>1. wasted' <= srv_subs' /\ srv_subs' <= SubsMax
      BY <2>1, <2>2, <2>4 DEF WInv, Orderly
    <3> QED
      BY <1>1, <2>1, <2>5, <3>1 DEF WInv, Orderly
  <2>9. Due' <= Due + 1
    <3>1. CASE mode = "SetPlay" /\ u \notin tired
      BY <2>1, <2>4, <2>7, <3>1, Sizes DEF Due
    <3>2. CASE ~(mode = "SetPlay" /\ u \notin tired)
      <4>1. Cardinality(Doomed') <= Cardinality(Doomed) + 1
        BY <2>4, <2>7, Sizes
      <4>2. wasted' = wasted
        BY <2>1, <3>2
      <4> QED
        BY <2>4, <4>1, <4>2 DEF Due
    <3> QED
      BY <3>1, <3>2
  <2>10. ASSUME Awaited' = Awaited /\ Late' <= Late - 1 PROVE PaidFor'
    <3>1. lost <= lost'
      BY <2>4, <2>1
    <3>2. Due' <= Due + 1 /\ Late' <= Late - 1 /\ UNCHANGED <<delayed, crossed>>
      BY <1>1, <2>9, <2>10
    <3> QED
      BY <3>1, <3>2, Settled
  <2>11. ASSUME lost' = lost + 1 PROVE PaidFor'
    <3>1. Due' <= Due + 1 /\ Late' <= Late /\ UNCHANGED <<delayed, crossed>>
      BY <1>1, <2>3, <2>9
    <3> QED
      BY <2>11, <3>1, Settled
  <2>12. ASSUME lost' = lost, u \in asked, Awaited' = Awaited \ {u}, u \in Awaited
         PROVE  PaidFor'
    <3>1. low' = low \ {u}
      BY <2>1, <2>4, <2>12
    <3>2. heard = {} /\ Said = {}
      BY <2>12 DEF WInv, Orderly
    <3>3. u \notin Doomed'
      BY <1>1, <2>5, <2>12, <3>1, <3>2 DEF Doomed, Believed
    <3>4. mode # "BeforeKickOff" /\ u \notin tired => u \in Doomed
      BY <2>12 DEF Doomed
    <3>5. Due' <= Due
      <4>1. CASE mode = "SetPlay" /\ u \notin tired
        <5>1. u \in Doomed /\ Doomed' \subseteq Doomed \ {u}
          BY <2>7, <3>3, <3>4, <4>1
        <5>2. Cardinality(Doomed') + 1 <= Cardinality(Doomed) /\ wasted' = wasted + 1
          BY <2>1, <2>4, <4>1, <5>1, Sizes
        <5> QED
          BY <2>4, <5>2 DEF Due
      <4>2. CASE ~(mode = "SetPlay" /\ u \notin tired)
        <5>1. Doomed' \subseteq Doomed
          BY <2>7, <3>3
        <5>2. Cardinality(Doomed') <= Cardinality(Doomed) /\ wasted' = wasted
          BY <2>1, <2>4, <4>2, <5>1, Sizes
        <5> QED
          BY <2>4, <5>2 DEF Due
      <4> QED
        BY <4>1, <4>2
    <3>6. lost <= lost'
      BY <2>4, <2>12
    <3>7. Late' <= Late /\ UNCHANGED <<delayed, crossed>>
      BY <1>1, <2>3
    <3> QED
      BY <3>5, <3>6, <3>7, Settled
  <2>13. PaidFor'
    <3>1. lost' = lost \/ lost' = lost + 1
      BY <2>1
    <3>2. \/ Awaited' = Awaited /\ Late' <= Late - 1
          \/ u \in asked /\ Awaited' = Awaited \ {u} /\ u \in Awaited
      BY <2>3
    <3> QED
      BY <2>10, <2>11, <2>12, <3>1, <3>2
  <2> QED
    BY <2>8, <2>13 DEF WInv
<1> QED
  BY <1>2, <1>3

-----------------------------------------------------------------------------
(* The next step                                                           *)

\* What was said in the step of a request is counted; what is still on its way
\* to the server is late.
LEMMA StepPaid == ASSUME WInv, Inv', Step PROVE WInv'
<1> DEFINE S == {Say(u) : u \in said}
           n == crossed + Cardinality(said \cap asked)
<1>1. /\ to_coach = <<>> /\ spoken /\ decided /\ ~decided'
      /\ delayed' = delayed + Len(commands)
      /\ mode' \in NextMode
      /\ said' = {} /\ asked' = {}
      /\ crossed' = Min({SubsMax, n})
      /\ UNCHANGED <<srv_subs, tired, commands, low, recovery, heard, lost, wasted>>
  BY DEF Step, book
<1>2. PICK order \in SetToSeqs(S) : to_coach' = order
  BY DEF Step
<1>3. said \subseteq Players
  BY DEF WInv, Inv, TypeOK
<1>4. Said' \subseteq said /\ Told' = {}
  <2>1. \A i \in DOMAIN order : order[i] \in S
    BY DEF SetToSeqs
  <2>2. \A i \in DOMAIN order : order[i].kind = "say" /\ order[i].unum \in said
    BY <2>1 DEF Say
  <2> QED
    BY <1>2, <2>2 DEF Said, Told, Unums
<1> HIDE DEF S
<1>5. Said = {} /\ Told = {} /\ heard = {}
  BY <1>1, UnumsEmpty DEF Said, Told, WInv, Orderly
<1>6. Awaited' = {} /\ Cardinality(Awaited') = 0
  BY <1>1, FS_EmptySet DEF Awaited
<1>7. mode' = "BeforeKickOff" => mode = "BeforeKickOff"
  BY <1>1 DEF NextMode, WInv, Inv, TypeOK
<1>8. Orderly'
  BY <1>1, <1>4, <1>5, <1>7 DEF WInv, Orderly
<1>9. Doomed' \subseteq Doomed \cup (said \cap asked)
  <2>1. CASE mode = "BeforeKickOff"
    <3>1. low = {} /\ said = {} /\ recovery = {}
      BY <2>1 DEF WInv, Orderly
    <3> QED
      BY <1>1, <1>4, <1>5, <1>6, <3>1 DEF Doomed, Believed
  <2>2. CASE mode # "BeforeKickOff"
    BY <1>1, <1>4, <1>5, <1>6, <2>2 DEF Doomed, Believed
  <2> QED
    BY <2>1, <2>2
<1>10. /\ Cardinality(Doomed) \in Nat /\ Cardinality(Doomed') \in Nat
       /\ Cardinality(Awaited) \in Nat /\ Cardinality(Awaited) <= Len(commands)
       /\ Len(commands) \in Nat
       /\ lost \in Nat /\ delayed \in Nat /\ crossed \in Nat /\ wasted \in Nat
       /\ SubsMax \in Nat /\ Doomed \subseteq Players /\ Doomed' \subseteq Players
  BY SetsOK, SetsNext DEF WInv, SetsType
<1>11. /\ Cardinality(said \cap asked) \in Nat
       /\ Cardinality(Doomed') <= Cardinality(Doomed) + Cardinality(said \cap asked)
  <2>1. IsFiniteSet(Doomed) /\ IsFiniteSet(said \cap asked)
        /\ Cardinality(said \cap asked) \in Nat
    BY <1>3, <1>10, Sizes
  <2> DEFINE D == Doomed
             C == said \cap asked
  <2> HIDE DEF D, C
  <2>2. /\ IsFiniteSet(D \cup C) /\ IsFiniteSet(D \cap C)
        /\ Cardinality(D \cup C) = Cardinality(D) + Cardinality(C) - Cardinality(D \cap C)
    BY <2>1, FS_Union, FS_Intersection DEF D, C
  <2>3. Cardinality(D \cap C) \in Nat /\ Cardinality(D \cup C) \in Nat
    BY <2>2, FS_CardinalityType
  <2>4. Doomed' \subseteq D \cup C
    BY <1>9 DEF D, C
  <2>5. Cardinality(Doomed') <= Cardinality(D \cup C)
    BY <2>2, <2>4, FS_Subset
  <2> QED
    BY <1>10, <2>1, <2>2, <2>3, <2>5 DEF D, C
<1>12. crossed' = SubsMax \/ crossed' = n
  <2>1. n \in Nat
    BY <1>10, <1>11
  <2> HIDE DEF n
  <2>2. \E x \in {SubsMax, n} : \A y \in {SubsMax, n} : x <= y
    BY <1>10, <2>1
  <2>3. Min({SubsMax, n}) \in {SubsMax, n} /\ Min({SubsMax, n}) <= SubsMax
    BY <2>2 DEF Min
  <2> QED
    BY <1>1, <2>3
<1>13. crossed = SubsMax => crossed' = SubsMax
  <2>1. n \in Nat /\ (crossed = SubsMax => SubsMax <= n)
    BY <1>10, <1>11
  <2> HIDE DEF n
  <2>2. \E x \in {SubsMax, n} : \A y \in {SubsMax, n} : x <= y
    BY <1>10, <2>1
  <2>3. /\ Min({SubsMax, n}) \in {SubsMax, n} /\ Min({SubsMax, n}) <= SubsMax
        /\ Min({SubsMax, n}) <= n
    BY <2>2 DEF Min
  <2> QED
    BY <1>1, <1>10, <2>1, <2>3
<1>14. PaidFor'
  <2>1. CASE crossed = SubsMax
    BY <1>13, <2>1 DEF PaidFor
  <2>2. CASE Due + Late <= lost + delayed + crossed
    <3> DEFINE k == Cardinality(said \cap asked)
    <3>1. k \in Nat /\ Late \in Nat /\ Late' \in Nat /\ Due \in Nat /\ Due' \in Nat
      BY <1>11, SetsOK, SetsNext DEF WInv, SetsType
    <3>2. Due' <= Due + k
      BY <1>1, <1>10, <1>11 DEF Due
    <3>3. Late' = Len(commands)
      BY <1>1, <1>6, <1>10 DEF Late
    <3> HIDE DEF k
    <3>4. Due + lost + delayed + crossed + k \in Nat /\ Due <= lost + delayed + crossed
      BY <1>10, <2>2, <3>1
    <3>5. Due' + Late' <= lost' + delayed' + crossed + k
      BY <1>1, <1>10, <3>1, <3>2, <3>3, <3>4
    <3>6. n = crossed + k
      BY DEF k
    <3> HIDE DEF n
    <3>7. lost' + delayed' \in Nat
      BY <1>1, <1>10
    <3> QED
      BY <1>10, <1>12, <3>1, <3>5, <3>6, <3>7 DEF PaidFor
  <2> QED
    BY <2>1, <2>2 DEF PaidFor, WInv
<1> QED
  BY <1>8, <1>14 DEF WInv

-----------------------------------------------------------------------------
(* Any number of steps                                                     *)

LEMMA InitPaid == Init => WInv
<1> SUFFICES ASSUME Init PROVE WInv
  OBVIOUS
<1>1. Said = {} /\ Told = {}
  BY UnumsEmpty DEF Init, Said, Told
<1>2. SubsMax \in Nat
  BY CoachAssumption
<1>3. Orderly
  BY <1>1, <1>2 DEF Init, Orderly
<1>4. Doomed = {} /\ Awaited = {}
  BY <1>1 DEF Init, Doomed, Awaited
<1>5. Cardinality(Doomed) = 0 /\ Cardinality(Awaited) = 0 /\ Len(commands) = 0
  BY <1>4, FS_EmptySet, EmptySeq DEF Init
<1>6. PaidFor
  BY <1>5 DEF Init, PaidFor, Due, Late
<1> QED
  BY <1>3, <1>6, InitInv DEF WInv

LEMMA NextPaid == WInv /\ Inv' /\ [Next]_vars => WInv'
<1> SUFFICES ASSUME WInv, Inv', [Next]_vars PROVE WInv'
  OBVIOUS
<1>1. CASE UNCHANGED vars
  <2>1. UNCHANGED <<server, network, team, coach, history>>
    BY <1>1 DEF vars
  <2>2. /\ UNCHANGED <<commands, delayed, crossed, wasted, lost, asked, to_coach, mode,
                       tired, low, said, heard, recovery, decided, srv_subs>>
    BY <2>1 DEF server, network, team, coach, history
  <2>3. Said' = Said /\ Told' = Told /\ Awaited' = Awaited
    BY <2>2 DEF Said, Told, Awaited
  <2>4. Doomed' = Doomed
    BY <2>2, <2>3 DEF Doomed, Believed
  <2> QED
    BY <2>2, <2>3, <2>4 DEF WInv, Orderly, PaidFor, Due, Late
<1> QED
  BY <1>1, HearPaid, MissesPaid, FirstPaid, TiredPaid, NonePaid, ServePaid, LostPaid,
     TirePaid, SpeakPaid, StepPaid DEF Next

\* For any players and limits, a fresh player is replaced in a set play no more
\* often than a datagram was lost or late, or a recovery was said in the step in
\* which the coach asked for the replacement: setPlayerType forgets the recovery
\* on the server's answer, the player its own (SampleCoach, CoachAgent,
\* SampleCommunication).
THEOREM WastePaidFor == Spec => []WasteBounded
<1>1. WInv => WasteBounded
  <2> SUFFICES ASSUME WInv PROVE WasteBounded
    OBVIOUS
  <2>1. SetsType
    BY SetsOK DEF WInv
  <2>2. wasted <= SubsMax
    BY <2>1 DEF WInv, Orderly, SetsType
  <2> QED
    BY <2>1, <2>2 DEF WInv, PaidFor, Due, WasteBounded, SetsType
<1>2. Init => WInv
  BY InitPaid
<1>3. WInv /\ [Next]_vars => WInv'
  BY NextPaid, NextInv DEF WInv
<1> QED
  BY <1>1, <1>2, <1>3, PTL DEF Spec
=============================================================================
