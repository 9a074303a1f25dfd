---------------------------- MODULE Coach_proofs ----------------------------
(***************************************************************************)
(* The coach never counts on more than there is: its book of player types  *)
(* stays within the server's, whatever is asked for, lost or late, and the *)
(* server refuses nothing as long as nothing is.                           *)
(***************************************************************************)
EXTENDS Coach, TLAPS, FiniteSetTheorems, SequenceTheorems, WellFoundedInduction

Changes == {m \in Messages : m.kind = "change"}

\* The positions of the notices of a change to one of some types.
Notices(q, T) == {i \in DOMAIN q : q[i].kind = "change" /\ q[i].type \in T}

Notice(m, T) == IF m.kind = "change" /\ m.type \in T THEN 1 ELSE 0

\* What the server keeps to, with which the coach compares its book.
WithinLimit == \A t \in Types \ {Hetero_Default} : Used(t) <= PtMax

Inv ==
    /\ TypeOK
    /\ commands \in Seq(Changes)
    /\ WithinLimit
    /\ BookKept

-----------------------------------------------------------------------------
(* Counting                                                                *)

LEMMA NoticesFinite ==
    ASSUME NEW q \in Seq(Messages), NEW T
    PROVE  /\ IsFiniteSet(Notices(q, T)) /\ Cardinality(Notices(q, T)) \in Nat
           /\ Notices(q, T) \subseteq 1 .. Len(q)
<1>1. DOMAIN q = 1 .. Len(q) /\ Len(q) \in Nat
  BY LenProperties
<1>2. IsFiniteSet(1 .. Len(q))
  BY <1>1, FS_Interval
<1>3. Notices(q, T) \subseteq 1 .. Len(q)
  BY <1>1 DEF Notices
<1> QED
  BY <1>2, <1>3, FS_Subset, FS_CardinalityType

\* One more notice, at the end.
LEMMA NoticesAppend ==
    ASSUME NEW q \in Seq(Messages), NEW m \in Messages, NEW T
    PROVE  Cardinality(Notices(Append(q, m), T)) = Cardinality(Notices(q, T)) + Notice(m, T)
<1> DEFINE r == Append(q, m)
           n == Len(q) + 1
<1>1. /\ r \in Seq(Messages) /\ Len(r) = n /\ r[n] = m
      /\ \A i \in 1 .. Len(q) : r[i] = q[i]
  BY AppendProperties
<1>2. DOMAIN q = 1 .. Len(q) /\ Len(q) \in Nat
  BY LenProperties
<1>3. DOMAIN r = 1 .. n
  BY <1>1, LenProperties
<1> HIDE DEF r
<1>4. n \notin Notices(q, T) /\ 1 .. n = (1 .. Len(q)) \cup {n}
  BY <1>2 DEF Notices
<1>5. Notices(r, T) = IF m.kind = "change" /\ m.type \in T THEN Notices(q, T) \cup {n}
                      ELSE Notices(q, T)
  BY <1>1, <1>2, <1>3, <1>4 DEF Notices
<1>6. IsFiniteSet(Notices(q, T)) /\ Cardinality(Notices(q, T)) \in Nat
  BY NoticesFinite
<1>7. Cardinality(Notices(q, T) \cup {n}) = Cardinality(Notices(q, T)) + 1
  BY <1>4, <1>6, FS_AddElement
<1>8. Cardinality(Notices(r, T)) = Cardinality(Notices(q, T)) + Notice(m, T)
  <2> HIDE DEF n
  <2> QED
    BY <1>5, <1>6, <1>7 DEF Notice
<1> QED
  BY <1>8 DEF r

\* One notice less, at the front.
LEMMA NoticesTail ==
    ASSUME NEW q \in Seq(Messages), q # <<>>, NEW T
    PROVE  Cardinality(Notices(q, T))
            = Cardinality(Notices(Tail(q), T)) + Notice(Head(q), T)
<1> DEFINE r == Tail(q)
           A == Notices(q, T) \ {1}
           B == Notices(r, T)
           f == [i \in B |-> i + 1]
<1>1. /\ r \in Seq(Messages) /\ Len(r) = Len(q) - 1
      /\ \A i \in 1 .. Len(r) : r[i] = q[i + 1]
  BY HeadTailProperties
<1>2. /\ DOMAIN q = 1 .. Len(q) /\ Len(q) \in Nat /\ Len(q) > 0
      /\ DOMAIN r = 1 .. Len(r)
  BY <1>1, LenProperties, EmptySeq
<1>3. Head(q) = q[1] /\ 1 \in DOMAIN q
  BY <1>2
<1> HIDE DEF r
<1>4. \A i \in B : i \in Nat /\ i + 1 \in A
  BY <1>1, <1>2 DEF Notices
<1>5. \A j \in A : j \in Nat /\ j - 1 \in B /\ (j - 1) + 1 = j
  BY <1>1, <1>2 DEF Notices
<1>6. f \in Bijection(B, A)
  <2>1. f \in [B -> A]
    BY <1>4
  <2>2. \A i, j \in B : f[i] = f[j] => i = j
    BY <1>4
  <2>3. \A j \in A : \E i \in B : f[i] = j
    BY <1>5
  <2> HIDE DEF f, A, B
  <2> QED
    BY <2>1, <2>2, <2>3 DEF Bijection, Injection, Surjection, IsInjective
<1>7. IsFiniteSet(B) /\ Cardinality(B) \in Nat
  BY <1>1, NoticesFinite
<1>8. Cardinality(A) = Cardinality(B)
  <2> HIDE DEF A, B, f
  <2> QED
    BY <1>6, <1>7, FS_Bijection DEF ExistsBijection
<1>9. IsFiniteSet(Notices(q, T)) /\ Cardinality(Notices(q, T)) \in Nat
  BY NoticesFinite
<1>10. 1 \in Notices(q, T) <=> q[1].kind = "change" /\ q[1].type \in T
  BY <1>3 DEF Notices
<1>11. Cardinality(A) = IF 1 \in Notices(q, T) THEN Cardinality(Notices(q, T)) - 1
                        ELSE Cardinality(Notices(q, T))
  BY <1>9, FS_RemoveElement
<1> HIDE DEF A, B
<1> QED
  BY <1>3, <1>7, <1>8, <1>9, <1>10, <1>11 DEF Notice, B, r

\* The players of a type, when one of them changes.
Users(types, t) == {u \in Players : types[u] = t}

LEMMA UsersChange ==
    ASSUME NEW types \in [Players -> Types], NEW u \in Players, NEW t \in Types, NEW x
    PROVE  LET new == [types EXCEPT ![u] = t]
           IN  /\ Cardinality(Users(types, x)) \in Nat /\ Cardinality(Users(new, x)) \in Nat
               /\ x # t => Cardinality(Users(new, x)) <= Cardinality(Users(types, x))
               /\ x = t => Cardinality(Users(new, x)) <= Cardinality(Users(types, x)) + 1
<1> DEFINE new == [types EXCEPT ![u] = t]
           A == Users(types, x)
           B == Users(new, x)
<1>1. \A v \in Players : new[v] = IF v = u THEN t ELSE types[v]
  OBVIOUS
<1> HIDE DEF new
<1>2. A \subseteq Players /\ B \subseteq Players /\ IsFiniteSet(Players)
  BY CoachAssumption DEF Users
<1>3. /\ x # t => B \subseteq A
      /\ x = t => B \subseteq A \cup {u}
  BY <1>1 DEF Users
<1> HIDE DEF A, B
<1>4. /\ IsFiniteSet(A) /\ IsFiniteSet(B) /\ Cardinality(A) \in Nat /\ Cardinality(B) \in Nat
  BY <1>2, FS_Subset, FS_CardinalityType
<1>5. x # t => Cardinality(B) <= Cardinality(A)
  BY <1>3, <1>4, FS_Subset
<1>6. IsFiniteSet(A \cup {u}) /\ Cardinality(A \cup {u}) \in Nat
      /\ Cardinality(A \cup {u}) <= Cardinality(A) + 1
  <2>1. IsFiniteSet(A \cup {u})
        /\ Cardinality(A \cup {u}) = IF u \in A THEN Cardinality(A) ELSE Cardinality(A) + 1
    BY <1>4, FS_AddElement
  <2> QED
    BY <1>4, <2>1
<1>7. x = t => Cardinality(B) <= Cardinality(A \cup {u})
  BY <1>3, <1>6, FS_Subset
<1> QED
  BY <1>4, <1>5, <1>6, <1>7 DEF A, B, new

LEMMA Counts ==
    ASSUME TypeOK
    PROVE  \A t \in Types :
             /\ Used(t) = Cardinality(Users(srv_type, t)) /\ Used(t) \in Nat
             /\ OnTheWay(t) = Cardinality(Notices(to_coach, {t})) /\ OnTheWay(t) \in Nat
             /\ available[t] \in Nat /\ missed[t] \in Nat /\ PtMax \in Nat
<1> SUFFICES ASSUME NEW t \in Types
             PROVE  /\ Used(t) = Cardinality(Users(srv_type, t)) /\ Used(t) \in Nat
                    /\ OnTheWay(t) = Cardinality(Notices(to_coach, {t})) /\ OnTheWay(t) \in Nat
                    /\ available[t] \in Nat /\ missed[t] \in Nat /\ PtMax \in Nat
  OBVIOUS
<1>1. srv_type \in [Players -> Types] /\ to_coach \in Seq(Messages)
      /\ available \in [Types -> Nat] /\ missed \in [Types -> Nat]
  BY DEF TypeOK, Numbers
<1>2. Used(t) = Cardinality(Users(srv_type, t))
  BY DEF Used, Users
<1>3. OnTheWay(t) = Cardinality(Notices(to_coach, {t}))
  BY DEF OnTheWay, Notices
<1>4. Cardinality(Users(srv_type, t)) \in Nat
  <2>1. Users(srv_type, t) \subseteq Players /\ IsFiniteSet(Players)
    BY CoachAssumption DEF Users
  <2> QED
    BY <2>1, FS_Subset, FS_CardinalityType
<1>5. Cardinality(Notices(to_coach, {t})) \in Nat
  BY <1>1, NoticesFinite
<1> QED
  BY <1>1, <1>2, <1>3, <1>4, <1>5, CoachAssumption

LEMMA InitInv == Init => Inv
<1> SUFFICES ASSUME Init PROVE Inv
  OBVIOUS
<1>1. Offered \in [Types -> Nat] /\ Hetero_Default \in Types
      /\ \A t \in Types \ {Hetero_Default} : Offered[t] = PtMax
  BY CoachAssumption DEF Offered, Hetero_Default
<1>2. TypeOK
  <2>1. /\ commands \in Seq(Messages) /\ to_coach \in Seq(Messages)
    BY EmptySeq DEF Init
  <2> QED
    BY <1>1, <2>1 DEF Init, TypeOK, Numbers
<1>3. commands \in Seq(Changes)
  BY EmptySeq DEF Init
<1>4. ASSUME NEW t \in Types \ {Hetero_Default}
      PROVE  Used(t) = 0 /\ available[t] = PtMax
  <2>1. Users(srv_type, t) = {}
    BY <1>4 DEF Init, Users
  <2>2. Used(t) = 0
    BY <1>2, <2>1, Counts, FS_EmptySet
  <2> QED
    BY <1>1, <2>2 DEF Init
<1>5. ASSUME NEW t \in Types \ {Hetero_Default}
      PROVE  Used(t) <= PtMax /\ available[t] + Used(t) <= PtMax + missed[t] + OnTheWay(t)
  <2>1. OnTheWay(t) \in Nat /\ missed[t] \in Nat /\ PtMax \in Nat
    BY <1>2, Counts
  <2> QED
    BY <1>4, <2>1
<1>6. WithinLimit /\ BookKept
  BY <1>5 DEF WithinLimit, BookKept
<1> QED
  BY <1>2, <1>3, <1>6 DEF Inv

-----------------------------------------------------------------------------
(* The turn                                                                *)

LEMMA Least ==
    ASSUME NEW S, S \subseteq Players, S # {}
    PROVE  \E u \in S : \A v \in S : u <= v
<1>1. S \subseteq Nat
  BY CoachAssumption
<1>2. PICK u \in S : \A v \in S : <<v, u>> \notin OpToRel(<, Nat)
  BY <1>1, NatLessThanWellFounded, WFMin
<1>3. ASSUME NEW v \in S PROVE u <= v
  <2>1. <<v, u>> \notin OpToRel(<, Nat) /\ v \in Nat /\ u \in Nat
    BY <1>1, <1>2
  <2>2. ~(v < u)
    BY <2>1 DEF OpToRel
  <2>3. \A a, b \in Nat : ~(a < b) => b <= a
    OBVIOUS
  <2> QED
    BY <2>1, <2>2, <2>3
<1> QED
  BY <1>3

LEMMA NextTurnOK == ASSUME turn \in Players PROVE NextTurn \in Players
<1> DEFINE Later == {v \in Players : v > turn}
           First(u) == IF \E v \in Players : v > turn
                       THEN u > turn /\ \A v \in Players : v > turn => u <= v
                       ELSE \A v \in Players : u <= v
<1>1. \E u \in Players : First(u)
  <2>1. CASE \E v \in Players : v > turn
    <3>1. Later \subseteq Players /\ Later # {}
      BY <2>1
    <3>2. PICK u \in Later : \A v \in Later : u <= v
      BY <3>1, Least
    <3> QED
      BY <2>1, <3>2
  <2>2. CASE ~(\E v \in Players : v > turn)
    <3>1. PICK u \in Players : \A v \in Players : u <= v
      BY Least
    <3> QED
      BY <2>2, <3>1
  <2> QED
    BY <2>1, <2>2
<1>2. NextTurn = CHOOSE u \in Players : First(u)
  BY DEF NextTurn
<1> HIDE DEF First
<1> QED
  BY <1>1, <1>2

-----------------------------------------------------------------------------
(* Actions that leave the book and the players' types alone                *)

\* Nothing that is compared changes.
BookSame ==
    /\ srv_type' = srv_type /\ to_coach' = to_coach
    /\ available' = available /\ missed' = missed

LEMMA SameKept ==
    ASSUME Inv, BookSame
    PROVE  WithinLimit' /\ BookKept'
  BY DEF Inv, BookSame, WithinLimit, BookKept, Used, OnTheWay

LEMMA ChangeOK ==
    ASSUME NEW u \in Players, NEW t \in Types
    PROVE  Change(u, t) \in Changes
  BY DEF Change, Changes, Messages

LEMMA SayOK ==
    ASSUME NEW u \in Players
    PROVE  Say(u) \in Messages /\ Say(u).kind = "say"
  BY CoachAssumption DEF Say, Messages

LEMMA OrderOK ==
    ASSUME NEW S, NEW M, S \subseteq M, IsFiniteSet(S), NEW order \in SetToSeqs(S)
    PROVE  order \in Seq(M) /\ order \in Seq(S)
<1>1. Cardinality(S) \in Nat
  BY FS_CardinalityType
<1>2. order \in [1 .. Cardinality(S) -> S] /\ order \in [1 .. Cardinality(S) -> M]
  BY DEF SetToSeqs
<1> QED
  BY <1>1, <1>2, IsASeq

\* What is sent is a command to change a type.
LEMMA SendOK ==
    ASSUME Inv, NEW some, some \subseteq Players, NEW assigned \in [some -> Types],
           Send(assigned)
    PROVE  commands' \in Seq(Changes) /\ asked' \subseteq Players
<1> DEFINE S == {Change(u, assigned[u]) : u \in DOMAIN assigned}
<1>1. DOMAIN assigned = some
  OBVIOUS
<1>2. S \subseteq Changes
  BY <1>1, ChangeOK
<1>3. IsFiniteSet(S)
  <2>1. IsFiniteSet(some)
    BY CoachAssumption, FS_Subset
  <2> DEFINE f == [u \in some |-> Change(u, assigned[u])]
  <2>2. f \in Surjection(some, S)
    BY <1>1 DEF Surjection
  <2> HIDE DEF f, S
  <2> QED
    BY <2>1, <2>2, FS_Surjection
<1>4. PICK order \in SetToSeqs(S) : commands' = commands \o order /\ asked' = DOMAIN assigned
  BY DEF Send
<1> HIDE DEF S
<1>5. order \in Seq(Changes)
  BY <1>2, <1>3, OrderOK
<1>6. commands \in Seq(Changes)
  BY DEF Inv
<1> QED
  BY <1>1, <1>4, <1>5, <1>6, ConcatProperties

LEMMA ChangesAreMessages == ASSUME NEW q \in Seq(Changes) PROVE q \in Seq(Messages)
  BY DEF Changes

LEMMA DecisionOK ==
    ASSUME Inv, DecisionReady, commands' \in Seq(Changes), asked' \subseteq Players,
           first_done' \in BOOLEAN
    PROVE  Inv'
<1>1. BookSame
  BY DEF DecisionReady, BookSame, server, book
<1>2. recovery' \subseteq Players
  BY DEF DecisionReady, UpdateTeammateStamina, Inv, TypeOK
<1>3. TypeOK /\ commands' \in Seq(Messages)
  BY ChangesAreMessages DEF Inv
<1>4. /\ mode' = mode /\ late' = late /\ srv_type' = srv_type /\ srv_subs' = srv_subs
      /\ tired' = tired /\ to_coach' = to_coach /\ said' = said /\ low' = low
      /\ turn' = turn /\ spoken' = spoken /\ available' = available /\ subs' = subs
      /\ lost' = lost /\ delayed' = delayed /\ crossed' = crossed /\ missed' = missed
      /\ refused' = refused /\ wasted' = wasted /\ heard' = {} /\ decided' = TRUE
  BY DEF DecisionReady, server, team, book
<1>5. TypeOK'
  BY <1>2, <1>3, <1>4 DEF TypeOK
<1> QED
  BY <1>1, <1>5, SameKept DEF Inv

LEMMA FirstOK == ASSUME Inv, FirstSubstitution PROVE Inv'
<1> DEFINE WithGoalie(assigned) ==
               [u \in DOMAIN assigned \cup {Goalie} |->
                    IF u = Goalie THEN Hetero_Default ELSE assigned[u]]
<1>1. PICK present \in SUBSET (Players \ {Goalie}) :
      \E assigned \in Assignments(present, FirstCandidates, Cardinality(present)) :
          Send(Allowed(WithGoalie(assigned)))
  BY DEF FirstSubstitution
<1>2. PICK assigned \in Assignments(present, FirstCandidates, Cardinality(present)) :
          Send(Allowed(WithGoalie(assigned)))
  BY <1>1
<1>3. PICK some \in SUBSET present : assigned \in [some -> Types]
  BY DEF Assignments
<1> DEFINE all == WithGoalie(assigned)
           allowed == Allowed(all)
<1>4. all \in [some \cup {Goalie} -> Types]
  BY <1>3, CoachAssumption DEF Hetero_Default
<1> HIDE DEF all
<1>5. PICK fewer \in SUBSET (some \cup {Goalie}) : allowed \in [fewer -> Types]
  <2> DEFINE fewer == {v \in DOMAIN all : available[all[v]] > 0}
  <2>1. fewer \in SUBSET (some \cup {Goalie})
    BY <1>4
  <2>2. allowed = [u \in fewer |-> all[u]]
    BY DEF Allowed
  <2>3. \A u \in fewer : all[u] \in Types
    BY <1>4
  <2> HIDE DEF fewer, allowed
  <2> QED
    BY <2>1, <2>2, <2>3
<1>6. fewer \subseteq Players
  BY CoachAssumption
<1>7. Send(allowed)
  BY <1>2 DEF all
<1> HIDE DEF allowed
<1>8. commands' \in Seq(Changes) /\ asked' \subseteq Players
  BY <1>5, <1>6, <1>7, SendOK
<1> QED
  BY <1>8, DecisionOK DEF FirstSubstitution

LEMMA TiredOK == ASSUME Inv, TiredSubstitution PROVE Inv'
<1>1. PICK assigned \in Assignments(recovery', available, Left) : Send(Allowed(assigned))
  BY DEF TiredSubstitution
<1>2. recovery' \subseteq Players
  BY DEF TiredSubstitution, DecisionReady, UpdateTeammateStamina, Inv, TypeOK
<1>3. PICK some \in SUBSET recovery' : assigned \in [some -> Types]
  BY DEF Assignments
<1> DEFINE allowed == Allowed(assigned)
           fewer == {v \in DOMAIN assigned : available[assigned[v]] > 0}
<1>4. fewer \subseteq Players
  BY <1>2, <1>3
<1>5. allowed \in [fewer -> Types]
  <2>1. allowed = [u \in fewer |-> assigned[u]]
    BY DEF Allowed
  <2>2. \A u \in fewer : assigned[u] \in Types
    BY <1>3
  <2> HIDE DEF fewer, allowed
  <2> QED
    BY <2>1, <2>2
<1>6. Send(allowed)
  BY <1>1
<1> HIDE DEF allowed, fewer
<1>7. commands' \in Seq(Changes) /\ asked' \subseteq Players
  BY <1>4, <1>5, <1>6, SendOK
<1>8. first_done' \in BOOLEAN
  BY DEF TiredSubstitution, Inv, TypeOK
<1> QED
  BY <1>7, <1>8, DecisionOK DEF TiredSubstitution

LEMMA NoneOK == ASSUME Inv, NoSubstitution PROVE Inv'
<1>1. commands' = commands /\ asked' = asked /\ first_done' = first_done
  BY DEF NoSubstitution
<1>2. commands' \in Seq(Changes) /\ asked' \subseteq Players /\ first_done' \in BOOLEAN
  BY <1>1 DEF Inv, TypeOK
<1> QED
  BY <1>2, DecisionOK DEF NoSubstitution

LEMMA CommandLostOK == ASSUME Inv, CommandLost PROVE Inv'
<1>1. BookSame
  BY DEF CommandLost, BookSame, server, coach, book
<1>2. commands' \in Seq(Changes)
  <2>1. commands \in Seq(Changes) /\ commands # <<>> /\ commands' = Tail(commands)
    BY DEF Inv, CommandLost
  <2> QED
    BY <2>1, HeadTailProperties
<1>3. TypeOK /\ commands' \in Seq(Messages) /\ lost' = lost + 1
  BY <1>2, ChangesAreMessages DEF Inv, CommandLost
<1>4. TypeOK'
  BY <1>3 DEF CommandLost, server, team, coach, book, TypeOK
<1> QED
  BY <1>1, <1>2, <1>4, SameKept DEF Inv

LEMMA TireOK == ASSUME Inv, NEW u \in Players, Tire(u) PROVE Inv'
<1>1. BookSame
  BY DEF Tire, BookSame, network, coach, book, history
<1>2. commands' \in Seq(Changes)
  BY DEF Inv, Tire, network
<1>3. TypeOK'
  BY DEF Inv, Tire, network, coach, book, history, TypeOK
<1> QED
  BY <1>1, <1>2, <1>3, SameKept DEF Inv

LEMMA SpeakOK == ASSUME Inv, Speak PROVE Inv'
<1>1. BookSame
  BY DEF Speak, BookSame, server, coach, book, history
<1>2. commands' \in Seq(Changes)
  BY DEF Inv, Speak
<1>3. said' \subseteq Players
  <2>1. low \subseteq Players
    BY DEF Inv, TypeOK
  <2> QED
    BY <2>1 DEF Speak
<1>4. TypeOK'
  BY <1>3 DEF Inv, Speak, server, coach, book, history, TypeOK
<1> QED
  BY <1>1, <1>2, <1>4, SameKept DEF Inv

-----------------------------------------------------------------------------
(* Actions that change the book or the players' types                      *)

\* A message is received or lost.
LEMMA HeadOK ==
    ASSUME Inv, to_coach # <<>>, to_coach' = Tail(to_coach)
    PROVE  /\ Head(to_coach) \in Messages /\ to_coach' \in Seq(Messages)
           /\ \A t \in Types : /\ OnTheWay(t) = OnTheWay(t)' + Notice(Head(to_coach), {t})
                               /\ OnTheWay(t)' \in Nat
<1>1. to_coach \in Seq(Messages) /\ TypeOK
  BY DEF Inv, TypeOK
<1>2. Head(to_coach) \in Messages /\ to_coach' \in Seq(Messages)
  BY <1>1, HeadTailProperties
<1>3. ASSUME NEW t \in Types
      PROVE  OnTheWay(t) = OnTheWay(t)' + Notice(Head(to_coach), {t}) /\ OnTheWay(t)' \in Nat
  <2>1. /\ OnTheWay(t) = Cardinality(Notices(to_coach, {t}))
        /\ OnTheWay(t)' = Cardinality(Notices(to_coach', {t}))
    BY DEF OnTheWay, Notices
  <2>2. Cardinality(Notices(to_coach', {t})) \in Nat
    BY <1>2, NoticesFinite
  <2>3. Cardinality(Notices(to_coach, {t}))
            = Cardinality(Notices(Tail(to_coach), {t})) + Notice(Head(to_coach), {t})
    BY <1>1, NoticesTail
  <2> QED
    BY <2>1, <2>2, <2>3
<1> QED
  BY <1>2, <1>3

LEMMA NoticeOK ==
    ASSUME NEW m \in Messages, NEW t
    PROVE  /\ Notice(m, {t}) \in {0, 1}
           /\ Notice(m, {t}) = 1 <=> m.kind = "change" /\ m.type = t
  BY DEF Messages, Notice

LEMMA MessageOK ==
    ASSUME NEW m \in Messages
    PROVE  m.kind \in {"change", "say"} /\ m.unum \in Players /\ m.type \in Types
  BY DEF Messages

LEMMA HearOK == ASSUME Inv, CoachHear PROVE Inv'
<1> DEFINE m == Head(to_coach)
<1>1. to_coach # <<>> /\ to_coach' = Tail(to_coach)
  BY DEF CoachHear
<1>2. /\ m \in Messages /\ to_coach' \in Seq(Messages)
      /\ \A t \in Types : OnTheWay(t) = OnTheWay(t)' + Notice(m, {t}) /\ OnTheWay(t)' \in Nat
  BY <1>1, HeadOK
<1>3. /\ commands' = commands /\ srv_type' = srv_type /\ missed' = missed
      /\ \A t : Used(t)' = Used(t)
  BY DEF CoachHear, server, history, Used
<1>4. CASE m.kind = "change" /\ HearChange(m.unum, m.type)
  <2>1. available' = [available EXCEPT ![m.type] = IF @ > 0 THEN @ - 1 ELSE 0]
    BY <1>4 DEF HearChange, Taken
  <2>2. available \in [Types -> Nat]
    BY DEF Inv, TypeOK, Numbers
  <2>3. /\ available' \in [Types -> Nat]
        /\ \A t \in Types : available'[t] =
              IF t = m.type THEN (IF available[t] > 0 THEN available[t] - 1 ELSE 0)
              ELSE available[t]
    <3>1. m.type \in Types
      BY <1>2, MessageOK
    <3> HIDE DEF m
    <3> QED
      BY <2>1, <2>2, <3>1
  <2>4. subs' \in Nat /\ recovery' \subseteq Players /\ heard' = heard
    BY <1>4 DEF HearChange, AfterChange, Inv, TypeOK
  <2>5. TypeOK'
    BY <1>2, <2>3, <2>4 DEF Inv, CoachHear, server, team, history, TypeOK, Numbers
  <2>6. ASSUME NEW t \in Types \ {Hetero_Default}
        PROVE  available'[t] + Used(t) <= PtMax + missed[t] + OnTheWay(t)'
    <3>1. /\ available[t] + Used(t) <= PtMax + missed[t] + OnTheWay(t) /\ Used(t) <= PtMax
          /\ available[t] \in Nat /\ Used(t) \in Nat /\ missed[t] \in Nat /\ PtMax \in Nat
      BY Counts DEF Inv, BookKept, WithinLimit
    <3>2. /\ OnTheWay(t) = OnTheWay(t)' + Notice(m, {t}) /\ OnTheWay(t)' \in Nat
          /\ Notice(m, {t}) = IF m.type = t THEN 1 ELSE 0
      BY <1>2, <1>4 DEF Notice
    <3>3. available'[t] = IF t = m.type THEN (IF available[t] > 0 THEN available[t] - 1
                                              ELSE 0)
                          ELSE available[t]
      BY <2>3
    <3> HIDE DEF m
    <3> QED
      BY <3>1, <3>2, <3>3
  <2>7. BookKept'
    BY <1>3, <2>6 DEF BookKept
  <2>8. WithinLimit'
    BY <1>3 DEF Inv, WithinLimit
  <2> QED
    BY <1>3, <2>5, <2>7, <2>8 DEF Inv
<1>5. CASE m.kind = "say" /\ HearSay(m.unum)
  <2>1. available' = available /\ subs' = subs /\ recovery' = recovery
    BY <1>5 DEF HearSay, book
  <2>2. heard' \subseteq Players
    BY <1>2, <1>5, MessageOK DEF HearSay, Inv, TypeOK
  <2>3. TypeOK'
    BY <1>2, <2>1, <2>2 DEF Inv, CoachHear, server, team, history, TypeOK
  <2>4. ASSUME NEW t \in Types PROVE OnTheWay(t)' = OnTheWay(t)
    <3>1. OnTheWay(t) = OnTheWay(t)' + Notice(m, {t}) /\ OnTheWay(t)' \in Nat
      BY <1>2
    <3>2. Notice(m, {t}) = 0
      BY <1>5 DEF Notice
    <3> QED
      BY <3>1, <3>2
  <2>5. BookKept' /\ WithinLimit'
    BY <1>3, <2>1, <2>4 DEF Inv, BookKept, WithinLimit
  <2> QED
    BY <1>3, <2>3, <2>5 DEF Inv
<1> QED
  BY <1>4, <1>5 DEF CoachHear

LEMMA MissesOK == ASSUME Inv, CoachMisses PROVE Inv'
<1> DEFINE m == Head(to_coach)
<1>1. to_coach # <<>> /\ to_coach' = Tail(to_coach)
  BY DEF CoachMisses
<1>2. /\ m \in Messages /\ to_coach' \in Seq(Messages)
      /\ \A t \in Types : OnTheWay(t) = OnTheWay(t)' + Notice(m, {t}) /\ OnTheWay(t)' \in Nat
  BY <1>1, HeadOK
<1>3. /\ commands' = commands /\ srv_type' = srv_type /\ available' = available
      /\ \A t : Used(t)' = Used(t)
  BY DEF CoachMisses, server, coach, book, Used
<1>4. /\ missed' \in [Types -> Nat]
      /\ \A t \in Types : missed'[t] = missed[t] + Notice(m, {t})
  <2>1. missed \in [Types -> Nat] /\ m.type \in Types
    BY <1>2, MessageOK DEF Inv, TypeOK, Numbers
  <2>2. missed' = IF m.kind = "change" THEN [missed EXCEPT ![m.type] = @ + 1] ELSE missed
    BY DEF CoachMisses
  <2>3. CASE m.kind = "change"
    <3>1. missed' = [missed EXCEPT ![m.type] = missed[m.type] + 1]
      BY <2>2, <2>3
    <3> HIDE DEF m
    <3>2. missed' \in [Types -> Nat] /\ \A t \in Types :
             missed'[t] = IF t = m.type THEN missed[t] + 1 ELSE missed[t]
      BY <2>1, <3>1
    <3> QED
      BY <2>1, <2>3, <3>2 DEF Notice
  <2>4. CASE m.kind # "change"
    BY <2>1, <2>2, <2>4 DEF Notice
  <2> QED
    BY <2>3, <2>4
<1>5. TypeOK'
  <2>1. lost' \in Nat
    BY DEF CoachMisses, Inv, TypeOK
  <2> QED
    BY <1>2, <1>4, <2>1 DEF Inv, CoachMisses, server, team, coach, book, TypeOK, Numbers
<1>6. ASSUME NEW t \in Types \ {Hetero_Default}
      PROVE  available[t] + Used(t) <= PtMax + missed'[t] + OnTheWay(t)'
  <2>1. /\ available[t] + Used(t) <= PtMax + missed[t] + OnTheWay(t)
        /\ available[t] \in Nat /\ Used(t) \in Nat /\ missed[t] \in Nat /\ PtMax \in Nat
    BY Counts DEF Inv, BookKept
  <2>2. /\ OnTheWay(t) = OnTheWay(t)' + Notice(m, {t}) /\ OnTheWay(t)' \in Nat
        /\ missed'[t] = missed[t] + Notice(m, {t}) /\ Notice(m, {t}) \in {0, 1}
    BY <1>2, <1>4, NoticeOK
  <2> HIDE DEF m
  <2> QED
    BY <2>1, <2>2
<1>7. BookKept' /\ WithinLimit'
  BY <1>3, <1>6 DEF Inv, BookKept, WithinLimit
<1> QED
  BY <1>3, <1>5, <1>7 DEF Inv

LEMMA ServeOK == ASSUME Inv, Serve PROVE Inv'
<1> DEFINE m == Head(commands)
           u == m.unum
           t == m.type
<1>1. m \in Changes /\ commands' \in Seq(Changes)
  <2>1. commands \in Seq(Changes) /\ commands # <<>> /\ commands' = Tail(commands)
    BY DEF Inv, Serve
  <2> QED
    BY <2>1, HeadTailProperties
<1>2. m \in Messages /\ m.kind = "change" /\ u \in Players /\ t \in Types
  BY <1>1, MessageOK DEF Changes
<1>3. commands' \in Seq(Messages)
  BY <1>1, ChangesAreMessages
<1>4. /\ mode' = mode /\ late' = late /\ said' = said /\ turn' = turn /\ spoken' = spoken
      /\ first_done' = first_done /\ available' = available /\ subs' = subs
      /\ recovery' = recovery /\ heard' = heard /\ decided' = decided
      /\ delayed' = delayed /\ asked' = asked /\ crossed' = crossed /\ missed' = missed
  BY DEF Serve, coach, book
<1>5. CASE ~Accepts(t)
  <2>1. /\ refused' = TRUE /\ srv_type' = srv_type /\ srv_subs' = srv_subs /\ tired' = tired
        /\ wasted' = wasted /\ to_coach' = to_coach /\ low' = low /\ lost' = lost
    BY <1>5 DEF Serve
  <2>2. BookSame
    BY <1>4, <2>1 DEF BookSame
  <2>3. TypeOK'
    BY <1>3, <1>4, <2>1 DEF Inv, TypeOK
  <2> QED
    BY <1>1, <2>2, <2>3, SameKept DEF Inv
<1>6. CASE Accepts(t)
  <2>1. /\ srv_type' = [srv_type EXCEPT ![u] = t]
        /\ srv_subs' = IF mode = "BeforeKickOff" THEN srv_subs ELSE srv_subs + 1
        /\ tired' = tired \ {u}
        /\ wasted' = IF mode = "SetPlay" /\ u \notin tired THEN wasted + 1 ELSE wasted
        /\ to_coach' = Append(to_coach, m)
        /\ \/ low' = OwnChange(low, u) /\ UNCHANGED lost
           \/ lost + delayed < MaxFaults /\ lost' = lost + 1 /\ UNCHANGED low
        /\ UNCHANGED refused
    BY <1>6 DEF Serve
  <2>2. srv_type \in [Players -> Types] /\ to_coach \in Seq(Messages) /\ TypeOK
    BY DEF Inv, TypeOK
  <2>3. srv_type' \in [Players -> Types]
    <3> HIDE DEF m, u, t
    <3> QED
      BY <1>2, <2>1, <2>2
  <2>4. to_coach' \in Seq(Messages)
    BY <1>2, <2>1, <2>2, AppendProperties
  <2>5. /\ srv_subs' \in Nat /\ wasted' \in Nat /\ lost' \in Nat
        /\ tired' \subseteq Players /\ low' \subseteq Players /\ refused' \in BOOLEAN
    <3> HIDE DEF m, u, t
    <3>1. srv_subs' \in Nat /\ wasted' \in Nat /\ lost' \in Nat
      BY <2>1, <2>2 DEF TypeOK
    <3>2. tired' \subseteq Players /\ low' \subseteq Players /\ refused' \in BOOLEAN
      BY <2>1, <2>2 DEF TypeOK, OwnChange
    <3> QED
      BY <3>1, <3>2
  <2>6. TypeOK'
    BY <1>3, <1>4, <2>2, <2>3, <2>4, <2>5 DEF TypeOK
  <2>7. ASSUME NEW x \in Types
        PROVE  /\ OnTheWay(x)' = OnTheWay(x) + (IF x = t THEN 1 ELSE 0)
               /\ Used(x)' <= Used(x) + (IF x = t THEN 1 ELSE 0)
               /\ Used(x) \in Nat /\ Used(x)' \in Nat /\ OnTheWay(x) \in Nat
               /\ available[x] \in Nat /\ missed[x] \in Nat /\ PtMax \in Nat
    <3>1. /\ OnTheWay(x) = Cardinality(Notices(to_coach, {x}))
          /\ OnTheWay(x)' = Cardinality(Notices(to_coach', {x}))
          /\ Used(x) = Cardinality(Users(srv_type, x))
          /\ Used(x)' = Cardinality(Users(srv_type', x))
      BY DEF OnTheWay, Notices, Used, Users
    <3>2. Cardinality(Notices(to_coach', {x}))
            = Cardinality(Notices(to_coach, {x})) + Notice(m, {x})
      BY <1>2, <2>1, <2>2, NoticesAppend
    <3>3. Notice(m, {x}) = IF x = t THEN 1 ELSE 0
      BY <1>2 DEF Notice
    <3>4. /\ Cardinality(Users(srv_type, x)) \in Nat
          /\ Cardinality(Users(srv_type', x)) \in Nat
          /\ x # t => Cardinality(Users(srv_type', x)) <= Cardinality(Users(srv_type, x))
          /\ x = t => Cardinality(Users(srv_type', x)) <= Cardinality(Users(srv_type, x)) + 1
      <4> HIDE DEF m, u, t
      <4> QED
        BY <1>2, <2>1, <2>2, UsersChange
    <3>5. OnTheWay(x) \in Nat /\ available[x] \in Nat /\ missed[x] \in Nat /\ PtMax \in Nat
      BY <2>2, Counts
    <3> HIDE DEF m, u, t
    <3> QED
      BY <3>1, <3>2, <3>3, <3>4, <3>5
  <2>8. WithinLimit'
    <3> SUFFICES ASSUME NEW x \in Types \ {Hetero_Default}
                 PROVE  Used(x)' <= PtMax
      BY DEF WithinLimit
    <3>1. Used(x) <= PtMax
      BY DEF Inv, WithinLimit
    <3>2. x = t => Used(x) < PtMax
      BY <1>6 DEF Accepts
    <3>3. /\ Used(x)' <= Used(x) + (IF x = t THEN 1 ELSE 0)
          /\ Used(x) \in Nat /\ Used(x)' \in Nat /\ PtMax \in Nat
      BY <2>7
    <3> HIDE DEF m, u, t
    <3> QED
      BY <3>1, <3>2, <3>3
  <2>9. BookKept'
    <3> SUFFICES ASSUME NEW x \in Types \ {Hetero_Default}
                 PROVE  available[x] + Used(x)' <= PtMax + missed[x] + OnTheWay(x)'
      BY <1>4 DEF BookKept
    <3>1. available[x] + Used(x) <= PtMax + missed[x] + OnTheWay(x)
      BY DEF Inv, BookKept
    <3>2. /\ OnTheWay(x)' = OnTheWay(x) + (IF x = t THEN 1 ELSE 0)
          /\ Used(x)' <= Used(x) + (IF x = t THEN 1 ELSE 0)
          /\ Used(x) \in Nat /\ Used(x)' \in Nat /\ OnTheWay(x) \in Nat
          /\ available[x] \in Nat /\ missed[x] \in Nat /\ PtMax \in Nat
      BY <2>7
    <3> HIDE DEF m, u, t
    <3> QED
      BY <3>1, <3>2
  <2> QED
    BY <1>1, <2>6, <2>8, <2>9 DEF Inv
<1> QED
  BY <1>5, <1>6

\* What the coach has not received by the end of a step is lost: only says remain.
LEMMA StepOK == ASSUME Inv, Step PROVE Inv'
<1> DEFINE S == {Say(u) : u \in said}
<1>1. PICK order \in SetToSeqs(S) : to_coach' = order
  BY DEF Step
<1>2. said \subseteq Players /\ IsFiniteSet(said) /\ TypeOK
  BY CoachAssumption, FS_Subset DEF Inv, TypeOK
<1>3. S \subseteq Messages /\ \A m \in S : m.kind = "say"
  BY <1>2, SayOK
<1>4. IsFiniteSet(S)
  <2> DEFINE f == [u \in said |-> Say(u)]
  <2>1. f \in Surjection(said, S)
    BY DEF Surjection
  <2> HIDE DEF f, S
  <2> QED
    BY <1>2, <2>1, FS_Surjection
<1> HIDE DEF S
<1>5. order \in Seq(Messages) /\ order \in Seq(S)
  BY <1>3, <1>4, OrderOK
<1>6. ASSUME NEW t \in Types PROVE OnTheWay(t)' = 0 /\ OnTheWay(t) = 0
  <2>1. \A i \in DOMAIN order : order[i].kind = "say"
    BY <1>3, <1>5, LenProperties, ElementOfSeq
  <2>2. Notices(order, {t}) = {}
    BY <2>1 DEF Notices
  <2>3. to_coach = <<>>
    BY DEF Step
  <2>4. Notices(to_coach, {t}) = {}
    BY <2>3, EmptySeq DEF Notices
  <2>5. OnTheWay(t) = Cardinality(Notices(to_coach, {t}))
        /\ OnTheWay(t)' = Cardinality(Notices(to_coach', {t}))
    BY DEF OnTheWay, Notices
  <2> QED
    BY <1>1, <2>2, <2>4, <2>5, FS_EmptySet
<1>7. delayed' \in Nat /\ crossed' \in Nat
  <2>1. delayed' \in Nat
    <3>1. commands \in Seq(Messages) /\ delayed \in Nat /\ delayed' = delayed + Len(commands)
      BY <1>2 DEF Step, TypeOK
    <3>2. Len(commands) \in Nat
      BY <3>1, LenProperties
    <3> QED
      BY <3>1, <3>2
  <2>2. crossed' \in Nat
    <3> DEFINE n == crossed + Cardinality(said \cap asked)
    <3>1. Cardinality(said \cap asked) \in Nat
      <4>1. IsFiniteSet(said \cap asked)
        BY <1>2, FS_Subset
      <4> QED
        BY <4>1, FS_CardinalityType
    <3>2. n \in Nat /\ SubsMax \in Nat
      BY <1>2, <3>1, CoachAssumption DEF TypeOK
    <3>3. crossed' = Min({SubsMax, n})
      BY DEF Step
    <3> HIDE DEF n
    <3>4. \E x \in {SubsMax, n} : \A y \in {SubsMax, n} : x <= y
      BY <3>2
    <3>5. Min({SubsMax, n}) \in {SubsMax, n}
      BY <3>4 DEF Min
    <3> QED
      BY <3>2, <3>3, <3>5
  <2> QED
    BY <2>1, <2>2
<1>8. mode' \in {"BeforeKickOff", "PlayOn", "SetPlay"} /\ late' \in BOOLEAN
      /\ turn' \in Players
  <2>1. mode' \in {"BeforeKickOff", "PlayOn", "SetPlay"}
    BY DEF Step, NextMode
  <2>2. late' \in BOOLEAN
    BY <1>2 DEF Step, TypeOK
  <2>3. turn' \in Players
    BY <1>2, NextTurnOK DEF Step, TypeOK
  <2> QED
    BY <2>1, <2>2, <2>3
<1>9. /\ srv_type' = srv_type /\ srv_subs' = srv_subs /\ tired' = tired
      /\ commands' = commands /\ low' = low /\ first_done' = first_done
      /\ available' = available /\ subs' = subs /\ recovery' = recovery
      /\ heard' = heard /\ lost' = lost /\ missed' = missed /\ refused' = refused
      /\ wasted' = wasted /\ said' = {} /\ asked' = {} /\ spoken' = FALSE
      /\ decided' = FALSE
  BY DEF Step, book
<1>10. TypeOK'
  BY <1>1, <1>2, <1>5, <1>7, <1>8, <1>9 DEF TypeOK
<1>11. WithinLimit' /\ BookKept'
  BY <1>6, <1>9 DEF Inv, WithinLimit, BookKept, Used
<1> QED
  BY <1>9, <1>10, <1>11 DEF Inv

LEMMA NextInv == Inv /\ [Next]_vars => Inv'
<1> SUFFICES ASSUME Inv, [Next]_vars PROVE Inv'
  OBVIOUS
<1>1. CASE UNCHANGED vars
  BY <1>1 DEF vars, server, network, team, coach, book, history, Inv, TypeOK,
              WithinLimit, BookKept, Used, OnTheWay
<1> QED
  BY <1>1, HearOK, MissesOK, FirstOK, TiredOK, NoneOK, ServeOK, CommandLostOK, TireOK,
     SpeakOK, StepOK DEF Next

LEMMA Inductive == Spec => []Inv
<1>1. Init => Inv
  BY InitInv
<1>2. Inv /\ [Next]_vars => Inv'
  BY NextInv
<1> QED
  BY <1>1, <1>2, PTL DEF Spec

-----------------------------------------------------------------------------

\* For any players, types and limits the books of the coach, of the server and of
\* the players keep their types: no number of a type falls below none
\* (GlobalWorldModel::setPlayerType, CoachAgent::Impl::analyzeChangePlayerType).
THEOREM TypeCorrect == Spec => []TypeOK
<1>1. Inv => TypeOK
  BY DEF Inv
<1> QED
  BY <1>1, Inductive, PTL

\* The coach never believes that more players of a type are available than there
\* are, but for the changes it did not hear of or has not received: whatever it
\* asks for in any order, and whatever is refused, lost or late
\* (GlobalWorldModel::setPlayerType, SampleCoach::substituteTo).
THEOREM BookTrue == Spec => []BookKept
<1>1. Inv => BookKept
  BY DEF Inv
<1> QED
  BY <1>1, Inductive, PTL

-----------------------------------------------------------------------------
(***************************************************************************)
(* The server refuses nothing that the coach asks for as long as nothing   *)
(* is lost or late: the coach's book is then exact when it decides, and    *)
(* what it asks for is carried out before it decides again.                *)
(***************************************************************************)

Calm == lost = 0 /\ delayed = 0

\* What is asked for is within what is left.
WithinBook ==
    /\ \A t \in Types \ {Hetero_Default} :
          Cardinality(Notices(commands, {t})) + Used(t) <= PtMax
    /\ mode # "BeforeKickOff" => srv_subs + Len(commands) <= SubsMax

Quiet ==
    /\ mode = "BeforeKickOff" => srv_subs = 0 /\ subs = 0
    /\ mode = "BeforeKickOff" /\ ~first_done =>
          commands = <<>> /\ srv_type = [u \in Players |-> Hetero_Default]
    /\ Calm =>
          /\ ~refused
          /\ \A t \in Types : missed[t] = 0
          /\ decided \/ commands = <<>>
          /\ commands = <<>> \/ mode # "PlayOn"
          /\ mode # "BeforeKickOff" =>
                srv_subs = subs + Cardinality(Notices(to_coach, Types))
          /\ WithinBook

-----------------------------------------------------------------------------
(* What is sent for an assignment                                          *)

LEMMA NoticesNone ==
    ASSUME NEW T
    PROVE  Notices(<<>>, T) = {} /\ Cardinality(Notices(<<>>, T)) = 0
  BY EmptySeq, FS_EmptySet DEF Notices

LEMMA WantedOK ==
    ASSUME NEW some, some \subseteq Players, NEW assigned \in [some -> Types], NEW t
    PROVE  IsFiniteSet({u \in some : assigned[u] = t}) /\ Wanted(assigned, t) \in Nat
           /\ Wanted(assigned, t) = Cardinality({u \in some : assigned[u] = t})
<1>1. IsFiniteSet({u \in some : assigned[u] = t})
  BY CoachAssumption, FS_Subset
<1>2. DOMAIN assigned = some
  OBVIOUS
<1> QED
  BY <1>1, <1>2, FS_CardinalityType DEF Wanted

\* No more commands than players, and for a type no more than it is wanted for.
LEMMA OrderCounts ==
    ASSUME NEW some, some \subseteq Players, NEW assigned \in [some -> Types],
           NEW order \in SetToSeqs({Change(u, assigned[u]) : u \in DOMAIN assigned})
    PROVE  /\ order \in Seq(Changes)
           /\ Len(order) \in Nat /\ Len(order) <= Cardinality(some)
           /\ Cardinality(some) \in Nat
           /\ \A t : Cardinality(Notices(order, {t})) <= Wanted(assigned, t)
<1> DEFINE S == {Change(u, assigned[u]) : u \in DOMAIN assigned}
           n == Cardinality(S)
<1>1. DOMAIN assigned = some /\ IsFiniteSet(some) /\ Cardinality(some) \in Nat
  BY CoachAssumption, FS_Subset, FS_CardinalityType
<1>2. S \subseteq Changes
  BY <1>1, ChangeOK
<1>3. IsFiniteSet(S) /\ n <= Cardinality(some) /\ n \in Nat
  <2> DEFINE f == [u \in some |-> Change(u, assigned[u])]
  <2>1. f \in Surjection(some, S)
    BY <1>1 DEF Surjection
  <2> HIDE DEF f, S
  <2> QED
    BY <1>1, <2>1, FS_Surjection, FS_CardinalityType
<1>4. order \in [1 .. n -> S] /\ \A i, j \in 1 .. n : i # j => order[i] # order[j]
  BY DEF SetToSeqs
<1>5. order \in Seq(Changes) /\ Len(order) = n /\ DOMAIN order = 1 .. n
  <2>0. order \in SetToSeqs(S)
    OBVIOUS
  <2> HIDE DEF S
  <2>1. order \in Seq(Changes)
    BY <1>2, <1>3, <2>0, OrderOK
  <2>2. DOMAIN order = 1 .. n /\ DOMAIN order = 1 .. Len(order) /\ Len(order) \in Nat
    BY <1>4, <2>1, LenProperties
  <2> HIDE DEF n
  <2> QED
    BY <1>3, <2>1, <2>2
<1>6. ASSUME NEW t
      PROVE  Cardinality(Notices(order, {t})) <= Wanted(assigned, t)
  <2> DEFINE A == Notices(order, {t})
             B == {u \in some : assigned[u] = t}
             g == [i \in A |-> order[i].unum]
  <2>1. \A i \in A : i \in 1 .. n /\ order[i].type = t
    BY <1>5 DEF Notices
  <2>2. \A i \in 1 .. n : /\ order[i].unum \in some
                          /\ order[i] = Change(order[i].unum, assigned[order[i].unum])
                          /\ order[i].type = assigned[order[i].unum]
    BY <1>1, <1>4 DEF Change
  <2>3. g \in [A -> B]
    BY <2>1, <2>2
  <2>4. ASSUME NEW i \in A, NEW j \in A, g[i] = g[j]
        PROVE  i = j
    <3>1. order[i].unum = order[j].unum
      BY <2>4
    <3>2. order[i] = order[j]
      BY <2>1, <2>2, <3>1
    <3> QED
      BY <1>4, <2>1, <3>2
  <2>5. g \in Injection(A, B)
    <3> HIDE DEF A, B, g
    <3> QED
      BY <2>3, <2>4 DEF Injection, IsInjective
  <2>6. IsFiniteSet(B) /\ Wanted(assigned, t) = Cardinality(B)
    BY WantedOK
  <2> HIDE DEF A, B, g
  <2> QED
    BY <2>5, <2>6, FS_Injection DEF A
<1> QED
  BY <1>1, <1>3, <1>5, <1>6

\* A part of an assignment wants no more of a type.
LEMMA WantedLess ==
    ASSUME NEW some, some \subseteq Players, NEW assigned \in [some -> Types],
           NEW fewer, fewer \subseteq Players, NEW part \in [fewer -> Types], NEW t,
           \A u \in fewer : part[u] = t => u \in some /\ assigned[u] = t
    PROVE  Wanted(part, t) <= Wanted(assigned, t)
<1> DEFINE A == {u \in fewer : part[u] = t}
           B == {u \in some : assigned[u] = t}
<1>1. A \subseteq B
  OBVIOUS
<1>2. IsFiniteSet(B) /\ Wanted(assigned, t) = Cardinality(B)
  BY WantedOK
<1>3. Wanted(part, t) = Cardinality(A)
  BY WantedOK
<1> HIDE DEF A, B
<1> QED
  BY <1>1, <1>2, <1>3, FS_Subset

LEMMA AllowedOK ==
    ASSUME NEW some, some \subseteq Players, NEW assigned \in [some -> Types]
    PROVE  LET fewer == {v \in some : available[assigned[v]] > 0}
           IN  /\ fewer \subseteq some
               /\ Allowed(assigned) \in [fewer -> Types]
               /\ \A u \in fewer : Allowed(assigned)[u] = assigned[u]
<1>1. DOMAIN assigned = some /\ \A u \in some : assigned[u] \in Types
  OBVIOUS
<1>2. Allowed(assigned) = [u \in {v \in some : available[assigned[v]] > 0} |-> assigned[u]]
  BY <1>1 DEF Allowed
<1> QED
  BY <1>1, <1>2

\* Nothing is on its way to the server when a command is sent.
LEMMA SentOK ==
    ASSUME NEW some, some \subseteq Players, NEW assigned \in [some -> Types],
           Send(assigned), commands = <<>>
    PROVE  /\ commands' \in Seq(Changes)
           /\ Len(commands') \in Nat /\ Len(commands') <= Cardinality(some)
           /\ \A t : Cardinality(Notices(commands', {t})) <= Wanted(assigned, t)
           /\ \A t : Cardinality(Notices(commands', {t})) \in Nat
<1>1. PICK order \in SetToSeqs({Change(u, assigned[u]) : u \in DOMAIN assigned}) :
            commands' = commands \o order
  BY DEF Send
<1>2. /\ order \in Seq(Changes)
      /\ Len(order) \in Nat /\ Len(order) <= Cardinality(some)
      /\ \A t : Cardinality(Notices(order, {t})) <= Wanted(assigned, t)
  BY OrderCounts
<1>3. commands' = order
  BY <1>1, <1>2, ConcatEmptySeq
<1>4. order \in Seq(Messages)
  BY <1>2, ChangesAreMessages
<1> QED
  BY <1>2, <1>3, <1>4, NoticesFinite

-----------------------------------------------------------------------------
(* What a decision leaves                                                  *)

LEMMA ChangesCounted ==
    ASSUME NEW q \in Seq(Messages)
    PROVE  \A t : Cardinality(Notices(q, {t})) \in Nat
  BY NoticesFinite

\* Whatever is decided, the coach has nothing on its way before.
LEMMA DecisionSame ==
    ASSUME DecisionReady
    PROVE  /\ mode' = mode /\ srv_type' = srv_type /\ srv_subs' = srv_subs
           /\ subs' = subs /\ to_coach' = to_coach /\ to_coach = <<>>
           /\ lost' = lost /\ delayed' = delayed /\ missed' = missed /\ refused' = refused
           /\ available' = available /\ decided' = TRUE /\ ~decided
           /\ \A t : Used(t)' = Used(t)
  BY DEF DecisionReady, server, book, Used

LEMMA CalmBefore ==
    ASSUME Inv, Quiet, Calm, DecisionReady
    PROVE  /\ commands = <<>> /\ ~refused
           /\ mode # "BeforeKickOff" => srv_subs = subs
           /\ \A t \in Types : /\ missed[t] = 0 /\ OnTheWay(t) = 0
                               /\ available[t] \in Nat /\ Used(t) \in Nat
           /\ \A t \in Types \ {Hetero_Default} : available[t] + Used(t) <= PtMax
           /\ srv_subs \in Nat /\ subs \in Nat /\ SubsMax \in Nat /\ PtMax \in Nat
<1>1. commands = <<>> /\ ~refused /\ to_coach = <<>> /\ \A t \in Types : missed[t] = 0
  BY DecisionSame DEF Quiet
<1>2. srv_subs \in Nat /\ subs \in Nat /\ SubsMax \in Nat /\ PtMax \in Nat /\ TypeOK
  BY CoachAssumption DEF Inv, TypeOK
<1>3. Cardinality(Notices(to_coach, Types)) = 0
  BY <1>1, NoticesNone
<1>4. mode # "BeforeKickOff" => srv_subs = subs
  BY <1>2, <1>3 DEF Quiet
<1>5. ASSUME NEW t \in Types
      PROVE  OnTheWay(t) = 0 /\ available[t] \in Nat /\ Used(t) \in Nat
  <2>1. Cardinality(Notices(to_coach, {t})) = 0
    BY <1>1, NoticesNone
  <2> QED
    BY <1>2, <2>1, Counts
<1>6. ASSUME NEW t \in Types \ {Hetero_Default}
      PROVE  available[t] + Used(t) <= PtMax
  <2>1. available[t] + Used(t) <= PtMax + missed[t] + OnTheWay(t)
    BY DEF Inv, BookKept
  <2> QED
    BY <1>1, <1>2, <1>5, <2>1
<1> QED
  BY <1>1, <1>2, <1>4, <1>5, <1>6

\* A decision that asks for no more than is left.
LEMMA DecisionQuiet ==
    ASSUME Inv, Quiet, DecisionReady, mode # "PlayOn",
           mode = "BeforeKickOff" => first_done',
           Calm => WithinBook'
    PROVE  Quiet'
<1>1. /\ mode' = mode /\ srv_type' = srv_type /\ srv_subs' = srv_subs
      /\ subs' = subs /\ to_coach' = to_coach
      /\ lost' = lost /\ delayed' = delayed /\ missed' = missed /\ refused' = refused
      /\ decided' = TRUE
  BY DecisionSame
<1>2. Notices(to_coach, Types)' = Notices(to_coach, Types)
  BY <1>1 DEF Notices
<1> QED
  BY <1>1, <1>2 DEF Quiet, Calm

LEMMA FirstQuiet == ASSUME Inv, Quiet, FirstSubstitution PROVE Quiet'
<1> DEFINE WithGoalie(assigned) ==
               [u \in DOMAIN assigned \cup {Goalie} |->
                    IF u = Goalie THEN Hetero_Default ELSE assigned[u]]
<1>1. PICK present \in SUBSET (Players \ {Goalie}) :
      \E assigned \in Assignments(present, FirstCandidates, Cardinality(present)) :
          Send(Allowed(WithGoalie(assigned)))
  BY DEF FirstSubstitution
<1>2. PICK assigned \in Assignments(present, FirstCandidates, Cardinality(present)) :
          Send(Allowed(WithGoalie(assigned)))
  BY <1>1
<1>3. PICK some \in SUBSET present :
          /\ assigned \in [some -> Types]
          /\ \A t \in Types : Wanted(assigned, t) <= FirstCandidates[t]
  BY <1>2 DEF Assignments
<1> DEFINE all == WithGoalie(assigned)
           everyone == some \cup {Goalie}
           fewer == {v \in everyone : available[all[v]] > 0}
           allowed == Allowed(all)
<1>4. /\ all \in [everyone -> Types]
      /\ \A u \in everyone : all[u] = IF u = Goalie THEN Hetero_Default ELSE assigned[u]
  BY <1>3, CoachAssumption DEF Hetero_Default
<1>5. everyone \subseteq Players /\ some \subseteq Players
  BY CoachAssumption
<1>6. Send(allowed)
  BY <1>2
<1> HIDE DEF all, everyone
<1>7. /\ fewer \subseteq everyone /\ allowed \in [fewer -> Types]
      /\ \A u \in fewer : allowed[u] = all[u]
  BY <1>4, <1>5, AllowedOK
<1> HIDE DEF fewer, allowed
<1>8. fewer \subseteq Players
  BY <1>5, <1>7
<1>9. /\ DecisionReady /\ mode = "BeforeKickOff" /\ ~first_done /\ first_done' = TRUE
      /\ commands = <<>> /\ srv_type = [u \in Players |-> Hetero_Default]
  BY DEF FirstSubstitution, Quiet
<1>10. \A t : /\ Cardinality(Notices(commands', {t})) \in Nat
              /\ Cardinality(Notices(commands', {t})) <= Wanted(allowed, t)
  BY <1>6, <1>7, <1>8, <1>9, SentOK
<1>11. ASSUME NEW t \in Types \ {Hetero_Default}
       PROVE  Cardinality(Notices(commands', {t})) + Used(t)' <= PtMax
  <2>1. \A u \in fewer : allowed[u] = t => u \in some /\ assigned[u] = t
    BY <1>4, <1>7 DEF everyone
  <2>2. Wanted(allowed, t) <= Wanted(assigned, t)
    BY <1>3, <1>5, <1>7, <1>8, <2>1, WantedLess
  <2>3. Wanted(assigned, t) <= PtMax
    BY <1>3 DEF FirstCandidates
  <2>4. Wanted(allowed, t) \in Nat /\ Wanted(assigned, t) \in Nat /\ PtMax \in Nat
    BY <1>3, <1>5, <1>7, <1>8, WantedOK, CoachAssumption
  <2>5. Used(t)' = 0
    <3>1. {u \in Players : srv_type[u] = t} = {}
      BY <1>9
    <3>2. Used(t) = 0
      BY <3>1, FS_EmptySet DEF Used
    <3> QED
      BY <1>9, <3>2, DecisionSame
  <2> QED
    BY <1>10, <2>2, <2>3, <2>4, <2>5
<1>12. WithinBook'
  <2>1. mode' = "BeforeKickOff"
    BY <1>9, DecisionSame
  <2> QED
    BY <1>11, <2>1 DEF WithinBook
<1> QED
  BY <1>9, <1>12, DecisionQuiet

LEMMA TiredQuiet == ASSUME Inv, Quiet, TiredSubstitution PROVE Quiet'
<1>1. /\ DecisionReady /\ mode = "SetPlay" /\ subs < SubsMax
  BY DEF TiredSubstitution, SubstitutionTime
<1>2. PICK assigned \in Assignments(recovery', available, Left) : Send(Allowed(assigned))
  BY DEF TiredSubstitution
<1>3. recovery' \subseteq Players
  BY <1>1 DEF DecisionReady, UpdateTeammateStamina, Inv, TypeOK
<1>4. PICK some \in SUBSET recovery' :
          /\ assigned \in [some -> Types]
          /\ \A t \in Types : Wanted(assigned, t) <= available[t]
          /\ Cardinality(some) <= Left
  <2>1. PICK some \in SUBSET recovery' : assigned \in [some -> Types]
    BY <1>2 DEF Assignments
  <2>2. DOMAIN assigned = some
    BY <2>1
  <2>3. /\ \A t \in Types : Wanted(assigned, t) <= available[t]
        /\ Cardinality(DOMAIN assigned) <= Left
    BY <1>2 DEF Assignments
  <2> QED
    BY <2>1, <2>2, <2>3
<1> DEFINE fewer == {v \in some : available[assigned[v]] > 0}
           allowed == Allowed(assigned)
<1>5. some \subseteq Players
  BY <1>3
<1>6. /\ fewer \subseteq some /\ allowed \in [fewer -> Types]
      /\ \A u \in fewer : allowed[u] = assigned[u]
  BY <1>4, <1>5, AllowedOK
<1>7. Send(allowed)
  BY <1>2
<1> HIDE DEF fewer, allowed
<1>8. ASSUME Calm PROVE WithinBook'
  <2>1. /\ commands = <<>> /\ srv_subs = subs
        /\ \A t \in Types : available[t] \in Nat /\ Used(t) \in Nat
        /\ \A t \in Types \ {Hetero_Default} : available[t] + Used(t) <= PtMax
        /\ subs \in Nat /\ SubsMax \in Nat /\ PtMax \in Nat
    BY <1>1, <1>8, CalmBefore
  <2>2. /\ Len(commands') \in Nat /\ Len(commands') <= Cardinality(fewer)
        /\ \A t : /\ Cardinality(Notices(commands', {t})) \in Nat
                  /\ Cardinality(Notices(commands', {t})) <= Wanted(allowed, t)
    BY <1>5, <1>6, <1>7, <2>1, SentOK
  <2>3. Cardinality(fewer) <= Left /\ Cardinality(fewer) \in Nat /\ Cardinality(some) \in Nat
    <3>1. IsFiniteSet(some)
      BY <1>5, CoachAssumption, FS_Subset
    <3>2. IsFiniteSet(fewer) /\ Cardinality(fewer) <= Cardinality(some)
      BY <1>6, <3>1, FS_Subset
    <3>3. Cardinality(fewer) \in Nat /\ Cardinality(some) \in Nat
      BY <3>1, <3>2, FS_CardinalityType
    <3> QED
      BY <1>4, <2>1, <3>2, <3>3 DEF Left
  <2>4. ASSUME NEW t \in Types \ {Hetero_Default}
        PROVE  Cardinality(Notices(commands', {t})) + Used(t)' <= PtMax
    <3>1. \A u \in fewer : allowed[u] = t => u \in some /\ assigned[u] = t
      BY <1>6
    <3>2. Wanted(allowed, t) <= Wanted(assigned, t)
      BY <1>4, <1>5, <1>6, <3>1, WantedLess
    <3>3. Wanted(allowed, t) \in Nat /\ Wanted(assigned, t) \in Nat
      BY <1>4, <1>5, <1>6, WantedOK
    <3>4. Wanted(assigned, t) <= available[t]
      BY <1>4
    <3>5. Used(t)' = Used(t)
      BY <1>1, DecisionSame
    <3> QED
      BY <2>1, <2>2, <3>2, <3>3, <3>4, <3>5
  <2>5. srv_subs' + Len(commands') <= SubsMax
    <3>1. srv_subs' = srv_subs
      BY <1>1, DecisionSame
    <3> QED
      BY <2>1, <2>2, <2>3, <3>1 DEF Left
  <2> QED
    BY <2>4, <2>5 DEF WithinBook
<1> QED
  BY <1>1, <1>8, DecisionQuiet

LEMMA NoneQuiet == ASSUME Inv, Quiet, NoSubstitution PROVE Quiet'
<1>1. /\ mode' = mode /\ srv_type' = srv_type /\ srv_subs' = srv_subs
      /\ subs' = subs /\ to_coach' = to_coach
      /\ lost' = lost /\ delayed' = delayed /\ missed' = missed /\ refused' = refused
      /\ decided' = TRUE /\ commands' = commands /\ first_done' = first_done
  BY DecisionSame DEF NoSubstitution
<1> QED
  BY <1>1 DEF Quiet, Calm, WithinBook, Notices, Used

-----------------------------------------------------------------------------
(* What is carried out and heard                                           *)

LEMMA AcceptedQuiet ==
    ASSUME Inv, Quiet, Serve, Calm
    PROVE  Accepts(Head(commands).type)
<1> DEFINE m == Head(commands)
           t == m.type
<1>1. /\ commands # <<>> /\ commands \in Seq(Changes) /\ TypeOK
      /\ commands \in Seq(Messages)
  BY ChangesAreMessages DEF Serve, Inv
<1>2. m \in Changes
  BY <1>1, HeadTailProperties
<1>3. m \in Messages /\ m.kind = "change" /\ t \in Types
  BY <1>2, MessageOK DEF Changes
<1>4. mode # "PlayOn" /\ WithinBook
  BY <1>1 DEF Quiet
<1>5. mode = "BeforeKickOff" \/ srv_subs < SubsMax
  <2>1. Len(commands) \in Nat /\ Len(commands) # 0 /\ srv_subs \in Nat /\ SubsMax \in Nat
    BY <1>1, LenProperties, EmptySeq, CoachAssumption DEF TypeOK
  <2> QED
    BY <1>4, <2>1 DEF WithinBook
<1>6. t = Hetero_Default \/ Used(t) < PtMax
  <2> SUFFICES ASSUME t # Hetero_Default PROVE Used(t) < PtMax
    OBVIOUS
  <2>1. Notice(m, {t}) = 1
    BY <1>3 DEF Notice
  <2>2. Cardinality(Notices(commands, {t}))
          = Cardinality(Notices(Tail(commands), {t})) + Notice(m, {t})
    BY <1>1, NoticesTail
  <2>3. Cardinality(Notices(Tail(commands), {t})) \in Nat
    <3>1. Tail(commands) \in Seq(Messages)
      BY <1>1, HeadTailProperties
    <3> QED
      BY <3>1, NoticesFinite
  <2>4. Cardinality(Notices(commands, {t})) + Used(t) <= PtMax
    BY <1>3, <1>4 DEF WithinBook
  <2>5. Used(t) \in Nat /\ PtMax \in Nat
    BY <1>1, <1>3, Counts
  <2> HIDE DEF m, t
  <2> QED
    BY <2>1, <2>2, <2>3, <2>4, <2>5
<1> QED
  BY <1>4, <1>5, <1>6 DEF Accepts

LEMMA ServeQuiet == ASSUME Inv, Quiet, Serve PROVE Quiet'
<1> DEFINE m == Head(commands)
           u == m.unum
           t == m.type
<1>1. /\ commands # <<>> /\ commands' = Tail(commands) /\ commands \in Seq(Changes)
      /\ commands \in Seq(Messages) /\ to_coach \in Seq(Messages)
      /\ srv_type \in [Players -> Types] /\ srv_subs \in Nat /\ subs \in Nat
      /\ lost \in Nat /\ TypeOK
  BY ChangesAreMessages DEF Serve, Inv, TypeOK
<1>2. m \in Changes /\ commands' \in Seq(Messages) /\ Len(commands') = Len(commands) - 1
      /\ Len(commands) \in Nat
  BY <1>1, HeadTailProperties, LenProperties
<1>3. m \in Messages /\ m.kind = "change" /\ u \in Players /\ t \in Types
  BY <1>2, MessageOK DEF Changes
<1>4. /\ mode' = mode /\ first_done' = first_done /\ subs' = subs /\ decided' = decided
      /\ delayed' = delayed /\ missed' = missed
  BY DEF Serve, coach, book
<1>5. ~(mode = "BeforeKickOff" /\ ~first_done)
  BY <1>1 DEF Quiet
<1>6. mode = "BeforeKickOff" => srv_subs' = srv_subs
  BY DEF Serve
<1>7. ASSUME Calm'
      PROVE  /\ Calm /\ ~refused' /\ srv_type' = [srv_type EXCEPT ![u] = t]
             /\ srv_subs' = IF mode = "BeforeKickOff" THEN srv_subs ELSE srv_subs + 1
             /\ to_coach' = Append(to_coach, m)
  <2>1. lost' = lost \/ lost' = lost + 1
    BY DEF Serve
  <2>2. Calm
    BY <1>1, <1>4, <1>7, <2>1 DEF Calm
  <2>3. Accepts(t)
    BY <2>2, AcceptedQuiet
  <2>4. ~refused
    BY <2>2 DEF Quiet
  <2>5. /\ refused' = refused /\ srv_type' = [srv_type EXCEPT ![u] = t]
        /\ srv_subs' = IF mode = "BeforeKickOff" THEN srv_subs ELSE srv_subs + 1
        /\ to_coach' = Append(to_coach, m)
    BY <2>3 DEF Serve
  <2> QED
    BY <2>2, <2>4, <2>5
<1>8. ASSUME Calm', mode # "BeforeKickOff"
      PROVE  /\ srv_subs' = subs + Cardinality(Notices(to_coach', Types))
             /\ srv_subs' + Len(commands') <= SubsMax
  <2>1. /\ srv_subs = subs + Cardinality(Notices(to_coach, Types))
        /\ srv_subs + Len(commands) <= SubsMax
    BY <1>7, <1>8 DEF Quiet, WithinBook
  <2>2. Cardinality(Notices(to_coach', Types)) = Cardinality(Notices(to_coach, Types)) + 1
    <3>1. Notice(m, Types) = 1
      BY <1>3 DEF Notice
    <3>2. Cardinality(Notices(Append(to_coach, m), Types))
            = Cardinality(Notices(to_coach, Types)) + Notice(m, Types)
      BY <1>1, <1>3, NoticesAppend
    <3> QED
      BY <1>7, <1>8, <3>1, <3>2
  <2>3. Cardinality(Notices(to_coach, Types)) \in Nat
    BY <1>1, NoticesFinite
  <2>4. srv_subs' = srv_subs + 1
    BY <1>7, <1>8
  <2>5. SubsMax \in Nat
    BY CoachAssumption
  <2> HIDE DEF m, u, t
  <2> QED
    BY <1>1, <1>2, <2>1, <2>2, <2>3, <2>4, <2>5
<1>9. ASSUME Calm', NEW x \in Types \ {Hetero_Default}
      PROVE  Cardinality(Notices(commands', {x})) + Used(x)' <= PtMax
  <2>1. Cardinality(Notices(commands, {x})) + Used(x) <= PtMax
    BY <1>1, <1>7, <1>9 DEF Quiet, WithinBook
  <2>2. Cardinality(Notices(commands, {x}))
          = Cardinality(Notices(commands', {x})) + Notice(m, {x})
    BY <1>1, NoticesTail
  <2>3. Notice(m, {x}) = IF x = t THEN 1 ELSE 0
    BY <1>3 DEF Notice
  <2>4. Cardinality(Notices(commands', {x})) \in Nat
    BY <1>2, NoticesFinite
  <2>5. Used(x)' <= Used(x) + (IF x = t THEN 1 ELSE 0) /\ Used(x) \in Nat /\ Used(x)' \in Nat
    <3>1. /\ Used(x) = Cardinality(Users(srv_type, x))
          /\ Used(x)' = Cardinality(Users(srv_type', x))
      BY DEF Used, Users
    <3>2. srv_type' = [srv_type EXCEPT ![u] = t]
      BY <1>7, <1>9
    <3> HIDE DEF m, u, t
    <3>3. /\ Cardinality(Users(srv_type, x)) \in Nat
          /\ Cardinality(Users(srv_type', x)) \in Nat
          /\ x # t => Cardinality(Users(srv_type', x)) <= Cardinality(Users(srv_type, x))
          /\ x = t => Cardinality(Users(srv_type', x)) <= Cardinality(Users(srv_type, x)) + 1
      BY <1>1, <1>3, <3>2, UsersChange
    <3> QED
      BY <3>1, <3>3
  <2>6. PtMax \in Nat
    BY CoachAssumption
  <2> HIDE DEF m, u, t
  <2> QED
    BY <2>1, <2>2, <2>3, <2>4, <2>5, <2>6
<1>10. Calm' => WithinBook'
  BY <1>4, <1>8, <1>9 DEF WithinBook
<1>11. Calm' => decided' /\ mode' # "PlayOn" /\ \A x \in Types : missed'[x] = 0
  BY <1>1, <1>4, <1>7 DEF Quiet
<1> HIDE DEF m, u, t
<1>12. mode = "BeforeKickOff" => srv_subs' = 0 /\ subs' = 0
  BY <1>4, <1>6 DEF Quiet
<1>13. ASSUME Calm', mode' # "BeforeKickOff"
       PROVE  srv_subs' = subs' + Cardinality(Notices(to_coach', Types))
  BY <1>4, <1>8, <1>13
<1> QED
  BY <1>4, <1>5, <1>7, <1>10, <1>11, <1>12, <1>13 DEF Quiet

LEMMA HearQuiet == ASSUME Inv, Quiet, CoachHear PROVE Quiet'
<1> DEFINE m == Head(to_coach)
<1>1. /\ to_coach # <<>> /\ to_coach' = Tail(to_coach) /\ to_coach \in Seq(Messages)
      /\ subs \in Nat /\ srv_subs \in Nat
  BY DEF CoachHear, Inv, TypeOK
<1>2. m \in Messages /\ to_coach' \in Seq(Messages)
  BY <1>1, HeadTailProperties
<1>3. m.type \in Types /\ m.kind \in {"change", "say"}
  BY <1>2, MessageOK
<1>4. /\ mode' = mode /\ srv_type' = srv_type /\ srv_subs' = srv_subs /\ commands' = commands
      /\ first_done' = first_done /\ decided' = decided /\ lost' = lost
      /\ delayed' = delayed /\ missed' = missed /\ refused' = refused
  BY DEF CoachHear, server, history
<1>5. Cardinality(Notices(to_coach, Types))
        = Cardinality(Notices(to_coach', Types)) + Notice(m, Types)
  BY <1>1, NoticesTail
<1>6. Cardinality(Notices(to_coach', Types)) \in Nat
  BY <1>2, NoticesFinite
<1>7. subs' = IF mode = "BeforeKickOff" THEN subs ELSE subs + Notice(m, Types)
  <2>1. CASE m.kind = "change" /\ HearChange(m.unum, m.type)
    <3>1. subs' = IF mode = "BeforeKickOff" THEN subs ELSE subs + 1
      BY <2>1 DEF HearChange
    <3>2. Notice(m, Types) = 1
      BY <1>3, <2>1 DEF Notice
    <3> QED
      BY <3>1, <3>2
  <2>2. CASE m.kind = "say" /\ HearSay(m.unum)
    <3>1. subs' = subs
      BY <2>2 DEF HearSay, book
    <3>2. Notice(m, Types) = 0
      BY <2>2 DEF Notice
    <3> QED
      BY <1>1, <3>1, <3>2
  <2> QED
    BY <2>1, <2>2 DEF CoachHear
<1>8. Notice(m, Types) \in {0, 1}
  BY DEF Notice
<1> HIDE DEF m
<1>9. ASSUME Calm', mode' # "BeforeKickOff"
      PROVE  srv_subs' = subs' + Cardinality(Notices(to_coach', Types))
  <2>1. srv_subs = subs + Cardinality(Notices(to_coach, Types))
    BY <1>4, <1>9 DEF Quiet, Calm
  <2> QED
    BY <1>1, <1>4, <1>5, <1>6, <1>7, <1>8, <1>9, <2>1
<1>10. WithinBook => WithinBook'
  BY <1>4 DEF WithinBook, Notices, Used
<1>11. Calm' => Calm
  BY <1>4 DEF Calm
<1> QED
  BY <1>4, <1>7, <1>9, <1>10, <1>11 DEF Quiet

\* What is lost ends the calm.
LEMMA MissesQuiet == ASSUME Inv, Quiet, CoachMisses PROVE Quiet'
<1>1. ~Calm'
  BY DEF CoachMisses, Calm, Inv, TypeOK
<1>2. /\ mode' = mode /\ srv_type' = srv_type /\ srv_subs' = srv_subs /\ commands' = commands
      /\ first_done' = first_done /\ subs' = subs
  BY DEF CoachMisses, server, coach, book
<1> QED
  BY <1>1, <1>2 DEF Quiet

LEMMA LostQuiet == ASSUME Inv, Quiet, CommandLost PROVE Quiet'
<1>1. ~Calm'
  BY DEF CommandLost, Calm, Inv, TypeOK
<1>2. /\ mode' = mode /\ srv_type' = srv_type /\ srv_subs' = srv_subs /\ commands # <<>>
      /\ first_done' = first_done /\ subs' = subs
  BY DEF CommandLost, server, coach, book
<1> QED
  BY <1>1, <1>2 DEF Quiet

\* Nothing that is compared changes.
LEMMA SameQuiet ==
    ASSUME Quiet,
           UNCHANGED <<mode, srv_type, srv_subs, commands, to_coach, first_done, subs,
                       decided, lost, delayed, missed, refused>>
    PROVE  Quiet'
  BY DEF Quiet, Calm, WithinBook, Notices, Used

LEMMA TireQuiet == ASSUME Quiet, NEW u \in Players, Tire(u) PROVE Quiet'
  BY SameQuiet DEF Tire, network, coach, book, history

LEMMA SpeakQuiet == ASSUME Quiet, Speak PROVE Quiet'
  BY SameQuiet DEF Speak, server, coach, book, history

\* A step in the calm begins with nothing on its way but what was said.
LEMMA StepQuiet == ASSUME Inv, Quiet, Step PROVE Quiet'
<1> DEFINE S == {Say(u) : u \in said}
<1>1. PICK order \in SetToSeqs(S) : to_coach' = order
  BY DEF Step
<1>2. said \subseteq Players /\ IsFiniteSet(said) /\ TypeOK
  BY CoachAssumption, FS_Subset DEF Inv, TypeOK
<1>3. S \subseteq Messages /\ \A m \in S : m.kind = "say"
  BY <1>2, SayOK
<1>4. IsFiniteSet(S)
  <2> DEFINE f == [u \in said |-> Say(u)]
  <2>1. f \in Surjection(said, S)
    BY DEF Surjection
  <2> HIDE DEF f, S
  <2> QED
    BY <1>2, <2>1, FS_Surjection
<1> HIDE DEF S
<1>5. order \in Seq(Messages) /\ order \in Seq(S)
  BY <1>3, <1>4, OrderOK
<1>6. Cardinality(Notices(to_coach', Types)) = 0
  <2>1. \A i \in DOMAIN order : order[i].kind = "say"
    BY <1>3, <1>5, LenProperties, ElementOfSeq
  <2>2. Notices(order, Types) = {}
    BY <2>1 DEF Notices
  <2> QED
    BY <1>1, <2>2, FS_EmptySet
<1>7. /\ srv_type' = srv_type /\ srv_subs' = srv_subs /\ commands' = commands
      /\ first_done' = first_done /\ subs' = subs /\ lost' = lost /\ missed' = missed
      /\ refused' = refused /\ to_coach = <<>> /\ delayed' = delayed + Len(commands)
      /\ \A t : Used(t)' = Used(t)
  BY DEF Step, book, Used
<1>8. mode' = "BeforeKickOff" => mode = "BeforeKickOff"
  BY DEF Step, NextMode
<1>9. ASSUME Calm' PROVE Calm /\ commands = <<>> /\ Len(commands) = 0
  <2>1. commands \in Seq(Messages) /\ delayed \in Nat
    BY <1>2 DEF TypeOK
  <2>2. Len(commands) \in Nat
    BY <2>1, LenProperties
  <2>3. delayed = 0 /\ Len(commands) = 0 /\ lost = 0
    BY <1>7, <1>9, <2>1, <2>2 DEF Calm
  <2> QED
    BY <2>1, <2>3, EmptySeq DEF Calm
<1>10. srv_subs \in Nat /\ subs \in Nat /\ SubsMax \in Nat /\ PtMax \in Nat
  BY <1>2, CoachAssumption DEF TypeOK
<1>11. ASSUME Calm'
       PROVE  srv_subs = subs /\ srv_subs <= SubsMax
  <2>1. CASE mode = "BeforeKickOff"
    BY <1>10, <2>1 DEF Quiet
  <2>2. CASE mode # "BeforeKickOff"
    <3>1. /\ srv_subs = subs + Cardinality(Notices(to_coach, Types))
          /\ srv_subs + Len(commands) <= SubsMax
      BY <1>9, <1>11, <2>2 DEF Quiet, WithinBook
    <3>2. Cardinality(Notices(to_coach, Types)) = 0
      BY <1>7, NoticesNone
    <3> QED
      BY <1>9, <1>10, <1>11, <3>1, <3>2
  <2> QED
    BY <2>1, <2>2
<1>12. ASSUME Calm' PROVE WithinBook'
  <2>1. commands' = <<>> /\ Len(commands') = 0
    BY <1>7, <1>9, <1>12
  <2>2. ASSUME NEW t \in Types \ {Hetero_Default}
        PROVE  Cardinality(Notices(commands', {t})) + Used(t)' <= PtMax
    <3>1. Cardinality(Notices(commands', {t})) = 0
      BY <2>1, NoticesNone
    <3>2. Used(t) <= PtMax
      BY DEF Inv, WithinLimit
    <3>3. Used(t) \in Nat
      BY <1>2, Counts
    <3> QED
      BY <1>7, <1>10, <3>1, <3>2, <3>3
  <2>3. srv_subs' + Len(commands') <= SubsMax
    BY <1>7, <1>10, <1>11, <1>12, <2>1
  <2> QED
    BY <2>2, <2>3 DEF WithinBook
<1>13. Calm' => /\ ~refused' /\ \A t \in Types : missed'[t] = 0
                /\ commands' = <<>>
  BY <1>7, <1>9 DEF Quiet
<1>14. Calm' => srv_subs' = subs' + Cardinality(Notices(to_coach', Types))
  BY <1>6, <1>7, <1>10, <1>11
<1>15. /\ mode' = "BeforeKickOff" => srv_subs' = 0 /\ subs' = 0
       /\ mode' = "BeforeKickOff" /\ ~first_done' =>
             commands' = <<>> /\ srv_type' = [u \in Players |-> Hetero_Default]
  BY <1>7, <1>8 DEF Quiet
<1> QED
  BY <1>12, <1>13, <1>14, <1>15 DEF Quiet

LEMMA InitQuiet == Init => Quiet
<1> SUFFICES ASSUME Init PROVE Quiet
  OBVIOUS
<1>1. Inv
  BY InitInv
<1>2. /\ commands = <<>> /\ to_coach = <<>> /\ mode = "BeforeKickOff" /\ ~refused
      /\ \A t \in Types : missed[t] = 0
      /\ srv_subs = 0 /\ subs = 0 /\ srv_type = [u \in Players |-> Hetero_Default]
  BY DEF Init
<1>3. WithinBook
  <2> SUFFICES ASSUME NEW t \in Types \ {Hetero_Default}
               PROVE  Cardinality(Notices(commands, {t})) + Used(t) <= PtMax
    BY <1>2 DEF WithinBook
  <2>1. Cardinality(Notices(commands, {t})) = 0
    BY <1>2, NoticesNone
  <2>2. Used(t) <= PtMax /\ Used(t) \in Nat /\ PtMax \in Nat
    BY <1>1, Counts DEF Inv, WithinLimit
  <2> QED
    BY <2>1, <2>2
<1> QED
  BY <1>2, <1>3 DEF Quiet

LEMMA NextQuiet == Inv /\ Quiet /\ [Next]_vars => Quiet'
<1> SUFFICES ASSUME Inv, Quiet, [Next]_vars PROVE Quiet'
  OBVIOUS
<1>1. CASE UNCHANGED vars
  BY <1>1, SameQuiet DEF vars, server, network, coach, book, history
<1> QED
  BY <1>1, HearQuiet, MissesQuiet, FirstQuiet, TiredQuiet, NoneQuiet, ServeQuiet, LostQuiet,
     TireQuiet, SpeakQuiet, StepQuiet DEF Next

-----------------------------------------------------------------------------

\* For any players, types and limits, as long as nothing is lost or late the server
\* refuses no command of the coach: what it asks for is within what the server has
\* left, before the kick-off and in a set play, however many players it replaces in
\* one step (SampleCoach::doFirstSubstitute, doSubstituteTiredPlayers, substituteTo).
THEOREM NothingRefused == Spec => []NeverRefused
<1>1. Init => Inv /\ Quiet
  BY InitInv, InitQuiet
<1>2. Inv /\ Quiet /\ [Next]_vars => Inv' /\ Quiet'
  BY NextInv, NextQuiet
<1>3. Inv /\ Quiet => NeverRefused
  BY DEF Quiet, Calm, NeverRefused
<1> QED
  BY <1>1, <1>2, <1>3, PTL DEF Spec
=============================================================================
