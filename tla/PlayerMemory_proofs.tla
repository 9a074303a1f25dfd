------------------------ MODULE PlayerMemory_proofs ------------------------
(***************************************************************************)
(* What a player remembers of the others holds together, for teams of any  *)
(* size: no uniform number twice, what was just seen where it was seen,    *)
(* and no more players than there can be.                                  *)
(*                                                                         *)
(* The matching of a see is a fold over the players that are seen.  Its    *)
(* invariant is proved by induction, from the order of the naturals being  *)
(* well-founded.                                                           *)
(***************************************************************************)
EXTENDS PlayerMemory, TLAPS, FiniteSetTheorems, SequenceTheorems, WellFoundedInduction

-----------------------------------------------------------------------------
(* Induction                                                               *)

Below == {p \in Nat \X Nat : p[1] < p[2]}

\* The naturals are well-founded, so that each set of them has a least member.
LEMMA Least ==
    ASSUME NEW T \in SUBSET Nat, T # {}
    PROVE  \E n \in T : \A m \in T : n <= m
<1>1. IsWellFoundedOn(Below, Nat)
  BY NatLessThanWellFounded DEF OpToRel, Below
<1>2. PICK n \in T : \A m \in T : ~(<<m, n>> \in Below)
  BY <1>1, WFMin
<1>3. \A m \in T : ~(m < n)
  BY <1>2 DEF Below
<1> QED
  BY <1>3

\* A set of naturals with 0 and the successors of its members, up to a bound.
LEMMA Induction ==
    ASSUME NEW bound \in Nat, NEW S, 0 \in S,
           \A n \in 0 .. bound : n \in S /\ n < bound => n + 1 \in S
    PROVE  0 .. bound \subseteq S
<1> DEFINE T == (0 .. bound) \ S
<1> SUFFICES ASSUME T # {} PROVE FALSE
  OBVIOUS
<1>0. T \in SUBSET Nat
  OBVIOUS
<1>1. PICK n \in T : \A m \in T : n <= m
  <2> HIDE DEF T
  <2> QED
    BY <1>0, Least
<1>2. n # 0 /\ n - 1 \in 0 .. bound /\ n - 1 < bound /\ n - 1 \notin T
  BY <1>1
<1>3. (n - 1) + 1 \in S
  BY <1>2
<1> QED
  BY <1>2, <1>3

LEMMA UpTo ==
    ASSUME NEW n \in Nat
    PROVE  IsFiniteSet(1 .. n) /\ Cardinality(1 .. n) = n
<1>1. 1 \in Int /\ n \in Int /\ (IF 1 > n THEN 0 ELSE n - 1 + 1) = n
  OBVIOUS
<1> QED
  BY <1>1, FS_Interval

-----------------------------------------------------------------------------
(* Lists                                                                   *)

StrictOrder(earlier, among) ==
    /\ \A i \in among : <<i, i>> \notin earlier
    /\ \A i, j \in among : i = j \/ <<i, j>> \in earlier \/ <<j, i>> \in earlier
    /\ \A i, j, k \in among :
            <<i, j>> \in earlier /\ <<j, k>> \in earlier => <<i, k>> \in earlier

\* How many come before a member.
Ahead(i, among, earlier) == Cardinality({j \in among : <<j, i>> \in earlier})

\* No two members have as many before them.
LEMMA AheadFacts ==
    ASSUME NEW among, IsFiniteSet(among), NEW earlier, StrictOrder(earlier, among)
    PROVE  /\ Cardinality(among) \in Nat
           /\ \A i \in among : /\ Ahead(i, among, earlier) \in Nat
                               /\ Ahead(i, among, earlier) < Cardinality(among)
           /\ \A i, j \in among : <<i, j>> \in earlier =>
                Ahead(i, among, earlier) < Ahead(j, among, earlier)
           /\ \A i, j \in among : Ahead(i, among, earlier) = Ahead(j, among, earlier) => i = j
<1> DEFINE n == Cardinality(among)
           Those(i) == {j \in among : <<j, i>> \in earlier}
<1>1. n \in Nat
  BY FS_CardinalityType
<1>2. ASSUME NEW i \in among
      PROVE  /\ IsFiniteSet(Those(i)) /\ Cardinality(Those(i)) \in Nat
             /\ Cardinality(Those(i)) < n
  <2>1. Those(i) \in SUBSET among /\ i \notin Those(i)
    BY DEF StrictOrder
  <2>2. IsFiniteSet(Those(i)) /\ Cardinality(Those(i)) <= n /\ Cardinality(Those(i)) # n
    BY <2>1, FS_Subset
  <2> QED
    BY <1>1, <2>2, FS_CardinalityType
<1>3. ASSUME NEW i \in among, NEW j \in among, <<i, j>> \in earlier
      PROVE  Cardinality(Those(i)) < Cardinality(Those(j))
  <2>1. Those(i) \in SUBSET Those(j) /\ i \in Those(j) /\ i \notin Those(i)
    BY <1>3 DEF StrictOrder
  <2>2. Cardinality(Those(i)) <= Cardinality(Those(j))
        /\ Cardinality(Those(i)) # Cardinality(Those(j))
    BY <2>1, <1>2, FS_Subset
  <2> QED
    BY <2>2, <1>2
<1>4. \A i : Ahead(i, among, earlier) = Cardinality(Those(i))
  BY DEF Ahead
<1> HIDE DEF Those
<1>5. ASSUME NEW i \in among, NEW j \in among, Cardinality(Those(i)) = Cardinality(Those(j))
      PROVE  i = j
  <2>1. ~(Cardinality(Those(i)) < Cardinality(Those(j)))
        /\ ~(Cardinality(Those(j)) < Cardinality(Those(i)))
    BY <1>2, <1>5
  <2> QED
    BY <2>1, <1>3 DEF StrictOrder
<1> QED
  BY <1>1, <1>2, <1>3, <1>4, <1>5

\* Members arranged in a strict total order: each of them once.
LEMMA ArrangedOnce ==
    ASSUME NEW list, NEW among, IsFiniteSet(among), NEW earlier, StrictOrder(earlier, among)
    PROVE  \E at \in Bijection(1 .. Cardinality(among), among) :
                Arranged(list, among, earlier)
                    = [k \in 1 .. Cardinality(among) |-> list[at[k]]]
<1> DEFINE n == Cardinality(among)
           rank == [i \in among |-> Ahead(i, among, earlier) + 1]
           at == [k \in 1 .. n |-> CHOOSE i \in among : Ahead(i, among, earlier) = k - 1]
<1>1. n \in Nat /\ \A i \in among : Ahead(i, among, earlier) \in 0 .. (n - 1)
  BY AheadFacts
<1>2. \A i \in among : rank[i] = Ahead(i, among, earlier) + 1
  OBVIOUS
<1>3. rank \in [among -> 1 .. n]
  BY <1>1
<1> HIDE DEF rank
<1>4. rank \in Injection(among, 1 .. n)
  <2>1. ASSUME NEW i \in among, NEW j \in among, rank[i] = rank[j] PROVE i = j
    <3>1. Ahead(i, among, earlier) = Ahead(j, among, earlier)
      BY <2>1, <1>1, <1>2
    <3> QED
      BY <3>1, AheadFacts
  <2> QED
    BY <1>3, <2>1 DEF Injection, IsInjective
<1>5. IsFiniteSet(1 .. n) /\ Cardinality(1 .. n) = n
  BY <1>1, UpTo
<1>6. rank \in Surjection(among, 1 .. n)
  BY <1>4, <1>5, FS_Injection
<1>7. ASSUME NEW k \in 1 .. n PROVE at[k] \in among /\ rank[at[k]] = k
  <2>1. PICK i \in among : rank[i] = k
    BY <1>6 DEF Surjection
  <2>2. Ahead(i, among, earlier) = k - 1
    BY <2>1, <1>1, <1>2
  <2>3. at[k] \in among /\ Ahead(at[k], among, earlier) = k - 1
    BY <2>2
  <2> QED
    BY <2>3, <1>2
<1>8. at \in Injection(1 .. n, among)
  <2>1. at \in [1 .. n -> among]
    BY <1>7
  <2>2. \A k, m \in 1 .. n : at[k] = at[m] => k = m
    BY <1>7
  <2> QED
    BY <2>1, <2>2 DEF Injection, IsInjective
<1>9. at \in Surjection(1 .. n, among)
  BY <1>8, <1>5, FS_Injection
<1>10. Arranged(list, among, earlier) = [k \in 1 .. n |-> list[at[k]]]
  BY DEF Arranged, Ahead
<1> HIDE DEF at
<1> QED
  BY <1>8, <1>9, <1>10 DEF Bijection

\* The order of a list itself.
LEMMA EarlierStrict ==
    ASSUME NEW X, NEW list \in Seq(X), NEW among \in SUBSET (DOMAIN list)
    PROVE  StrictOrder(Earlier(list), among)
<1>1. \A i \in among : i \in Int /\ i \in DOMAIN list
  BY LenProperties
<1>2. \A i, j \in among : <<i, j>> \in Earlier(list) <=> i < j
  BY <1>1 DEF Earlier
<1> QED
  BY <1>1, <1>2 DEF StrictOrder

\* A list each of whose members is another member of the other one.
PartOf(part, list) ==
    \E at \in Injection(DOMAIN part, DOMAIN list) :
        \A k \in DOMAIN part : part[k] = list[at[k]]

Has(list, unum) == \E i \in DOMAIN list : list[i].unum = unum

Once(list, unum) ==
    \A i, j \in DOMAIN list : list[i].unum = unum /\ list[j].unum = unum => i = j

\* A part of a list has no number that the list does not have, and none twice
\* that it has once.
LEMMA PartOnce ==
    ASSUME NEW part, NEW list, PartOf(part, list), NEW unum
    PROVE  /\ Has(part, unum) => Has(list, unum)
           /\ Once(list, unum) => Once(part, unum)
<1>1. PICK at \in Injection(DOMAIN part, DOMAIN list) :
        \A k \in DOMAIN part : part[k] = list[at[k]]
  BY DEF PartOf
<1>2. /\ \A k \in DOMAIN part : at[k] \in DOMAIN list
      /\ \A k, m \in DOMAIN part : at[k] = at[m] => k = m
  BY DEF Injection, IsInjective
<1> QED
  BY <1>1, <1>2 DEF Has, Once

\* A list that consists of the members of another one at some indices.
Selects(part, list, among, X) ==
    /\ part \in Seq(X) /\ PartOf(part, list)
    /\ IsFiniteSet(among) /\ Cardinality(among) \in Nat /\ Len(part) = Cardinality(among)
    /\ \A k \in DOMAIN part : \E i \in among : part[k] = list[i]
    /\ SeenIn(part) = Cardinality({i \in among : list[i].count = 0})

\* What is arranged from a list is a part of it, and as many of its members are
\* certain, that is with a count of 0.
LEMMA ArrangedPart ==
    ASSUME NEW X, NEW list \in Seq(X), NEW among \in SUBSET (DOMAIN list),
           NEW earlier, StrictOrder(earlier, among)
    PROVE  Selects(Arranged(list, among, earlier), list, among, X)
<1> DEFINE n == Cardinality(among)
           part == Arranged(list, among, earlier)
<1>1. DOMAIN list = 1 .. Len(list) /\ Len(list) \in Nat /\ \A i \in DOMAIN list : list[i] \in X
  BY LenProperties
<1>2. IsFiniteSet(among) /\ n \in Nat
  <2>1. IsFiniteSet(DOMAIN list)
    BY <1>1, UpTo
  <2> QED
    BY <2>1, FS_Subset, FS_CardinalityType
<1>3. PICK at \in Bijection(1 .. n, among) : part = [k \in 1 .. n |-> list[at[k]]]
  BY <1>2, ArrangedOnce
<1>4. /\ at \in [1 .. n -> among]
      /\ \A k, m \in 1 .. n : at[k] = at[m] => k = m
      /\ \A i \in among : \E k \in 1 .. n : at[k] = i
  BY DEF Bijection, Injection, Surjection, IsInjective
<1>5. DOMAIN part = 1 .. n /\ \A k \in 1 .. n : part[k] = list[at[k]]
  BY <1>3
<1>6. \A k \in 1 .. n : at[k] \in among /\ at[k] \in DOMAIN list
  BY <1>4
<1>7. part \in [1 .. n -> X]
  BY <1>3, <1>6, <1>1
<1> HIDE DEF part, n
<1>8. part \in Seq(X) /\ Len(part) = n
  BY <1>2, <1>7, <1>5
<1>9. at \in Injection(DOMAIN part, DOMAIN list)
  BY <1>4, <1>5 DEF Injection, IsInjective
<1>10. PartOf(part, list)
  BY <1>9, <1>5 DEF PartOf
<1>11. \A k \in DOMAIN part : \E i \in among : part[k] = list[i]
  BY <1>4, <1>5
<1>12. SeenIn(part) = Cardinality({i \in among : list[i].count = 0})
  <2> DEFINE A == {k \in DOMAIN part : part[k].count = 0}
             B == {i \in among : list[i].count = 0}
             f == [k \in A |-> at[k]]
  <2>1. f \in [A -> B] /\ (\A k \in A : f[k] = at[k]) /\ \A k \in A : k \in 1 .. n
    BY <1>4, <1>5
  <2>2. \A b \in B : \E k \in A : f[k] = b
    BY <1>4, <1>5
  <2>3. IsFiniteSet(B)
    BY <1>2, FS_Subset
  <2> HIDE DEF A, B, f
  <2>4. f \in Injection(A, B)
    BY <2>1, <1>4 DEF Injection, IsInjective
  <2>5. f \in Surjection(A, B)
    BY <2>1, <2>2 DEF Surjection
  <2>6. Cardinality(A) = Cardinality(B)
    BY <2>3, <2>4, <2>5, FS_Injection
  <2> QED
    BY <2>6 DEF SeenIn, A, B
<1> QED
  BY <1>2, <1>8, <1>10, <1>11, <1>12 DEF Selects, part, n

\* What is picked from a list is a part of it.
LEMMA PickPart ==
    ASSUME NEW X, NEW list \in Seq(X), NEW among \in SUBSET (DOMAIN list)
    PROVE  Selects(Pick(list, among), list, among, X)
  BY EarlierStrict, ArrangedPart DEF Pick

\* A list without one of its members.
LEMMA RemoveAtPart ==
    ASSUME NEW X, NEW list \in Seq(X), NEW i \in DOMAIN list
    PROVE  /\ RemoveAt(list, i) \in Seq(X) /\ PartOf(RemoveAt(list, i), list)
           /\ \A k \in DOMAIN RemoveAt(list, i) :
                \E j \in DOMAIN list \ {i} : RemoveAt(list, i)[k] = list[j]
<1> DEFINE n == Len(list)
           first == SubSeq(list, 1, i - 1)
           second == SubSeq(list, i + 1, n)
           part == RemoveAt(list, i)
           at == [k \in 1 .. (n - 1) |-> IF k < i THEN k ELSE k + 1]
<1>1. n \in Nat /\ DOMAIN list = 1 .. n /\ \A j \in 1 .. n : list[j] \in X
  BY LenProperties
<1>2. i \in 1 .. n
  BY <1>1
<1>3. /\ first \in Seq(X) /\ Len(first) = i - 1
      /\ \A k \in 1 .. (i - 1) : first[k] = list[k]
  BY <1>1, <1>2, SubSeqProperties
<1>4. /\ second \in Seq(X) /\ Len(second) = n - i
      /\ \A k \in 1 .. (n - i) : second[k] = list[i + k]
  BY <1>1, <1>2, SubSeqProperties
<1>5. part = first \o second
  BY DEF RemoveAt
<1> HIDE DEF first, second, part, n
<1>6. /\ part \in Seq(X) /\ Len(part) = n - 1
      /\ \A k \in 1 .. (n - 1) : part[k] = IF k <= i - 1 THEN first[k] ELSE second[k - (i - 1)]
  <2>1. /\ part \in Seq(X) /\ Len(part) = Len(first) + Len(second)
        /\ \A k \in 1 .. (Len(first) + Len(second)) :
                part[k] = IF k <= Len(first) THEN first[k] ELSE second[k - Len(first)]
    BY <1>3, <1>4, <1>5, ConcatProperties
  <2>2. Len(first) + Len(second) = n - 1
    BY <1>1, <1>2, <1>3, <1>4
  <2> QED
    BY <2>1, <2>2, <1>3
<1>7. ASSUME NEW k \in 1 .. (n - 1)
      PROVE  part[k] = list[at[k]] /\ at[k] \in 1 .. n /\ at[k] # i
  <2>1. CASE k < i
    BY <2>1, <1>1, <1>2, <1>3, <1>6
  <2>2. CASE ~(k < i)
    <3>1. k - (i - 1) \in 1 .. (n - i) /\ i + (k - (i - 1)) = k + 1
      BY <2>2, <1>1, <1>2
    <3>2. part[k] = second[k - (i - 1)] /\ at[k] = k + 1
      BY <2>2, <1>1, <1>2, <1>6
    <3> QED
      BY <3>1, <3>2, <2>2, <1>1, <1>2, <1>4
  <2> QED
    BY <2>1, <2>2
<1>8. \A k, m \in 1 .. (n - 1) : at[k] = at[m] => k = m
  BY <1>1, <1>2
<1>9. at \in [1 .. (n - 1) -> 1 .. n]
  BY <1>1, <1>2
<1>10. DOMAIN part = 1 .. (n - 1)
  BY <1>6, LenProperties
<1> HIDE DEF at
<1>11. at \in Injection(DOMAIN part, DOMAIN list)
  BY <1>1, <1>8, <1>9, <1>10 DEF Injection, IsInjective
<1>12. PartOf(part, list)
  BY <1>7, <1>10, <1>11 DEF PartOf
<1> QED
  BY <1>1, <1>6, <1>7, <1>10, <1>12 DEF part

\* The number of a member that is removed is gone, if there was no other.
LEMMA RemoveAtGone ==
    ASSUME NEW X, NEW list \in Seq(X), NEW i \in DOMAIN list, Once(list, list[i].unum)
    PROVE  ~Has(RemoveAt(list, i), list[i].unum)
  BY RemoveAtPart DEF Has, Once

\* One more member at the end.
LEMMA AppendParts ==
    ASSUME NEW X, NEW list \in Seq(X), NEW o \in X
    PROVE  /\ Append(list, o) \in Seq(X) /\ Len(Append(list, o)) = Len(list) + 1
           /\ DOMAIN Append(list, o) = DOMAIN list \cup {Len(list) + 1}
           /\ Len(list) + 1 \notin DOMAIN list
           /\ \A i \in DOMAIN list : Append(list, o)[i] = list[i]
           /\ Append(list, o)[Len(list) + 1] = o
<1>1. Len(list) \in Nat /\ DOMAIN list = 1 .. Len(list)
  BY LenProperties
<1>2. Append(list, o) \in Seq(X) /\ Len(Append(list, o)) = Len(list) + 1
  BY AppendProperties
<1>3. DOMAIN Append(list, o) = 1 .. (Len(list) + 1)
  BY <1>2, LenProperties
<1>4. \A i \in 1 .. Len(list) : Append(list, o)[i] = list[i]
  BY AppendProperties
<1>5. Append(list, o)[Len(list) + 1] = o
  BY AppendProperties
<1> QED
  BY <1>1, <1>2, <1>3, <1>4, <1>5

LEMMA AppendOnce ==
    ASSUME NEW X, NEW list \in Seq(X), NEW o \in X, NEW unum
    PROVE  /\ Has(Append(list, o), unum) <=> Has(list, unum) \/ o.unum = unum
           /\ Once(list, unum) /\ (o.unum = unum => ~Has(list, unum))
                => Once(Append(list, o), unum)
<1> DEFINE more == Append(list, o)
           n == Len(list) + 1
<1>1. /\ DOMAIN more = DOMAIN list \cup {n} /\ n \notin DOMAIN list
      /\ \A i \in DOMAIN list : more[i] = list[i]
      /\ more[n] = o
  BY AppendParts
<1> HIDE DEF more, n
<1>2. Has(more, unum) <=> Has(list, unum) \/ o.unum = unum
  BY <1>1 DEF Has
<1>3. Once(list, unum) /\ (o.unum = unum => ~Has(list, unum)) => Once(more, unum)
  BY <1>1 DEF Has, Once
<1> QED
  BY <1>2, <1>3 DEF more

\* Two lists after each other.
LEMMA ConcatOnce ==
    ASSUME NEW X, NEW list \in Seq(X), NEW more \in Seq(X), NEW unum
    PROVE  /\ Has(list \o more, unum) <=> Has(list, unum) \/ Has(more, unum)
           /\ Once(list, unum) /\ Once(more, unum) /\ ~(Has(list, unum) /\ Has(more, unum))
                => Once(list \o more, unum)
<1> DEFINE n == Len(list)
           m == Len(more)
           all == list \o more
<1>1. n \in Nat /\ m \in Nat /\ DOMAIN list = 1 .. n /\ DOMAIN more = 1 .. m
  BY LenProperties
<1>2. all \in Seq(X) /\ Len(all) = n + m
      /\ \A i \in 1 .. (n + m) : all[i] = IF i <= n THEN list[i] ELSE more[i - n]
  BY ConcatProperties
<1>3. DOMAIN all = 1 .. (n + m)
  BY <1>2, LenProperties
<1> HIDE DEF n, m, all
<1>4. \A i \in DOMAIN list : i \in DOMAIN all /\ all[i] = list[i]
  BY <1>1, <1>2, <1>3
<1>5. ASSUME NEW i \in DOMAIN more PROVE i + n \in DOMAIN all /\ all[i + n] = more[i]
  <2>1. i + n \in 1 .. (n + m) /\ ~(i + n <= n) /\ (i + n) - n = i
    BY <1>1
  <2> QED
    BY <2>1, <1>2, <1>3
<1>6. ASSUME NEW i \in DOMAIN all, i \notin DOMAIN list
      PROVE  i - n \in DOMAIN more /\ all[i] = more[i - n]
  BY <1>1, <1>2, <1>3, <1>6
<1>7. Has(all, unum) <=> Has(list, unum) \/ Has(more, unum)
  BY <1>4, <1>5, <1>6 DEF Has
<1>8. ASSUME Once(list, unum), Once(more, unum), ~(Has(list, unum) /\ Has(more, unum)),
             NEW i \in DOMAIN all, NEW j \in DOMAIN all,
             all[i].unum = unum, all[j].unum = unum
      PROVE  i = j
  <2>1. CASE i \in DOMAIN list /\ j \in DOMAIN list
    BY <2>1, <1>8, <1>4 DEF Once
  <2>2. CASE i \notin DOMAIN list /\ j \notin DOMAIN list
    <3>1. i - n = j - n
      BY <2>2, <1>8, <1>6 DEF Once
    <3> QED
      BY <3>1, <1>1, <1>3
  <2>3. CASE (i \in DOMAIN list) # (j \in DOMAIN list)
    BY <2>3, <1>8, <1>4, <1>6 DEF Has
  <2> QED
    BY <2>1, <2>2, <2>3
<1> QED
  BY <1>7, <1>8 DEF Once, all

\* Another member in a place.
LEMMA ExceptOnce ==
    ASSUME NEW X, NEW list \in Seq(X), NEW i \in DOMAIN list, NEW o \in X, NEW unum,
           Once(list, unum), o.unum = unum => list[i].unum = unum \/ ~Has(list, unum)
    PROVE  Once([list EXCEPT ![i] = o], unum)
<1> DEFINE new == [list EXCEPT ![i] = o]
<1>1. DOMAIN new = DOMAIN list /\ new[i] = o /\ \A j \in DOMAIN list \ {i} : new[j] = list[j]
  OBVIOUS
<1> HIDE DEF new
<1>2. Once(new, unum)
  BY <1>1 DEF Once, Has
<1> QED
  BY <1>2 DEF new

-----------------------------------------------------------------------------
(* The invariant                                                           *)

TheGoalie == <<"their", TheirGoalie>>

\* Who may be remembered twice.
Exempt == IF named THEN {TheGoalie} ELSE {}

\* An object of a list, with the players at places w: an unknown player has no
\* number, a goalie has one, theirs that of their goalie as long as no opponent was
\* told of, and a number that was seen in this step is in the place of that player.
Sound(l, o, w, exempt) ==
    /\ o \in Objects
    /\ l = "neutral" => o.unum = Unum_Unknown /\ ~o.goalie
    /\ o.goalie => o.unum # Unum_Unknown
    /\ l = "their" /\ TheGoalie \notin exempt => (o.goalie <=> o.unum = TheirGoalie)
    /\ o.fresh =>
        /\ <<l, o.unum>> \in Players /\ o.count = 0
        /\ o.pos = w[<<l, o.unum>>] \/ w[<<l, o.unum>>] > FarDist

SoundList(l, list, w, exempt) ==
    /\ list \in Seq(Objects)
    /\ \A i \in DOMAIN list : Sound(l, list[i], w, exempt)

\* At the beginning of a step nothing is fresh or certain.
Stale(o) == ~o.fresh /\ o.count > 0

AllOnce(lists, exempt) == \A p \in Players \ exempt : Once(lists[p[1]], p[2])

AllSound(lists, w, exempt) == \A l \in Lists : SoundList(l, lists[l], w, exempt)

Inv ==
    /\ TypeOK
    /\ AllSound(memory, where, Exempt)
    /\ AllOnce(memory, Exempt)
    /\ phase = "sensed" => \A l \in Lists : \A i \in DOMAIN memory[l] : Stale(memory[l][i])

-----------------------------------------------------------------------------
(* Objects and lists                                                       *)

LEMMA MinTwo ==
    ASSUME NEW a \in Nat, NEW b \in Nat
    PROVE  Min({a, b}) = IF a <= b THEN a ELSE b
<1> DEFINE m == IF a <= b THEN a ELSE b
<1>1. m \in {a, b} /\ \A y \in {a, b} : m <= y
  OBVIOUS
<1>2. \A x \in {a, b} : (\A y \in {a, b} : x <= y) => x = m
  OBVIOUS
<1> HIDE DEF m
<1>3. Min({a, b}) = m
  BY <1>1, <1>2 DEF Min
<1> QED
  BY <1>3 DEF m

LEMMA Constants ==
    /\ Unum_Unknown = 0 /\ Unum_Unknown \notin Mates /\ Unum_Unknown \notin Opps
    /\ TheirGoalie \in Opps /\ TheGoalie \in Players
    /\ CountThr \in Nat /\ CountThr > 1 /\ GhostMax \in Nat /\ GhostMax > 0
    /\ Places \subseteq Nat /\ SeeBuf \in Nat /\ FarDist \in Nat
    /\ CountThr + SeeBuf <= Infinite
    /\ MateMax \in Nat /\ OppMax \in Nat
<1>1. {NumberFar, SeeBuf, Bias, FarDist, GhostDist, MaxTold, MaxVague} \subseteq Nat
  BY PlayerMemoryAssumption
<1>2. {CountThr, GhostAge, GhostMax, MateMax, OppMax} \subseteq Nat \ {0}
  BY PlayerMemoryAssumption
<1>3. TheGoalie \in Players
  BY PlayerMemoryAssumption DEF TheGoalie, Players
<1> QED
  BY <1>1, <1>2, <1>3, PlayerMemoryAssumption DEF Unum_Unknown

LEMMA ListOf ==
    ASSUME NEW p \in Players
    PROVE  /\ p = <<p[1], p[2]>> /\ p[1] \in {"our", "their"} /\ p[1] \in Lists
           /\ p[1] = "our" => p[2] \in Mates
           /\ p[1] = "their" => p[2] \in Opps
           /\ p[2] # Unum_Unknown /\ p[2] \in Mates \cup Opps
<1>1. p = <<p[1], p[2]>> /\ p[1] \in {"our", "their"} /\ p[1] \in Lists
      /\ (p[1] = "our" => p[2] \in Mates) /\ (p[1] = "their" => p[2] \in Opps)
  BY DEF Players, Lists
<1> QED
  BY <1>1, Constants

LEMMA Placed ==
    ASSUME NEW w \in Placements, NEW p \in Players
    PROVE  w[p] \in Places /\ w[p] \in Nat
<1>1. w \in [Players -> Places]
  BY DEF Placements
<1> QED
  BY <1>1, Constants

\* A part of a sound list is sound.
LEMMA SoundPart ==
    ASSUME NEW l, NEW list, NEW w, NEW exempt, SoundList(l, list, w, exempt),
           NEW part \in Seq(Objects),
           \A k \in DOMAIN part : \E i \in DOMAIN list : part[k] = list[i]
    PROVE  SoundList(l, part, w, exempt)
  BY DEF SoundList

\* PlayerObject::update: an object that stays valid is sound wherever the players
\* are by now, and nothing about it is certain any more.
LEMMA AgedSound ==
    ASSUME NEW l \in Lists, NEW o, NEW w, NEW exempt, Sound(l, o, w, exempt),
           IsValid(Aged(o)), NEW new
    PROVE  Sound(l, Aged(o), new, exempt) /\ Stale(Aged(o)) /\ Aged(o).unum = o.unum
<1> DEFINE a == Aged(o)
<1>1. o \in Objects
  BY DEF Sound
<1>2. /\ o.unum \in {Unum_Unknown} \cup Mates \cup Opps
      /\ o.fresh \in BOOLEAN /\ o.goalie \in BOOLEAN /\ o.pos \in Places
      /\ o.count \in 0 .. (CountThr - 1) /\ o.ghost \in 0 .. GhostMax
  BY <1>1 DEF Objects
<1>3. Min({o.count + 1, CountThr}) = o.count + 1
  BY <1>2, Constants, MinTwo
<1>4. a = [o EXCEPT !.count = o.count + 1, !.fresh = FALSE]
  BY <1>3 DEF Aged
<1>5. a.count < CountThr
  BY DEF IsValid
<1>6. a.count = o.count + 1 /\ ~a.fresh /\ a.unum = o.unum /\ a.goalie = o.goalie
  BY <1>1, <1>4 DEF Objects
<1>7. o.count + 1 \in 0 .. (CountThr - 1) /\ a.count > 0
  BY <1>2, <1>5, <1>6, Constants
<1>8. a \in Objects
  BY <1>1, <1>4, <1>7 DEF Objects
<1> HIDE DEF a
<1>9. Sound(l, a, new, exempt)
  BY <1>6, <1>8 DEF Sound
<1> QED
  BY <1>6, <1>7, <1>9 DEF Stale, a

\* WorldModel::update of a list.
LEMMA UpdatedSound ==
    ASSUME NEW l \in Lists, NEW list, NEW w, NEW exempt, SoundList(l, list, w, exempt), NEW new
    PROVE  /\ SoundList(l, Updated(list), new, exempt)
           /\ \A k \in DOMAIN Updated(list) : Stale(Updated(list)[k])
           /\ \A unum : Once(list, unum) => Once(Updated(list), unum)
<1> DEFINE aged == [i \in DOMAIN list |-> Aged(list[i])]
           among == {i \in DOMAIN aged : IsValid(aged[i])}
           part == Pick(aged, among)
           X == {Aged(o) : o \in Objects}
<1>1. list \in Seq(Objects) /\ Len(list) \in Nat /\ DOMAIN list = 1 .. Len(list)
  BY LenProperties DEF SoundList
<1>2. \A i \in DOMAIN list : list[i] \in Objects /\ Sound(l, list[i], w, exempt)
  BY DEF SoundList, Sound
<1>3. aged \in Seq(X) /\ DOMAIN aged = DOMAIN list
      /\ \A i \in DOMAIN list : aged[i] = Aged(list[i])
  <2>1. aged \in [1 .. Len(list) -> X]
    BY <1>1, <1>2
  <2> QED
    BY <1>1, <2>1
<1>4. among \in SUBSET (DOMAIN aged) /\ \A i \in among : IsValid(aged[i])
  OBVIOUS
<1> HIDE DEF aged, among, X
<1>5. /\ part \in Seq(X) /\ PartOf(part, aged)
      /\ \A k \in DOMAIN part : \E i \in among : part[k] = aged[i]
  BY <1>3, <1>4, PickPart DEF Selects
<1>6. ASSUME NEW k \in DOMAIN part
      PROVE  Sound(l, part[k], new, exempt) /\ Stale(part[k]) /\ part[k] \in Objects
  <2>1. PICK i \in among : part[k] = aged[i]
    BY <1>5
  <2>2. i \in DOMAIN list /\ part[k] = Aged(list[i]) /\ IsValid(Aged(list[i]))
    BY <2>1, <1>3, <1>4
  <2>3. Sound(l, list[i], w, exempt)
    BY <2>2, <1>2
  <2>4. Sound(l, part[k], new, exempt) /\ Stale(part[k])
    BY <2>2, <2>3, AgedSound
  <2> QED
    BY <2>4 DEF Sound
<1> HIDE DEF part
<1>7. part \in Seq(Objects)
  <2>1. Len(part) \in Nat /\ DOMAIN part = 1 .. Len(part) /\ part \in [1 .. Len(part) -> X]
    BY <1>5, LenProperties
  <2>2. part \in [1 .. Len(part) -> Objects]
    BY <2>1, <1>6
  <2> QED
    BY <2>1, <2>2
<1>8. SoundList(l, part, new, exempt)
  BY <1>6, <1>7 DEF SoundList
<1>9. ASSUME NEW unum, Once(list, unum) PROVE Once(part, unum)
  <2>1. \A i \in DOMAIN list : aged[i].unum = list[i].unum
    BY <1>2, <1>3 DEF Aged, Objects
  <2>2. Once(aged, unum)
    BY <2>1, <1>3, <1>9 DEF Once
  <2> QED
    BY <2>2, <1>5, PartOnce
<1>10. CASE placing
  <2>1. Updated(list) = <<>>
    BY <1>10 DEF Updated
  <2>2. <<>> \in Seq(Objects) /\ DOMAIN <<>> = {}
    OBVIOUS
  <2> QED
    BY <2>1, <2>2 DEF SoundList, Once
<1>11. CASE ~placing
  <2>1. Updated(list) = part
    BY <1>11 DEF Updated, part, aged, among
  <2> QED
    BY <2>1, <1>6, <1>8, <1>9
<1> QED
  BY <1>10, <1>11

\* The ghosts of a list.
LEMMA ChangedSound ==
    ASSUME NEW l \in Lists, NEW o, NEW w, NEW exempt, Sound(l, o, w, exempt),
           NEW g \in 0 .. GhostMax
    PROVE  Sound(l, [o EXCEPT !.ghost = g], w, exempt)
<1> DEFINE c == [o EXCEPT !.ghost = g]
<1>1. o \in Objects
  BY DEF Sound
<1>2. /\ c.unum = o.unum /\ c.fresh = o.fresh /\ c.goalie = o.goalie
      /\ c.count = o.count /\ c.pos = o.pos
  BY <1>1 DEF Objects
<1>3. c \in Objects
  BY <1>1 DEF Objects
<1> HIDE DEF c
<1>4. Sound(l, c, w, exempt)
  BY <1>2, <1>3 DEF Sound
<1> QED
  BY <1>4 DEF c

-----------------------------------------------------------------------------
(* A see: what it tells, and what becomes of an object                     *)

\* What a see tells of a player, with the players at places w.
Observed(s, w) ==
    /\ s.list \in Lists /\ s.pos \in Places /\ s.goalie \in BOOLEAN
    /\ s.unum \in {Unum_Unknown} \cup Mates \cup Opps
    /\ s.unum # Unum_Unknown =>
        <<s.list, s.unum>> \in Players /\ w[<<s.list, s.unum>>] = s.pos
    /\ s.goalie => s.unum # Unum_Unknown
    /\ s.list = "their" => (s.goalie <=> s.unum = TheirGoalie)

\* VisualSensor::parsePlayer.
LEMMA SeenObserved ==
    ASSUME where \in Placements, NEW p \in Players, NEW look \in {"number", "side", "player"}
    PROVE  /\ Observed(Seen(p, look), where) /\ Seen(p, look).who = p
           /\ Seen(p, look).unum # Unum_Unknown => p = <<Seen(p, look).list, Seen(p, look).unum>>
<1> DEFINE s == Seen(p, look)
<1>1. /\ s.list = IF look = "player" THEN "neutral" ELSE p[1]
      /\ s.unum = IF look = "number" THEN p[2] ELSE Unum_Unknown
      /\ s.pos = where[p] /\ s.who = p
      /\ s.goalie <=> look = "number" /\ p[2] = (IF p[1] = "our" THEN OurGoalie ELSE TheirGoalie)
      /\ s.goalie \in BOOLEAN
  BY DEF Seen
<1>2. /\ p = <<p[1], p[2]>> /\ p[1] \in {"our", "their"} /\ p[1] \in Lists
      /\ p[2] # Unum_Unknown /\ p[2] \in Mates \cup Opps
  BY ListOf
<1>3. where[p] \in Places
  BY Placed
<1>4. TheirGoalie # Unum_Unknown
  BY Constants
<1> HIDE DEF s
<1>5. CASE look = "number"
  <2>1. s.list = p[1] /\ s.unum = p[2] /\ p = <<s.list, s.unum>>
    BY <1>1, <1>2, <1>5
  <2>2. s.list = "their" => (s.goalie <=> s.unum = TheirGoalie)
    BY <1>1, <1>5, <2>1
  <2> QED
    BY <1>1, <1>2, <1>3, <2>1, <2>2 DEF Observed, s
<1>6. CASE look # "number"
  <2>1. s.unum = Unum_Unknown /\ ~s.goalie /\ s.list \in Lists
    BY <1>1, <1>2, <1>6 DEF Lists
  <2> QED
    BY <1>1, <1>3, <1>4, <2>1 DEF Observed, s
<1> QED
  BY <1>5, <1>6

\* The PlayerObject of a player that is seen for the first time.
LEMMA NewSound ==
    ASSUME NEW s, NEW w, Observed(s, w), NEW exempt
    PROVE  /\ Sound(s.list, NewObject(s), w, exempt)
           /\ NewObject(s).count = 0 /\ NewObject(s).unum = s.unum
<1> DEFINE o == NewObject(s)
<1>1. /\ o.unum = s.unum /\ o.goalie = s.goalie /\ o.pos = s.pos
      /\ o.count = 0 /\ o.ghost = 0
  BY DEF NewObject
<1>2. o.fresh <=> s.unum # Unum_Unknown
  BY DEF NewObject
<1>3. o \in Objects
  BY Constants DEF NewObject, Objects, Observed
<1>4. s.list = "neutral" => s.unum = Unum_Unknown
  <2>1. \A u : <<"neutral", u>> \notin Players
    BY DEF Players
  <2> QED
    BY <2>1 DEF Observed
<1> HIDE DEF o
<1>5. Sound(s.list, o, w, exempt)
  <2>1. s.list = "neutral" => o.unum = Unum_Unknown /\ ~o.goalie
    BY <1>1, <1>4 DEF Observed
  <2>2. o.goalie => o.unum # Unum_Unknown
    BY <1>1 DEF Observed
  <2>3. s.list = "their" => (o.goalie <=> o.unum = TheirGoalie)
    BY <1>1 DEF Observed
  <2>4. o.fresh => /\ <<s.list, o.unum>> \in Players /\ o.count = 0
                   /\ o.pos = w[<<s.list, o.unum>>]
    BY <1>1, <1>2 DEF Observed
  <2> QED
    BY <1>3, <2>1, <2>2, <2>3, <2>4 DEF Sound
<1> QED
  BY <1>1, <1>5 DEF o

\* The lists between which a matched object moves.
Moves(from, to, s) ==
    \/ to = s.list /\ from \in {s.list, "neutral"}
    \/ s.list = "neutral" /\ to = from

\* PlayerObject::updateBySee of an object that was not confirmed in this step.
LEMMA SeeSound ==
    ASSUME NEW from \in Lists, NEW to \in Lists, NEW o, NEW s, NEW w, NEW exempt,
           Sound(from, o, w, exempt), Stale(o), Observed(s, w), Moves(from, to, s)
    PROVE  /\ Sound(to, UpdateBySee(o, s), w, exempt)
           /\ UpdateBySee(o, s).count = 0
           /\ UpdateBySee(o, s).unum = IF s.unum # Unum_Unknown THEN s.unum ELSE o.unum
<1>1. CASE s.unum # Unum_Unknown
  <2>1. s.list # "neutral"
    <3>1. \A u : <<"neutral", u>> \notin Players
      BY DEF Players
    <3> QED
      BY <1>1, <3>1 DEF Observed
  <2>2. to = s.list
    BY <2>1 DEF Moves
  <2>3. UpdateBySee(o, s) = NewObject(s)
    BY <1>1 DEF UpdateBySee
  <2> QED
    BY <1>1, <2>2, <2>3, NewSound
<1>2. CASE s.unum = Unum_Unknown
  <2> DEFINE c == [o EXCEPT !.pos = s.pos, !.count = 0, !.ghost = 0]
  <2>1. UpdateBySee(o, s) = c
    BY <1>2 DEF UpdateBySee
  <2>2. o \in Objects /\ ~o.fresh
    BY DEF Sound, Stale
  <2>3. c.unum = o.unum /\ c.goalie = o.goalie /\ c.fresh = o.fresh /\ c.count = 0
    BY <2>2 DEF Objects
  <2>4. c \in Objects
    <3>1. s.pos \in Places /\ 0 \in 0 .. (CountThr - 1) /\ 0 \in 0 .. GhostMax
      BY Constants DEF Observed
    <3> QED
      BY <2>2, <3>1 DEF Objects
  <2> HIDE DEF c
  <2>5. Sound(to, c, w, exempt)
    <3>1. to # from => from = "neutral" /\ o.unum = Unum_Unknown /\ ~o.goalie /\ to = s.list
      BY DEF Moves, Sound
    <3>2. to # from => to # "neutral"
      BY <3>1
    <3>3. to = "neutral" => c.unum = Unum_Unknown /\ ~c.goalie
      BY <3>2, <2>3 DEF Sound
    <3>4. c.goalie => c.unum # Unum_Unknown
      BY <2>3 DEF Sound
    <3>5. to = "their" /\ TheGoalie \notin exempt => (c.goalie <=> c.unum = TheirGoalie)
      BY <3>1, <2>3, Constants DEF Sound
    <3> QED
      BY <2>2, <2>3, <2>4, <3>3, <3>4, <3>5 DEF Sound
  <2> QED
    BY <1>2, <2>1, <2>3, <2>5
<1> QED
  BY <1>1, <1>2

-----------------------------------------------------------------------------
(* Matching the players that are seen                                      *)

LEMMA DistanceNat ==
    ASSUME NEW a \in Nat, NEW b \in Nat
    PROVE  Distance(a, b) \in Nat
  BY DEF Distance

\* The search finds one of the candidates, if there are any.
LEMMA NearestFound ==
    ASSUME NEW list \in Seq(Objects), NEW among \in SUBSET (DOMAIN list), NEW pos \in Places
    PROVE  /\ among = {} => Nearest(list, among, pos) = 0
           /\ among # {} => Nearest(list, among, pos) \in among /\ Nearest(list, among, pos) # 0
           /\ Nearest(list, among, pos) # 0 => Nearest(list, among, pos) \in among
<1> DEFINE d(i) == Distance(list[i].pos, pos)
           First(i) == \A j \in among : d(i) < d(j) \/ (d(i) = d(j) /\ i <= j)
<1>1. DOMAIN list = 1 .. Len(list) /\ Len(list) \in Nat /\ \A i \in DOMAIN list : list[i] \in Objects
  BY LenProperties
<1>2. \A i \in among : d(i) \in Nat
  <2>1. \A i \in among : list[i].pos \in Nat /\ pos \in Nat
    BY <1>1, Constants DEF Objects
  <2> QED
    BY <2>1, DistanceNat
<1>3. among \in SUBSET Nat /\ 0 \notin among
  BY <1>1
<1>4. among # {} => \E i \in among : First(i)
  <2> SUFFICES ASSUME among # {} PROVE \E i \in among : First(i)
    OBVIOUS
  <2> DEFINE D == {d(i) : i \in among}
  <2>1. D \in SUBSET Nat /\ D # {}
    BY <1>2
  <2>2. PICK m \in D : \A x \in D : m <= x
    <3> HIDE DEF D
    <3> QED
      BY <2>1, Least
  <2> DEFINE B == {i \in among : d(i) = m}
  <2>3. B \in SUBSET Nat /\ B # {}
    BY <1>3, <2>2
  <2>4. PICK i \in B : \A j \in B : i <= j
    <3> HIDE DEF B
    <3> QED
      BY <2>3, Least
  <2>5. ASSUME NEW j \in among PROVE d(i) < d(j) \/ (d(i) = d(j) /\ i <= j)
    <3>1. m <= d(j) /\ d(i) = m /\ m \in Nat /\ d(j) \in Nat
      BY <2>1, <2>2, <2>4, <1>2
    <3>2. d(j) = m => i <= j
      BY <2>4
    <3> HIDE DEF d
    <3> QED
      BY <3>1, <3>2
  <2> QED
    BY <2>4, <2>5
<1>5. among # {} => Nearest(list, among, pos) = CHOOSE i \in among : First(i)
  BY DEF Nearest
<1>6. among = {} => Nearest(list, among, pos) = 0
  BY DEF Nearest
<1> HIDE DEF First
<1>7. among # {} => Nearest(list, among, pos) \in among
  BY <1>4, <1>5
<1> QED
  BY <1>3, <1>6, <1>7

\* A seen player stands for a number in a list: it is seen with it, or it was taken
\* for somebody who has it.
Accounts(s, l, unum) ==
    \/ s.list = l /\ s.unum = unum
    \/ s.unum = Unum_Unknown /\ s.list \in {l, "neutral"}

\* The old and the new lists when the first k of the seen players are matched.
WorkInv(work, k, order, exempt) ==
    /\ work \in [old : [Lists -> Seq(Objects)], new : [Lists -> Seq(Objects)]]
    /\ AllSound(work.old, where, exempt) /\ AllSound(work.new, where, exempt)
    /\ \A l \in Lists : \A i \in DOMAIN work.old[l] : Stale(work.old[l][i])
    /\ \A l \in Lists : \A i \in DOMAIN work.new[l] : work.new[l][i].count = 0
    /\ AllOnce(work.old, exempt) /\ AllOnce(work.new, exempt)
    /\ \A p \in Players \ exempt : ~(Has(work.old[p[1]], p[2]) /\ Has(work.new[p[1]], p[2]))
    /\ \A p \in Players : Has(work.new[p[1]], p[2]) =>
            \E j \in 1 .. k : Accounts(order[j], p[1], p[2])
    /\ Len(work.new["our"]) + Len(work.new["their"]) + Len(work.new["neutral"]) = k

\* One more object in the new lists, and perhaps one less in the old ones.
LEMMA WorkStep ==
    ASSUME NEW work, NEW k \in Nat, NEW order, NEW exempt, WorkInv(work, k, order, exempt),
           NEW old \in [Lists -> Seq(Objects)], AllSound(old, where, exempt),
           \A l \in Lists : \A i \in DOMAIN old[l] : Stale(old[l][i]),
           \A l \in Lists : \A u :
                /\ Has(old[l], u) => Has(work.old[l], u)
                /\ Once(work.old[l], u) => Once(old[l], u),
           NEW to \in Lists, NEW o, Sound(to, o, where, exempt), o.count = 0,
           <<to, o.unum>> \in Players => Accounts(order[k + 1], to, o.unum),
           <<to, o.unum>> \in Players \ exempt =>
                ~Has(work.new[to], o.unum) /\ ~Has(old[to], o.unum)
    PROVE  WorkInv([old |-> old, new |-> [work.new EXCEPT ![to] = Append(@, o)]],
                   k + 1, order, exempt)
<1> DEFINE new == [work.new EXCEPT ![to] = Append(@, o)]
           next == [old |-> old, new |-> new]
<1>1. work.new \in [Lists -> Seq(Objects)] /\ o \in Objects
  BY DEF WorkInv, Sound
<1>2. /\ new[to] = Append(work.new[to], o)
      /\ \A l \in Lists : l # to => new[l] = work.new[l]
  BY <1>1
<1>3. new \in [Lists -> Seq(Objects)]
  BY <1>1
<1>4. next \in [old : [Lists -> Seq(Objects)], new : [Lists -> Seq(Objects)]]
      /\ next.old = old /\ next.new = new
  BY <1>3
<1> HIDE DEF new, next
<1>5. /\ Append(work.new[to], o) \in Seq(Objects)
      /\ Len(Append(work.new[to], o)) = Len(work.new[to]) + 1
      /\ \A i \in DOMAIN Append(work.new[to], o) :
            \/ i \in DOMAIN work.new[to] /\ Append(work.new[to], o)[i] = work.new[to][i]
            \/ Append(work.new[to], o)[i] = o
  BY <1>1, AppendParts
<1>6. AllSound(new, where, exempt)
  <2>1. ASSUME NEW l \in Lists PROVE SoundList(l, new[l], where, exempt)
    <3>1. CASE l = to
      BY <3>1, <1>2, <1>5 DEF WorkInv, AllSound, SoundList
    <3>2. CASE l # to
      BY <3>2, <1>2 DEF WorkInv, AllSound
    <3> QED
      BY <3>1, <3>2
  <2> QED
    BY <2>1 DEF AllSound
<1>7. \A l \in Lists : \A i \in DOMAIN new[l] : new[l][i].count = 0
  <2>1. ASSUME NEW l \in Lists, NEW i \in DOMAIN new[l] PROVE new[l][i].count = 0
    <3>1. CASE l = to
      BY <3>1, <1>2, <1>5 DEF WorkInv
    <3>2. CASE l # to
      BY <3>2, <1>2 DEF WorkInv
    <3> QED
      BY <3>1, <3>2
  <2> QED
    BY <2>1
<1>8. \A p \in Players : p[1] \in Lists /\ p = <<p[1], p[2]>>
  BY ListOf
<1>9. AllOnce(old, exempt)
  BY <1>8 DEF WorkInv, AllOnce
<1>10. \A u : /\ Has(new[to], u) <=> Has(work.new[to], u) \/ o.unum = u
              /\ Once(work.new[to], u) /\ (o.unum = u => ~Has(work.new[to], u)) => Once(new[to], u)
  BY <1>1, <1>2, AppendOnce
<1>11. ASSUME NEW p \in Players \ exempt
       PROVE  Once(new[p[1]], p[2]) /\ ~(Has(old[p[1]], p[2]) /\ Has(new[p[1]], p[2]))
  <2>1. Once(work.new[p[1]], p[2]) /\ ~(Has(old[p[1]], p[2]) /\ Has(work.new[p[1]], p[2]))
    BY <1>8 DEF WorkInv, AllOnce
  <2>2. CASE p[1] = to /\ p[2] = o.unum
    BY <2>1, <2>2, <1>8, <1>10
  <2>3. CASE p[1] = to /\ p[2] # o.unum
    BY <2>1, <2>3, <1>10
  <2>4. CASE p[1] # to
    BY <2>1, <2>4, <1>2, <1>8
  <2> QED
    BY <2>2, <2>3, <2>4
<1>12. ASSUME NEW p \in Players, Has(new[p[1]], p[2])
       PROVE  \E j \in 1 .. (k + 1) : Accounts(order[j], p[1], p[2])
  <2>1. CASE Has(work.new[p[1]], p[2])
    <3>1. PICK j \in 1 .. k : Accounts(order[j], p[1], p[2])
      BY <2>1 DEF WorkInv
    <3> QED
      BY <3>1
  <2>2. CASE ~Has(work.new[p[1]], p[2])
    <3>1. p[1] = to /\ o.unum = p[2]
      BY <2>2, <1>2, <1>8, <1>10, <1>12
    <3>2. Accounts(order[k + 1], p[1], p[2])
      BY <3>1, <1>8
    <3> QED
      BY <3>2
  <2> QED
    BY <2>1, <2>2
<1>13. Len(new["our"]) + Len(new["their"]) + Len(new["neutral"]) = k + 1
  <2> DEFINE n(l) == Len(work.new[l])
             m(l) == Len(new[l])
  <2>1. n("our") + n("their") + n("neutral") = k
    BY DEF WorkInv
  <2>2. "our" \in Lists /\ "their" \in Lists /\ "neutral" \in Lists
        /\ (to = "our" \/ to = "their" \/ to = "neutral")
    BY DEF Lists
  <2>3. n("our") \in Nat /\ n("their") \in Nat /\ n("neutral") \in Nat
    BY <1>1, <2>2, LenProperties
  <2>4. m(to) = n(to) + 1 /\ \A l \in Lists : l # to => m(l) = n(l)
    BY <1>2, <1>5
  <2> HIDE DEF n, m
  <2> SUFFICES m("our") + m("their") + m("neutral") = k + 1
    BY DEF m
  <2>5. CASE to = "our"
    <3>1. m("our") = n("our") + 1 /\ m("their") = n("their") /\ m("neutral") = n("neutral")
      BY <2>2, <2>4, <2>5
    <3> QED
      BY <2>1, <2>3, <3>1
  <2>6. CASE to = "their"
    <3>1. m("our") = n("our") /\ m("their") = n("their") + 1 /\ m("neutral") = n("neutral")
      BY <2>2, <2>4, <2>6
    <3> QED
      BY <2>1, <2>3, <3>1
  <2>7. CASE to = "neutral"
    <3>1. m("our") = n("our") /\ m("their") = n("their") /\ m("neutral") = n("neutral") + 1
      BY <2>2, <2>4, <2>7
    <3> QED
      BY <2>1, <2>3, <3>1
  <2> QED
    BY <2>2, <2>5, <2>6, <2>7
<1>14. AllOnce(new, exempt)
  BY <1>11 DEF AllOnce
<1> QED
  BY <1>4, <1>6, <1>7, <1>9, <1>11, <1>12, <1>13, <1>14 DEF WorkInv, next, new

\* A seen player is matched with an old object.
LEMMA FoundOK ==
    ASSUME NEW work, NEW k \in Nat, NEW order, NEW exempt, WorkInv(work, k, order, exempt),
           NEW s, s = order[k + 1], Observed(s, where),
           s.unum # Unum_Unknown => ~Has(work.new[s.list], s.unum),
           NEW from \in Lists, NEW to \in Lists, Moves(from, to, s),
           NEW i \in DOMAIN work.old[from],
           s.unum # Unum_Unknown =>
                \/ from = s.list /\ work.old[from][i].unum = s.unum
                \/ ~Has(work.old[s.list], s.unum)
    PROVE  WorkInv(Found(work, from, i, to, s), k + 1, order, exempt)
<1> DEFINE o == work.old[from][i]
           next == UpdateBySee(o, s)
           old == [work.old EXCEPT ![from] = RemoveAt(@, i)]
<1>1. work.old \in [Lists -> Seq(Objects)]
  BY DEF WorkInv
<1>2. /\ RemoveAt(work.old[from], i) \in Seq(Objects)
      /\ PartOf(RemoveAt(work.old[from], i), work.old[from])
      /\ \A j \in DOMAIN RemoveAt(work.old[from], i) :
            \E m \in DOMAIN work.old[from] : RemoveAt(work.old[from], i)[j] = work.old[from][m]
  BY <1>1, RemoveAtPart
<1>3. /\ old[from] = RemoveAt(work.old[from], i)
      /\ \A l \in Lists : l # from => old[l] = work.old[l]
      /\ old \in [Lists -> Seq(Objects)]
  BY <1>1, <1>2
<1>4. Sound(from, o, where, exempt) /\ Stale(o)
  BY DEF WorkInv, AllSound, SoundList
<1>5. /\ Sound(to, next, where, exempt) /\ next.count = 0
      /\ next.unum = IF s.unum # Unum_Unknown THEN s.unum ELSE o.unum
  BY <1>4, SeeSound
<1>6. Found(work, from, i, to, s) = [old |-> old, new |-> [work.new EXCEPT ![to] = Append(@, next)]]
  BY DEF Found
<1> HIDE DEF o, next, old
<1>7. AllSound(old, where, exempt)
  <2>1. ASSUME NEW l \in Lists PROVE SoundList(l, old[l], where, exempt)
    <3>1. SoundList(l, work.old[l], where, exempt)
      BY DEF WorkInv, AllSound
    <3>2. CASE l = from
      BY <3>1, <3>2, <1>2, <1>3, SoundPart
    <3>3. CASE l # from
      BY <3>1, <3>3, <1>3
    <3> QED
      BY <3>2, <3>3
  <2> QED
    BY <2>1 DEF AllSound
<1>8. ASSUME NEW l \in Lists, NEW j \in DOMAIN old[l] PROVE Stale(old[l][j])
  <2>1. CASE l = from
    BY <2>1, <1>2, <1>3 DEF WorkInv
  <2>2. CASE l # from
    BY <2>2, <1>3 DEF WorkInv
  <2> QED
    BY <2>1, <2>2
<1>9. ASSUME NEW l \in Lists, NEW u
      PROVE  /\ Has(old[l], u) => Has(work.old[l], u)
             /\ Once(work.old[l], u) => Once(old[l], u)
  <2>1. CASE l = from
    BY <2>1, <1>2, <1>3, PartOnce
  <2>2. CASE l # from
    BY <2>2, <1>3
  <2> QED
    BY <2>1, <2>2
<1>10. <<to, next.unum>> \in Players =>
            /\ next.unum # Unum_Unknown
            /\ s.unum # Unum_Unknown => to = s.list
            /\ s.unum = Unum_Unknown => from = to
  <2> SUFFICES ASSUME <<to, next.unum>> \in Players
               PROVE  /\ next.unum # Unum_Unknown
                      /\ s.unum # Unum_Unknown => to = s.list
                      /\ s.unum = Unum_Unknown => from = to
    OBVIOUS
  <2>1. next.unum # Unum_Unknown /\ to # "neutral"
    BY ListOf
  <2>2. s.unum # Unum_Unknown => s.list # "neutral"
    BY ListOf DEF Observed
  <2>3. s.unum # Unum_Unknown => to = s.list
    BY <2>2 DEF Moves
  <2>4. s.unum = Unum_Unknown => from # "neutral"
    BY <2>1, <1>4, <1>5 DEF Sound
  <2> QED
    BY <2>1, <2>3, <2>4 DEF Moves
<1>11. <<to, next.unum>> \in Players => Accounts(order[k + 1], to, next.unum)
  <2>1. CASE s.unum # Unum_Unknown
    BY <2>1, <1>5, <1>10 DEF Accounts
  <2>2. CASE s.unum = Unum_Unknown
    BY <2>2 DEF Accounts, Moves
  <2> QED
    BY <2>1, <2>2
<1>12. ASSUME <<to, next.unum>> \in Players \ exempt
       PROVE  ~Has(work.new[to], next.unum) /\ ~Has(old[to], next.unum)
  <2> DEFINE p == <<to, next.unum>>
  <2>1. p \in Players \ exempt /\ p[1] = to /\ p[2] = next.unum
    BY <1>12
  <2> HIDE DEF p
  <2>2. /\ Once(work.old[to], next.unum)
        /\ ~(Has(work.old[to], next.unum) /\ Has(work.new[to], next.unum))
    BY <2>1 DEF WorkInv, AllOnce
  <2>3. CASE s.unum # Unum_Unknown /\ ~Has(work.old[s.list], s.unum)
    <3>1. to = s.list /\ next.unum = s.unum
      BY <2>3, <1>5, <1>10, <1>12
    <3> QED
      BY <3>1, <2>3, <1>9
  <2>4. CASE (s.unum # Unum_Unknown /\ from = s.list /\ o.unum = s.unum) \/ s.unum = Unum_Unknown
    <3>1. to = from /\ next.unum = o.unum
      BY <2>4, <1>5, <1>10, <1>12
    <3>2. Has(work.old[to], next.unum)
      BY <3>1 DEF Has, o
    <3>3. ~Has(RemoveAt(work.old[from], i), o.unum)
      BY <2>2, <3>1, <1>1, RemoveAtGone DEF o
    <3> QED
      BY <2>2, <3>1, <3>2, <3>3, <1>3
  <2> QED
    BY <2>3, <2>4 DEF o
<1>13. /\ \A l \in Lists : \A j \in DOMAIN old[l] : Stale(old[l][j])
       /\ \A l \in Lists : \A u :
            /\ Has(old[l], u) => Has(work.old[l], u)
            /\ Once(work.old[l], u) => Once(old[l], u)
  BY <1>8, <1>9
<1>14. <<to, next.unum>> \in Players \ exempt =>
            ~Has(work.new[to], next.unum) /\ ~Has(old[to], next.unum)
  BY <1>12
<1>15. old \in [Lists -> Seq(Objects)] /\ Sound(to, next, where, exempt) /\ next.count = 0
  BY <1>3, <1>5
<1>16. WorkInv([old |-> old, new |-> [work.new EXCEPT ![to] = Append(@, next)]],
               k + 1, order, exempt)
  BY <1>7, <1>11, <1>13, <1>14, <1>15, WorkStep
<1> QED
  BY <1>6, <1>16

\* A seen player is new.
LEMMA NotFoundOK ==
    ASSUME NEW work, NEW k \in Nat, NEW order, NEW exempt, WorkInv(work, k, order, exempt),
           NEW s, s = order[k + 1], Observed(s, where),
           s.unum # Unum_Unknown => ~Has(work.new[s.list], s.unum) /\ ~Has(work.old[s.list], s.unum)
    PROVE  WorkInv(NotFound(work, s.list, s), k + 1, order, exempt)
<1> DEFINE o == NewObject(s)
<1>1. work \in [old : [Lists -> Seq(Objects)], new : [Lists -> Seq(Objects)]]
  BY DEF WorkInv
<1>2. NotFound(work, s.list, s)
        = [old |-> work.old, new |-> [work.new EXCEPT ![s.list] = Append(@, o)]]
  BY DEF NotFound
<1>3. Sound(s.list, o, where, exempt) /\ o.count = 0 /\ o.unum = s.unum
  BY NewSound
<1> HIDE DEF o
<1>4. s.list \in Lists
  BY DEF Observed
<1>5. <<s.list, o.unum>> \in Players => s.unum # Unum_Unknown
  BY <1>3, ListOf
<1>6. Accounts(order[k + 1], s.list, o.unum)
  BY <1>3 DEF Accounts
<1>7. /\ work.old \in [Lists -> Seq(Objects)] /\ AllSound(work.old, where, exempt)
      /\ \A l \in Lists : \A i \in DOMAIN work.old[l] : Stale(work.old[l][i])
  BY DEF WorkInv
<1>8. <<s.list, o.unum>> \in Players \ exempt =>
            ~Has(work.new[s.list], o.unum) /\ ~Has(work.old[s.list], o.unum)
  BY <1>3, <1>5
<1>9. WorkInv([old |-> work.old, new |-> [work.new EXCEPT ![s.list] = Append(@, o)]],
              k + 1, order, exempt)
  BY <1>3, <1>4, <1>6, <1>7, <1>8, WorkStep
<1> QED
  BY <1>2, <1>9

LEMMA MinIn ==
    ASSUME NEW T \in SUBSET Nat, T # {}
    PROVE  Min(T) \in T
<1>1. \E n \in T : \A m \in T : n <= m
  BY Least
<1> QED
  BY <1>1 DEF Min

\* Within reach is nearer than the distance that a search begins with.
LEMMA ReachBound ==
    ASSUME NEW list \in Seq(Objects), NEW pos \in Places, NEW among \in SUBSET InReach(list, pos)
    PROVE  LET i == Nearest(list, among, pos)
           IN  /\ i = 0 => DistanceTo(list, i, pos) = Infinite
               /\ i # 0 => /\ i \in among /\ i \in DOMAIN list
                           /\ DistanceTo(list, i, pos) \in Nat
                           /\ DistanceTo(list, i, pos) < Infinite
<1> DEFINE i == Nearest(list, among, pos)
<1>1. among \in SUBSET (DOMAIN list)
  BY DEF InReach
<1>2. i # 0 => i \in among /\ i \in DOMAIN list
  BY <1>1, NearestFound
<1>3. i = 0 => DistanceTo(list, i, pos) = Infinite
  BY DEF DistanceTo
<1>4. i # 0 => DistanceTo(list, i, pos) \in Nat /\ DistanceTo(list, i, pos) < Infinite
  <2> HIDE DEF i
  <2> SUFFICES ASSUME i # 0
               PROVE  DistanceTo(list, i, pos) \in Nat /\ DistanceTo(list, i, pos) < Infinite
    OBVIOUS
  <2>1. DistanceTo(list, i, pos) = Distance(list[i].pos, pos)
    BY DEF DistanceTo
  <2>2. list[i] \in Objects
    BY <1>2, LenProperties, ElementOfSeq
  <2>3. list[i].pos \in Nat /\ pos \in Nat /\ list[i].count \in 0 .. (CountThr - 1)
    BY <2>2, Constants DEF Objects
  <2>4. Distance(list[i].pos, pos) \in Nat
    BY <2>3, DistanceNat
  <2>5. Distance(list[i].pos, pos) <= list[i].count + SeeBuf
    BY <1>2 DEF InReach
  <2>6. Infinite \in Nat
    BY DEF Infinite
  <2> QED
    BY <2>1, <2>3, <2>4, <2>5, <2>6, Constants
<1> HIDE DEF i
<1>5. /\ i = 0 => DistanceTo(list, i, pos) = Infinite
      /\ i # 0 => /\ i \in among /\ i \in DOMAIN list
                  /\ DistanceTo(list, i, pos) \in Nat
                  /\ DistanceTo(list, i, pos) < Infinite
  BY <1>2, <1>3, <1>4
<1> QED
  BY <1>5 DEF i

\* WorldModel::checkTeamPlayer.
LEMMA TeamPlayerOK ==
    ASSUME NEW work, NEW k \in Nat, NEW order, NEW exempt, WorkInv(work, k, order, exempt),
           NEW s, s = order[k + 1], Observed(s, where),
           s.unum # Unum_Unknown => ~Has(work.new[s.list], s.unum),
           s.list # "neutral"
    PROVE  WorkInv(CheckTeamPlayer(work, s), k + 1, order, exempt)
<1> DEFINE team == work.old[s.list]
           unknown == work.old["neutral"]
           same == {i \in DOMAIN team : s.unum # Unum_Unknown /\ team[i].unum = s.unum}
           free == {i \in InReach(team, s.pos) : Unum_Unknown \in {s.unum, team[i].unum}}
           near == InReach(unknown, s.pos)
           t == Nearest(team, free, s.pos)
           u == Nearest(unknown, near, s.pos)
           dt == DistanceTo(team, t, s.pos)
           du == DistanceTo(unknown, u, s.pos)
<1>1. CheckTeamPlayer(work, s)
        = CASE same # {} -> Found(work, s.list, Min(same), s.list, s)
            [] same = {} /\ dt < du -> Found(work, s.list, t, s.list, s)
            [] same = {} /\ du < dt -> Found(work, "neutral", u, s.list, s)
            [] OTHER -> NotFound(work, s.list, s)
  BY DEF CheckTeamPlayer
<1>2. s.list \in Lists /\ "neutral" \in Lists /\ s.pos \in Places
  BY DEF Observed, Lists
<1>3. team \in Seq(Objects) /\ unknown \in Seq(Objects)
  BY <1>2 DEF WorkInv
<1>4. same \in SUBSET (DOMAIN team) /\ \A i \in same : team[i].unum = s.unum
  OBVIOUS
<1>5. same = {} /\ s.unum # Unum_Unknown => ~Has(team, s.unum)
  BY DEF Has
<1>6. free \in SUBSET InReach(team, s.pos) /\ near \in SUBSET InReach(unknown, s.pos)
  OBVIOUS
<1> HIDE DEF same, free, near
<1>7. /\ t = 0 => dt = Infinite
      /\ t # 0 => t \in DOMAIN team /\ dt \in Nat /\ dt < Infinite
  BY <1>2, <1>3, <1>6, ReachBound
<1>8. /\ u = 0 => du = Infinite
      /\ u # 0 => u \in DOMAIN unknown /\ du \in Nat /\ du < Infinite
  BY <1>2, <1>3, <1>6, ReachBound
<1> HIDE DEF t, u, dt, du
<1>9. Moves(s.list, s.list, s) /\ Moves("neutral", s.list, s)
  BY DEF Moves
<1>10. CASE same # {}
  <2>1. same \in SUBSET Nat
    BY <1>3, <1>4, LenProperties
  <2>2. Min(same) \in same
    BY <2>1, <1>10, MinIn
  <2>3. Min(same) \in DOMAIN team /\ team[Min(same)].unum = s.unum
    BY <2>2, <1>4
  <2>4. CheckTeamPlayer(work, s) = Found(work, s.list, Min(same), s.list, s)
    BY <1>1, <1>10
  <2>5. WorkInv(Found(work, s.list, Min(same), s.list, s), k + 1, order, exempt)
    BY <2>3, <1>2, <1>9, FoundOK
  <2> QED
    BY <2>4, <2>5
<1>11. CASE same = {} /\ dt < du
  <2>1. t # 0 /\ ~(du < dt)
    BY <1>7, <1>8, <1>11 DEF Infinite
  <2>2. CheckTeamPlayer(work, s) = Found(work, s.list, t, s.list, s)
    BY <1>1, <1>11, <2>1
  <2>3. WorkInv(Found(work, s.list, t, s.list, s), k + 1, order, exempt)
    BY <2>1, <1>2, <1>5, <1>7, <1>9, <1>11, FoundOK
  <2> QED
    BY <2>2, <2>3
<1>12. CASE same = {} /\ ~(dt < du) /\ du < dt
  <2>1. u # 0
    BY <1>7, <1>8, <1>12 DEF Infinite
  <2>2. CheckTeamPlayer(work, s) = Found(work, "neutral", u, s.list, s)
    BY <1>1, <1>12
  <2>3. WorkInv(Found(work, "neutral", u, s.list, s), k + 1, order, exempt)
    BY <2>1, <1>2, <1>5, <1>8, <1>9, <1>12, FoundOK
  <2> QED
    BY <2>2, <2>3
<1>13. CASE same = {} /\ ~(dt < du) /\ ~(du < dt)
  <2>1. CheckTeamPlayer(work, s) = NotFound(work, s.list, s)
    BY <1>1, <1>13
  <2>2. WorkInv(NotFound(work, s.list, s), k + 1, order, exempt)
    BY <1>5, <1>13, NotFoundOK
  <2> QED
    BY <2>1, <2>2
<1> QED
  BY <1>10, <1>11, <1>12, <1>13

\* WorldModel::checkUnknownPlayer.
LEMMA UnknownPlayerOK ==
    ASSUME NEW work, NEW k \in Nat, NEW order, NEW exempt, WorkInv(work, k, order, exempt),
           NEW s, s = order[k + 1], Observed(s, where), s.list = "neutral"
    PROVE  WorkInv(CheckUnknownPlayer(work, s), k + 1, order, exempt)
<1> DEFINE at == [l \in Lists |-> Nearest(work.old[l], InReach(work.old[l], s.pos), s.pos)]
           d == [l \in Lists |-> DistanceTo(work.old[l], at[l], s.pos)]
           Preferred(l) == at[l] # 0 /\ d[l] < 2 * d["our"] + Bias
           list == IF Preferred("neutral") /\ d["neutral"] < d["their"] THEN "neutral"
                   ELSE IF Preferred("their") /\ d["their"] < d["neutral"] THEN "their"
                   ELSE IF at["our"] # 0 /\ d["our"] < Min({d["their"], d["neutral"]}) THEN "our"
                   ELSE "none"
<1>1. CheckUnknownPlayer(work, s)
        = IF list = "none" THEN NotFound(work, "neutral", s)
          ELSE Found(work, list, at[list], list, s)
  BY DEF CheckUnknownPlayer
<1>2. list = "none" \/ (list \in Lists /\ at[list] # 0)
  BY DEF Lists
<1>3. \A l \in Lists : at[l] # 0 => at[l] \in DOMAIN work.old[l]
  <2>1. ASSUME NEW l \in Lists, at[l] # 0 PROVE at[l] \in DOMAIN work.old[l]
    <3>1. work.old[l] \in Seq(Objects) /\ s.pos \in Places
      BY DEF WorkInv, Observed
    <3>2. at[l] = Nearest(work.old[l], InReach(work.old[l], s.pos), s.pos)
      OBVIOUS
    <3> QED
      BY <2>1, <3>1, <3>2, ReachBound
  <2> QED
    BY <2>1
<1>4. s.unum = Unum_Unknown
  BY ListOf DEF Observed
<1> HIDE DEF list, at
<1>5. CASE list = "none"
  BY <1>1, <1>4, <1>5, NotFoundOK
<1>6. CASE list # "none"
  <2>1. list \in Lists /\ at[list] \in DOMAIN work.old[list] /\ Moves(list, list, s)
    BY <1>2, <1>3, <1>6 DEF Moves
  <2>2. WorkInv(Found(work, list, at[list], list, s), k + 1, order, exempt)
    BY <2>1, <1>4, FoundOK
  <2> QED
    BY <2>2, <1>1, <1>6
<1> QED
  BY <1>5, <1>6

\* The lists as the search begins.
Start == [old |-> memory, new |-> [l \in Lists |-> <<>>]]

\* The fold over the seen players, step by step.
LEMMA WorkSteps ==
    ASSUME NEW order, Len(order) \in Nat
    PROVE  /\ Work(order)[0] = Start
           /\ \A k \in 1 .. Len(order) : Work(order)[k] = Check(Work(order)[k - 1], order[k])
<1> DEFINE Folds(g, n) ==
               g = [k \in 0 .. n |-> IF k = 0 THEN Start ELSE Check(g[k - 1], order[k])]
           S == {n \in 0 .. Len(order) : \E g : Folds(g, n)}
<1>1. 0 \in S
  <2> DEFINE g == [k \in 0 .. 0 |-> Start]
  <2>1. Folds(g, 0)
    OBVIOUS
  <2>2. 0 \in 0 .. Len(order)
    OBVIOUS
  <2> HIDE DEF Folds, g
  <2> QED
    BY <2>1, <2>2
<1>2. ASSUME NEW n \in 0 .. Len(order), n \in S, n < Len(order) PROVE n + 1 \in S
  <2>1. PICK g : Folds(g, n)
    BY <1>2
  <2>2. \A k \in 0 .. n : g[k] = IF k = 0 THEN Start ELSE Check(g[k - 1], order[k])
    BY <2>1
  <2> DEFINE h == [k \in 0 .. (n + 1) |-> IF k <= n THEN g[k] ELSE Check(g[n], order[n + 1])]
             H == [k \in 0 .. (n + 1) |-> IF k = 0 THEN Start ELSE Check(h[k - 1], order[k])]
  <2>3. ASSUME NEW k \in 0 .. (n + 1) PROVE h[k] = H[k]
    <3>1. CASE k = 0
      BY <3>1, <2>2
    <3>2. CASE k \in 1 .. n
      <4>1. k - 1 \in 0 .. (n + 1) /\ k - 1 <= n /\ k <= n /\ k # 0
        BY <3>2
      <4>2. h[k - 1] = g[k - 1] /\ h[k] = g[k]
        BY <4>1
      <4>3. g[k] = Check(g[k - 1], order[k])
        BY <2>2, <3>2
      <4> QED
        BY <4>1, <4>2, <4>3
    <3>3. CASE k = n + 1
      <4>1. n \in 0 .. (n + 1) /\ n <= n /\ ~(n + 1 <= n) /\ (n + 1) - 1 = n /\ n + 1 # 0
        OBVIOUS
      <4>2. h[n] = g[n] /\ h[n + 1] = Check(g[n], order[n + 1])
        BY <4>1
      <4>3. H[n + 1] = Check(h[n], order[n + 1])
        BY <4>1
      <4> QED
        BY <3>3, <4>2, <4>3
    <3> QED
      BY <3>1, <3>2, <3>3
  <2>4. h = H
    <3>1. DOMAIN h = 0 .. (n + 1) /\ DOMAIN H = 0 .. (n + 1)
      OBVIOUS
    <3>2. h = [k \in 0 .. (n + 1) |-> h[k]] /\ H = [k \in 0 .. (n + 1) |-> H[k]]
      OBVIOUS
    <3> HIDE DEF h, H
    <3> QED
      BY <2>3, <3>2
  <2>5. Folds(h, n + 1)
    BY <2>4
  <2>6. n + 1 \in 0 .. Len(order)
    BY <1>2
  <2> HIDE DEF Folds, h
  <2> QED
    BY <2>5, <2>6
<1>3. Len(order) \in S
  <2> HIDE DEF S
  <2>1. 0 .. Len(order) \subseteq S
    BY <1>1, <1>2, Induction
  <2> QED
    BY <2>1
<1>4. \E g : Folds(g, Len(order))
  BY <1>3
<1>5. Work(order) = CHOOSE g : Folds(g, Len(order))
  BY DEF Work, Start
<1>6. Folds(Work(order), Len(order))
  <2> HIDE DEF Folds
  <2> QED
    BY <1>4, <1>5
<1>7. \A k \in 0 .. Len(order) :
        Work(order)[k] = IF k = 0 THEN Start ELSE Check(Work(order)[k - 1], order[k])
  BY <1>6
<1> QED
  BY <1>7

LEMMA PlayersFinite == IsFiniteSet(Players)
<1>1. IsFiniteSet({"our"}) /\ IsFiniteSet({"their"}) /\ IsFiniteSet(Mates) /\ IsFiniteSet(Opps)
  BY FS_Singleton, PlayerMemoryAssumption
<1>2. IsFiniteSet({"our"} \X Mates) /\ IsFiniteSet({"their"} \X Opps)
  BY <1>1, FS_Product
<1> QED
  BY <1>2, FS_Union DEF Players

\* What is seen of some players, each of them once.
Sighted(who, look) == {Seen(p, look[p]) : p \in who}

Sights == {"number", "side", "player"}

\* The order in which the seen players are matched.
LEMMA OrderFacts ==
    ASSUME where \in Placements, NEW who \in SUBSET Players, NEW look \in [who -> Sights],
           NEW order \in Orders(Sighted(who, look))
    PROVE  /\ Len(order) = Cardinality(who) /\ Len(order) \in Nat
           /\ \A j \in 1 .. Len(order) : \E p \in who : order[j] = Seen(p, look[p])
           /\ \A j, m \in 1 .. Len(order) : order[j] = order[m] => j = m
           /\ \A j, m \in 1 .. Len(order) : j < m => Rank(order[j]) <= Rank(order[m])
<1> DEFINE T == Sighted(who, look)
           n == Cardinality(T)
           f == [p \in who |-> Seen(p, look[p])]
<1>1. IsFiniteSet(who)
  BY PlayersFinite, FS_Subset
<1>2. f \in Bijection(who, T)
  <2>1. f \in [who -> T] /\ \A t \in T : \E p \in who : f[p] = t
    BY DEF Sighted
  <2>2. \A p \in who : f[p].who = p
    BY SeenObserved DEF Sights
  <2>3. \A p, q \in who : f[p] = f[q] => p = q
    BY <2>2
  <2> HIDE DEF f, T
  <2> QED
    BY <2>1, <2>3 DEF Bijection, Injection, Surjection, IsInjective
<1>3. IsFiniteSet(T) /\ n = Cardinality(who) /\ n \in Nat
  <2> HIDE DEF f, T
  <2>1. IsFiniteSet(T) /\ Cardinality(T) = Cardinality(who)
    BY <1>1, <1>2, FS_Bijection DEF ExistsBijection
  <2> QED
    BY <2>1, FS_CardinalityType
<1>4. /\ order \in [1 .. n -> T]
      /\ \A i, j \in 1 .. n : i # j => order[i] # order[j]
      /\ \A i, j \in DOMAIN order : i < j => Rank(order[i]) <= Rank(order[j])
  BY DEF Orders, SetToSeqs
<1> HIDE DEF n
<1>5. Len(order) = n /\ DOMAIN order = 1 .. n
  BY <1>3, <1>4
<1> QED
  BY <1>3, <1>4, <1>5 DEF Sighted

\* The numbered players of a list come before whoever may be taken for one of them.
LEMMA RankOrder ==
    ASSUME NEW s, NEW r, s.list \in {"our", "their"}, s.unum # Unum_Unknown,
           r.unum = Unum_Unknown, r.list \in {s.list, "neutral"}
    PROVE  Rank(s) < Rank(r)
<1>1. CASE s.list = "our"
  <2>1. Rank(s) = 3
    BY <1>1 DEF Rank
  <2>2. r.list = "our" => Rank(r) = 4
    BY DEF Rank
  <2>3. r.list = "neutral" => Rank(r) = 5
    BY DEF Rank
  <2> QED
    BY <1>1, <2>1, <2>2, <2>3
<1>2. CASE s.list = "their"
  <2>1. Rank(s) = 1
    BY <1>2 DEF Rank
  <2>2. r.list = "their" => Rank(r) = 2
    BY DEF Rank
  <2>3. r.list = "neutral" => Rank(r) = 5
    BY DEF Rank
  <2> QED
    BY <1>2, <2>1, <2>2, <2>3
<1> QED
  BY <1>1, <1>2

\* The fold keeps its invariant.
LEMMA WorkOK ==
    ASSUME Inv, phase = "sensed", NEW who \in SUBSET Players, NEW look \in [who -> Sights],
           NEW order \in Orders(Sighted(who, look))
    PROVE  WorkInv(Work(order)[Len(order)], Len(order), order, Exempt)
<1> DEFINE n == Len(order)
           S == {k \in 0 .. n : WorkInv(Work(order)[k], k, order, Exempt)}
<1>1. where \in Placements
  BY DEF Inv, TypeOK
<1>2. /\ n \in Nat
      /\ \A j \in 1 .. n : \E p \in who : order[j] = Seen(p, look[p])
      /\ \A j, m \in 1 .. n : order[j] = order[m] => j = m
      /\ \A j, m \in 1 .. n : j < m => Rank(order[j]) <= Rank(order[m])
  BY <1>1, OrderFacts
<1>3. Work(order)[0] = Start /\ \A k \in 1 .. n : Work(order)[k] = Check(Work(order)[k - 1], order[k])
  BY <1>2, WorkSteps
<1> HIDE DEF n
<1>4. WorkInv(Start, 0, order, Exempt)
  <2> DEFINE none == [l \in Lists |-> <<>>]
  <2>1. memory \in [Lists -> Seq(Objects)]
    BY DEF Inv, TypeOK
  <2>2. none \in [Lists -> Seq(Objects)] /\ \A l \in Lists : none[l] = <<>>
    OBVIOUS
  <2>3. Start \in [old : [Lists -> Seq(Objects)], new : [Lists -> Seq(Objects)]]
        /\ Start.old = memory /\ Start.new = none
    BY <2>1, <2>2 DEF Start
  <2>4. DOMAIN <<>> = {} /\ <<>> \in Seq(Objects) /\ Len(<<>>) = 0
    OBVIOUS
  <2> HIDE DEF none
  <2>5. AllSound(none, where, Exempt)
    BY <2>2, <2>4 DEF AllSound, SoundList
  <2>6. \A p \in Players : none[p[1]] = <<>>
    BY <2>2, ListOf
  <2>7. AllOnce(none, Exempt) /\ \A p \in Players : ~Has(none[p[1]], p[2])
    BY <2>4, <2>6 DEF AllOnce, Once, Has
  <2>8. \A l \in Lists : \A i \in DOMAIN none[l] : none[l][i].count = 0
    BY <2>2, <2>4
  <2>9. Len(none["our"]) + Len(none["their"]) + Len(none["neutral"]) = 0
    BY <2>2, <2>4 DEF Lists
  <2>10. /\ AllSound(memory, where, Exempt) /\ AllOnce(memory, Exempt)
         /\ \A l \in Lists : \A i \in DOMAIN memory[l] : Stale(memory[l][i])
    BY DEF Inv
  <2> QED
    BY <2>3, <2>5, <2>7, <2>8, <2>9, <2>10 DEF WorkInv
<1>5. ASSUME NEW k \in 0 .. n, k \in S, k < n PROVE k + 1 \in S
  <2> DEFINE work == Work(order)[k]
             s == order[k + 1]
  <2>1. k \in Nat /\ k + 1 \in 1 .. n /\ (k + 1) - 1 = k /\ k + 1 \in 0 .. n
    BY <1>2, <1>5
  <2>2. WorkInv(work, k, order, Exempt) /\ Work(order)[k + 1] = Check(work, s)
    BY <2>1, <1>3, <1>5
  <2>3. PICK p \in who : s = Seen(p, look[p])
    BY <1>2, <2>1
  <2>4. p \in Players /\ look[p] \in {"number", "side", "player"}
    BY DEF Sights
  <2>5. Observed(s, where) /\ (s.unum # Unum_Unknown => p = <<s.list, s.unum>>)
    BY <1>1, <2>3, <2>4, SeenObserved
  <2> HIDE DEF work, s
  <2>6. ASSUME s.unum # Unum_Unknown, Has(work.new[s.list], s.unum) PROVE FALSE
    <3>1. p = <<s.list, s.unum>> /\ s.list = p[1] /\ s.unum = p[2] /\ s.list \in {"our", "their"}
      BY <2>4, <2>5, <2>6, ListOf
    <3>2. PICK j \in 1 .. k : Accounts(order[j], s.list, s.unum)
      BY <2>2, <2>4, <2>6, <3>1 DEF WorkInv
    <3>3. j \in 1 .. n /\ j < k + 1 /\ j # k + 1
      BY <1>2, <2>1, <1>5
    <3>4. PICK q \in who : order[j] = Seen(q, look[q])
      BY <1>2, <3>3
    <3>5. q \in Players /\ look[q] \in {"number", "side", "player"}
      BY DEF Sights
    <3>6. order[j].unum # Unum_Unknown => q = <<order[j].list, order[j].unum>>
      BY <1>1, <3>4, <3>5, SeenObserved
    <3>7. CASE order[j].list = s.list /\ order[j].unum = s.unum
      <4>1. q = p
        BY <2>6, <3>1, <3>6, <3>7
      <4>2. order[j] = order[k + 1]
        BY <4>1, <3>4, <2>3 DEF s
      <4> QED
        BY <4>2, <3>3, <2>1, <1>2
    <3>8. CASE order[j].unum = Unum_Unknown /\ order[j].list \in {s.list, "neutral"}
      <4>1. Rank(s) < Rank(order[j])
        BY <2>6, <3>1, <3>8, RankOrder
      <4>2. Rank(order[j]) <= Rank(s)
        BY <3>3, <2>1, <1>2 DEF s
      <4>3. Rank(s) \in Nat /\ Rank(order[j]) \in Nat
        BY DEF Rank
      <4> QED
        BY <4>1, <4>2, <4>3
    <3> QED
      BY <3>2, <3>7, <3>8 DEF Accounts
  <2>7. WorkInv(Check(work, s), k + 1, order, Exempt)
    <3>1. CASE s.list = "neutral"
      BY <3>1, <2>1, <2>2, <2>5, UnknownPlayerOK DEF Check, s
    <3>2. CASE s.list # "neutral"
      BY <3>2, <2>1, <2>2, <2>5, <2>6, TeamPlayerOK DEF Check, s
    <3> QED
      BY <3>1, <3>2
  <2> QED
    BY <2>1, <2>2, <2>7
<1>6. 0 .. n \subseteq S
  <2>1. 0 \in S
    BY <1>2, <1>3, <1>4
  <2> HIDE DEF S
  <2> QED
    BY <2>1, <1>2, <1>5, Induction
<1>7. n \in S
  BY <1>2, <1>6
<1> QED
  BY <1>7 DEF n

-----------------------------------------------------------------------------
(* What is kept                                                            *)

\* Two lists after each other, where nothing in the first is certain and all of the
\* second is.
LEMMA ConcatSeen ==
    ASSUME NEW list \in Seq(Objects), NEW more \in Seq(Objects),
           \A i \in DOMAIN list : list[i].count > 0,
           \A i \in DOMAIN more : more[i].count = 0
    PROVE  SeenIn(list \o more) = Len(more)
<1> DEFINE n == Len(list)
           m == Len(more)
           all == list \o more
<1>1. n \in Nat /\ m \in Nat /\ DOMAIN list = 1 .. n /\ DOMAIN more = 1 .. m
  BY LenProperties
<1>2. all \in Seq(Objects) /\ Len(all) = n + m
      /\ \A i \in 1 .. (n + m) : all[i] = IF i <= n THEN list[i] ELSE more[i - n]
  BY ConcatProperties
<1>3. DOMAIN all = 1 .. (n + m)
  BY <1>2, LenProperties
<1>4. \A i \in DOMAIN list : list[i].count \in Int
  <2>1. \A i \in DOMAIN list : list[i] \in Objects
    BY LenProperties
  <2> QED
    BY <2>1, Constants DEF Objects
<1> HIDE DEF n, m, all
<1>5. ASSUME NEW i \in 1 .. (n + m) PROVE all[i].count = 0 <=> i > n
  <2>1. CASE i <= n
    <3>1. i \in DOMAIN list /\ all[i] = list[i]
      BY <2>1, <1>1, <1>2
    <3>2. list[i].count > 0 /\ list[i].count \in Int
      BY <3>1, <1>4
    <3> QED
      BY <3>1, <3>2, <2>1, <1>1
  <2>2. CASE ~(i <= n)
    <3>1. i - n \in DOMAIN more /\ all[i] = more[i - n]
      BY <2>2, <1>1, <1>2
    <3> QED
      BY <3>1, <2>2, <1>1
  <2> QED
    BY <2>1, <2>2
<1>6. {i \in DOMAIN all : all[i].count = 0} = (n + 1) .. (n + m)
  BY <1>1, <1>3, <1>5
<1>7. Cardinality((n + 1) .. (n + m)) = m
  BY <1>1, FS_Interval
<1> QED
  BY <1>6, <1>7 DEF SeenIn, all, m

\* The lists after the matching: all that is seen is there, once.
LEMMA MatchedOK ==
    ASSUME Inv, phase = "sensed", NEW who \in SUBSET Players, NEW look \in [who -> Sights],
           NEW order \in Orders(Sighted(who, look))
    PROVE  /\ \A l \in Lists : SoundList(l, Matched(order)[l], where, Exempt)
           /\ AllOnce(Matched(order), Exempt)
           /\ SeenNow(Matched(order)) = Cardinality(who)
<1> DEFINE work == Work(order)[Len(order)]
           lists == Matched(order)
<1>1. WorkInv(work, Len(order), order, Exempt)
  BY WorkOK
<1>2. Len(order) = Cardinality(who)
  BY OrderFacts DEF Inv, TypeOK
<1>3. \A l \in Lists : lists[l] = work.old[l] \o work.new[l]
  BY DEF Matched
<1> HIDE DEF work, lists
<1>4. \A l \in Lists : /\ work.old[l] \in Seq(Objects) /\ work.new[l] \in Seq(Objects)
                       /\ SoundList(l, work.old[l], where, Exempt)
                       /\ SoundList(l, work.new[l], where, Exempt)
  BY <1>1 DEF WorkInv, AllSound
<1>5. ASSUME NEW l \in Lists PROVE SoundList(l, lists[l], where, Exempt)
  <2> DEFINE old == work.old[l]
             new == work.new[l]
  <2>1. /\ Len(old) \in Nat /\ Len(new) \in Nat /\ DOMAIN old = 1 .. Len(old) /\ DOMAIN new = 1 .. Len(new)
        /\ old \o new \in Seq(Objects) /\ Len(old \o new) = Len(old) + Len(new)
        /\ \A i \in 1 .. Len(old) + Len(new) : (old \o new)[i] =
                IF i <= Len(old) THEN old[i] ELSE new[i - Len(old)]
    BY <1>4, LenProperties, ConcatProperties
  <2>2. SoundList(l, old, where, Exempt) /\ SoundList(l, new, where, Exempt)
    BY <1>4
  <2> HIDE DEF old, new
  <2>3. DOMAIN (old \o new) = 1 .. (Len(old) + Len(new))
    BY <2>1, LenProperties
  <2>4. ASSUME NEW i \in 1 .. (Len(old) + Len(new)) PROVE Sound(l, (old \o new)[i], where, Exempt)
    <3>1. CASE i <= Len(old)
      BY <3>1, <2>1, <2>2 DEF SoundList
    <3>2. CASE ~(i <= Len(old))
      <4>1. i - Len(old) \in DOMAIN new
        BY <3>2, <2>1
      <4> QED
        BY <4>1, <3>2, <2>1, <2>2 DEF SoundList
    <3> QED
      BY <3>1, <3>2
  <2>5. SoundList(l, old \o new, where, Exempt)
    BY <2>1, <2>3, <2>4 DEF SoundList
  <2> QED
    BY <2>5, <1>3 DEF old, new
<1>6. ASSUME NEW p \in Players \ Exempt PROVE Once(lists[p[1]], p[2])
  <2>1. p[1] \in Lists
    BY ListOf
  <2>2. /\ Once(work.old[p[1]], p[2]) /\ Once(work.new[p[1]], p[2])
        /\ ~(Has(work.old[p[1]], p[2]) /\ Has(work.new[p[1]], p[2]))
    BY <1>1 DEF WorkInv, AllOnce
  <2>3. work.old[p[1]] \in Seq(Objects) /\ work.new[p[1]] \in Seq(Objects)
    BY <2>1, <1>4
  <2>4. Once(work.old[p[1]] \o work.new[p[1]], p[2])
    BY <2>2, <2>3, ConcatOnce
  <2> QED
    BY <2>1, <2>4, <1>3
<1>7. ASSUME NEW l \in Lists PROVE SeenIn(lists[l]) = Len(work.new[l])
  <2>1. \A i \in DOMAIN work.old[l] : work.old[l][i].count > 0
    BY <1>1 DEF WorkInv, Stale
  <2>2. \A i \in DOMAIN work.new[l] : work.new[l][i].count = 0
    BY <1>1 DEF WorkInv
  <2> QED
    BY <2>1, <2>2, <1>3, <1>4, ConcatSeen
<1>8. SeenNow(lists) = Len(order)
  <2>1. "our" \in Lists /\ "their" \in Lists /\ "neutral" \in Lists
    BY DEF Lists
  <2>2. SeenNow(lists) = Len(work.new["our"]) + Len(work.new["their"]) + Len(work.new["neutral"])
    BY <2>1, <1>7 DEF SeenNow
  <2> QED
    BY <2>2, <1>1 DEF WorkInv
<1> QED
  BY <1>2, <1>5, <1>6, <1>8 DEF AllOnce, lists

\* A choice of what is kept of a list: either nothing that is certain is lost, or it
\* is full of what is certain and of goalies.
LEMMA KeepOK ==
    ASSUME NEW list \in Seq(Objects), NEW limit \in Nat, NEW part \in Keep(list, limit)
    PROVE  /\ part \in Seq(Objects) /\ PartOf(part, list)
           /\ \A k \in DOMAIN part : \E i \in DOMAIN list : part[k] = list[i]
           /\ Len(part) <= limit
           /\ \/ SeenIn(part) = SeenIn(list)
              \/ Len(part) = limit /\ \A k \in DOMAIN part : part[k].goalie \/ part[k].count = 0
<1>1. PICK kept \in SUBSET (DOMAIN list) :
        /\ Cardinality(kept) = Min({Len(list), limit})
        /\ \A i \in kept, j \in DOMAIN list \ kept : Before(list[i], list[j])
        /\ part = Pick(list, kept)
  BY DEF Keep
<1>2. Selects(part, list, kept, Objects)
  BY <1>1, PickPart
<1>3. Len(list) \in Nat /\ DOMAIN list = 1 .. Len(list) /\ \A i \in DOMAIN list : list[i] \in Objects
  BY LenProperties
<1>4. Min({Len(list), limit}) = IF Len(list) <= limit THEN Len(list) ELSE limit
  BY <1>3, MinTwo
<1>5. Len(part) <= limit
  BY <1>1, <1>2, <1>3, <1>4 DEF Selects
<1>6. CASE \A j \in DOMAIN list \ kept : list[j].count # 0
  <2>1. {i \in kept : list[i].count = 0} = {i \in DOMAIN list : list[i].count = 0}
    BY <1>6
  <2>2. SeenIn(part) = SeenIn(list)
    BY <2>1, <1>2 DEF Selects, SeenIn
  <2> QED
    BY <2>2, <1>2, <1>5 DEF Selects
<1>7. CASE \E j \in DOMAIN list \ kept : list[j].count = 0
  <2>1. PICK j \in DOMAIN list \ kept : list[j].count = 0
    BY <1>7
  <2>2. ASSUME NEW i \in kept PROVE list[i].goalie \/ list[i].count = 0
    <3>1. list[i] \in Objects /\ Before(list[i], list[j])
      BY <1>1, <1>3, <2>1
    <3>2. list[i].goalie \/ list[i].count <= 0
      BY <3>1, <2>1 DEF Before
    <3>3. list[i].count \in Nat
      BY <3>1, Constants DEF Objects
    <3> QED
      BY <3>2, <3>3
  <2>3. \A k \in DOMAIN part : part[k].goalie \/ part[k].count = 0
    BY <2>2, <1>2 DEF Selects
  <2>4. Cardinality(kept) # Len(list)
    <3>1. IsFiniteSet(1 .. Len(list)) /\ Cardinality(1 .. Len(list)) = Len(list)
      BY <1>3, UpTo
    <3>2. kept \in SUBSET (1 .. Len(list)) /\ kept # 1 .. Len(list)
      BY <1>3, <2>1
    <3> QED
      BY <3>1, <3>2, FS_Subset
  <2>5. Len(part) = limit
    BY <2>4, <1>1, <1>2, <1>4 DEF Selects
  <2> QED
    BY <2>3, <2>5, <1>2, <1>5 DEF Selects
<1> QED
  BY <1>6, <1>7

LEMMA FresherStrict ==
    ASSUME NEW list \in Seq(Objects), NEW among \in SUBSET (DOMAIN list)
    PROVE  StrictOrder(Fresher(list), among)
<1> DEFINE c(i) == list[i].count
<1>1. \A i \in among : i \in Int /\ i \in DOMAIN list
  BY LenProperties
<1>2. ASSUME NEW i \in among PROVE c(i) \in Int
  <2>1. list[i] \in Objects
    BY <1>1, LenProperties, ElementOfSeq
  <2> QED
    BY <2>1, Constants DEF Objects
<1>3. \A i, j \in among :
        <<i, j>> \in Fresher(list) <=> c(i) < c(j) \/ (c(i) = c(j) /\ i < j)
  BY <1>1 DEF Fresher
<1> HIDE DEF c
<1>4. \A i \in among : <<i, i>> \notin Fresher(list)
  BY <1>1, <1>2, <1>3
<1>5. \A i, j \in among : i = j \/ <<i, j>> \in Fresher(list) \/ <<j, i>> \in Fresher(list)
  <2>1. ASSUME NEW i \in among, NEW j \in among, i # j
        PROVE  <<i, j>> \in Fresher(list) \/ <<j, i>> \in Fresher(list)
    <3>1. i < j \/ j < i
      BY <1>1, <2>1
    <3>2. c(i) < c(j) \/ c(j) < c(i) \/ c(i) = c(j)
      BY <1>2
    <3> QED
      BY <3>1, <3>2, <1>3
  <2> QED
    BY <2>1
<1>6. \A i, j, k \in among :
        <<i, j>> \in Fresher(list) /\ <<j, k>> \in Fresher(list) => <<i, k>> \in Fresher(list)
  BY <1>1, <1>2, <1>3
<1> QED
  BY <1>4, <1>5, <1>6 DEF StrictOrder

\* What is kept of the unknown players: all that are seen now, and others only while
\* there is room.
LEMMA KeepUnknownOK ==
    ASSUME NEW list \in Seq(Objects), NEW room \in Nat
    PROVE  LET part == KeepUnknown(list, room)
           IN  /\ part \in Seq(Objects) /\ PartOf(part, list)
               /\ \A k \in DOMAIN part : \E i \in DOMAIN list : part[k] = list[i]
               /\ SeenIn(part) = SeenIn(list)
               /\ Len(part) <= room \/ \A k \in DOMAIN part : part[k].count = 0
<1> DEFINE earlier == Fresher(list)
           all == DOMAIN list
           kept == {i \in all : list[i].count = 0 \/ Ahead(i, all, earlier) < room}
           part == KeepUnknown(list, room)
<1>1. part = Arranged(list, kept, earlier)
  BY DEF KeepUnknown, Ahead
<1>2. kept \in SUBSET all
  OBVIOUS
<1>3. Len(list) \in Nat /\ all = 1 .. Len(list) /\ \A i \in all : list[i] \in Objects
  BY LenProperties
<1>4. IsFiniteSet(all) /\ IsFiniteSet(kept)
  <2>1. IsFiniteSet(1 .. Len(list))
    BY <1>3, UpTo
  <2>2. IsFiniteSet(all)
    BY <2>1, <1>3
  <2> HIDE DEF kept, all
  <2> QED
    BY <2>2, <1>2, FS_Subset
<1>5. StrictOrder(earlier, all) /\ StrictOrder(earlier, kept)
  BY <1>2, FresherStrict
<1>6. Selects(part, list, kept, Objects)
  BY <1>1, <1>2, <1>5, ArrangedPart
<1>7. SeenIn(part) = SeenIn(list)
  <2>1. {i \in kept : list[i].count = 0} = {i \in DOMAIN list : list[i].count = 0}
    OBVIOUS
  <2> QED
    BY <2>1, <1>6 DEF Selects, SeenIn
<1>8. ASSUME NEW i \in kept, list[i].count # 0 PROVE Cardinality(kept) <= room
  <2>1. Ahead(i, all, earlier) < room
    BY <1>8
  <2>2. \A j \in all : Ahead(j, all, earlier) \in Nat
    BY <1>4, <1>5, AheadFacts
  <2>3. ASSUME NEW j \in kept PROVE Ahead(j, all, earlier) < room
    <3>1. CASE list[j].count = 0
      <4>1. list[i].count \in Nat
        BY <1>2, <1>3, Constants DEF Objects
      <4>2. <<j, i>> \in earlier
        BY <4>1, <3>1, <1>2, <1>8 DEF Fresher
      <4>3. Ahead(j, all, earlier) < Ahead(i, all, earlier)
        BY <4>2, <1>2, <1>4, <1>5, AheadFacts
      <4> QED
        BY <4>3, <2>1, <2>2, <1>2
    <3>2. CASE list[j].count # 0
      BY <3>2
    <3> QED
      BY <3>1, <3>2
  <2> DEFINE f == [j \in kept |-> Ahead(j, all, earlier) + 1]
  <2>4. f \in [kept -> 1 .. room]
    <3> HIDE DEF kept, all, earlier
    <3> QED
      BY <2>2, <2>3, <1>2
  <2>5. \A j, k \in kept : f[j] = f[k] => j = k
    <3> SUFFICES ASSUME NEW j \in kept, NEW k \in kept, f[j] = f[k] PROVE j = k
      OBVIOUS
    <3> HIDE DEF kept, all, earlier
    <3>1. Ahead(j, all, earlier) = Ahead(k, all, earlier)
      BY <2>2, <1>2
    <3> QED
      BY <3>1, <1>2, <1>4, <1>5, AheadFacts
  <2>6. IsFiniteSet(1 .. room) /\ Cardinality(1 .. room) = room
    BY UpTo
  <2> HIDE DEF f, kept
  <2>7. f \in Injection(kept, 1 .. room)
    BY <2>4, <2>5 DEF Injection, IsInjective
  <2> QED
    BY <2>6, <2>7, FS_Injection
<1>9. Len(part) <= room \/ \A k \in DOMAIN part : part[k].count = 0
  <2>1. CASE \E i \in kept : list[i].count # 0
    BY <2>1, <1>6, <1>8 DEF Selects
  <2>2. CASE \A i \in kept : list[i].count = 0
    BY <2>2, <1>6 DEF Selects
  <2> QED
    BY <2>1, <2>2
<1>10. \A k \in DOMAIN part : \E i \in DOMAIN list : part[k] = list[i]
  BY <1>2, <1>6 DEF Selects
<1> HIDE DEF part
<1> QED
  BY <1>6, <1>7, <1>9, <1>10 DEF Selects, part

-----------------------------------------------------------------------------
(* Ghosts                                                                  *)

\* An object that haunts, if it does.
Haunted(o, view) ==
    IF Haunts(o, view) THEN [o EXCEPT !.ghost = Min({@ + 1, GhostMax})] ELSE o

LEMMA HauntedSound ==
    ASSUME NEW l \in Lists, NEW o, NEW w, NEW exempt, Sound(l, o, w, exempt), NEW view
    PROVE  /\ Sound(l, Haunted(o, view), w, exempt) /\ Haunted(o, view) \in Objects
           /\ Haunted(o, view).unum = o.unum /\ Haunted(o, view).count = o.count
           /\ Haunted(o, view).goalie = o.goalie
<1>1. o \in Objects
  BY DEF Sound
<1>2. CASE Haunts(o, view)
  <2> DEFINE g == Min({o.ghost + 1, GhostMax})
  <2>1. o.ghost \in Nat
    BY <1>1, Constants DEF Objects
  <2>2. g \in 0 .. GhostMax
    BY <2>1, Constants, MinTwo
  <2>3. Haunted(o, view) = [o EXCEPT !.ghost = g]
    BY <1>2 DEF Haunted
  <2> HIDE DEF g
  <2>4. Sound(l, Haunted(o, view), w, exempt)
    BY <2>2, <2>3, ChangedSound
  <2> QED
    BY <1>1, <2>3, <2>4 DEF Sound, Objects
<1>3. CASE ~Haunts(o, view)
  BY <1>1, <1>3 DEF Haunted
<1> QED
  BY <1>2, <1>3

\* What is left of a list: what is seen now stays, and so does a goalie.
Remains(left, l, list, w, exempt) ==
    /\ SoundList(l, left, w, exempt)
    /\ \A unum : Once(list, unum) => Once(left, unum)
    /\ Len(left) \in Nat /\ Len(left) <= Len(list)
    /\ SeenIn(left) = SeenIn(list)
    /\ (\A i \in DOMAIN list : list[i].count = 0) => \A k \in DOMAIN left : left[k].count = 0
    /\ l # "neutral" /\ (\A i \in DOMAIN list : list[i].goalie \/ list[i].count = 0)
        => /\ Len(left) = Len(list)
           /\ \A k \in DOMAIN left : left[k].goalie \/ left[k].count = 0

\* checkGhost on a list.
LEMMA GhostOK ==
    ASSUME NEW l \in Lists, NEW lists, NEW w, NEW exempt,
           SoundList(l, lists[l], w, exempt), NEW view
    PROVE  Remains(CheckGhost(lists, view)[l], l, lists[l], w, exempt)
<1> DEFINE list == lists[l]
           among == {i \in DOMAIN list : ~(Haunts(list[i], view) /\ IsErased(l, list[i]))}
           part == Pick(list, among)
           left == CheckGhost(lists, view)[l]
<1>1. list \in Seq(Objects) /\ \A i \in DOMAIN list : Sound(l, list[i], w, exempt)
  BY DEF SoundList
<1>2. Len(list) \in Nat /\ DOMAIN list = 1 .. Len(list) /\ \A i \in DOMAIN list : list[i] \in Objects
  BY <1>1, LenProperties
<1>3. left = [k \in DOMAIN part |-> Haunted(part[k], view)]
  BY DEF CheckGhost, Haunted
<1>4. among \in SUBSET (DOMAIN list)
  OBVIOUS
<1>5. Selects(part, list, among, Objects)
  BY <1>1, <1>4, PickPart
<1>6. \A i \in DOMAIN list : list[i].count = 0 => i \in among
  BY DEF Haunts
<1>7. ASSUME l # "neutral", NEW i \in DOMAIN list, list[i].goalie PROVE i \in among
  BY <1>1, <1>7 DEF Sound, IsErased
<1> HIDE DEF list, among, part, left
<1>8. DOMAIN left = DOMAIN part /\ \A k \in DOMAIN part : left[k] = Haunted(part[k], view)
  BY <1>3
<1>9. ASSUME NEW k \in DOMAIN part
      PROVE  /\ Sound(l, left[k], w, exempt) /\ left[k] \in Objects
             /\ left[k].unum = part[k].unum /\ left[k].count = part[k].count
             /\ left[k].goalie = part[k].goalie
             /\ \E i \in among : part[k] = list[i]
  <2>1. PICK i \in among : part[k] = list[i]
    BY <1>5 DEF Selects
  <2>2. Sound(l, part[k], w, exempt)
    BY <2>1, <1>1, <1>4
  <2> QED
    BY <2>1, <2>2, <1>8, HauntedSound
<1>10. part \in Seq(Objects) /\ Len(part) \in Nat /\ DOMAIN part = 1 .. Len(part)
  BY <1>5, LenProperties DEF Selects
<1>11. left \in Seq(Objects) /\ Len(left) = Len(part)
  <2>1. left \in [1 .. Len(part) -> Objects]
    BY <1>3, <1>8, <1>9, <1>10
  <2> QED
    BY <2>1, <1>8, <1>10
<1>12. SoundList(l, left, w, exempt)
  BY <1>8, <1>9, <1>11 DEF SoundList
<1>13. ASSUME NEW unum, Once(list, unum) PROVE Once(left, unum)
  <2>1. Once(part, unum)
    BY <1>5, <1>13, PartOnce DEF Selects
  <2> QED
    BY <2>1, <1>8, <1>9 DEF Once
<1>14. Len(left) <= Len(list) /\ (among = DOMAIN list => Len(left) = Len(list))
  <2>1. IsFiniteSet(1 .. Len(list)) /\ Cardinality(1 .. Len(list)) = Len(list)
    BY <1>2, UpTo
  <2>2. Cardinality(among) <= Len(list)
    BY <2>1, <1>2, <1>4, FS_Subset
  <2>3. Len(left) = Cardinality(among)
    BY <1>5, <1>11 DEF Selects
  <2> QED
    BY <2>1, <2>2, <2>3, <1>2
<1>15. SeenIn(left) = SeenIn(list)
  <2>1. {k \in DOMAIN left : left[k].count = 0} = {k \in DOMAIN part : part[k].count = 0}
    BY <1>8, <1>9
  <2>2. {i \in among : list[i].count = 0} = {i \in DOMAIN list : list[i].count = 0}
    BY <1>4, <1>6
  <2> QED
    BY <2>1, <2>2, <1>5 DEF SeenIn, Selects
<1>16. ASSUME \A i \in DOMAIN list : list[i].count = 0
       PROVE  \A k \in DOMAIN left : left[k].count = 0
  BY <1>16, <1>4, <1>8, <1>9
<1>17. ASSUME l # "neutral", \A i \in DOMAIN list : list[i].goalie \/ list[i].count = 0
       PROVE  /\ Len(left) = Len(list)
              /\ \A k \in DOMAIN left : left[k].goalie \/ left[k].count = 0
  <2>1. among = DOMAIN list
    BY <1>4, <1>6, <1>7, <1>17
  <2>2. \A k \in DOMAIN left : left[k].goalie \/ left[k].count = 0
    BY <1>4, <1>8, <1>9, <1>17
  <2> QED
    BY <2>1, <2>2, <1>14
<1>18. Len(left) \in Nat
  BY <1>10, <1>11
<1> QED
  BY <1>12, <1>13, <1>14, <1>15, <1>16, <1>17, <1>18 DEF Remains, list, left

-----------------------------------------------------------------------------
(* A see                                                                   *)

LEMMA MaxTwo ==
    ASSUME NEW a \in Int
    PROVE  Max({0, a}) = IF a <= 0 THEN 0 ELSE a
<1> DEFINE m == IF a <= 0 THEN 0 ELSE a
<1>1. m \in {0, a} /\ \A y \in {0, a} : m >= y
  OBVIOUS
<1>2. \A x \in {0, a} : (\A y \in {0, a} : x >= y) => x = m
  OBVIOUS
<1> HIDE DEF m
<1>3. Max({0, a}) = m
  BY <1>1, <1>2 DEF Max
<1> QED
  BY <1>3 DEF m

\* The lists as they are limited: sound, without a number twice, not too long, and
\* with all that is seen unless one is full.
LimitedWell(lists, from, w, exempt) ==
    /\ \A l \in Lists : SoundList(l, lists[l], w, exempt)
    /\ \A l \in Lists : \A unum : Once(from[l], unum) => Once(lists[l], unum)
    /\ Len(lists["our"]) <= MateMax /\ Len(lists["their"]) <= OppMax
    /\ \/ Len(lists["our"]) + Len(lists["their"]) + Len(lists["neutral"]) <= MateMax + OppMax
       \/ \A k \in DOMAIN lists["neutral"] : lists["neutral"][k].count = 0
    /\ \/ SeenNow(lists) = SeenNow(from)
       \/ \E l \in {"our", "their"} :
            /\ Len(lists[l]) = IF l = "our" THEN MateMax ELSE OppMax
            /\ \A k \in DOMAIN lists[l] : lists[l][k].goalie \/ lists[l][k].count = 0

LEMMA LimitedOK ==
    ASSUME NEW from, NEW w, NEW exempt, \A l \in Lists : SoundList(l, from[l], w, exempt),
           NEW lists \in Limited(from)
    PROVE  LimitedWell(lists, from, w, exempt)
<1> DEFINE A == Keep(from["our"], Limit(MateMax))
           B == Keep(from["their"], Limit(OppMax))
<1>0. lists \in {Remembered(from, a, b) : a \in A, b \in B}
  BY DEF Limited
<1>1. PICK our \in A, their \in B : lists = Remembered(from, our, their)
  <2> HIDE DEF A, B
  <2> QED
    BY <1>0
<1> DEFINE room == Max({0, MateMax + OppMax - Len(our) - Len(their)})
           neutral == KeepUnknown(from["neutral"], room)
<1>2. lists["our"] = our /\ lists["their"] = their /\ lists["neutral"] = neutral
  BY <1>1 DEF Remembered
<1>3. \A l \in Lists : from[l] \in Seq(Objects)
  BY DEF SoundList
<1>4. "our" \in Lists /\ "their" \in Lists /\ "neutral" \in Lists
      /\ Lists = {"our", "their", "neutral"}
  BY DEF Lists
<1>5. Limit(MateMax) = MateMax /\ Limit(OppMax) = OppMax /\ MateMax \in Nat /\ OppMax \in Nat
  BY Constants DEF Limit
<1>6. /\ our \in Seq(Objects) /\ PartOf(our, from["our"])
      /\ \A k \in DOMAIN our : \E i \in DOMAIN from["our"] : our[k] = from["our"][i]
      /\ Len(our) <= MateMax
      /\ \/ SeenIn(our) = SeenIn(from["our"])
         \/ Len(our) = MateMax /\ \A k \in DOMAIN our : our[k].goalie \/ our[k].count = 0
  <2> HIDE DEF room, neutral
  <2> QED
    BY <1>3, <1>4, <1>5, KeepOK
<1>7. /\ their \in Seq(Objects) /\ PartOf(their, from["their"])
      /\ \A k \in DOMAIN their : \E i \in DOMAIN from["their"] : their[k] = from["their"][i]
      /\ Len(their) <= OppMax
      /\ \/ SeenIn(their) = SeenIn(from["their"])
         \/ Len(their) = OppMax /\ \A k \in DOMAIN their : their[k].goalie \/ their[k].count = 0
  <2> HIDE DEF room, neutral
  <2> QED
    BY <1>3, <1>4, <1>5, KeepOK
<1>8. Len(our) \in Nat /\ Len(their) \in Nat
  BY <1>6, <1>7, LenProperties
<1>9. room \in Nat /\ Len(our) + Len(their) + room = MateMax + OppMax
  <2> DEFINE rest == MateMax + OppMax - Len(our) - Len(their)
  <2>1. rest \in Nat /\ Len(our) + Len(their) + rest = MateMax + OppMax
    BY <1>5, <1>6, <1>7, <1>8
  <2>2. room = Max({0, rest})
    OBVIOUS
  <2> HIDE DEF rest, room
  <2>3. room = rest
    BY <2>1, <2>2, MaxTwo
  <2> QED
    BY <2>1, <2>3
<1> HIDE DEF room
<1>10. /\ neutral \in Seq(Objects) /\ PartOf(neutral, from["neutral"])
       /\ \A k \in DOMAIN neutral : \E i \in DOMAIN from["neutral"] : neutral[k] = from["neutral"][i]
       /\ SeenIn(neutral) = SeenIn(from["neutral"])
       /\ Len(neutral) <= room \/ \A k \in DOMAIN neutral : neutral[k].count = 0
  BY <1>3, <1>4, <1>9, KeepUnknownOK
<1> HIDE DEF neutral
<1>11. ASSUME NEW l \in Lists PROVE SoundList(l, lists[l], w, exempt)
  <2>1. SoundList(l, from[l], w, exempt)
    OBVIOUS
  <2>2. lists[l] \in Seq(Objects) /\ \A k \in DOMAIN lists[l] : \E i \in DOMAIN from[l] : lists[l][k] = from[l][i]
    BY <1>2, <1>4, <1>6, <1>7, <1>10
  <2> QED
    BY <2>1, <2>2, SoundPart
<1>12. ASSUME NEW l \in Lists, NEW unum, Once(from[l], unum) PROVE Once(lists[l], unum)
  <2>1. PartOf(lists[l], from[l])
    BY <1>2, <1>4, <1>6, <1>7, <1>10
  <2> QED
    BY <2>1, <1>12, PartOnce
<1>13. \/ Len(our) + Len(their) + Len(neutral) <= MateMax + OppMax
       \/ \A k \in DOMAIN neutral : neutral[k].count = 0
  <2>1. Len(neutral) \in Nat
    BY <1>10, LenProperties
  <2>2. CASE Len(neutral) <= room
    BY <2>1, <2>2, <1>5, <1>8, <1>9
  <2> QED
    BY <2>2, <1>10
<1>14. \/ SeenNow(lists) = SeenNow(from)
       \/ \E l \in {"our", "their"} :
            /\ Len(lists[l]) = IF l = "our" THEN MateMax ELSE OppMax
            /\ \A k \in DOMAIN lists[l] : lists[l][k].goalie \/ lists[l][k].count = 0
  <2>1. CASE SeenIn(our) = SeenIn(from["our"]) /\ SeenIn(their) = SeenIn(from["their"])
    BY <2>1, <1>2, <1>10 DEF SeenNow
  <2>2. CASE Len(our) = MateMax /\ \A k \in DOMAIN our : our[k].goalie \/ our[k].count = 0
    BY <2>2, <1>2
  <2>3. CASE Len(their) = OppMax /\ \A k \in DOMAIN their : their[k].goalie \/ their[k].count = 0
    BY <2>3, <1>2
  <2> QED
    BY <2>1, <2>2, <2>3, <1>6, <1>7
<1> QED
  BY <1>2, <1>6, <1>7, <1>11, <1>12, <1>13, <1>14 DEF LimitedWell

\* A see from the beginning of a step on.
LEMMA SeeOK ==
    ASSUME Inv, NEW view \in Views, See(view)
    PROVE  Inv' /\ Bounded'
           /\ \/ SeenNow(memory') = Cardinality(seen')
              \/ \E l \in {"our", "their"} :
                    /\ Len(memory'[l]) >= IF l = "our" THEN MateMax ELSE OppMax
                    /\ \A o \in ToSet(memory'[l]) : o.goalie \/ o.count = 0
<1> DEFINE who == seen'
<1>1. /\ phase = "sensed" /\ phase' = "seen" /\ where' = where /\ placing' = placing
      /\ told' = told /\ named' = named
      /\ who = {p \in Players : where[p] \in view}
  BY DEF See
<1>2. PICK look \in [who -> Sights] :
        /\ vague' = vague + Cardinality({p \in who : look[p] # "number"})
        /\ vague' <= MaxVague
        /\ \E order \in Orders(Sighted(who, look)) : \E lists \in Limited(Matched(order)) :
                memory' = CheckGhost(lists, view)
  BY DEF See, Sights, Sighted
<1>3. PICK order \in Orders(Sighted(who, look)) : \E lists \in Limited(Matched(order)) :
        memory' = CheckGhost(lists, view)
  BY <1>2
<1>4. PICK lists \in Limited(Matched(order)) : memory' = CheckGhost(lists, view)
  BY <1>3
<1>5. who \in SUBSET Players
  BY <1>1
<1> DEFINE from == Matched(order)
<1>6. /\ \A l \in Lists : SoundList(l, from[l], where, Exempt)
      /\ AllOnce(from, Exempt) /\ SeenNow(from) = Cardinality(who)
  <2> HIDE DEF who
  <2> QED
    BY <1>1, <1>5, MatchedOK
<1>7. LimitedWell(lists, from, where, Exempt)
  <2> HIDE DEF from
  <2>1. lists \in Limited(from)
    BY DEF from
  <2> QED
    BY <2>1, <1>6, LimitedOK
<1> HIDE DEF from, who
<1>8. ASSUME NEW l \in Lists
      PROVE  Remains(memory'[l], l, lists[l], where, Exempt)
  <2>1. SoundList(l, lists[l], where, Exempt)
    BY <1>7 DEF LimitedWell
  <2> QED
    BY <2>1, <1>4, GhostOK
<1>9. "our" \in Lists /\ "their" \in Lists /\ "neutral" \in Lists
  BY DEF Lists
<1>10. AllSound(memory', where, Exempt)
  BY <1>8 DEF AllSound, Remains
<1>11. AllOnce(memory', Exempt)
  <2>1. ASSUME NEW p \in Players \ Exempt PROVE Once(memory'[p[1]], p[2])
    <3>1. p[1] \in Lists /\ Once(from[p[1]], p[2])
      BY <1>6, ListOf DEF AllOnce
    <3> QED
      BY <3>1, <1>7, <1>8 DEF LimitedWell, Remains
  <2> QED
    BY <2>1 DEF AllOnce
<1>12. Exempt' = Exempt
  BY <1>1 DEF Exempt
<1>13. memory' \in [Lists -> Seq(Objects)]
  <2>1. memory' = [l \in Lists |-> memory'[l]]
    BY <1>4 DEF CheckGhost
  <2>2. \A l \in Lists : memory'[l] \in Seq(Objects)
    BY <1>8 DEF SoundList, Remains
  <2> QED
    BY <2>1, <2>2
<1>14. vague' \in 0 .. MaxVague
  <2>1. IsFiniteSet(who)
    BY <1>5, PlayersFinite, FS_Subset
  <2>2. Cardinality({p \in who : look[p] # "number"}) \in Nat
    BY <2>1, FS_Subset, FS_CardinalityType
  <2>3. vague \in Nat /\ MaxVague \in Nat
    BY PlayerMemoryAssumption DEF Inv, TypeOK
  <2> QED
    BY <1>2, <2>2, <2>3
<1>15. TypeOK'
  <2>1. \A o \in ToSet(memory'["neutral"]) : o.unum = Unum_Unknown /\ ~o.goalie
    BY <1>9, <1>10 DEF AllSound, SoundList, Sound, ToSet
  <2> QED
    BY <1>1, <1>5, <1>13, <1>14, <2>1 DEF TypeOK, Inv, who
<1>16. Inv'
  BY <1>1, <1>10, <1>11, <1>12, <1>15 DEF Inv
<1>17. Bounded'
  <2> DEFINE n(l) == Len(memory'[l])
             m(l) == Len(lists[l])
  <2>1. /\ n("our") \in Nat /\ n("their") \in Nat /\ n("neutral") \in Nat
        /\ n("our") <= m("our") /\ n("their") <= m("their") /\ n("neutral") <= m("neutral")
    BY <1>8, <1>9 DEF Remains
  <2>2. /\ m("our") \in Nat /\ m("their") \in Nat /\ m("neutral") \in Nat
    BY <1>7, <1>9, LenProperties DEF LimitedWell, SoundList
  <2>3. /\ m("our") <= MateMax /\ m("their") <= OppMax
        /\ \/ m("our") + m("their") + m("neutral") <= MateMax + OppMax
           \/ \A k \in DOMAIN lists["neutral"] : lists["neutral"][k].count = 0
    BY <1>7 DEF LimitedWell
  <2>4. (\A k \in DOMAIN lists["neutral"] : lists["neutral"][k].count = 0)
            => \A o \in ToSet(memory'["neutral"]) : o.count = 0
    BY <1>8, <1>9 DEF ToSet, Remains
  <2> HIDE DEF n, m
  <2>5. /\ n("our") <= MateMax /\ n("their") <= OppMax
        /\ \/ n("our") + n("their") + n("neutral") <= MateMax + OppMax
           \/ \A o \in ToSet(memory'["neutral"]) : o.count = 0
    BY <2>1, <2>2, <2>3, <2>4, Constants
  <2> QED
    BY <2>5 DEF Bounded, n
<1>18. CASE SeenNow(lists) = SeenNow(from)
  <2>1. SeenNow(memory') = SeenNow(lists)
    BY <1>8, <1>9 DEF SeenNow, Remains
  <2> QED
    BY <2>1, <1>6, <1>16, <1>17, <1>18 DEF who
<1>19. ASSUME NEW l \in {"our", "their"},
              Len(lists[l]) = IF l = "our" THEN MateMax ELSE OppMax,
              \A k \in DOMAIN lists[l] : lists[l][k].goalie \/ lists[l][k].count = 0
       PROVE  /\ Len(memory'[l]) >= IF l = "our" THEN MateMax ELSE OppMax
              /\ \A o \in ToSet(memory'[l]) : o.goalie \/ o.count = 0
  <2>1. l \in Lists /\ l # "neutral"
    BY DEF Lists
  <2>2. Len(memory'[l]) = Len(lists[l]) /\ \A k \in DOMAIN memory'[l] : memory'[l][k].goalie \/ memory'[l][k].count = 0
    BY <2>1, <1>8, <1>19 DEF Remains
  <2>3. \A o \in ToSet(memory'[l]) : o.goalie \/ o.count = 0
    BY <2>2 DEF ToSet
  <2> QED
    BY <2>2, <2>3, <1>19, Constants
<1> QED
  BY <1>7, <1>16, <1>17, <1>18, <1>19 DEF LimitedWell

-----------------------------------------------------------------------------
(* What is heard                                                           *)

\* What is told of a player.
Telling(to, h) == <<to, h.unum>> \in Players /\ h.goalie \in BOOLEAN /\ h.pos \in Places

\* What is heard goes with what may be heard of: as long as no opponent was told of
\* in a message about players, only their goalie.
Hearable(to, o, h, exempt) ==
    to = "their" /\ TheGoalie \notin exempt =>
        h.goalie /\ h.unum = TheirGoalie /\ (o.fresh => o.unum = TheirGoalie)

\* A wider exemption.
LEMMA SoundWider ==
    ASSUME NEW l, NEW list, NEW w, NEW exempt, NEW wider, exempt \subseteq wider,
           SoundList(l, list, w, exempt)
    PROVE  SoundList(l, list, w, wider)
<1>1. ASSUME NEW o, Sound(l, o, w, exempt) PROVE Sound(l, o, w, wider)
  BY <1>1 DEF Sound
<1> QED
  BY <1>1 DEF SoundList

LEMMA FreshKnown ==
    ASSUME NEW l, NEW o, NEW w, NEW exempt, Sound(l, o, w, exempt), o.fresh
    PROVE  l # "neutral" /\ o.unum # Unum_Unknown /\ o.count = 0
<1>1. <<l, o.unum>> \in Players /\ o.count = 0
  BY DEF Sound
<1>2. l \in {"our", "their"} /\ o.unum \in Mates \cup Opps
  BY <1>1 DEF Players
<1> QED
  BY <1>1, <1>2, Constants

\* PlayerObject::updateByHear.
LEMMA HearSound ==
    ASSUME NEW from, NEW to, NEW o, NEW w, NEW exempt, NEW wider, exempt \subseteq wider,
           Sound(from, o, w, exempt), from \in {to, "neutral"},
           NEW h, Telling(to, h), Hearable(to, o, h, wider)
    PROVE  /\ Sound(to, UpdateByHear(o, h), w, wider)
           /\ UpdateByHear(o, h).unum = IF o.fresh THEN o.unum ELSE h.unum
<1> DEFINE c == UpdateByHear(o, h)
           known == o.goalie \/ h.goalie
<1>1. o \in Objects
  BY DEF Sound
<1>2. /\ o.unum \in {Unum_Unknown} \cup Mates \cup Opps
      /\ o.fresh \in BOOLEAN /\ o.goalie \in BOOLEAN /\ o.pos \in Places
      /\ o.count \in 0 .. (CountThr - 1) /\ o.ghost \in 0 .. GhostMax
  BY <1>1 DEF Objects
<1>3. to \in {"our", "their"} /\ to # "neutral" /\ h.unum \in Mates \cup Opps /\ h.unum # Unum_Unknown
  <2>1. to \in {"our", "their"} /\ h.unum \in Mates \cup Opps
    BY DEF Players, Telling
  <2> QED
    BY <2>1, Constants
<1>4. known \in BOOLEAN /\ (known <=> o.goalie \/ h.goalie)
  BY <1>2 DEF Telling
<1> DEFINE n == IF o.fresh THEN o.unum ELSE h.unum
           x == IF Replaced(o) THEN h.pos ELSE o.pos
           m == Min({o.count, 1})
<1>5. m = IF o.count <= 1 THEN o.count ELSE 1
  BY <1>2, MinTwo
<1>6. n \in {Unum_Unknown} \cup Mates \cup Opps /\ x \in Places
      /\ m \in 0 .. (CountThr - 1) /\ 0 \in 0 .. GhostMax
  BY <1>2, <1>3, <1>5, Constants DEF Telling
<1>7. c = [o EXCEPT !.ghost = 0, !.unum = n, !.goalie = known, !.pos = x, !.count = m]
  BY DEF UpdateByHear
<1>8. known \in BOOLEAN
  BY <1>4
<1> HIDE DEF known, n, x, m
<1>9. /\ c.unum = n /\ c.goalie = known /\ c.pos = x /\ c.count = m /\ c.fresh = o.fresh
  BY <1>1, <1>7 DEF Objects
<1>10. c \in Objects
  BY <1>1, <1>6, <1>7, <1>8 DEF Objects
<1> HIDE DEF c
<1>11. from # to => ~o.fresh
  BY FreshKnown
<1>12. n # Unum_Unknown
  BY <1>3, FreshKnown DEF n
<1>13. to = "their" /\ TheGoalie \notin wider => (c.goalie <=> c.unum = TheirGoalie)
  <2> SUFFICES ASSUME to = "their", TheGoalie \notin wider PROVE c.goalie /\ c.unum = TheirGoalie
    OBVIOUS
  <2>1. h.goalie /\ h.unum = TheirGoalie /\ (o.fresh => o.unum = TheirGoalie)
    BY DEF Hearable
  <2>2. known
    BY <2>1, <1>4 DEF known
  <2>3. n = TheirGoalie
    BY <2>1 DEF n
  <2> QED
    BY <1>9, <2>2, <2>3
<1>14. ASSUME c.fresh
       PROVE  /\ <<to, c.unum>> \in Players /\ c.count = 0
              /\ c.pos = w[<<to, c.unum>>] \/ w[<<to, c.unum>>] > FarDist
  <2>1. o.fresh /\ from = to /\ n = o.unum
    BY <1>14, <1>9, <1>11 DEF n
  <2>2. /\ <<to, o.unum>> \in Players /\ o.count = 0
        /\ o.pos = w[<<to, o.unum>>] \/ w[<<to, o.unum>>] > FarDist
    BY <2>1 DEF Sound
  <2>3. m = 0
    BY <2>2, <1>5
  <2>4. x = o.pos \/ o.pos > FarDist
    BY <2>2 DEF x, Replaced
  <2>5. x = w[<<to, o.unum>>] \/ w[<<to, o.unum>>] > FarDist
    BY <2>2, <2>4
  <2> QED
    BY <1>9, <2>1, <2>2, <2>3, <2>5
<1>15. Sound(to, c, w, wider)
  BY <1>3, <1>9, <1>10, <1>12, <1>13, <1>14 DEF Sound
<1> QED
  BY <1>9, <1>15 DEF c, n

\* The PlayerObject of a player that is heard of for the first time.
LEMMA HeardSound ==
    ASSUME NEW to, NEW w, NEW wider, NEW h, Telling(to, h),
           to = "their" /\ TheGoalie \notin wider => h.goalie /\ h.unum = TheirGoalie
    PROVE  Sound(to, HeardObject(h), w, wider)
           /\ HeardObject(h).unum = h.unum
<1> DEFINE c == HeardObject(h)
<1>1. to \in {"our", "their"} /\ to # "neutral" /\ h.unum \in Mates \cup Opps /\ h.unum # Unum_Unknown
  <2>1. to \in {"our", "their"} /\ h.unum \in Mates \cup Opps
    BY DEF Players, Telling
  <2> QED
    BY <2>1, Constants
<1>2. c.unum = h.unum /\ c.goalie = h.goalie /\ ~c.fresh
  BY DEF HeardObject
<1>3. c \in Objects
  <2>1. 1 \in 0 .. (CountThr - 1) /\ 0 \in 0 .. GhostMax
    BY Constants
  <2> QED
    BY <1>1, <2>1 DEF HeardObject, Objects, Telling
<1> HIDE DEF c
<1>4. Sound(to, c, w, wider)
  BY <1>1, <1>2, <1>3 DEF Sound
<1> QED
  BY <1>2, <1>4 DEF c

LEMMA ReplaceSound ==
    ASSUME NEW l, NEW list, NEW w, NEW exempt, NEW wider, exempt \subseteq wider,
           SoundList(l, list, w, exempt), NEW t \in DOMAIN list, NEW o, Sound(l, o, w, wider)
    PROVE  SoundList(l, [list EXCEPT ![t] = o], w, wider)
<1> DEFINE new == [list EXCEPT ![t] = o]
<1>1. SoundList(l, list, w, wider)
  BY SoundWider
<1>2. list \in Seq(Objects) /\ Len(list) \in Nat /\ DOMAIN list = 1 .. Len(list)
  BY LenProperties DEF SoundList
<1>3. \A i \in DOMAIN list : list[i] \in Objects /\ Sound(l, list[i], w, wider)
  BY <1>1 DEF SoundList, Sound
<1>4. o \in Objects
  BY DEF Sound
<1>5. DOMAIN new = DOMAIN list /\ new[t] = o /\ \A i \in DOMAIN list \ {t} : new[i] = list[i]
  OBVIOUS
<1>6. new \in [1 .. Len(list) -> Objects]
  BY <1>2, <1>3, <1>4
<1> HIDE DEF new
<1>7. new \in Seq(Objects)
  BY <1>2, <1>6
<1>8. SoundList(l, new, w, wider)
  BY <1>3, <1>5, <1>7 DEF SoundList
<1> QED
  BY <1>8 DEF new

LEMMA AppendSound ==
    ASSUME NEW l, NEW list, NEW w, NEW exempt, NEW wider, exempt \subseteq wider,
           SoundList(l, list, w, exempt), NEW o, Sound(l, o, w, wider)
    PROVE  SoundList(l, Append(list, o), w, wider)
<1> DEFINE new == Append(list, o)
           n == Len(list) + 1
<1>1. SoundList(l, list, w, wider)
  BY SoundWider
<1>2. list \in Seq(Objects) /\ o \in Objects
  BY DEF SoundList, Sound
<1>3. /\ new \in Seq(Objects) /\ DOMAIN new = DOMAIN list \cup {n}
      /\ new[n] = o /\ \A i \in DOMAIN list : new[i] = list[i]
  BY <1>2, AppendParts
<1> HIDE DEF new, n
<1>4. SoundList(l, new, w, wider)
  BY <1>1, <1>3 DEF SoundList
<1> QED
  BY <1>4 DEF new

\* The lists after something was heard.
Heard(lists, wider) ==
    /\ lists \in [Lists -> Seq(Objects)]
    /\ AllSound(lists, where, wider) /\ AllOnce(lists, wider)

\* One of the teams' lists changes, and perhaps that of the unknown players.
LEMMA OneHeard ==
    ASSUME Inv, NEW l \in {"our", "their"}, NEW wider, Exempt \subseteq wider,
           NEW lists, lists \in [Lists -> Seq(Objects)],
           \A m \in Lists \ {l, "neutral"} : lists[m] = memory[m],
           SoundList(l, lists[l], where, wider),
           SoundList("neutral", lists["neutral"], where, wider),
           \A p \in Players \ wider : p[1] = l => Once(lists[l], p[2])
    PROVE  Heard(lists, wider)
<1>1. ASSUME NEW m \in Lists PROVE SoundList(m, lists[m], where, wider)
  <2>1. SoundList(m, memory[m], where, wider)
    BY SoundWider DEF Inv, AllSound
  <2> QED
    BY <2>1
<1>2. ASSUME NEW p \in Players \ wider PROVE Once(lists[p[1]], p[2])
  <2>1. p[1] \in {"our", "their"} /\ p[1] \in Lists
    BY ListOf
  <2>2. Once(memory[p[1]], p[2])
    BY DEF Inv, AllOnce
  <2> QED
    BY <2>1, <2>2
<1> QED
  BY <1>1, <1>2 DEF Heard, AllSound, AllOnce

\* updateGoalieByHear.
LEMMA HearGoalieOK ==
    ASSUME Inv, NEW pos \in Places
    PROVE  Heard(HearGoalie(memory, pos), Exempt)
<1> DEFINE opps == memory["their"]
           goalies == {i \in DOMAIN opps : opps[i].goalie}
           near == {i \in NearTo(opps, pos) : opps[i].unum = Unum_Unknown /\ opps[i].pos \in Area}
           g == GoalieAmong(opps, pos)
           heard == ToldGoalie(pos)
           opp == HeardObject(heard)
           new == IF g = 0 THEN Append(opps, opp)
                  ELSE [opps EXCEPT ![g] = UpdateByHear(opps[g], heard)]
           lists == HearGoalie(memory, pos)
<1>1. memory \in [Lists -> Seq(Objects)] /\ "their" \in Lists /\ "neutral" \in Lists
  BY DEF Inv, TypeOK, Lists
<1>2. /\ SoundList("their", opps, where, Exempt) /\ opps \in Seq(Objects)
      /\ SoundList("neutral", memory["neutral"], where, Exempt)
  BY <1>1 DEF Inv, AllSound
<1>3. lists = [memory EXCEPT !["their"] = new]
  BY DEF HearGoalie
<1>4. heard.goalie /\ heard.goalie \in BOOLEAN /\ heard.unum = TheirGoalie /\ heard.pos = pos
  BY DEF ToldGoalie
<1>5. TheirGoalie # Unum_Unknown /\ <<"their", TheirGoalie>> \in Players /\ TheGoalie = <<"their", TheirGoalie>>
  BY Constants DEF TheGoalie
<1>6. DOMAIN opps \subseteq Nat \ {0} /\ \A i \in DOMAIN opps : Sound("their", opps[i], where, Exempt)
  <2>1. DOMAIN opps = 1 .. Len(opps) /\ Len(opps) \in Nat
    BY <1>2, LenProperties
  <2> QED
    BY <1>2, <2>1 DEF SoundList
<1>7. /\ g # 0 => g \in DOMAIN opps /\ (opps[g].goalie \/ opps[g].unum = Unum_Unknown)
      /\ g = 0 => goalies = {}
      /\ goalies # {} => opps[g].goalie
  <2>1. CASE goalies # {}
    <3>1. goalies \in SUBSET Nat
      BY <1>6
    <3>2. g = Min(goalies)
      BY <2>1 DEF GoalieAmong
    <3>3. Min(goalies) \in goalies
      <4> HIDE DEF goalies
      <4> QED
        BY <2>1, <3>1, MinIn
    <3> QED
      BY <2>1, <3>2, <3>3, <1>6
  <2>2. CASE goalies = {}
    <3>1. g = Nearest(opps, near, pos)
      BY <2>2 DEF GoalieAmong
    <3>2. near \in SUBSET (DOMAIN opps)
      BY DEF NearTo
    <3>3. g # 0 => g \in near
      <4> HIDE DEF g, near
      <4> QED
        BY <3>1, <3>2, <1>2, NearestFound
    <3> QED
      BY <2>2, <3>2, <3>3
  <2> QED
    BY <2>1, <2>2
<1>8. \A i \in DOMAIN opps : opps[i].goalie => i \in goalies
  OBVIOUS
<1>9. TheGoalie \notin Exempt =>
        /\ \A i \in DOMAIN opps : opps[i].goalie <=> opps[i].unum = TheirGoalie
  BY <1>6 DEF Sound
<1> HIDE DEF g, goalies, near, heard, lists, new, opps, opp
<1>0. Telling("their", heard)
  BY <1>4, <1>5 DEF Telling
<1>10. ASSUME g = 0
       PROVE  SoundList("their", new, where, Exempt)
              /\ \A p \in Players \ Exempt : p[1] = "their" => Once(new, p[2])
  <2>1. new = Append(opps, opp) /\ opp = HeardObject(heard)
    BY <1>10 DEF new, opp
  <2>2. Sound("their", opp, where, Exempt) /\ opp.unum = TheirGoalie
    BY <1>4, <1>0, <2>1, HeardSound
  <2>3. SoundList("their", new, where, Exempt)
    BY <1>2, <2>1, <2>2, AppendSound
  <2>4. ASSUME NEW p \in Players \ Exempt, p[1] = "their" PROVE Once(new, p[2])
    <3>1. Once(opps, p[2])
      BY <2>4 DEF Inv, AllOnce, opps
    <3>2. p[2] = TheirGoalie => ~Has(opps, p[2])
      <4>1. p[2] = TheirGoalie => p = TheGoalie
        BY <2>4, ListOf DEF TheGoalie
      <4> QED
        BY <4>1, <1>7, <1>8, <1>9, <1>10 DEF Has
    <3>3. opp \in Objects
      BY <2>2 DEF Sound
    <3> QED
      BY <1>2, <2>1, <2>2, <3>1, <3>2, <3>3, AppendOnce
  <2> QED
    BY <2>3, <2>4
<1>11. ASSUME g # 0
       PROVE  SoundList("their", new, where, Exempt)
              /\ \A p \in Players \ Exempt : p[1] = "their" => Once(new, p[2])
  <2> DEFINE o == opps[g]
             c == UpdateByHear(o, heard)
  <2>1. new = [opps EXCEPT ![g] = c] /\ g \in DOMAIN opps
    BY <1>7, <1>11 DEF new
  <2>2. Sound("their", o, where, Exempt)
    BY <1>6, <2>1
  <2>3. o.fresh => o.unum # Unum_Unknown
    BY <2>2, FreshKnown
  <2>4. Hearable("their", o, heard, Exempt)
    BY <1>4, <1>7, <1>9, <1>11, <2>1, <2>3 DEF Hearable
  <2>5. Sound("their", c, where, Exempt) /\ c.unum = IF o.fresh THEN o.unum ELSE TheirGoalie
    <3>1. c = UpdateByHear(o, heard) /\ Exempt \subseteq Exempt
      OBVIOUS
    <3> HIDE DEF c, o
    <3> QED
      BY <1>4, <1>0, <2>2, <2>4, <3>1, HearSound
  <2>7. \A i \in DOMAIN opps : i = g => opps[i] = o
    OBVIOUS
  <2> HIDE DEF c, o
  <2>8. SoundList("their", new, where, Exempt)
    BY <1>2, <2>1, <2>5, ReplaceSound
  <2>9. ASSUME NEW p \in Players \ Exempt, p[1] = "their" PROVE Once(new, p[2])
    <3>1. Once(opps, p[2])
      BY <2>9 DEF Inv, AllOnce, opps
    <3>2. opps[g] = o
      BY <2>1, <2>7
    <3>3. c.unum = p[2] => opps[g].unum = p[2] \/ ~Has(opps, p[2])
      <4>1. p[2] = TheirGoalie => p = TheGoalie
        BY <2>9, ListOf DEF TheGoalie
      <4>2. CASE o.fresh
        BY <4>2, <2>5, <3>2
      <4>3. CASE ~o.fresh /\ p = TheGoalie
        <5>1. CASE goalies # {}
          BY <5>1, <4>3, <1>5, <1>7, <1>9, <2>1
        <5>2. CASE goalies = {}
          BY <5>2, <4>3, <1>5, <1>8, <1>9 DEF Has
        <5> QED
          BY <5>1, <5>2
      <4>4. CASE ~o.fresh /\ p # TheGoalie
        BY <4>1, <4>4, <2>5
      <4> QED
        BY <4>2, <4>3, <4>4
    <3>4. c \in Objects
      BY <2>5 DEF Sound
    <3> QED
      BY <1>2, <2>1, <3>1, <3>3, <3>4, ExceptOnce
  <2> QED
    BY <2>8, <2>9
<1>12. SoundList("their", new, where, Exempt)
       /\ \A p \in Players \ Exempt : p[1] = "their" => Once(new, p[2])
  BY <1>10, <1>11
<1>13. new \in Seq(Objects)
  BY <1>12 DEF SoundList
<1>14. lists \in [Lists -> Seq(Objects)] /\ lists["their"] = new
       /\ \A m \in Lists \ {"their"} : lists[m] = memory[m]
  BY <1>1, <1>3, <1>13
<1>15. Heard(lists, Exempt)
  <2>1. "neutral" # "their" /\ "their" \in {"our", "their"}
    OBVIOUS
  <2> QED
    BY <1>1, <1>2, <1>12, <1>14, <2>1, OneHeard
<1> QED
  BY <1>15 DEF lists

\* updatePlayerByHear: the opponents' list is left to itself once an opponent was
\* told of, but for the numbers of the others.
LEMMA HearPlayerOK ==
    ASSUME Inv, NEW p \in Players, NEW pos \in Places, NEW wider,
           wider = IF named \/ p[1] = "their" THEN {TheGoalie} ELSE {}
    PROVE  Heard(HearPlayer(memory, p[1], p[2], pos), wider)
<1> DEFINE l == p[1]
           unum == p[2]
           team == memory[l]
           unknown == memory["neutral"]
           same == {i \in DOMAIN team : team[i].unum = unum}
           t == IF same # {} THEN Min(same) ELSE Nearest(team, NearTo(team, pos), pos)
           u == IF same # {} THEN 0 ELSE Nearest(unknown, NearTo(unknown, pos), pos)
           nearer == u # 0 /\ DistanceTo(unknown, u, pos) < DistanceTo(team, t, pos)
           heard == ToldPlayer(unum, pos)
           lists == HearPlayer(memory, l, unum, pos)
<1>1. /\ memory \in [Lists -> Seq(Objects)] /\ "neutral" \in Lists
      /\ l \in Lists /\ l \in {"our", "their"} /\ l # "neutral" /\ unum # Unum_Unknown
      /\ p = <<l, unum>>
  BY ListOf DEF Inv, TypeOK, Lists
<1>2. /\ SoundList(l, team, where, Exempt) /\ team \in Seq(Objects)
      /\ SoundList("neutral", unknown, where, Exempt) /\ unknown \in Seq(Objects)
  BY <1>1 DEF Inv, AllSound
<1>3. ~heard.goalie /\ heard.goalie \in BOOLEAN /\ heard.unum = unum /\ heard.pos = pos
  BY DEF ToldPlayer
<1>4. Exempt \subseteq wider
  BY DEF Exempt
<1>5. l = "their" => TheGoalie \in wider
  OBVIOUS
<1>6. /\ DOMAIN team \subseteq Nat \ {0} /\ DOMAIN unknown \subseteq Nat \ {0}
      /\ \A i \in DOMAIN team : Sound(l, team[i], where, Exempt)
      /\ \A i \in DOMAIN unknown : Sound("neutral", unknown[i], where, Exempt)
  <2>1. /\ DOMAIN team = 1 .. Len(team) /\ Len(team) \in Nat
        /\ DOMAIN unknown = 1 .. Len(unknown) /\ Len(unknown) \in Nat
    BY <1>2, LenProperties
  <2> QED
    BY <1>2, <2>1 DEF SoundList
<1>7. /\ t # 0 => t \in DOMAIN team
      /\ same # {} => t \in DOMAIN team /\ team[t].unum = unum /\ u = 0
      /\ u # 0 => u \in DOMAIN unknown
  <2>1. CASE same # {}
    <3>1. same \in SUBSET Nat
      BY <1>6
    <3>2. t = Min(same) /\ u = 0
      BY <2>1
    <3>3. Min(same) \in same
      <4> HIDE DEF same
      <4> QED
        BY <2>1, <3>1, MinIn
    <3> QED
      BY <3>2, <3>3
  <2>2. CASE same = {}
    <3>1. t = Nearest(team, NearTo(team, pos), pos) /\ u = Nearest(unknown, NearTo(unknown, pos), pos)
      BY <2>2
    <3>2. NearTo(team, pos) \in SUBSET (DOMAIN team) /\ NearTo(unknown, pos) \in SUBSET (DOMAIN unknown)
      BY DEF NearTo
    <3> HIDE DEF t, u, team, unknown
    <3>3. (t # 0 => t \in NearTo(team, pos)) /\ (u # 0 => u \in NearTo(unknown, pos))
      BY <3>1, <3>2, <1>2, NearestFound
    <3> QED
      BY <2>2, <3>2, <3>3
  <2> QED
    BY <2>1, <2>2
<1>8. same = {} => ~Has(team, unum)
  BY DEF Has
<1>9. Telling(l, heard)
  BY <1>1, <1>3 DEF Telling
<1>10. \A o : Hearable(l, o, heard, wider)
  BY <1>5 DEF Hearable
<1>11. \A q \in Players \ wider : q[1] = l => Once(team, q[2])
  BY <1>4 DEF Inv, AllOnce
<1> DEFINE moved == UpdateByHear(unknown[u], heard)
           changed == UpdateByHear(team[t], heard)
           fresh == HeardObject(heard)
<1>12. /\ nearer => lists = [memory EXCEPT !["neutral"] = RemoveAt(unknown, u), ![l] = Append(team, moved)]
       /\ ~nearer /\ t # 0 => lists = [memory EXCEPT ![l] = [team EXCEPT ![t] = changed]]
       /\ ~nearer /\ t = 0 => lists = [memory EXCEPT ![l] = Append(team, fresh)]
  BY DEF HearPlayer
<1>13. nearer => u # 0 /\ same = {}
  BY <1>7
<1>14. t = 0 => same = {}
  BY <1>6, <1>7
<1> HIDE DEF l, unum, team, unknown, same, t, u, nearer, heard, lists
<1>15. CASE nearer
  <2>1. Sound("neutral", unknown[u], where, Exempt) /\ u \in DOMAIN unknown
    BY <1>6, <1>7, <1>13, <1>15
  <2>2. ~unknown[u].fresh
    BY <2>1, FreshKnown
  <2>3. Hearable(l, unknown[u], heard, wider) /\ "neutral" \in {l, "neutral"}
    BY <1>10
  <2>4. Sound(l, moved, where, wider) /\ moved.unum = unum
    <3> DEFINE o == unknown[u]
    <3>1. moved = UpdateByHear(o, heard) /\ Sound("neutral", o, where, Exempt) /\ ~o.fresh
          /\ Hearable(l, o, heard, wider)
      BY <2>1, <2>2, <2>3
    <3> HIDE DEF o, moved
    <3> QED
      BY <1>3, <1>4, <1>9, <2>3, <3>1, HearSound
  <2> HIDE DEF moved
  <2>5. SoundList(l, Append(team, moved), where, wider)
    BY <1>2, <1>4, <2>4, AppendSound
  <2>6. SoundList("neutral", RemoveAt(unknown, u), where, wider)
    <3>1. /\ RemoveAt(unknown, u) \in Seq(Objects)
          /\ \A k \in DOMAIN RemoveAt(unknown, u) : \E i \in DOMAIN unknown : RemoveAt(unknown, u)[k] = unknown[i]
      BY <1>2, <2>1, RemoveAtPart
    <3>2. SoundList("neutral", RemoveAt(unknown, u), where, Exempt)
      BY <1>2, <3>1, SoundPart
    <3> QED
      BY <1>4, <3>2, SoundWider
  <2>7. \A q \in Players \ wider : q[1] = l => Once(Append(team, moved), q[2])
    <3>1. moved \in Objects /\ ~Has(team, unum)
      BY <1>8, <1>13, <1>15, <2>4 DEF Sound
    <3> QED
      BY <1>2, <1>11, <2>4, <3>1, AppendOnce
  <2>8. Append(team, moved) \in Seq(Objects) /\ RemoveAt(unknown, u) \in Seq(Objects)
    BY <2>5, <2>6 DEF SoundList
  <2>9. /\ lists \in [Lists -> Seq(Objects)] /\ lists[l] = Append(team, moved)
        /\ lists["neutral"] = RemoveAt(unknown, u)
        /\ \A m \in Lists \ {l, "neutral"} : lists[m] = memory[m]
    BY <1>1, <1>12, <1>15, <2>8
  <2>10. Heard(lists, wider)
    <3>1. /\ SoundList(l, lists[l], where, wider) /\ SoundList("neutral", lists["neutral"], where, wider)
          /\ \A q \in Players \ wider : q[1] = l => Once(lists[l], q[2])
      BY <2>5, <2>6, <2>7, <2>9
    <3>2. lists \in [Lists -> Seq(Objects)] /\ \A m \in Lists \ {l, "neutral"} : lists[m] = memory[m]
      BY <2>9
    <3> QED
      BY <1>1, <1>4, <3>1, <3>2, OneHeard
  <2> QED
    BY <2>10 DEF lists, l, unum
<1>16. CASE ~nearer
  <2> DEFINE new == IF t # 0 THEN [team EXCEPT ![t] = changed] ELSE Append(team, fresh)
  <2>1. lists = [memory EXCEPT ![l] = new]
    BY <1>12, <1>16
  <2>2. ASSUME t # 0
        PROVE  SoundList(l, new, where, wider) /\ \A q \in Players \ wider : q[1] = l => Once(new, q[2])
    <3>1. Sound(l, team[t], where, Exempt) /\ t \in DOMAIN team
      BY <1>6, <1>7, <2>2
    <3>2. Hearable(l, team[t], heard, wider) /\ l \in {l, "neutral"}
      BY <1>10
    <3>3. Sound(l, changed, where, wider) /\ changed.unum = IF team[t].fresh THEN team[t].unum ELSE unum
      <4> DEFINE o == team[t]
      <4>1. changed = UpdateByHear(o, heard) /\ Sound(l, o, where, Exempt)
            /\ Hearable(l, o, heard, wider) /\ team[t] = o
        BY <3>1, <3>2
      <4> HIDE DEF o, changed
      <4> QED
        BY <1>3, <1>4, <1>9, <3>2, <4>1, HearSound
    <3>4. new = [team EXCEPT ![t] = changed]
      BY <2>2
    <3> HIDE DEF changed, new
    <3>5. SoundList(l, new, where, wider)
      BY <1>2, <1>4, <3>1, <3>3, <3>4, ReplaceSound
    <3>6. ASSUME NEW q \in Players \ wider, q[1] = l PROVE Once(new, q[2])
      <4>1. Once(team, q[2])
        BY <1>11, <3>6
      <4>2. changed.unum = q[2] => team[t].unum = q[2] \/ ~Has(team, q[2])
        BY <1>7, <1>8, <3>3
      <4>3. changed \in Objects
        BY <3>3 DEF Sound
      <4> QED
        BY <1>2, <3>1, <3>4, <4>1, <4>2, <4>3, ExceptOnce
    <3> QED
      BY <3>5, <3>6
  <2>3. ASSUME t = 0
        PROVE  SoundList(l, new, where, wider) /\ \A q \in Players \ wider : q[1] = l => Once(new, q[2])
    <3>1. Sound(l, fresh, where, wider) /\ fresh.unum = unum
      BY <1>3, <1>5, <1>9, HeardSound
    <3>2. new = Append(team, fresh)
      BY <2>3
    <3> HIDE DEF fresh, new
    <3>3. SoundList(l, new, where, wider)
      BY <1>2, <1>4, <3>1, <3>2, AppendSound
    <3>4. fresh \in Objects /\ ~Has(team, unum)
      BY <1>8, <1>14, <2>3, <3>1 DEF Sound
    <3>5. \A q \in Players \ wider : q[1] = l => Once(new, q[2])
      BY <1>2, <1>11, <3>1, <3>2, <3>4, AppendOnce
    <3> QED
      BY <3>3, <3>5
  <2> HIDE DEF new
  <2>4. SoundList(l, new, where, wider) /\ \A q \in Players \ wider : q[1] = l => Once(new, q[2])
    BY <2>2, <2>3
  <2>5. SoundList("neutral", unknown, where, wider)
    BY <1>2, <1>4, SoundWider
  <2>6. new \in Seq(Objects)
    BY <2>4 DEF SoundList
  <2>7. /\ lists \in [Lists -> Seq(Objects)] /\ lists[l] = new
        /\ lists["neutral"] = unknown
        /\ \A m \in Lists \ {l, "neutral"} : lists[m] = memory[m]
    BY <1>1, <2>1, <2>6 DEF unknown
  <2>8. Heard(lists, wider)
    BY <1>1, <1>4, <2>4, <2>5, <2>7, OneHeard
  <2> QED
    BY <2>8 DEF lists, l, unum
<1> QED
  BY <1>15, <1>16

-----------------------------------------------------------------------------
(* The invariant is inductive                                              *)

LEMMA InitInv == Init => Inv
<1> SUFFICES ASSUME Init PROVE Inv
  OBVIOUS
<1> DEFINE none == <<>>
<1>1. none \in Seq(Objects) /\ DOMAIN none = {} /\ ToSet(none) = {}
  BY DEF ToSet
<1>2. memory = [l \in Lists |-> none]
  BY DEF Init
<1> HIDE DEF none
<1>3. memory \in [Lists -> Seq(Objects)] /\ \A l \in Lists : memory[l] = none
  BY <1>1, <1>2
<1>4. "neutral" \in Lists
  BY DEF Lists
<1>5. {MaxTold, MaxVague} \subseteq Nat
  BY PlayerMemoryAssumption
<1>6. TypeOK
  <2>1. placing \in BOOLEAN /\ named \in BOOLEAN
    BY Zenon DEF Init
  <2>2. where \in Placements /\ phase = "decided" /\ seen = {} /\ vague = 0 /\ told = 0
    BY DEF Init
  <2>3. vague \in 0 .. MaxVague /\ told \in 0 .. MaxTold
    BY <2>2, <1>5
  <2> QED
    BY <1>1, <1>3, <1>4, <2>1, <2>2, <2>3 DEF TypeOK
<1>7. AllSound(memory, where, Exempt)
  BY <1>1, <1>3 DEF AllSound, SoundList
<1>8. AllOnce(memory, Exempt)
  <2>1. ASSUME NEW p \in Players PROVE Once(memory[p[1]], p[2])
    BY <1>1, <1>3, ListOf DEF Once
  <2> QED
    BY <2>1 DEF AllOnce
<1> QED
  BY <1>6, <1>7, <1>8 DEF Init, Inv

\* WorldModel::update: nothing is certain at the beginning of a step.
LEMMA StepOK ==
    ASSUME Inv, Step
    PROVE  Inv' /\ phase' = "sensed"
<1>1. /\ phase' = "sensed" /\ placing' \in BOOLEAN
      /\ seen' = seen /\ vague' = vague /\ told' = told /\ named' = named
      /\ memory' = [l \in Lists |-> Updated(memory[l])]
  BY DEF Step
<1>2. where' \in Placements
  <2>1. CASE placing /\ where' \in Placements
    BY <2>1
  <2>2. ASSUME NEW p \in Players, NEW x \in Ground(p), where' = [where EXCEPT ![p] = x]
        PROVE  where' \in Placements
    <3>1. where \in [Players -> Places] /\ \A q \in Players : where[q] \in Ground(q)
      BY DEF Inv, TypeOK, Placements
    <3>2. Ground(p) \subseteq Places
      BY PlayerMemoryAssumption DEF Ground
    <3>3. where' \in [Players -> Places]
      BY <2>2, <3>1, <3>2
    <3>4. \A q \in Players : where'[q] \in Ground(q)
      BY <2>2, <3>1
    <3> QED
      BY <3>3, <3>4 DEF Placements
  <2> QED
    BY <2>1, <2>2 DEF Step
<1>3. ASSUME NEW l \in Lists
      PROVE  /\ SoundList(l, memory'[l], where', Exempt)
             /\ \A k \in DOMAIN memory'[l] : Stale(memory'[l][k])
             /\ \A unum : Once(memory[l], unum) => Once(memory'[l], unum)
  <2>1. SoundList(l, memory[l], where, Exempt)
    BY DEF Inv, AllSound
  <2>2. memory'[l] = Updated(memory[l])
    BY <1>1
  <2> QED
    BY <2>1, <2>2, UpdatedSound
<1>4. Exempt' = Exempt
  BY <1>1 DEF Exempt
<1>5. memory' \in [Lists -> Seq(Objects)]
  <2>1. memory' = [l \in Lists |-> memory'[l]]
    BY <1>1
  <2>2. \A l \in Lists : memory'[l] \in Seq(Objects)
    BY <1>3 DEF SoundList
  <2> QED
    BY <2>1, <2>2
<1>6. AllSound(memory', where', Exempt)
  BY <1>3 DEF AllSound
<1>7. AllOnce(memory', Exempt)
  <2>1. ASSUME NEW p \in Players \ Exempt PROVE Once(memory'[p[1]], p[2])
    <3>1. p[1] \in Lists /\ Once(memory[p[1]], p[2])
      BY ListOf DEF Inv, AllOnce
    <3> QED
      BY <3>1, <1>3
  <2> QED
    BY <2>1 DEF AllOnce
<1>8. TypeOK'
  <2>1. "neutral" \in Lists
    BY DEF Lists
  <2>2. \A o \in ToSet(memory'["neutral"]) : o.unum = Unum_Unknown /\ ~o.goalie
    BY <1>6, <2>1 DEF AllSound, SoundList, Sound, ToSet
  <2>3. /\ seen \subseteq Players /\ vague \in 0 .. MaxVague /\ told \in 0 .. MaxTold
        /\ named \in BOOLEAN
    BY DEF Inv, TypeOK
  <2> QED
    BY <1>1, <1>2, <1>5, <2>2, <2>3 DEF TypeOK
<1> QED
  BY <1>1, <1>3, <1>4, <1>6, <1>7, <1>8 DEF Inv

\* What is heard before a decision.
LEMMA DecideOK ==
    ASSUME Inv, Decide, told' \in 0 .. MaxTold, named' \in BOOLEAN, Heard(memory', Exempt')
    PROVE  Inv' /\ phase' = "decided"
<1>1. /\ phase' = "decided" /\ seen' = {} /\ where' = where /\ placing' = placing
      /\ vague' = vague
  BY DEF Decide
<1>2. memory' \in [Lists -> Seq(Objects)] /\ AllSound(memory', where', Exempt')
      /\ AllOnce(memory', Exempt')
  BY <1>1 DEF Heard
<1>3. "neutral" \in Lists
  BY DEF Lists
<1>4. \A o \in ToSet(memory'["neutral"]) : o.unum = Unum_Unknown /\ ~o.goalie
  BY <1>2, <1>3 DEF AllSound, SoundList, Sound, ToSet
<1>5. where \in Placements /\ placing \in BOOLEAN /\ vague \in 0 .. MaxVague
  BY DEF Inv, TypeOK
<1>6. TypeOK'
  BY <1>1, <1>2, <1>4, <1>5 DEF TypeOK
<1> QED
  BY <1>1, <1>2, <1>6 DEF Inv

LEMMA ToldTypes ==
    ASSUME Inv
    PROVE  told \in 0 .. MaxTold /\ named \in BOOLEAN /\ MaxTold \in Nat
           /\ memory \in [Lists -> Seq(Objects)]
  BY PlayerMemoryAssumption DEF Inv, TypeOK

LEMMA DeafOK ==
    ASSUME Inv, DecideDeaf
    PROVE  Inv' /\ phase' = "decided"
<1>1. Decide /\ memory' = memory /\ told' = told /\ named' = named
  BY DEF DecideDeaf
<1>2. Exempt' = Exempt
  BY <1>1 DEF Exempt
<1>3. Heard(memory, Exempt)
  BY DEF Heard, Inv, TypeOK
<1>4. Heard(memory', Exempt')
  BY <1>1, <1>2, <1>3
<1> QED
  BY <1>1, <1>4, ToldTypes, DecideOK

LEMMA TellGoalieOK ==
    ASSUME Inv, NEW pos \in Places, TellGoalie(pos)
    PROVE  Inv' /\ phase' = "decided"
<1>1. Decide /\ told < MaxTold /\ told' = told + 1 /\ named' = named
      /\ memory' = HearGoalie(memory, pos)
  BY DEF TellGoalie
<1>2. Exempt' = Exempt
  BY <1>1 DEF Exempt
<1>3. Heard(memory', Exempt')
  BY <1>1, <1>2, HearGoalieOK
<1>4. told' \in 0 .. MaxTold /\ named' \in BOOLEAN
  BY <1>1, ToldTypes
<1> QED
  BY <1>1, <1>3, <1>4, DecideOK

LEMMA TellPlayerOK ==
    ASSUME Inv, NEW p \in Players, NEW pos \in Places, TellPlayer(p, pos)
    PROVE  Inv' /\ phase' = "decided"
<1>1. Decide /\ told < MaxTold /\ told' = told + 1 /\ named' = (named \/ p[1] = "their")
      /\ memory' = HearPlayer(memory, p[1], p[2], pos)
  BY DEF TellPlayer
<1>2. Exempt' = IF named \/ p[1] = "their" THEN {TheGoalie} ELSE {}
  BY <1>1 DEF Exempt
<1>3. Heard(memory', Exempt')
  BY <1>1, <1>2, HearPlayerOK
<1>4. told' \in 0 .. MaxTold /\ named' \in BOOLEAN
  BY <1>1, ToldTypes
<1> QED
  BY <1>1, <1>3, <1>4, DecideOK

LEMMA NextInv == Inv /\ [Next]_vars => Inv'
<1> SUFFICES ASSUME Inv, [Next]_vars PROVE Inv'
  OBVIOUS
<1>1. CASE Step
  BY <1>1, StepOK
<1>2. ASSUME NEW view \in Views, See(view) PROVE Inv'
  BY <1>2, SeeOK
<1>3. CASE DecideDeaf
  BY <1>3, DeafOK
<1>4. ASSUME NEW pos \in Places, TellGoalie(pos) PROVE Inv'
  BY <1>4, TellGoalieOK
<1>5. ASSUME NEW p \in Players, NEW pos \in Places, TellPlayer(p, pos) PROVE Inv'
  BY <1>5, TellPlayerOK
<1>6. CASE UNCHANGED vars
  <2>1. Exempt' = Exempt
    BY <1>6 DEF vars, Exempt
  <2> QED
    BY <1>6, <2>1 DEF vars, Inv, TypeOK
<1> QED
  BY <1>1, <1>2, <1>3, <1>4, <1>5, <1>6 DEF Next

LEMMA AlwaysInv == Spec => []Inv
  BY InitInv, NextInv, PTL DEF Spec

-----------------------------------------------------------------------------
(* What the model promises                                                 *)

\* What is remembered stays within its types (world_model.h, player_object.h): no
\* object is older than the threshold, and no unknown player has a number.
THEOREM TypeCorrect == Spec => []TypeOK
<1>1. Inv => TypeOK
  BY DEF Inv
<1> QED
  BY <1>1, AlwaysInv, PTL

\* No uniform number is remembered twice, whatever was mistaken for whom, except
\* their goalie's once an opponent was told of (WorldModel::localizePlayers,
\* updatePlayerByHear).
THEOREM NumbersOnce == Spec => []NumbersUnique
<1>1. ASSUME Inv PROVE NumbersUnique
  <2>1. ASSUME NEW p \in Players, ~(named /\ p = <<"their", TheirGoalie>>)
        PROVE  Cardinality(Bearing(p[1], p[2])) <= 1
    <3> DEFINE S == Bearing(p[1], p[2])
    <3>1. p \notin Exempt
      BY <2>1 DEF Exempt, TheGoalie
    <3>2. Once(memory[p[1]], p[2])
      BY <1>1, <3>1 DEF Inv, AllOnce
    <3>3. \A i, j \in S : i = j
      BY <3>2 DEF Bearing, Once
    <3> HIDE DEF S
    <3>4. CASE S = {}
      BY <3>4, FS_EmptySet DEF S
    <3>5. ASSUME NEW i \in S PROVE Cardinality(S) <= 1
      <4>1. S = {i}
        BY <3>3, <3>5, Zenon
      <4>2. Cardinality({i}) = 1
        BY FS_Singleton
      <4> QED
        BY <4>1, <4>2
    <3> QED
      BY <3>4, <3>5 DEF S
  <2> QED
    BY <2>1 DEF NumbersUnique
<1> QED
  BY <1>1, AlwaysInv, PTL

\* A player seen by its number in this step is where it was seen, whatever was heard
\* since, unless it is so far away that hearing is trusted more
\* (PlayerObject::updateByHear).
THEOREM SeenIsTrue == Spec => []SeenTrue
<1>1. ASSUME Inv PROVE SeenTrue
  <2>1. ASSUME NEW p \in Players, NEW i \in Bearing(p[1], p[2]), memory[p[1]][i].fresh
        PROVE  memory[p[1]][i].pos = where[p] \/ where[p] > FarDist
    <3>1. p[1] \in Lists /\ p = <<p[1], p[2]>>
      BY ListOf
    <3>2. i \in DOMAIN memory[p[1]] /\ memory[p[1]][i].unum = p[2]
      BY DEF Bearing
    <3>3. Sound(p[1], memory[p[1]][i], where, Exempt)
      BY <1>1, <3>1, <3>2 DEF Inv, AllSound, SoundList
    <3> QED
      BY <2>1, <3>1, <3>2, <3>3 DEF Sound
  <2> QED
    BY <2>1 DEF SeenTrue
<1> QED
  BY <1>1, AlwaysInv, PTL

\* After a see no more are remembered than there can be, unless an unknown player
\* among them is seen now (WorldModel::localizePlayers).
THEOREM NoMoreThanThereAre == Spec => []Bounded
<1>1. Init => Bounded
  BY DEF Init, Bounded
<1>2. Inv /\ Bounded /\ [Next]_vars => Bounded'
  <2> SUFFICES ASSUME Inv, Bounded, [Next]_vars PROVE Bounded'
    OBVIOUS
  <2>1. CASE Step
    BY <2>1, StepOK DEF Bounded
  <2>2. ASSUME NEW view \in Views, See(view) PROVE Bounded'
    BY <2>2, SeeOK
  <2>3. CASE DecideDeaf
    BY <2>3, DeafOK DEF Bounded
  <2>4. ASSUME NEW pos \in Places, TellGoalie(pos) PROVE Bounded'
    BY <2>4, TellGoalieOK DEF Bounded
  <2>5. ASSUME NEW p \in Players, NEW pos \in Places, TellPlayer(p, pos) PROVE Bounded'
    BY <2>5, TellPlayerOK DEF Bounded
  <2>6. CASE UNCHANGED vars
    BY <2>6 DEF vars, Bounded
  <2> QED
    BY <2>1, <2>2, <2>3, <2>4, <2>5, <2>6 DEF Next
<1> QED
  BY <1>1, <1>2, AlwaysInv, PTL DEF Spec

\* Each player that is seen becomes one object, no two of them the same, and only a
\* list full of players seen now and goalies crowds one out (checkTeamPlayer,
\* checkUnknownPlayer, localizePlayers, checkGhost).
THEOREM SeenAreKept == Spec => SeenKept
<1> DEFINE Kept == phase' = "seen" =>
                    \/ SeenNow(memory') = Cardinality(seen')
                    \/ \E l \in {"our", "their"} :
                         /\ Len(memory'[l]) >= IF l = "our" THEN MateMax ELSE OppMax
                         /\ \A o \in ToSet(memory'[l]) : o.goalie \/ o.count = 0
<1>1. Inv /\ [Next]_vars => [Kept]_vars
  <2> SUFFICES ASSUME Inv, [Next]_vars, ~(UNCHANGED vars), phase' = "seen" PROVE Kept
    OBVIOUS
  <2>1. CASE Step
    BY <2>1 DEF Step
  <2>2. ASSUME NEW view \in Views, See(view) PROVE Kept
    BY <2>2, SeeOK
  <2>3. CASE DecideDeaf
    BY <2>3, DeafOK
  <2>4. ASSUME NEW pos \in Places, TellGoalie(pos) PROVE Kept
    BY <2>4, TellGoalieOK
  <2>5. ASSUME NEW p \in Players, NEW pos \in Places, TellPlayer(p, pos) PROVE Kept
    BY <2>5, TellPlayerOK
  <2> QED
    BY <2>1, <2>2, <2>3, <2>4, <2>5 DEF Next
<1>2. Spec => [][Kept]_vars
  BY <1>1, AlwaysInv, PTL DEF Spec
<1> QED
  BY <1>2 DEF SeenKept

=============================================================================
