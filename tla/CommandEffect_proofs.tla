------------------------ MODULE CommandEffect_proofs -------------------------
(***************************************************************************)
(* The counters of sense_body tell a player the truth about its last       *)
(* command, for any set of body commands and any number of lost datagrams, *)
(* until a datagram is late or a decision is missed.                       *)
(***************************************************************************)
EXTENDS CommandEffect, TLAPS

\* BodyTypes holds none of the names used for something else.
LEMMA Names ==
    /\ "TURN" \in BodyTypes /\ "TURN_NECK" \notin BodyTypes
    /\ "ILLEGAL" \notin BodyTypes /\ "NONE" \notin BodyTypes
    /\ BodyTypes \subseteq Types /\ "TURN_NECK" \in Types
BY CommandEffectAssumption DEF Types

-----------------------------------------------------------------------------
(* Type correctness                                                        *)

\* A step serves a body command of one of the two datagrams.
LEMMA ServedType ==
    ASSUME NEW first \in Datagrams, NEW second \in Datagrams
    PROVE  Served(first, second) \in Datagrams
<1>1. /\ first.id \in Nat /\ second.id \in Nat
      /\ first.body \in BodyTypes \cup {"NONE"}
      /\ second.body \in BodyTypes \cup {"NONE"}
      /\ first.neck \in BOOLEAN /\ second.neck \in BOOLEAN
  BY DEF Datagrams
<1>2. (first.neck \/ second.neck) \in BOOLEAN
  BY <1>1, Zenon
<1> DEFINE id == IF first.body # "NONE" THEN first.id ELSE second.id
           body == IF first.body # "NONE" THEN first.body ELSE second.body
           neck == first.neck \/ second.neck
<1>3. id \in Nat /\ body \in BodyTypes \cup {"NONE"}
  BY <1>1
<1>4. neck \in BOOLEAN
  BY <1>2
<1>5. Served(first, second) = [id |-> id, body |-> body, neck |-> neck]
  BY Zenon DEF Served
<1> HIDE DEF id, body, neck
<1> QED
  BY <1>3, <1>4, <1>5 DEF Datagrams

\* What a decision sends is a datagram.
LEMMA SentType ==
    ASSUME TypeOK, NEW body \in BodyTypes \cup {"NONE"},
           NEW neck \in BOOLEAN, NEW frozen \in BOOLEAN
    PROVE  Datagram(step, BodySent(body, frozen), body = "NONE", neck) \in Datagrams
<1>1. BodySent(body, frozen) \in BodyTypes \cup {"NONE"}
  BY Names DEF BodySent
<1>2. (IF body = "NONE" THEN 0 ELSE step) \in Nat
  BY DEF TypeOK
<1> QED
  BY <1>1, <1>2 DEF Datagram, Datagrams

\* Counting keeps the counters natural numbers.
LEMMA CountType ==
    ASSUME TypeOK
    PROVE  /\ \A done \in Datagrams : Counted(srv_count, done) \in [Types -> Nat]
           /\ \A body, neck : MadeCount(body, neck) \in [Types -> Nat]
BY DEF TypeOK, Counted, MadeCount

\* The effect stored for the last command is a step's number.
LEMMA EffectType == ASSUME TypeOK PROVE Effect \in Nat
BY DEF TypeOK, Effect

\* The types hold at the start.
LEMMA InitType == Init => TypeOK
<1> SUFFICES ASSUME Init PROVE TypeOK
  OBVIOUS
<1>1. Nothing \in Datagrams
  BY DEF Nothing, Datagrams
<1>2. srv_count \in [Types -> Nat] /\ counter \in [Types -> Nat]
  BY DEF Init
<1>3. param \in [BodyTypes -> Nat]
  BY DEF Init
<1>4. /\ updated \in BOOLEAN /\ decided \in BOOLEAN /\ awaiting \in BOOLEAN
      /\ checked \in BOOLEAN /\ disturbed \in BOOLEAN
  BY DEF Init
<1> QED
  BY <1>1, <1>2, <1>3, <1>4 DEF Init, TypeOK

\* Every step keeps the types.
LEMMA NextType == TypeOK /\ [Next]_vars => TypeOK'
<1> SUFFICES ASSUME TypeOK, [Next]_vars PROVE TypeOK'
  OBVIOUS
<1>1. CASE ServerStep
  <2>1. PICK done \in {Served(late, current), Served(current, late)} :
            executed' = done.id /\ srv_count' = Counted(srv_count, done)
    BY <1>1 DEF ServerStep
  <2>2. done \in Datagrams
    BY <2>1, ServedType DEF TypeOK
  <2>3. executed' \in Nat
    BY <2>1, <2>2 DEF Datagrams
  <2>4. srv_count' \in [Types -> Nat]
    BY <2>1, <2>2, CountType, Zenon
  <2>5. current' \in Datagrams /\ underway' \in Datagrams /\ late' \in Datagrams
    BY <1>1 DEF ServerStep, TypeOK, Nothing, Datagrams
  <2>6. step' \in Nat /\ missed' \in Nat /\ quiet' \in Nat
    BY <1>1 DEF ServerStep, TypeOK
  <2>7. newest' \in Nat /\ applied' \in Nat
    BY <1>1 DEF ServerStep, TypeOK
  <2>8. /\ updated' \in BOOLEAN /\ decided' \in BOOLEAN /\ awaiting' \in BOOLEAN
        /\ checked' \in BOOLEAN /\ disturbed' \in BOOLEAN
    BY <1>1, Zenon DEF ServerStep
  <2>9. UNCHANGED <<effector, lost_command, lost_sense, delayed>>
    BY <1>1 DEF ServerStep
  <2> QED
    BY <2>3, <2>4, <2>5, <2>6, <2>7, <2>8, <2>9 DEF TypeOK, effector
<1>2. CASE LoseSense
  <2>1. awaiting' \in BOOLEAN /\ disturbed' \in BOOLEAN
    BY <1>2, Zenon DEF LoseSense
  <2> QED
    BY <1>2, <2>1 DEF LoseSense, TypeOK, server, effector
<1>3. CASE SenseBody
  <2>1. /\ updated' \in BOOLEAN /\ awaiting' \in BOOLEAN /\ checked' \in BOOLEAN
    BY <1>3, Zenon DEF SenseBody
  <2>2. counter' \in [Types -> Nat]
    BY <1>3 DEF SenseBody, CountAfterCheck, TypeOK
  <2>3. last_type' \in BodyTypes \cup {"ILLEGAL"}
    BY <1>3 DEF SenseBody, TypeAfterCheck, TypeOK
  <2>4. param' \in [BodyTypes -> Nat]
    BY <1>3 DEF SenseBody, TypeOK
  <2>5. applied' \in Nat
    BY <1>3, <2>3, <2>4 DEF SenseBody, TypeOK
  <2>6. UNCHANGED <<server, decided, newest, disturbed, quiet, losses>>
    BY <1>3 DEF SenseBody
  <2> QED
    BY <2>1, <2>2, <2>3, <2>4, <2>5, <2>6 DEF TypeOK, server, losses
<1>4. CASE See
  <2>1. updated' \in BOOLEAN
    BY <1>4, Zenon DEF See, Update
  <2>2. applied' \in Nat
    BY <1>4, EffectType DEF See, Update, TypeOK
  <2>3. UNCHANGED <<server, effector, decided, awaiting, checked, newest,
                    disturbed, quiet, losses>>
    BY <1>4 DEF See
  <2> QED
    BY <2>1, <2>2, <2>3 DEF TypeOK, server, effector, losses
<1>5. ASSUME NEW body \in BodyTypes \cup {"NONE"}, NEW neck \in BOOLEAN,
             NEW frozen \in BOOLEAN, Decide(body, neck, frozen)
      PROVE  TypeOK'
  <2> DEFINE sent == Datagram(step, BodySent(body, frozen), body = "NONE", neck)
  <2>1. updated' \in BOOLEAN /\ decided' \in BOOLEAN
    BY <1>5, Zenon DEF Decide, Update
  <2>2. applied' \in Nat
    BY <1>5, EffectType DEF Decide, Update, TypeOK
  <2>3. last_type' \in BodyTypes \cup {"ILLEGAL"}
    BY <1>5 DEF Decide, TypeAfterDecision
  <2>4. param' \in [BodyTypes -> Nat]
    BY <1>5 DEF Decide, TypeOK
  <2>5. counter' \in [Types -> Nat]
    BY <1>5, CountType DEF Decide
  <2>6. sent \in Datagrams
    BY SentType
  <2>7. Transmit(sent)
    BY <1>5 DEF Decide
  <2> HIDE DEF sent
  <2>8. /\ current' \in Datagrams /\ underway' \in Datagrams
        /\ lost_command' \in Nat /\ delayed' \in Nat
    BY <2>6, <2>7 DEF Transmit, TypeOK
  <2>9. disturbed' \in BOOLEAN
    BY <2>7, Zenon DEF Transmit, TypeOK
  <2>10. UNCHANGED <<step, srv_count, executed, late, awaiting, checked, newest,
                     quiet, lost_sense, missed>>
    BY <1>5 DEF Decide
  <2> QED
    BY <2>1, <2>2, <2>3, <2>4, <2>5, <2>8, <2>9, <2>10 DEF TypeOK
<1>6. CASE UNCHANGED vars
  BY <1>6 DEF vars, server, effector, losses, TypeOK
<1> QED
  BY <1>1, <1>2, <1>3, <1>4, <1>5, <1>6 DEF Next

\* The counters, the stored commands and the server's step keep their types
\* whatever is lost, late or missed.
THEOREM TypeCorrect == Spec => []TypeOK
<1>1. Init => TypeOK
  BY InitType
<1>2. TypeOK /\ [Next]_vars => TypeOK'
  BY NextType
<1> QED
  BY <1>1, <1>2, PTL DEF Spec

-----------------------------------------------------------------------------
(* No effect twice                                                         *)

\* A command is stored in the step that sends it, its effect is applied in
\* the step after that one, and a decision forgets the command before.
Ordered ==
    /\ missed = 0
    /\ awaiting => ~updated
    /\ decided => updated
    /\ last_type # "ILLEGAL" =>
          param[last_type] = IF decided THEN step ELSE step - 1
    /\ applied < step
    /\ newest # 0 => newest < step - 1

\* Every step keeps the order of commands and effects, and the effect it
\* applies is newer than all before.
LEMMA NextOrdered ==
    ASSUME TypeOK, TypeOK', Ordered, [Next]_vars, missed' = 0
    PROVE  /\ Ordered'
           /\ applied' # applied /\ applied' # 0 => applied' > newest
<1>0. /\ step \in Nat /\ applied \in Nat /\ newest \in Nat
      /\ last_type \in BodyTypes \cup {"ILLEGAL"}
      /\ param \in [BodyTypes -> Nat]
  BY DEF TypeOK
<1>a. ~decided => Effect = 0 \/ Effect = step - 1
  BY DEF Effect, Ordered
<1>1. CASE ServerStep
  <2>1. decided /\ missed' = missed /\ step' = step + 1 /\ ~decided' /\ ~updated'
    BY <1>1 DEF ServerStep, Ordered, TypeOK
  <2>2. UNCHANGED <<last_type, param>> /\ applied' = 0
    BY <1>1 DEF ServerStep, effector
  <2>3. newest' = IF applied > newest THEN applied ELSE newest
    BY <1>1 DEF ServerStep
  <2>4. newest' # 0 => newest' < step' - 1
    BY <1>0, <2>1, <2>3 DEF Ordered
  <2>5. last_type' # "ILLEGAL" => param'[last_type'] = step' - 1
    BY <1>0, <2>1, <2>2 DEF Ordered
  <2>6. applied' < step'
    BY <1>0, <2>1, <2>2
  <2> QED
    BY <2>1, <2>2, <2>4, <2>5, <2>6 DEF Ordered
<1>2. CASE LoseSense
  BY <1>2 DEF LoseSense, Ordered, server, effector
<1>3. CASE SenseBody
  <2>1. awaiting /\ ~awaiting' /\ ~decided /\ ~updated /\ updated'
    BY <1>3 DEF SenseBody, Ordered
  <2>2. UNCHANGED <<step, decided, newest, missed>>
    BY <1>3 DEF SenseBody, server, losses
  <2>3. ASSUME last_type' # "ILLEGAL" PROVE param'[last_type'] = step - 1
    <3>1. last_type' = last_type /\ last_type \in BodyTypes \ Mismatched
      BY <1>0, <1>3, <2>3 DEF SenseBody, TypeAfterCheck
    <3>2. param'[last_type] = param[last_type]
      BY <1>3, <3>1 DEF SenseBody
    <3> QED
      BY <2>1, <2>3, <3>1, <3>2 DEF Ordered
  <2>4. applied' = 0 \/ applied' = step - 1
    BY <1>3, <2>1, <2>3 DEF SenseBody
  <2>5. applied' # 0 => applied' > newest
    BY <1>0, <2>4 DEF Ordered, TypeOK
  <2>6. applied' < step'
    BY <1>0, <2>2, <2>4 DEF Ordered
  <2> QED
    BY <2>1, <2>2, <2>3, <2>5, <2>6 DEF Ordered
<1>4. CASE See
  <2>1. UNCHANGED <<step, last_type, param, decided, newest, missed, awaiting>>
        /\ ~updated /\ updated' /\ ~awaiting
    BY <1>4 DEF See, Update, server, effector, losses
  <2>2. applied' = Effect /\ ~decided
    BY <1>4 DEF See, Update, Ordered
  <2> QED
    BY <1>0, <1>a, <2>1, <2>2 DEF Ordered
<1>5. ASSUME NEW body \in BodyTypes \cup {"NONE"}, NEW neck \in BOOLEAN,
             NEW frozen \in BOOLEAN, Decide(body, neck, frozen)
      PROVE  /\ Ordered'
             /\ applied' # applied /\ applied' # 0 => applied' > newest
  <2>1. /\ UNCHANGED <<step, newest, missed, awaiting>> /\ ~awaiting
        /\ ~decided /\ decided' /\ updated'
    BY <1>5 DEF Decide, Update
  <2>2. applied' = applied \/ applied' = 0 \/ applied' = step - 1
    BY <1>5, <1>a, <2>1 DEF Decide, Update
  <2>3. last_type' # "ILLEGAL" => param'[last_type'] = step'
    BY <1>5, <2>1, Names DEF Decide, TypeAfterDecision
  <2>4. applied' # applied /\ applied' # 0 => applied' > newest
    BY <1>0, <2>2 DEF Ordered, TypeOK
  <2>5. applied' < step'
    BY <1>0, <2>1, <2>2 DEF Ordered
  <2> QED
    BY <2>1, <2>3, <2>4, <2>5 DEF Ordered
<1>6. CASE UNCHANGED vars
  BY <1>6 DEF vars, server, effector, losses, Ordered
<1> QED
  BY <1>1, <1>2, <1>3, <1>4, <1>5, <1>6 DEF Next

\* A missed decision and a late datagram are not forgotten.
LEMMA Monotone ==
    ASSUME TypeOK, [Next]_vars
    PROVE  (missed' = 0 => missed = 0) /\ (delayed' = 0 => delayed = 0)
<1>0. missed \in Nat /\ delayed \in Nat
  BY DEF TypeOK
<1>1. CASE ServerStep
  BY <1>0, <1>1 DEF ServerStep
<1>2. CASE LoseSense
  BY <1>2 DEF LoseSense
<1>3. CASE SenseBody
  BY <1>3 DEF SenseBody, losses
<1>4. CASE See
  BY <1>4 DEF See, losses
<1>5. ASSUME NEW body \in BodyTypes \cup {"NONE"}, NEW neck \in BOOLEAN,
             NEW frozen \in BOOLEAN, Decide(body, neck, frozen)
      PROVE  (missed' = 0 => missed = 0) /\ (delayed' = 0 => delayed = 0)
  BY <1>0, <1>5 DEF Decide, Transmit
<1>6. CASE UNCHANGED vars
  BY <1>6 DEF vars, losses
<1> QED
  BY <1>1, <1>2, <1>3, <1>4, <1>5, <1>6 DEF Next

\* Until a decision is missed, no command takes effect in the world model
\* twice, whatever is lost or late: action() resets the last command before
\* each decision.
THEOREM OnceWhenDecided == Spec => OnceIfDecided
<1> DEFINE OrderedIf == missed = 0 => Ordered
<1>1. Init => OrderedIf
  BY DEF Init, Ordered
<1>2. TypeOK /\ TypeOK' /\ OrderedIf /\ [Next]_vars => OrderedIf'
  BY NextOrdered, Monotone
<1>3. TypeOK /\ TypeOK' /\ OrderedIf /\ [Next]_vars =>
        [missed' = 0 /\ applied' # applied /\ applied' # 0 => applied' > newest]_vars
  BY NextOrdered, Monotone
<1> HIDE DEF OrderedIf
<1> QED
  BY <1>1, <1>2, <1>3, TypeCorrect, PTL DEF Spec, OnceIfDecided

-----------------------------------------------------------------------------
(* True effects                                                            *)

\* One datagram at most is under way: that of this step's decision.
OneDatagram ==
    /\ underway = Nothing /\ late = Nothing /\ delayed = 0
    /\ ~decided => current = Nothing
    /\ current.body = "NONE" => current.id = 0

\* The datagram on its way makes the server count t.
Pending(t) == t = current.body \/ (t = "TURN_NECK" /\ current.neck)

\* The agent has counted whatever the server has counted or will count.
CountsAhead ==
    \A t \in Types :
        /\ counter[t] >= srv_count[t]
        /\ Pending(t) => counter[t] > srv_count[t]

\* The last command is on its way to the server, or was carried out, or the
\* agent has counted more commands of its type than the server ever will
\* before the next comparison.
LastCommand ==
    last_type # "ILLEGAL" =>
        /\ decided => \/ current.body = last_type /\ current.id = param[last_type]
                      \/ /\ current.body # last_type
                         /\ counter[last_type] > srv_count[last_type]
        /\ ~decided => \/ executed = param[last_type]
                       \/ counter[last_type] > srv_count[last_type]

\* The effect applied after a comparison is the true one.
Truth == checked /\ applied # 0 => applied = executed

\* Truth holds from the comparison until the next step.
IInv ==
    /\ OneDatagram /\ CountsAhead /\ LastCommand
    /\ checked => updated
    /\ Truth

\* Nothing is known of any command at the start.
LEMMA InitInv == Init => IInv
<1> SUFFICES ASSUME Init PROVE IInv
  OBVIOUS
<1>1. OneDatagram
  BY DEF OneDatagram, Init, Nothing
<1>2. CountsAhead
  <2> SUFFICES ASSUME NEW t \in Types
               PROVE  counter[t] >= srv_count[t] /\ ~Pending(t)
    BY DEF CountsAhead
  <2>1. counter[t] = 0 /\ srv_count[t] = 0
    BY DEF Init
  <2>2. ~Pending(t)
    BY Names DEF Pending, Init, Nothing, Types
  <2> QED
    BY <2>1, <2>2
<1> QED
  BY <1>1, <1>2 DEF IInv, LastCommand, Truth, Init

\* The one datagram of a step is what the server carries out.
LEMMA ServedCurrent ==
    ASSUME late = Nothing, current.body = "NONE" => current.id = 0,
           current \in Datagrams,
           NEW done \in {Served(late, current), Served(current, late)}
    PROVE  /\ done.id = current.id /\ done.body = current.body
           /\ done.neck = current.neck
<1>1. late.body = "NONE" /\ late.neck = FALSE /\ late.id = 0
  BY DEF Nothing
<1>2. current.neck \in BOOLEAN
  BY DEF Datagrams
<1>3. CASE done = Served(late, current)
  BY <1>1, <1>2, <1>3 DEF Served
<1>4. CASE done = Served(current, late)
  <2>1. CASE current.body # "NONE"
    BY <1>1, <1>2, <1>4, <2>1 DEF Served
  <2>2. CASE current.body = "NONE"
    BY <1>1, <1>2, <1>4, <2>2 DEF Served
  <2> QED
    BY <2>1, <2>2
<1> QED
  BY <1>3, <1>4

\* The server's step: the pending datagram is counted and carried out.
LEMMA ServerStepInv ==
    ASSUME TypeOK, Ordered, IInv, ServerStep, missed' = 0
    PROVE  IInv'
<1>1. decided /\ ~decided' /\ ~checked' /\ ~updated'
  BY DEF ServerStep, Ordered, TypeOK
<1>2. PICK done \in {Served(late, current), Served(current, late)} :
          executed' = done.id /\ srv_count' = Counted(srv_count, done)
  BY DEF ServerStep
<1>3. done.id = current.id /\ done.body = current.body /\ done.neck = current.neck
  BY <1>2, ServedCurrent DEF IInv, OneDatagram, TypeOK
<1>4. current' = Nothing /\ underway' = Nothing /\ late' = Nothing
      /\ delayed' = delayed /\ UNCHANGED <<counter, last_type, param>>
  BY DEF ServerStep, IInv, OneDatagram, effector
<1>5. ASSUME NEW t \in Types
      PROVE  /\ srv_count'[t] = IF Pending(t) THEN srv_count[t] + 1 ELSE srv_count[t]
             /\ counter[t] \in Nat /\ srv_count[t] \in Nat
  BY <1>2, <1>3 DEF Counted, Pending, TypeOK
<1>6. OneDatagram'
  BY <1>1, <1>4 DEF OneDatagram, IInv, Nothing
<1>7. CountsAhead'
  <2> SUFFICES ASSUME NEW t \in Types
               PROVE  counter[t] >= srv_count'[t] /\ ~Pending(t)'
    BY <1>4 DEF CountsAhead
  <2>1. ~Pending(t)'
    BY <1>4, Names DEF Pending, Nothing, Types
  <2>2. counter[t] >= srv_count'[t]
    BY <1>5 DEF IInv, CountsAhead
  <2> QED
    BY <2>1, <2>2
<1>8. LastCommand'
  <2> SUFFICES ASSUME last_type # "ILLEGAL"
               PROVE  executed' = param[last_type]
                      \/ counter[last_type] > srv_count'[last_type]
    BY <1>1, <1>4 DEF LastCommand
  <2>1. last_type \in BodyTypes /\ last_type \in Types /\ last_type # "TURN_NECK"
    BY Names DEF TypeOK
  <2>2. CASE current.body = last_type /\ current.id = param[last_type]
    BY <1>2, <1>3, <2>2
  <2>3. CASE current.body # last_type /\ counter[last_type] > srv_count[last_type]
    BY <1>5, <2>1, <2>3 DEF Pending
  <2> QED
    BY <1>1, <2>2, <2>3 DEF IInv, LastCommand
<1> QED
  BY <1>1, <1>6, <1>7, <1>8 DEF IInv, Truth

\* The comparison: a command whose counter agrees was carried out.
LEMMA SenseBodyInv ==
    ASSUME TypeOK, Ordered, IInv, SenseBody
    PROVE  IInv'
<1>1. ~decided /\ ~updated /\ current = Nothing /\ updated'
      /\ UNCHANGED <<server, decided, delayed>>
  BY DEF SenseBody, Ordered, IInv, OneDatagram, losses
<1>2. counter' = srv_count' /\ srv_count' \in [Types -> Nat]
  BY DEF SenseBody, CountAfterCheck, server, TypeOK
<1>3. ASSUME last_type' # "ILLEGAL"
      PROVE  param'[last_type'] = executed /\ last_type' \in BodyTypes
  <2>1. last_type' = last_type /\ last_type \in BodyTypes \ Mismatched
    BY <1>3 DEF SenseBody, TypeAfterCheck, TypeOK
  <2>2. counter[last_type] = srv_count[last_type]
    BY <2>1, Names DEF Mismatched
  <2>3. srv_count[last_type] \in Nat
    BY <2>1, Names DEF TypeOK
  <2>4. executed = param[last_type]
    BY <1>1, <1>3, <2>1, <2>2, <2>3 DEF IInv, LastCommand
  <2>5. param'[last_type] = param[last_type]
    BY <2>1 DEF SenseBody
  <2> QED
    BY <2>1, <2>4, <2>5
<1>4. OneDatagram'
  BY <1>1 DEF OneDatagram, IInv, server, Nothing
<1>5. CountsAhead'
  <2> SUFFICES ASSUME NEW t \in Types
               PROVE  counter'[t] >= srv_count'[t] /\ ~Pending(t)'
    BY DEF CountsAhead
  <2>1. ~Pending(t)'
    BY <1>1, Names DEF Pending, Nothing, Types, server
  <2> QED
    BY <1>2, <2>1
<1>6. LastCommand'
  BY <1>1, <1>3 DEF LastCommand, server
<1>7. Truth'
  BY <1>1, <1>3 DEF Truth, SenseBody, server
<1> QED
  BY <1>1, <1>4, <1>5, <1>6, <1>7 DEF IInv

\* A decision: what it sends is counted, stored and on its way, or lost.
LEMMA DecideInv ==
    ASSUME TypeOK, Ordered, IInv, delayed' = 0,
           NEW body \in BodyTypes \cup {"NONE"}, NEW neck \in BOOLEAN,
           NEW frozen \in BOOLEAN, Decide(body, neck, frozen)
    PROVE  IInv'
<1> DEFINE act == BodySent(body, frozen)
           sent == Datagram(step, act, body = "NONE", neck)
<1>1. ~decided /\ decided' /\ updated' /\ current = Nothing
      /\ UNCHANGED <<srv_count, executed, late, checked, step>>
  BY DEF Decide, Update, IInv, OneDatagram
<1>2. act \in BodyTypes \cup {"NONE"} /\ (body # "NONE" => act = body)
  BY Names DEF BodySent
<1>3. /\ sent.body = act /\ sent.neck = neck
      /\ body = "NONE" => sent.id = 0
      /\ body # "NONE" => sent.id = step
  BY DEF Datagram
<1>4. /\ current' = sent \/ current' = Nothing
      /\ underway' = underway /\ delayed' = delayed
  BY <1>1 DEF Decide, Transmit, IInv, OneDatagram
<1>5. counter' = MadeCount(act, neck)
  BY DEF Decide
<1> HIDE DEF act, sent
<1>6. ASSUME NEW t \in Types
      PROVE  /\ counter'[t] = IF t = act \/ (t = "TURN_NECK" /\ neck)
                              THEN counter[t] + 1 ELSE counter[t]
             /\ counter[t] \in Nat /\ srv_count[t] \in Nat
             /\ counter[t] >= srv_count[t]
  BY <1>5, <1>6 DEF MadeCount, TypeOK, IInv, CountsAhead
<1>7. OneDatagram'
  <2>1. current'.body = "NONE" => current'.id = 0
    BY <1>2, <1>3, <1>4 DEF Nothing
  <2> QED
    BY <1>1, <1>4, <2>1 DEF OneDatagram, IInv, Nothing
<1>8. CountsAhead'
  <2> SUFFICES ASSUME NEW t \in Types
               PROVE  /\ counter'[t] >= srv_count[t]
                      /\ Pending(t)' => counter'[t] > srv_count[t]
    BY <1>1 DEF CountsAhead
  <2>1. Pending(t)' => t = act \/ (t = "TURN_NECK" /\ neck)
    BY <1>3, <1>4, Names DEF Pending, Nothing, Types
  <2> QED
    BY <1>6, <2>1
<1>9. LastCommand'
  <2> SUFFICES ASSUME last_type' # "ILLEGAL"
               PROVE  \/ /\ current'.body = last_type'
                         /\ current'.id = param'[last_type']
                      \/ /\ current'.body # last_type'
                         /\ counter'[last_type'] > srv_count[last_type']
    BY <1>1 DEF LastCommand
  <2>1. last_type' = body /\ body \in BodyTypes /\ body \in Types /\ act = body
    BY <1>2, Names DEF Decide, TypeAfterDecision
  <2>2. param'[body] = step
    BY <2>1 DEF Decide
  <2>3. CASE current' = sent
    BY <1>3, <2>1, <2>2, <2>3, Names
  <2>4. CASE current' = Nothing
    BY <1>6, <2>1, <2>4, Names DEF Nothing
  <2> QED
    BY <1>4, <2>3, <2>4
<1>10. Truth'
  BY <1>1 DEF Truth, IInv, Decide, Update
<1> QED
  BY <1>1, <1>7, <1>8, <1>9, <1>10 DEF IInv

\* Every step keeps the counters' truth.
LEMMA NextInv ==
    ASSUME TypeOK, Ordered, IInv, [Next]_vars, missed' = 0, delayed' = 0
    PROVE  IInv'
<1> USE DEF IInv, OneDatagram, CountsAhead, LastCommand, Truth, Pending
<1>1. CASE LoseSense
  BY <1>1 DEF LoseSense, server, effector
<1>2. CASE See
  BY <1>2 DEF See, Update, server, effector, losses
<1>3. CASE UNCHANGED vars
  BY <1>3 DEF vars, server, effector, losses
<1> QED
  BY <1>1, <1>2, <1>3, ServerStepInv, SenseBodyInv, DecideInv DEF Next

\* As long as commands arrive in their step or never and every step is
\* decided, checkCommandCount never lets the world model apply, after a
\* comparison, the effect of a command the server did not carry out in the
\* step before: for any number of lost commands and lost sense_body messages.
THEOREM TrueWhenInTime == Spec => []EffectTrue
<1> DEFINE OrderedIf == missed = 0 => Ordered
           TrueIf == missed = 0 /\ delayed = 0 => IInv
<1>1. Init => OrderedIf /\ TrueIf
  BY InitInv DEF Init, Ordered
<1>2. TypeOK /\ TypeOK' /\ OrderedIf /\ TrueIf /\ [Next]_vars
        => OrderedIf' /\ TrueIf'
  BY NextOrdered, NextInv, Monotone
<1>3. TrueIf => EffectTrue
  BY DEF IInv, Truth, EffectTrue
<1> HIDE DEF OrderedIf, TrueIf
<1> QED
  BY <1>1, <1>2, <1>3, TypeCorrect, PTL DEF Spec

-----------------------------------------------------------------------------
(* Exact effects                                                           *)

\* The counters of the body commands agree.
Agree == \A t \in BodyTypes : counter[t] = srv_count[t]

\* With every sense_body received, a command that the server is to carry out,
\* or has carried out, is the agent's last one, and no other is counted.
Exact ==
    /\ ~awaiting /\ ~decided => Agree
    /\ decided /\ current.id # 0 =>
          /\ last_type = current.body /\ last_type # "ILLEGAL"
          /\ param[last_type] = current.id
          /\ \A t \in BodyTypes :
                counter[t] = IF t = current.body THEN srv_count[t] + 1 ELSE srv_count[t]
    /\ awaiting /\ executed # 0 =>
          last_type # "ILLEGAL" /\ param[last_type] = executed /\ Agree
    /\ checked => applied = executed

\* A sense_body that was lost is not forgotten.
LEMMA SenseMonotone ==
    ASSUME TypeOK, [Next]_vars, lost_sense' = 0
    PROVE  lost_sense = 0 /\ ~LoseSense
<1>0. lost_sense \in Nat
  BY DEF TypeOK
<1>1. LoseSense => FALSE
  BY <1>0 DEF LoseSense
<1>2. ASSUME ServerStep \/ SenseBody \/ See \/ UNCHANGED vars
      PROVE  lost_sense = 0
  BY <1>2 DEF ServerStep, SenseBody, See, vars, losses
<1>3. ASSUME NEW body \in BodyTypes \cup {"NONE"}, NEW neck \in BOOLEAN,
             NEW frozen \in BOOLEAN, Decide(body, neck, frozen)
      PROVE  lost_sense = 0
  BY <1>3 DEF Decide
<1> QED
  BY <1>1, <1>2, <1>3 DEF Next

\* Every step keeps the effects exact.
LEMMA NextExact ==
    ASSUME TypeOK, Ordered, IInv, Exact, [Next]_vars,
           missed' = 0, delayed' = 0, lost_sense' = 0
    PROVE  Exact'
<1>0. ~LoseSense
  BY SenseMonotone
<1>1. CASE ServerStep
  <2>1. /\ decided /\ ~decided' /\ awaiting' /\ ~checked'
        /\ UNCHANGED <<counter, last_type, param>>
    BY <1>1 DEF ServerStep, Ordered, TypeOK, effector
  <2>2. PICK done \in {Served(late, current), Served(current, late)} :
            executed' = done.id /\ srv_count' = Counted(srv_count, done)
    BY <1>1 DEF ServerStep
  <2>3. done.id = current.id /\ done.body = current.body
    BY <2>2, ServedCurrent DEF IInv, OneDatagram, TypeOK
  <2>4. ASSUME NEW t \in BodyTypes
        PROVE  srv_count'[t] = IF t = current.body THEN srv_count[t] + 1 ELSE srv_count[t]
    BY <2>2, <2>3, Names DEF Counted
  <2>5. executed' # 0 =>
            last_type # "ILLEGAL" /\ param[last_type] = executed' /\ Agree'
    BY <2>1, <2>2, <2>3, <2>4 DEF Exact, Agree
  <2> QED
    BY <2>1, <2>5 DEF Exact
<1>2. CASE SenseBody
  <2>1. /\ awaiting /\ ~awaiting' /\ ~decided /\ ~updated /\ ~decided'
        /\ UNCHANGED executed
    BY <1>2 DEF SenseBody, Ordered, server
  <2>2. Agree'
    BY <1>2, Names DEF SenseBody, CountAfterCheck, Agree, server
  <2>3. applied' = executed
    <3>1. CASE executed = 0
      BY <1>2, <2>1, <3>1, SenseBodyInv DEF IInv, Truth, SenseBody
    <3>2. CASE executed # 0
      <4>1. last_type # "ILLEGAL" /\ param[last_type] = executed /\ Agree
        BY <2>1, <3>2 DEF Exact
      <4>2. Mismatched \cap BodyTypes = {} /\ last_type \in BodyTypes
        BY <4>1 DEF Mismatched, Agree, TypeOK
      <4>3. last_type' = last_type /\ param'[last_type] = param[last_type]
        BY <1>2, <4>2 DEF SenseBody, TypeAfterCheck
      <4> QED
        BY <1>2, <2>1, <4>1, <4>3 DEF SenseBody
    <3> QED
      BY <3>1, <3>2
  <2> QED
    BY <2>1, <2>2, <2>3 DEF Exact
<1>3. CASE See
  BY <1>3 DEF See, Update, server, effector, Exact, Agree, IInv
<1>4. ASSUME NEW body \in BodyTypes \cup {"NONE"}, NEW neck \in BOOLEAN,
             NEW frozen \in BOOLEAN, Decide(body, neck, frozen)
      PROVE  Exact'
  <2> DEFINE act == BodySent(body, frozen)
             sent == Datagram(step, act, body = "NONE", neck)
  <2>1. /\ ~awaiting /\ ~awaiting' /\ ~decided /\ decided' /\ current = Nothing
        /\ UNCHANGED <<srv_count, executed, checked>>
    BY <1>4 DEF Decide, IInv, OneDatagram
  <2>2. /\ body # "NONE" => act = body
        /\ sent.body = act
        /\ body = "NONE" => sent.id = 0
        /\ body # "NONE" => sent.id = step
    BY DEF BodySent, Datagram
  <2>3. current' = sent \/ current' = Nothing
    BY <1>4, <2>1 DEF Decide, Transmit
  <2>4. counter' = MadeCount(act, neck)
    BY <1>4 DEF Decide
  <2> HIDE DEF act, sent
  <2>5. ASSUME current'.id # 0
        PROVE  /\ last_type' = current'.body /\ last_type' # "ILLEGAL"
               /\ param'[last_type'] = current'.id
               /\ \A t \in BodyTypes :
                     counter'[t] = IF t = current'.body
                                   THEN srv_count[t] + 1 ELSE srv_count[t]
    <3>1. current' = sent /\ body \in BodyTypes /\ act = body /\ sent.id = step
      BY <2>2, <2>3, <2>5 DEF Nothing
    <3>2. last_type' = body /\ param'[body] = step /\ body # "ILLEGAL"
      BY <1>4, <3>1, Names DEF Decide, TypeAfterDecision
    <3>3. ASSUME NEW t \in BodyTypes
          PROVE  counter'[t] = IF t = body THEN srv_count[t] + 1 ELSE srv_count[t]
      BY <2>1, <2>4, <3>1, Names DEF MadeCount, Exact, Agree
    <3> QED
      BY <2>2, <3>1, <3>2, <3>3
  <2>6. checked => applied' = applied
    BY <1>4 DEF Decide, Update, IInv
  <2> QED
    BY <2>1, <2>5, <2>6 DEF Exact
<1>5. CASE UNCHANGED vars
  BY <1>5 DEF vars, server, effector, Exact, Agree
<1> QED
  BY <1>0, <1>1, <1>2, <1>3, <1>4, <1>5 DEF Next

\* With every sense_body received, every command in its step or lost and every
\* step decided, the effect the world model applies is that of the command
\* carried out, and none when none was: no command is taken for lost that was
\* not, whatever turn_necks and dummy turns are counted beside it.
THEOREM ExactWhenSensed == Spec => []EffectExact
<1> DEFINE OrderedIf == missed = 0 => Ordered
           TrueIf == missed = 0 /\ delayed = 0 => IInv
           ExactIf == missed = 0 /\ delayed = 0 /\ lost_sense = 0 => Exact
<1>1. Init => OrderedIf /\ TrueIf /\ ExactIf
  BY InitInv DEF Init, Ordered, Exact
<1>2. TypeOK /\ TypeOK' /\ OrderedIf /\ TrueIf /\ [Next]_vars
        => OrderedIf' /\ TrueIf'
  BY NextOrdered, NextInv, Monotone
<1>3. TypeOK /\ TypeOK' /\ OrderedIf /\ TrueIf /\ ExactIf /\ [Next]_vars => ExactIf'
  BY NextExact, Monotone, SenseMonotone
<1>4. ExactIf => EffectExact
  BY DEF Exact, EffectExact
<1> HIDE DEF OrderedIf, TrueIf, ExactIf
<1> QED
  BY <1>1, <1>2, <1>3, <1>4, TypeCorrect, PTL DEF Spec

-----------------------------------------------------------------------------
(* Healing                                                                 *)

\* An undisturbed step leaves the agent's counters and its last command in
\* agreement with the server's, whatever happened before it.
Healed ==
    /\ awaiting => ~updated /\ ~decided
    /\ checked => updated
    /\ ~decided => current = Nothing /\ underway = Nothing
    /\ current.body = "NONE" => current.id = 0
    /\ ~disturbed => late = Nothing /\ underway = Nothing
    /\ ~disturbed /\ ~awaiting /\ ~decided => Agree
    /\ ~disturbed /\ decided =>
          /\ current.id = Effect
          /\ \A t \in BodyTypes :
                counter[t] = IF t = current.body THEN srv_count[t] + 1 ELSE srv_count[t]
    /\ awaiting /\ quiet >= 1 => executed = Effect /\ Agree
    /\ Heals

\* Every step keeps what an undisturbed step has mended.
LEMMA NextHealed == TypeOK /\ Healed /\ [Next]_vars => Healed'
<1> SUFFICES ASSUME TypeOK, Healed, [Next]_vars PROVE Healed'
  OBVIOUS
<1>1. CASE ServerStep
  <2>1. /\ ~decided' /\ awaiting' /\ ~checked' /\ ~updated'
        /\ current' = Nothing /\ underway' = Nothing /\ late' = underway
        /\ disturbed' = (underway # Nothing)
        /\ UNCHANGED <<counter, last_type, param>>
    BY <1>1 DEF ServerStep, effector
  <2>2. quiet' = IF decided /\ ~disturbed THEN quiet + 1 ELSE 0
    BY <1>1 DEF ServerStep
  <2>3. PICK done \in {Served(late, current), Served(current, late)} :
            executed' = done.id /\ srv_count' = Counted(srv_count, done)
    BY <1>1 DEF ServerStep
  <2>4. ASSUME quiet' >= 1 PROVE executed' = Effect' /\ Agree'
    <3>1. decided /\ ~disturbed
      BY <2>2, <2>4
    <3>2. done.id = current.id /\ done.body = current.body
      BY <2>3, <3>1, ServedCurrent DEF Healed, TypeOK
    <3>3. ASSUME NEW t \in BodyTypes
          PROVE  srv_count'[t] = IF t = current.body THEN srv_count[t] + 1 ELSE srv_count[t]
      BY <2>3, <3>2, Names DEF Counted
    <3>4. Agree'
      BY <2>1, <3>1, <3>3 DEF Healed, Agree
    <3>5. Effect' = Effect
      BY <2>1 DEF Effect
    <3> QED
      BY <2>3, <3>1, <3>2, <3>4, <3>5 DEF Healed
  <2>5. current'.body = "NONE" => current'.id = 0
    BY <2>1 DEF Nothing
  <2>6. ~disturbed' => late' = Nothing
    BY <2>1, Zenon
  <2> QED
    BY <2>1, <2>4, <2>5, <2>6 DEF Healed, Heals
<1>2. CASE LoseSense
  <2>1. /\ awaiting /\ ~awaiting' /\ disturbed'
        /\ UNCHANGED <<updated, decided, checked, current, underway, applied,
                       executed, quiet>>
    BY <1>2 DEF LoseSense, server
  <2> QED
    BY <2>1 DEF Healed, Heals
<1>3. CASE SenseBody
  <2>1. /\ awaiting /\ ~awaiting' /\ ~decided /\ ~updated /\ ~decided' /\ updated'
        /\ UNCHANGED <<current, underway, late, executed, disturbed, quiet>>
    BY <1>3 DEF SenseBody, Healed, server
  <2>2. Agree'
    BY <1>3, Names DEF SenseBody, CountAfterCheck, Agree, server
  <2>3. ASSUME quiet >= 1 PROVE applied' = executed
    <3>1. executed = Effect /\ Agree
      BY <2>1, <2>3 DEF Healed
    <3>2. Mismatched \cap BodyTypes = {}
      BY <3>1 DEF Mismatched, Agree
    <3>3. last_type' = last_type
      BY <1>3, <3>2 DEF SenseBody, TypeAfterCheck
    <3>4. last_type # "ILLEGAL" => param'[last_type] = param[last_type]
      BY <1>3, <3>2 DEF SenseBody, TypeOK
    <3> QED
      BY <1>3, <2>1, <3>1, <3>3, <3>4 DEF SenseBody, Effect
  <2> QED
    BY <2>1, <2>2, <2>3 DEF Healed, Heals
<1>4. CASE See
  <2>1. /\ ~checked /\ ~checked' /\ updated' /\ ~awaiting /\ ~awaiting'
        /\ UNCHANGED <<decided, current, underway, late, disturbed, counter,
                       srv_count, last_type, param>>
    BY <1>4 DEF See, Update, server, effector, Healed
  <2> QED
    BY <2>1 DEF Healed, Heals, Agree, Effect
<1>5. ASSUME NEW body \in BodyTypes \cup {"NONE"}, NEW neck \in BOOLEAN,
             NEW frozen \in BOOLEAN, Decide(body, neck, frozen)
      PROVE  Healed'
  <2> DEFINE act == BodySent(body, frozen)
             sent == Datagram(step, act, body = "NONE", neck)
  <2>1. /\ ~awaiting /\ ~awaiting' /\ ~decided /\ decided' /\ updated'
        /\ current = Nothing /\ underway = Nothing
        /\ UNCHANGED <<srv_count, executed, checked, late, quiet>>
    BY <1>5 DEF Decide, Update, Healed
  <2>2. /\ body # "NONE" => act = body
        /\ sent.body = act
        /\ sent.id = IF body = "NONE" THEN 0 ELSE step
    BY DEF BodySent, Datagram
  <2>3. Transmit(sent)
    BY <1>5 DEF Decide
  <2>4. counter' = MadeCount(act, neck)
    BY <1>5 DEF Decide
  <2>5. Effect' = IF body = "NONE" THEN 0 ELSE step
    <3>1. last_type' = IF body = "NONE" THEN "ILLEGAL" ELSE body
      BY <1>5 DEF Decide, TypeAfterDecision
    <3>2. body # "NONE" => body # "ILLEGAL" /\ param'[body] = step
      BY <1>5, Names DEF Decide
    <3> QED
      BY <3>1, <3>2 DEF Effect
  <2>6. checked => applied' = applied
    BY <1>5 DEF Decide, Update, Healed
  <2> HIDE DEF act, sent
  <2>7. current'.body = "NONE" => current'.id = 0
    BY <2>1, <2>2, <2>3 DEF Transmit, Nothing
  <2>8. ASSUME ~disturbed'
        PROVE  /\ late' = Nothing /\ underway' = Nothing
               /\ current'.id = Effect'
               /\ \A t \in BodyTypes :
                     counter'[t] = IF t = current'.body
                                   THEN srv_count[t] + 1 ELSE srv_count[t]
    <3>1. current' = sent /\ ~disturbed /\ underway' = underway
      BY <2>3, <2>8 DEF Transmit
    <3>2. \A t \in BodyTypes : counter[t] = srv_count[t]
      BY <2>1, <3>1 DEF Healed, Agree
    <3>3. ASSUME NEW t \in BodyTypes
          PROVE  counter'[t] = IF t = act THEN srv_count[t] + 1 ELSE srv_count[t]
      BY <2>4, <3>2, Names DEF MadeCount
    <3> QED
      BY <2>1, <2>2, <2>5, <3>1, <3>3 DEF Healed
  <2> QED
    BY <2>1, <2>6, <2>7, <2>8 DEF Healed, Heals
<1>6. CASE UNCHANGED vars
  BY <1>6 DEF vars, server, effector, Healed, Heals, Agree, Effect
<1> QED
  BY <1>1, <1>2, <1>3, <1>4, <1>5, <1>6 DEF Next

\* checkCommandCount stores what the server reports, so one undisturbed step
\* makes the effects exact again, whatever was lost, late or missed before,
\* and for how long.
THEOREM HealsInOneStep == Spec => []Heals
<1>1. Init => Healed
  BY DEF Init, Healed, Heals, Nothing, Agree, Effect
<1>2. Healed => Heals
  BY DEF Healed
<1> QED
  BY <1>1, <1>2, NextHealed, TypeCorrect, PTL DEF Spec
==============================================================================
