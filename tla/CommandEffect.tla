---------------------------- MODULE CommandEffect ----------------------------
(***************************************************************************)
(* How a player learns whether its last command was carried out:           *)
(* ActionEffector's command counters against those of sense_body, and the  *)
(* effect WorldModel::update predicts from the last command                *)
(* (lib/rcsc/player/action_effector.cpp, self_object.cpp, world_model.cpp).*)
(*                                                                         *)
(* A command is named by the step in which it was sent; 0 is no command.   *)
(* A datagram may be lost, or reach the server one step late.              *)
(***************************************************************************)
EXTENDS Integers

CONSTANTS
    BodyTypes,      \* the types of body command
    MaxStep,        \* bound on the server's steps
    MaxLostCommand, \* bound on command datagrams that never arrive
    MaxLostSense,   \* bound on sense_body datagrams that never arrive
    MaxLate,        \* bound on command datagrams that arrive a step late
    MaxMissed       \* bound on steps the agent does not decide

ASSUME CommandEffectAssumption ==
    /\ "TURN" \in BodyTypes
    /\ {"TURN_NECK", "ILLEGAL", "NONE"} \cap BodyTypes = {}
    /\ MaxStep \in Nat
    /\ MaxLostCommand \in Nat /\ MaxLostSense \in Nat
    /\ MaxLate \in Nat /\ MaxMissed \in Nat

VARIABLES
    \* the server
    step,       \* its step, from 1
    srv_count,  \* the counters it reports in sense_body
    executed,   \* the body command carried out in the step before this one
    current,    \* the datagram of this step, when it arrives in this step
    underway,   \* the datagram of this step, when it arrives in the next one
    late,       \* the datagram of the step before, when it arrives in this one
    \* the agent
    counter,    \* M_command_counter
    last_type,  \* M_last_body_command_type
    param,      \* the command whose effect is stored for each type
    updated,    \* WorldModel::time() is this step
    decided,    \* last_decision_time_ is this step
    awaiting,   \* the sense_body of this step has not been received yet
    \* history
    checked,    \* the sense_body of this step was received before the update
    applied,    \* the command whose effect this step's update applied
    newest,     \* the newest command whose effect was applied in a step before
    disturbed,  \* something was lost, late or missed in this step
    quiet,      \* steps since such a step
    lost_command, lost_sense, delayed, missed

server == <<step, srv_count, executed, current, underway, late>>
effector == <<counter, last_type, param>>
losses == <<lost_command, lost_sense, delayed, missed>>
vars == <<server, effector, updated, decided, awaiting, checked, applied,
          newest, disturbed, quiet, losses>>

Types == BodyTypes \cup {"TURN_NECK"}

\* A datagram: the body command, if any, and whether the neck turns as well.
Datagram(id, body, dummy, neck) ==
    [id |-> IF dummy THEN 0 ELSE id, body |-> body, neck |-> neck]
Datagrams == [id : Nat, body : BodyTypes \cup {"NONE"}, neck : BOOLEAN]
Nothing == [id |-> 0, body |-> "NONE", neck |-> FALSE]

TypeOK ==
    /\ step \in Nat /\ executed \in Nat
    /\ srv_count \in [Types -> Nat] /\ counter \in [Types -> Nat]
    /\ current \in Datagrams /\ underway \in Datagrams /\ late \in Datagrams
    /\ last_type \in BodyTypes \cup {"ILLEGAL"}
    /\ param \in [BodyTypes -> Nat]
    /\ updated \in BOOLEAN /\ decided \in BOOLEAN
    /\ awaiting \in BOOLEAN /\ checked \in BOOLEAN
    /\ applied \in Nat /\ newest \in Nat
    /\ disturbed \in BOOLEAN /\ quiet \in Nat
    /\ lost_command \in Nat /\ lost_sense \in Nat
    /\ delayed \in Nat /\ missed \in Nat

Init ==
    /\ step = 1
    /\ srv_count = [t \in Types |-> 0] /\ counter = srv_count
    /\ executed = 0
    /\ current = Nothing /\ underway = Nothing /\ late = Nothing
    /\ last_type = "ILLEGAL"
    /\ param = [t \in BodyTypes |-> 0]
    /\ updated = FALSE /\ decided = FALSE /\ awaiting = TRUE
    /\ checked = FALSE
    /\ applied = 0 /\ newest = 0 /\ disturbed = FALSE /\ quiet = 0
    /\ lost_command = 0 /\ lost_sense = 0 /\ delayed = 0 /\ missed = 0

-----------------------------------------------------------------------------
(* The server                                                              *)

\* A step carries out one body command and one turn_neck: those of the first
\* datagram that has one.
Served(first, second) ==
    [id   |-> IF first.body # "NONE" THEN first.id ELSE second.id,
     body |-> IF first.body # "NONE" THEN first.body ELSE second.body,
     neck |-> first.neck \/ second.neck]

Counted(count, done) ==
    [t \in Types |->
        IF t = done.body \/ (t = "TURN_NECK" /\ done.neck)
        THEN count[t] + 1 ELSE count[t]]

ServerStep ==
    /\ step < MaxStep /\ step' = step + 1
    /\ ~awaiting /\ awaiting' = TRUE
    /\ decided \/ missed < MaxMissed
    /\ missed' = IF decided THEN missed ELSE missed + 1
    /\ \E done \in {Served(late, current), Served(current, late)} :
          /\ executed' = done.id
          /\ srv_count' = Counted(srv_count, done)
    /\ current' = Nothing /\ underway' = Nothing /\ late' = underway
    /\ updated' = FALSE /\ decided' = FALSE /\ checked' = FALSE
    /\ newest' = IF applied > newest THEN applied ELSE newest
    /\ applied' = 0
    /\ disturbed' = (underway # Nothing)
    /\ quiet' = IF decided /\ ~disturbed THEN quiet + 1 ELSE 0
    /\ UNCHANGED <<effector, lost_command, lost_sense, delayed>>

LoseSense ==
    /\ awaiting /\ awaiting' = FALSE
    /\ lost_sense < MaxLostSense /\ lost_sense' = lost_sense + 1
    /\ disturbed' = TRUE
    /\ UNCHANGED <<server, effector, updated, decided, checked, applied,
                   newest, quiet, lost_command, delayed, missed>>

-----------------------------------------------------------------------------
(* The agent                                                               *)

\* WorldModel::update, once in a step: SelfObject and BallObject apply the
\* effect stored for the last body command.
Effect == IF last_type = "ILLEGAL" THEN 0 ELSE param[last_type]

Update == updated' = TRUE /\ applied' = IF updated THEN applied ELSE Effect

\* Mutant: only a count the server is ahead of is noticed.
Mismatched_Ahead == { t \in Types : counter[t] < srv_count[t] }

\* checkCommandCount: the types whose counter is not the sensed one.
Mismatched == { t \in Types : counter[t] # srv_count[t] }

TypeAfterCheck ==
    IF Mismatched \cap BodyTypes # {} THEN "ILLEGAL" ELSE last_type

\* Mutants: the counters are compared and never corrected, or the difference
\* is stored.
CountAfterCheck_Kept == counter
CountAfterCheck_Difference == [t \in Types |-> srv_count[t] - counter[t]]

CountAfterCheck == srv_count

\* analyzeSenseBody: checkCommandCount, then updateAfterSenseBody.
SenseBody ==
    /\ awaiting /\ awaiting' = FALSE
    /\ counter' = CountAfterCheck
    /\ last_type' = TypeAfterCheck
    /\ param' = [t \in BodyTypes |-> IF t \in Mismatched THEN 0 ELSE param[t]]
    /\ updated' = TRUE
    /\ applied' = IF updated THEN applied
                  ELSE IF last_type' = "ILLEGAL" THEN 0 ELSE param'[last_type']
    /\ checked' = ~updated
    /\ UNCHANGED <<server, decided, newest, disturbed, quiet, losses>>

\* analyzeSee in a step whose sense_body was lost.
See ==
    /\ ~awaiting /\ ~updated
    /\ Update
    /\ UNCHANGED <<server, effector, decided, awaiting, checked, newest,
                   disturbed, quiet, losses>>

\* The datagram of a decision arrives, is late or is lost.
Transmit(datagram) ==
    \/ current' = datagram /\ UNCHANGED <<underway, lost_command, delayed, disturbed>>
    \/ /\ delayed < MaxLate /\ delayed' = delayed + 1
       /\ underway' = datagram /\ disturbed' = TRUE
       /\ UNCHANGED <<current, lost_command>>
    \/ /\ lost_command < MaxLostCommand /\ lost_command' = lost_command + 1
       /\ disturbed' = TRUE
       /\ UNCHANGED <<current, underway, delayed>>

\* makeCommand: the counters after a body command, or none, and a turn_neck.
\* Without a body command a player that is not frozen sends the dummy turn 0.
MadeCount(body, neck) ==
    [t \in Types |->
        IF t = body \/ (t = "TURN_NECK" /\ neck) THEN counter[t] + 1 ELSE counter[t]]

BodySent(body, frozen) ==
    IF body # "NONE" THEN body ELSE IF frozen THEN "NONE" ELSE "TURN"

\* Mutant: reset() is not called before a decision.
TypeAfterDecision_NoReset(body) == IF body # "NONE" THEN body ELSE last_type

TypeAfterDecision(body) == IF body # "NONE" THEN body ELSE "ILLEGAL"

\* action(): the pending update, ActionEffector::reset, the setter of a body
\* command (which stores its effect) and of a turn_neck, and makeCommand.
Decide(body, neck, frozen) ==
    /\ ~awaiting /\ ~decided /\ decided' = TRUE
    /\ Update
    /\ last_type' = TypeAfterDecision(body)
    /\ param' = [t \in BodyTypes |-> IF t = body THEN step ELSE param[t]]
    /\ counter' = MadeCount(BodySent(body, frozen), neck)
    /\ Transmit(Datagram(step, BodySent(body, frozen), body = "NONE", neck))
    /\ UNCHANGED <<step, srv_count, executed, late, awaiting, checked, newest,
                   quiet, lost_sense, missed>>

Next ==
    \/ ServerStep \/ LoseSense \/ SenseBody \/ See
    \/ \E body \in BodyTypes \cup {"NONE"}, neck, frozen \in BOOLEAN :
          Decide(body, neck, frozen)

Spec == Init /\ [][Next]_vars

-----------------------------------------------------------------------------
(* Properties                                                              *)

\* Whatever commands and sense_body messages are lost, an effect applied after
\* a look at the counters is that of the command the server carried out in the
\* step before, as long as no command has been late and no decision missed.
EffectTrue ==
    checked /\ delayed = 0 /\ missed = 0 /\ applied # 0 => applied = executed

\* If every sense_body has arrived as well, the effect applied is that of the
\* command the server carried out, and no other: none lost, none left out.
EffectExact ==
    checked /\ lost_sense = 0 /\ delayed = 0 /\ missed = 0 => applied = executed

\* Whatever was lost, late or missed, the effects are exact again once
\* nothing has been disturbed for a step.
Heals == checked /\ quiet >= 1 => applied = executed

\* "kicked in last cycle": no command takes effect in the world model twice.
EffectOnce == [][applied' # applied /\ applied' # 0 => applied' > newest]_vars

\* That holds, with any losses and delays, until a decision is missed.
OnceIfDecided ==
    [][missed' = 0 /\ applied' # applied /\ applied' # 0 => applied' > newest]_vars
==============================================================================
