---------------------------- MODULE DecisionCycle ----------------------------
(***************************************************************************)
(* What a player promises the server, whatever messages it gets and when:  *)
(* one decision in every simulation step it hears of, never a second one,  *)
(* until it takes its leave.  PlayerLoop implements this specification.    *)
(***************************************************************************)
EXTENDS Naturals

VARIABLES
    step,   \* the newest simulation step the player has heard of
    acts,   \* decisions made in it
    up      \* the player has not taken its leave

vars == <<step, acts, up>>

Init == step = 0 /\ acts = 0 /\ up = TRUE

NewStep ==
    /\ up
    /\ step' \in Nat /\ step' > step
    /\ acts' = 0
    /\ UNCHANGED up

Decide ==
    /\ up
    /\ step > 0
    /\ acts = 0 /\ acts' = 1
    /\ UNCHANGED <<step, up>>

Leave ==
    /\ up /\ up' = FALSE
    /\ step' = step
    /\ acts' \in {acts, 1}

Next == NewStep \/ Decide \/ Leave

Spec == Init /\ [][Next]_vars /\ WF_vars(Decide)
==============================================================================
