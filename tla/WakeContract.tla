---------------------------- MODULE WakeContract ----------------------------
(***************************************************************************)
(* What Self-Wake promises for each wake, whatever rows, tasks and         *)
(* companionship sessions are involved: a wake that was left for later is  *)
(* claimed, a claim may be handed back while the model has not been asked, *)
(* and the model is asked at most once, after which nothing is undone.     *)
(***************************************************************************)
CONSTANT Wakes

VARIABLES phase,    \* where each wake stands
          asked     \* how often the model was called for each wake

vars == <<phase, asked>>

Phases == {"none", "pending", "claimed", "called", "closed"}

Edges == { <<"none", "pending">>,
           <<"pending", "claimed">>, <<"pending", "closed">>,
           <<"claimed", "pending">>, <<"claimed", "closed">>,
           <<"claimed", "called">> }

Init ==
    /\ phase = [w \in Wakes |-> "none"]
    /\ asked = [w \in Wakes |-> 0]

(* One transaction may move several wakes, each along one edge. *)
Move ==
    /\ phase' \in [Wakes -> Phases]
    /\ \A w \in Wakes : phase'[w] # phase[w] => <<phase[w], phase'[w]>> \in Edges
    /\ asked' = [w \in Wakes |-> IF phase'[w] = "called" THEN 1 ELSE 0]

Spec == Init /\ [][Move]_vars
=============================================================================
