---------------------------- MODULE StepLifecycle ----------------------------
(***************************************************************************)
(* What the durable journal promises for one workflow step, whoever runs   *)
(* it and whatever crashes: a step is claimed once, its handler runs once, *)
(* and its life ends sealed with the outcome the handler produced or in    *)
(* doubt for ever ("NEW: run the handler once and then seal its outcome",  *)
(* "IN_DOUBT: stop", langgraph-governed-execution.md, Recovery semantics). *)
(* ExecutionJournal and GovernedGraph implement it.                        *)
(***************************************************************************)
CONSTANTS Keys, Outcomes, NoOutcome

VARIABLE stage       \* stage[k]: how far the step of key k got

stages == {"unclaimed", "claimed", "ran", "sealed", "in_doubt"}

TypeOK == stage \in [Keys -> [at : stages, outcome : Outcomes \cup {NoOutcome}]]

Init == stage = [k \in Keys |-> [at |-> "unclaimed", outcome |-> NoOutcome]]

Move(k, from, to, o) ==
  /\ stage[k].at \in from
  /\ stage' = [stage EXCEPT ![k] = [at |-> to, outcome |-> o]]

Claim(k)  == Move(k, {"unclaimed"}, "claimed", NoOutcome)
Run(k, o) == Move(k, {"claimed"}, "ran", o)
Seal(k)   == Move(k, {"ran"}, "sealed", stage[k].outcome)

\* The claimant is gone, before or after its handler ran.
Lose(k) == Move(k, {"claimed", "ran"}, "in_doubt", NoOutcome)

Next == \E k \in Keys :
  \/ Claim(k)
  \/ \E o \in Outcomes : Run(k, o)
  \/ Seal(k)
  \/ Lose(k)

Spec == Init /\ [][Next]_stage
=============================================================================
