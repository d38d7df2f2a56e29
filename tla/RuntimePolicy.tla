---------------------------- MODULE RuntimePolicy ----------------------------
(***************************************************************************)
(* The fail-closed policy (policy.py) over the contracts of models.py, as  *)
(* functions.  Both runtimes use it: GovernedRuntime (CoreRuntime) and the *)
(* LangGraph adapter (GovernedGraph).                                      *)
(*                                                                         *)
(* Contracts are records: a workflow has a workflow_id and a sequence of   *)
(* steps; a step has a step_id, agent_id, capability, effect and the set   *)
(* of evidence kinds it requires; a grant has an authorization_id,         *)
(* subject, workflow_id, capabilities, expires_at and single_use.  A       *)
(* verdict is the set of reasons to refuse; it passes when it is empty.    *)
(* A ledger is a sequence of records with a kind.                          *)
(***************************************************************************)
EXTENDS Integers, Sequences
\* An operator whose name starts with Mut is a bug put beside the operator that
\* follows it; no definition uses it.

\* A grant is still good at the instant it expires.
MutAtTheBoundary(grant, now) == now > grant.expires_at

is_expired(grant, now) == now >= grant.expires_at

WorkflowReasons(workflow, grant, subject, now) ==
  {r \in {"SUBJECT_MISMATCH", "WORKFLOW_MISMATCH", "AUTHORITY_EXPIRED"} :
     \/ r = "SUBJECT_MISMATCH" /\ grant.subject # subject
     \/ r = "WORKFLOW_MISMATCH" /\ grant.workflow_id # workflow.workflow_id
     \/ r = "AUTHORITY_EXPIRED" /\ is_expired(grant, now)}

kinds(ledger) == {ledger[i].kind : i \in DOMAIN ledger}

\* The capabilities an effect class needs on top of the step's own.
effect_capability(effect) ==
  IF effect = "READ_ONLY" THEN {}
  ELSE IF effect = "REVERSIBLE" THEN {"effect:reversible"}
  ELSE {"effect:irreversible"}

missing(step, ledger) == step.requires \ kinds(ledger)

StepReasons(step, descriptor, grant, ledger) ==
  {r \in {"CAPABILITY_NOT_GRANTED", "AGENT_CAPABILITY_MISMATCH",
          "EFFECT_CAPABILITY_NOT_GRANTED", "REQUIRED_EVIDENCE_MISSING"} :
     \/ r = "CAPABILITY_NOT_GRANTED" /\ step.capability \notin grant.capabilities
     \/ r = "AGENT_CAPABILITY_MISMATCH" /\ step.capability \notin descriptor.capabilities
     \/ r = "EFFECT_CAPABILITY_NOT_GRANTED"
        /\ ~(effect_capability(step.effect) \subseteq grant.capabilities)
     \/ r = "REQUIRED_EVIDENCE_MISSING" /\ missing(step, ledger) # {}}

-----------------------------------------------------------------------------
(***************************************************************************)
(* What an accepted call can rely on (threat-model.md, invariants 1 to 3), *)
(* said of the contracts themselves: the properties of both runtimes use   *)
(* these two and none of the operators above, so that a slip in the policy *)
(* is a violation.                                                         *)
(***************************************************************************)

\* The grant was given to this subject for this workflow, and at that time it
\* had not reached the instant it expires.
InForce(grant, workflow, subject, at) ==
  /\ grant.subject = subject
  /\ grant.workflow_id = workflow.workflow_id
  /\ at < grant.expires_at

\* The step may run: grant and agent both have its capability, the grant covers
\* its effect, and each kind of evidence it requires is on the ledger.
Entitled(step, descriptor, grant, ledger) ==
  /\ step.capability \in grant.capabilities \cap descriptor.capabilities
  /\ step.effect = "REVERSIBLE" => "effect:reversible" \in grant.capabilities
  /\ step.effect = "IRREVERSIBLE" => "effect:irreversible" \in grant.capabilities
  /\ \A kind \in step.requires : \E i \in DOMAIN ledger : ledger[i].kind = kind
=============================================================================
