---------------------------- MODULE MCCoreRuntime ----------------------------
(* Values for the runs of CoreRuntime: plan needs nothing, deploy needs a      *)
(* human approval that a caller or the planner may supply.                     *)
EXTENDS CoreRuntime, TLC

CONSTANTS c1, c2

MCSubject == "runtime"

Step(id, agent, requires) ==
  [step_id |-> id, agent_id |-> agent, capability |-> "cap:work",
   effect |-> IF requires = {} THEN "READ_ONLY" ELSE "REVERSIBLE",
   requires |-> requires]
MCWorkflows ==
  {[workflow_id |-> "wf-1",
    steps |-> <<Step("plan", "planner", {}), Step("deploy", "deployer", {"human.approval"})>>]}
UnknownAgent == {[workflow_id |-> "wf-1", steps |-> <<Step("plan", "nobody", {})>>]}
AnyWorkflows == MCWorkflows \cup UnknownAgent

Grant(id, expires, single, capabilities) ==
  [authorization_id |-> id, subject |-> "runtime", workflow_id |-> "wf-1",
   capabilities |-> {"cap:work"} \cup capabilities,
   expires_at |-> expires, single_use |-> single]
SharedGrant == {Grant("auth-1", 1, TRUE, {"effect:reversible"})}
MCGrants == SharedGrant \cup {Grant("auth-1", 2, FALSE, {"effect:reversible"}),
                           Grant("auth-2", 1, TRUE, {})}

MCRegistry == [a \in {"planner", "deployer"} |-> [capabilities |-> {"cap:work"}]]

Outcome(decision, evidence, serialisable) ==
  [decision |-> decision, evidence |-> evidence, serialisable |-> serialisable]
Pass == Outcome("PASS", <<>>, TRUE)
MCOutcomes ==
  {Pass, Outcome("PASS", <<"human.approval">>, TRUE), Outcome("FAIL", <<>>, TRUE),
   Outcome("BLOCKED", <<>>, TRUE), Outcome("EXCEPTION", <<>>, TRUE),
   Outcome("PASS", <<>>, FALSE)}
OnePass == {Pass}

Approved == <<[producer |-> "caller", kind |-> "human.approval", at |-> 0, step_id |-> "-"]>>
MCLedgers == {<<>>, Approved}
MCSymmetry == Permutations({c1, c2})
=============================================================================
