--------------------------- MODULE MCGovernedGraph ---------------------------
(* Values for the runs of GovernedGraph.                                     *)
EXTENDS GovernedGraph, TLC

CONSTANTS t1, t2, s1, s2

MCSubject == "runtime"

Step(id, agent, requires) ==
  [step_id |-> id, agent_id |-> agent, capability |-> "cap:work",
   effect |-> IF requires = {} THEN "READ_ONLY" ELSE "IRREVERSIBLE",
   requires |-> requires]

MCWorkflow(steps) == [workflow_id |-> "wf-1", steps |-> steps]

\* plan needs nothing, deploy needs a human approval: the repository's example.
PlanDeploy == MCWorkflow(<<Step("plan", "planner", {}),
                           Step("deploy", "deployer", {"human.approval"})>>)

Grant(id, expires, single) ==
  [authorization_id |-> id, subject |-> "runtime", workflow_id |-> "wf-1",
   capabilities |-> {"cap:work", "effect:irreversible"},
   expires_at |-> expires, single_use |-> single]

Descriptors(agents) == [a \in agents |-> [capabilities |-> {"cap:work"}]]
Everyone == Descriptors({"planner", "deployer"})

Outcome(decision, evidence, serialisable) ==
  [decision |-> decision, evidence |-> evidence, serialisable |-> serialisable]
Pass == Outcome("PASS", <<>>, TRUE)
Fail == Outcome("FAIL", <<>>, TRUE)
Unserialisable == Outcome("PASS", <<>>, FALSE)

Approve(ks) == [approved |-> TRUE, kinds |-> ks]
Deny == [approved |-> FALSE, kinds |-> <<>>]

\* one session at a time, two threads, one single-use grant
SerialWorkflows  == {PlanDeploy}
SerialGrants     == {Grant("auth-1", 2, TRUE)}
SerialRegistries == {Everyone}
SerialOutcomes   == {Pass, Fail, Unserialisable}
SerialReviews    == {Approve(<<"human.approval">>), Deny}
NoEvidence       == {<<>>}

\* two sessions racing on one thread; each step needs an approval of its own
TwoGates == MCWorkflow(<<Step("stage", "planner", {"stage.approval"}),
                         Step("deploy", "deployer", {"deploy.approval"})>>)
RaceWorkflows == {TwoGates}
RaceGrants    == {Grant("auth-1", 1, TRUE)}
RaceOutcomes  == {Pass}
RaceReviews   == {Approve(<<"stage.approval">>), Approve(<<"deploy.approval">>), Deny}
RaceSymmetry  == Permutations({s1, s2})

\* Contracts that are refused somewhere, one reason each, next to a good one:
\* grants of another subject, of another workflow, without the effect, with the
\* same id and other content, multi-use; processes that lack an agent or hold a
\* weaker one; evidence from agents and callers; outcomes of every decision;
\* approvals with the wrong kind or none.
GoodGrant == Grant("auth-1", 1, TRUE)
ContractGrants ==
  {GoodGrant,
   [GoodGrant EXCEPT !.expires_at = 2],
   Grant("auth-2", 1, FALSE),
   Grant("auth-6", 0, TRUE),
   [Grant("auth-3", 1, TRUE) EXCEPT !.subject = "someone"],
   [Grant("auth-4", 1, TRUE) EXCEPT !.workflow_id = "wf-2"],
   [Grant("auth-5", 1, TRUE) EXCEPT !.capabilities = {"cap:work"}]}
WeakDeployer == [Everyone EXCEPT !["deployer"] = [capabilities |-> {"cap:other"}]]
ContractRegistries == {Everyone, Descriptors({"planner"}), WeakDeployer}
Vouching == Outcome("PASS", <<"human.approval">>, TRUE)
ContractOutcomes == {Pass, Vouching}
ContractReviews == {Approve(<<"human.approval">>), Approve(<<"other.kind">>), Approve(<<>>)}
ContractLedgers ==
  {<<>>, <<[producer |-> "caller", kind |-> "human.approval", at |-> 0,
            step_id |-> NoRow, replay |-> FALSE]>>}

\* the smallest runs in which a handler is called
OneGrant == {GoodGrant}
RaisingOutcomes == {Pass, Unserialisable}
=============================================================================
