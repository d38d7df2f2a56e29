---------------------------- MODULE MCGarCommand ----------------------------
(* Workflow files: what each agent does, in one step or two, with inputs it  *)
(* can and cannot handle; and each way a file can fail to be a contract.     *)
EXTENDS GarCommand, TLC

Padded(text) == [String(text) EXCEPT !.padded = TRUE]
Number(finite) == [type |-> "number", finite |-> finite]
Date(clock, zone) ==
  [type |-> "string", text |-> "date", padded |-> FALSE,
   clock |-> clock, zone |-> zone, naive |-> FALSE]

\* Changes take precedence over what a base has.
Step(id, agent, changes) ==
  Object(changes @@
    [step_id |-> String(id), agent_id |-> String("builtin." \o agent), action |-> String("act"),
     capability |-> String("agent:" \o agent)])
None == <<>>
Workflow(steps, changes) ==
  Object(changes @@ [workflow_id |-> String("wf-1"), correlation_id |-> Padded("c"),
                     steps |-> Array(steps)])
Kinds(list) == "requires_evidence_kinds" :> Array([i \in DOMAIN list |-> String(list[i])])
Echo(changes) == Step("s1", "echo", changes)
Input(key, v) == "input_data" :> Object(key :> v)

Unread == {[type |-> "missing"], [type |-> "not_utf8"], [type |-> "not_json"], Array(<<>>)}

MCWorkflowFiles == Unread \cup
  {Workflow(steps, None) : steps \in
     {<<>>,
      <<Echo(None)>>,
      <<Echo(None), Step("s2", "echo", Kinds(<<"agent.echo.output">>))>>,
      <<Echo(None), Step("s2", "echo", Kinds(<<"human.approval">>))>>,
      <<Echo(None), Step("s2", "fail", None), Step("s3", "echo", None)>>,
      <<Echo(None), Step("s2", "block", None), Step("s3", "echo", None)>>,
      <<Step("s1", "block", Input("reason", String("")))>>,
      <<Step("s1", "block", Input("reason", Number(FALSE)))>>,
      <<Echo(None), Step("s2", "echo", Input("x", Number(FALSE)))>>,
      <<Echo(Input("x", Object("y" :> Number(TRUE))))>>,
      <<Echo(Input("x", Object("y" :> Number(FALSE))))>>,
      <<Echo(None), Step("s2", "echo", Input("x", Array(<<Object("y" :> Number(FALSE))>>)))>>,
      <<Echo("effect" :> String("REVERSIBLE"))>>,
      <<Echo("effect" :> Padded("READ_ONLY"))>>,
      <<Echo(Kinds(<<"k", "k">>))>>,
      <<String("s1"), Echo(Kinds(<<"k", "k">>))>>,
      <<Echo(None), Echo(None)>>,
      <<Step("s1", "nobody", None)>>,
      <<Echo("input_data" :> Array(<<>>))>>,
      <<Echo("requires_evidence_kind" :> Array(<<String("human.approval")>>))>>}}
  \cup {Workflow(<<Echo(None)>>, "workflow_id" :> v) :
          v \in {Padded("wf-1"), String("wf-2"), String(""), Number(TRUE)}}

Authority(changes) ==
  Object(changes @@
    [authorization_id |-> String("auth-1"), subject |-> String("governed-runtime"),
     workflow_id |-> String("wf-1"),
     capabilities |-> Array(<<String("agent:echo"), Padded("agent:block"), String("agent:fail")>>),
     issued_at |-> Date(0, 0), expires_at |-> Date(3, 2)])

MCAuthorityFiles == Unread \cup
  {Authority(c) : c \in
     {None,
      "single_use" :> [type |-> "boolean", value |-> FALSE],
      "single_use" :> String("false"),
      "capabilities" :> Array(<<>>),
      "capabilities" :> Array(<<String("agent:echo"), String("effect:reversible")>>),
      "expires_at" :> Date(3, 3),
      "expires_at" :> [Date(3, 0) EXCEPT !.naive = TRUE],
      "issued_at" :> String("soon")}}

MCOut == {"none", "writable", "unwritable"}
\* Two contracts the workflow schema rules out: a kind required twice, and a
\* field it does not know.
MCOutsideSchema ==
  {Workflow(<<Echo(Kinds(<<"k", "k">>))>>, None),
   Workflow(<<Echo("requires_evidence_kind" :> Array(<<String("human.approval")>>))>>, None)}
MCAuthority == {Authority(None)}
=============================================================================
