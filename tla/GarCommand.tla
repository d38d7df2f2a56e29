----------------------------- MODULE GarCommand -----------------------------
(***************************************************************************)
(* One run of the gar command (cli.py): it reads two JSON files, or builds *)
(* the contracts of a demo, runs them in a GovernedRuntime of its own with *)
(* the built-in agents, prints the result, writes the evidence where it is *)
(* asked to, and exits.  The handlers' effects come before the printing    *)
(* and the writing, either of which may never happen.                      *)
(***************************************************************************)
EXTENDS CoreRuntime, Contracts

CONSTANTS
  gar,               \* the only caller of execute in the process
  WorkflowFiles, AuthorityFiles,   \* files the command may be given
  EvidenceOuts,      \* --evidence-out: "none", "writable" or "unwritable"
  MaxNesting         \* bound of the lists and objects a value of an input is inside of

ASSUME CallersAssumption == Callers = {gar}

ASSUME SubjectAssumption == Subject = "governed-runtime"

\* The command executes once.
ASSUME ExecutionAssumption == MaxExecutions >= 1

\* The built-in agents keep nothing of the payloads they supply.
ASSUME SharedAssumption == SharedKinds = {}

ASSUME NestingAssumption == MaxNesting \in Nat

\* What a file holds as JSON, down to the fields of the steps.
ASSUME FilesAssumption ==
  /\ \A f \in WorkflowFiles \cup AuthorityFiles : JsonObject(f)
  /\ \A f \in WorkflowFiles : f.type = "object" =>
       LET steps == get(f.fields, "steps")
       IN  steps.type = "array" => \A i \in DOMAIN steps.items : JsonObject(steps.items[i])

VARIABLE command     \* what it was called with, and how far it is

garVars == <<vars, command>>

-----------------------------------------------------------------------------
(***************************************************************************)
(* The built-in agents                                                     *)
(***************************************************************************)

BuiltinRegistry ==
  [a \in {"builtin.echo", "builtin.block", "builtin.fail"} |->
     [capabilities |-> CASE a = "builtin.echo"  -> {"agent:echo"}
                         [] a = "builtin.block" -> {"agent:block"}
                         [] a = "builtin.fail"  -> {"agent:fail"}]]

ASSUME RegistryAssumption == Registry = BuiltinRegistry

Outcome(decision, evidence, serialisable) ==
  [decision |-> decision, evidence |-> evidence, serialisable |-> serialisable]
Raised == Outcome("EXCEPTION", <<>>, TRUE)

\* What a JSON value is made of.
Parts(v) ==
  CASE v.type = "object" -> {v.fields[k] : k \in DOMAIN v.fields}
    [] v.type = "array"  -> ToSet(v.items)
    [] OTHER             -> {}

\* All the values inside an input, level by level.
Inside(input_data) ==
  LET level[n \in 0..MaxNesting] ==
        IF n = 0 THEN {input_data[k] : k \in DOMAIN input_data}
        ELSE UNION {Parts(v) : v \in level[n - 1]}
  IN  UNION {level[n] : n \in 0..MaxNesting}

\* JSON's NaN is read, but cannot be put on the chain, however deep it is.
Finite(input_data) ==
  \A v \in Inside(input_data) : v.type = "number" => v.finite

\* A blank reason is no summary: AgentOutcome raises inside the handler.
BlankReason(input_data) ==
  get(input_data, "reason").type = "string" /\ ~IsText(input_data["reason"])

handler(step) ==
  CASE step.agent_id = "builtin.echo"  ->
         Outcome("PASS", <<"agent.echo.output">>, Finite(step.input_data))
    [] step.agent_id = "builtin.block" ->
         IF BlankReason(step.input_data) THEN Raised
         ELSE Outcome("BLOCKED", <<"agent.block.reason">>, TRUE)
    [] step.agent_id = "builtin.fail"  -> Raised

-----------------------------------------------------------------------------
(***************************************************************************)
(* The command                                                             *)
(***************************************************************************)

Invocations ==
  [name : {"run"}, workflow : WorkflowFiles, authority : AuthorityFiles,
   evidence_out : EvidenceOuts]
    \cup [name : {"demo"}, scenario : {"pass", "blocked", "fail"}, evidence_out : EvidenceOuts]
    \cup [name : {"semantics"}]

GarInit ==
  /\ Init
  /\ command \in [pc : {"start"}, call : Invocations, workflow : {<<>>}, grant : {<<>>},
                  printed : {FALSE}, written : {FALSE}, exit : {1}]

At(pc) == command.pc = pc

\* An exception main does not catch ends the process with 1.
Exit(code) == command' = [command EXCEPT !.pc = "exit", !.exit = code]
ExitOf == [none |-> 0, ContractError |-> 2, ValueError |-> 1]

\* The error of reading both files, the workflow first.
first(e, f) == IF e # "none" THEN e ELSE f

WorkflowFileError(file) ==
  IF read_error(file) # "none" THEN read_error(file) ELSE workflow_error(file.fields)
AuthorityFileError(file) ==
  IF read_error(file) # "none" THEN read_error(file) ELSE authority_error(file.fields)

ReadContracts ==
  LET call  == command.call
      error == first(WorkflowFileError(call.workflow), AuthorityFileError(call.authority))
  IN  /\ At("start")
      /\ call.name = "run"
      /\ IF error # "none" THEN Exit(ExitOf[error])
         ELSE command' = [command EXCEPT
                !.pc = "execute",
                !.workflow = workflow_from_mapping(call.workflow.fields),
                !.grant = authority_from_mapping(call.authority.fields)]
      /\ UNCHANGED vars

\* The clock of a demo stands still between the grant's two dates.
DemoContracts ==
  LET name == [pass |-> "builtin.echo", blocked |-> "builtin.block", fail |-> "builtin.fail"]
      capability == [pass |-> "agent:echo", blocked |-> "agent:block", fail |-> "agent:fail"]
      step == [step_id |-> "step-1", agent_id |-> name[command.call.scenario],
               action |-> "demo", capability |-> capability[command.call.scenario],
               effect |-> "READ_ONLY", requires |-> {},
               input_data |-> [scenario |-> String("demo")]]
  IN  /\ At("start")
      /\ command.call.name = "demo"
      /\ command' = [command EXCEPT
           !.pc = "execute",
           !.workflow = [workflow_id |-> "demo", correlation_id |-> "demo", steps |-> <<step>>],
           !.grant = [authorization_id |-> "demo", subject |-> Subject, workflow_id |-> "demo",
                      capabilities |-> {step.capability}, issued_at |-> now - 1,
                      expires_at |-> now + 10, single_use |-> TRUE]]
      /\ UNCHANGED vars

Semantics ==
  /\ At("start")
  /\ command.call.name = "semantics"
  /\ Exit(0)
  /\ UNCHANGED vars

ExecuteContracts ==
  /\ At("execute")
  /\ Execute(gar, command.workflow, command.grant, <<>>)
  /\ command' = [command EXCEPT !.pc = "running"]

\* The steps of execute, with the handler the registry has for the agent.
Running ==
  /\ At("running")
  /\ \/ ConsumeTest(gar)
     \/ ConsumeAdd(gar)
     \/ EvaluateStep(gar)
     \/ RunHandler(gar, handler(current(execution[gar])))
     \/ Complete(gar)
  /\ UNCHANGED command

Result == CHOOSE r \in results : TRUE
EXIT_BY_DECISION == [PASS |-> 0, BLOCKED |-> 3, FAIL |-> 4]

Returned == At("running") /\ execution[gar] = Idle

\* execute raised: its result, the evidence and the grant's use are lost.
Uncaught ==
  /\ Returned
  /\ results = {}
  /\ Exit(1)
  /\ UNCHANGED vars

PrintResult ==
  /\ Returned
  /\ results # {}
  /\ command' = [command EXCEPT !.pc = "write", !.printed = TRUE]
  /\ UNCHANGED vars

\* Output that cannot be printed raises an OSError or a UnicodeError, and main
\* catches neither.
PrintFails ==
  /\ \/ Returned /\ results # {}
     \/ At("start") /\ command.call.name = "semantics"
  /\ Exit(1)
  /\ UNCHANGED vars

\* A file that cannot be written is passed over.
MutWriteOptional == TRUE

Writes == command.call.evidence_out # "unwritable"

\* The OSError of a file that cannot be written is not caught.
WriteEvidence ==
  /\ At("write")
  /\ IF Writes
     THEN command' = [command EXCEPT
            !.pc = "exit",
            !.written = command.call.evidence_out = "writable",
            !.exit = EXIT_BY_DECISION[Result.decision]]
     ELSE Exit(1)
  /\ UNCHANGED vars

TimePasses == Tick /\ ~At("exit") /\ command.call.name = "run" /\ UNCHANGED command

GarNext ==
  \/ ReadContracts
  \/ DemoContracts
  \/ Semantics
  \/ ExecuteContracts
  \/ Running
  \/ Uncaught
  \/ PrintResult
  \/ PrintFails
  \/ WriteEvidence
  \/ TimePasses

GarSpec == GarInit /\ [][GarNext]_garVars

-----------------------------------------------------------------------------
(***************************************************************************)
(* Properties                                                              *)
(***************************************************************************)

\* The handler calls of the command's one execution.
Made == calls[1]
StepsCalled == [i \in DOMAIN Made |-> Made[i].step_id]
AllPassed == \A i \in DOMAIN Made : Made[i].decision = "PASS"

\* The steps of the workflow file, or of the demo, as they stand there.
StepsAskedFor ==
  IF command.call.name = "run"
  THEN LET items == command.call.workflow.fields["steps"].items
       IN  [i \in DOMAIN items |-> items[i].fields["step_id"].text]
  ELSE <<"step-1">>

\* What a script may conclude from the exit code (README.md, Decision
\* semantics).  0: every step the file asks for was called and passed, in its
\* order, and the evidence is where it was asked for.  2: nothing was called.
\* 3: not all was called and nothing failed, or the last agent declined.  4: the
\* last call failed.  Only 1 leaves it open, and then what was called is not
\* known from the exit, as the result or the evidence is missing.
ExitTellsTheTruth ==
  At("exit") /\ command.call.name # "semantics" =>
    LET done == Len(Made)
    IN  CASE command.exit = 0 ->
               /\ StepsCalled = StepsAskedFor
               /\ AllPassed
               /\ command.printed
               /\ command.written <=> command.call.evidence_out = "writable"
               /\ command.call.evidence_out # "unwritable"
          [] command.exit = 2 -> done = 0 /\ ~command.printed
          [] command.exit = 3 ->
               /\ IsPrefix(StepsCalled, StepsAskedFor)
               /\ IF AllPassed THEN done < Len(StepsAskedFor)
                  ELSE Made[done].decision = "BLOCKED"
               /\ command.written <=> command.call.evidence_out = "writable"
          [] command.exit = 4 -> Made[done].decision = "FAIL" /\ command.printed
          [] command.exit = 1 -> ~command.printed \/ command.call.evidence_out = "unwritable"

\* Contracts read from files come back from a checkpoint as they were: every
\* node of the adapter builds them again from what start stored, and the
\* journal compares the grant's digest with an earlier one.  Inputs that cannot
\* be stored are left out: start refuses them.
ReloadsUnchanged ==
  command.workflow # <<>> /\ (\A i \in DOMAIN command.workflow.steps :
                                Finite(command.workflow.steps[i].input_data)) =>
    LET w == workflow_to_mapping(command.workflow)
        g == authority_to_mapping(command.grant)
    IN  /\ workflow_error(w) = "none"
        /\ workflow_from_mapping(w) = command.workflow
        /\ authority_error(g) = "none"
        /\ authority_from_mapping(g) = command.grant

\* "Raised when external JSON does not match a runtime contract" (ContractError):
\* a run whose files are not what the published schemas allow ends as a contract
\* error, and calls nothing.
SchemaIsEnforced ==
  At("exit") /\ command.call.name = "run" =>
    LET w == command.call.workflow
        g == command.call.authority
    IN  \/ command.exit = 2
        \/ w.type = "object" /\ g.type = "object" /\ WorkflowSchema(w.fields) /\ AuthoritySchema(g.fields)
=============================================================================
