----------------------------- MODULE CoreRuntime -----------------------------
(***************************************************************************)
(* GovernedRuntime.execute (runtime.py) and the AuthorityUseRegistry it    *)
(* shares between calls.  A caller is a Python thread of the process; each *)
(* of its executions has a workflow, a grant and a ledger of its own.  The *)
(* registry of consumed grants is a plain set without a lock: the test in  *)
(* consume and the insertion after it are two steps, between which another *)
(* thread may run.                                                         *)
(***************************************************************************)
EXTENDS RuntimePolicy, SequencesExt
\* An operator whose name starts with Mut is a bug put beside the operator that
\* follows it.

CONSTANTS
  Callers,         \* threads of the process that call execute
  Subject,         \* the runtime's subject
  Workflows, Grants,
  Registry,        \* agent_id -> descriptor, set up before execution
  Outcomes,        \* what handlers do: return, raise, or return what cannot be recorded
  InitialLedgers,  \* evidence a caller may pass
  SharedKinds,     \* kinds of evidence whose payloads nest what their supplier keeps
  MaxTime,         \* bound of the clock
  MaxExecutions    \* bound of the executions started

VARIABLES
  consumed,     \* AuthorityUseRegistry._consumed
  execution,    \* the execution each caller is in
  now,          \* Clock.now()
  started,      \* how many executions were started; their numbers tell them apart
  calls,        \* history: the handler calls of each execution, in order
  results       \* history: the WorkflowResults returned

vars == <<consumed, execution, now, started, calls, results>>

Steps   == UNION {ToSet(w.steps) : w \in Workflows}
StepIds == {p.step_id : p \in Steps}
Numbers == 1..MaxExecutions

-----------------------------------------------------------------------------
(***************************************************************************)
(* What executions, calls and results hold                                 *)
(***************************************************************************)

Decisions == {"PASS", "BLOCKED", "FAIL"}

\* The kinds of evidence the runtime and the handlers add.
EvidenceKinds ==
  {"workflow.started", "workflow.completed",
   "step.pass", "step.blocked", "step.fail", "step.failed"}
    \cup UNION {ToSet(o.evidence) : o \in Outcomes}

EvidenceRecord ==
  [producer : {"runtime"} \cup {p.agent_id : p \in Steps},
   kind : EvidenceKinds, at : 0..MaxTime, step_id : StepIds \cup {"-"}]
    \cup UNION {ToSet(l) : l \in InitialLedgers}

StepResults == Seq([step_id : StepIds, decision : Decisions])

Idle == [pc |-> "idle"]

Execution ==
  [pc        : {"consume", "add", "step", "handler", "complete"},
   number    : Numbers,
   workflow  : Workflows,
   authority : Grants,
   evidence  : Seq(EvidenceRecord),
   steps     : StepResults,
   admitted  : 0..MaxTime,
   past      : SUBSET Numbers]

\* A call of a handler, with the execution as it was then.
HandlerCall == [state : Execution, step_id : StepIds, decision : Decisions]

WorkflowResult ==
  [number    : Numbers,
   decision  : Decisions,
   steps     : StepResults,
   evidence  : Seq(EvidenceRecord),
   workflow  : Workflows,
   authority : Grants,
   authority_consumed : BOOLEAN]

\* WorkflowSpec refuses a workflow without steps.
ASSUME WorkflowsAssumption == \A w \in Workflows : w.steps \in Seq(Steps) /\ w.steps # <<>>

ASSUME GrantsAssumption ==
  \A g \in Grants : g.single_use \in BOOLEAN /\ g.expires_at \in Int

ASSUME OutcomesAssumption ==
  \A o \in Outcomes : /\ o.decision \in Decisions \cup {"EXCEPTION"}
                      /\ o.evidence \in Seq(EvidenceKinds)
                      /\ o.decision = "EXCEPTION" => o.evidence = <<>>
                      /\ o.serialisable \in BOOLEAN

ASSUME LedgersAssumption == \A l \in InitialLedgers : l \in Seq(EvidenceRecord)

ASSUME BoundsAssumption == MaxTime \in Nat /\ MaxExecutions \in Nat

-----------------------------------------------------------------------------

Init ==
  /\ consumed = {}
  /\ execution = [c \in Callers |-> Idle]
  /\ now = 0
  /\ started = 0
  /\ calls = [n \in Numbers |-> <<>>]
  /\ results = {}

-----------------------------------------------------------------------------

current(x) == x.workflow.steps[Len(x.steps) + 1]

RuntimeRecord(kind, at, step_id) == [producer |-> "runtime", kind |-> kind, at |-> at,
                                     step_id |-> step_id]

\* An exception leaves execute: there is no result, and the ledger is the caller's.
Raises(c) ==
  /\ execution' = [execution EXCEPT ![c] = Idle]
  /\ UNCHANGED results

\* Payloads are copied one level deep: the supplier of one that nests a list may
\* have changed it since, and then verify finds another digest.
MayBeAltered(x) == \E i \in DOMAIN x.evidence : x.evidence[i].kind \in SharedKinds

\* _terminal: the result of execution x, with what it appended last, unless
\* verify raises.
Terminal(c, x, decision, authority_consumed) ==
  \/ MayBeAltered(x) /\ Raises(c)
  \/ /\ execution' = [execution EXCEPT ![c] = Idle]
     /\ results' = results \cup
          {[number    |-> x.number,
            decision  |-> decision,
            steps     |-> x.steps,
            evidence  |-> x.evidence,
            workflow  |-> x.workflow,
            authority |-> x.authority,
            authority_consumed |-> authority_consumed]}

Goto(c, x, pc) ==
  /\ execution' = [execution EXCEPT ![c] = [x EXCEPT !.pc = pc]]
  /\ UNCHANGED results

AllRegistered(workflow) ==
  \A i \in DOMAIN workflow.steps : workflow.steps[i].agent_id \in DOMAIN Registry

\* The executions that were over when this one began.
Past == {n \in 1..started : \A d \in Callers : execution[d] # Idle => execution[d].number # n}

\* execute up to the registry check: the clock is read once, and this reading is
\* the one the whole execution is judged by.
Execute(c, workflow, grant, ledger) ==
  LET x == [pc        |-> "consume",
            number    |-> started + 1,
            workflow  |-> workflow,
            authority |-> grant,
            evidence  |-> ledger,
            steps     |-> <<>>,
            admitted  |-> now,
            past      |-> Past]      \* history
  IN  /\ execution[c] = Idle
      /\ started < MaxExecutions
      /\ started' = started + 1
      /\ IF /\ WorkflowReasons(workflow, grant, Subject, now) = {}
            /\ AllRegistered(workflow)
         THEN Goto(c, x, "consume")
         ELSE Terminal(c, x, "BLOCKED", FALSE)
      /\ UNCHANGED <<consumed, now, calls>>

Begun(x) ==
  [x EXCEPT !.evidence = Append(@, RuntimeRecord("workflow.started", x.admitted, "-"))]

\* The registry forgets.
MutNeverConsumed(grant) == FALSE

\* consume, the test: a multi-use grant passes, a consumed one is refused.
is_consumed(grant) == grant.authorization_id \in consumed

ConsumeTest(c) ==
  LET x == execution[c]
  IN  /\ x.pc = "consume"
      /\ IF ~x.authority.single_use THEN Goto(c, Begun(x), "step")
         ELSE IF is_consumed(x.authority) THEN Terminal(c, x, "BLOCKED", FALSE)
         ELSE Goto(c, x, "add")
      /\ UNCHANGED <<consumed, now, started, calls>>

\* consume, the insertion; then workflow.started with the admission time.
ConsumeAdd(c) ==
  LET x == execution[c]
  IN  /\ x.pc = "add"
      /\ consumed' = consumed \cup {x.authority.authorization_id}
      /\ Goto(c, Begun(x), "step")
      /\ UNCHANGED <<now, started, calls>>

StepResult(x, decision) == [step_id |-> current(x).step_id, decision |-> decision]

\* The grant's capability is all that is looked at.
MutCapabilityOnly(x) == current(x).capability \in x.authority.capabilities

StepAllowed(x) ==
  StepReasons(current(x), Registry[current(x).agent_id], x.authority, x.evidence) = {}

\* The loop head: the step's policy, against the evidence gathered so far.
EvaluateStep(c) ==
  LET x == execution[c]
      refused == [x EXCEPT
        !.evidence = Append(@, RuntimeRecord("step.blocked", now, current(x).step_id)),
        !.steps = Append(@, StepResult(x, "BLOCKED"))]
  IN  /\ x.pc = "step"
      /\ IF StepAllowed(x)
         THEN Goto(c, x, "handler")
         ELSE Terminal(c, refused, "BLOCKED", TRUE)
      /\ UNCHANGED <<consumed, now, started, calls>>

\* The step record of each decision; an exception of the handler is step.failed.
StepKind ==
  [PASS |-> "step.pass", BLOCKED |-> "step.blocked", FAIL |-> "step.fail",
   EXCEPTION |-> "step.failed"]

\* An exception is passed on as it is.
MutExceptionKept(outcome) == outcome.decision

DecisionOf(outcome) == IF outcome.decision = "EXCEPTION" THEN "FAIL" ELSE outcome.decision

\* The outcome's evidence, the completion record and the step result.
Recorded(x, outcome) ==
  LET items == [i \in DOMAIN outcome.evidence |->
        [producer |-> current(x).agent_id, kind |-> outcome.evidence[i], at |-> now,
         step_id |-> "-"]]
      last == RuntimeRecord(StepKind[outcome.decision], now, current(x).step_id)
  IN  [x EXCEPT !.evidence = @ \o Append(items, last),
                !.steps = Append(@, StepResult(x, DecisionOf(outcome)))]

\* Only FAIL stops the workflow.
MutStopOnFailOnly(outcome) == outcome.decision = "FAIL"

Stops(outcome) == outcome.decision # "PASS"

\* The last step is not waited for.
MutOneStepShort(y) == Len(y.steps) + 1 >= Len(y.workflow.steps)

AllStepsRan(y) == Len(y.steps) = Len(y.workflow.steps)

\* The handler runs; then its outcome is recorded and the loop goes on only on
\* PASS.  A payload the chain cannot serialise raises out of execute.
RunHandler(c, outcome) ==
  LET x == execution[c]
      y == Recorded(x, outcome)
  IN  /\ x.pc = "handler"
      /\ calls' = [calls EXCEPT ![x.number] =
           Append(@, [state    |-> x,
                      step_id  |-> current(x).step_id,
                      decision |-> DecisionOf(outcome)])]
      /\ \/ /\ ~outcome.serialisable
            /\ Raises(c)
         \/ /\ outcome.serialisable
            /\ Stops(outcome)
            /\ Terminal(c, y, DecisionOf(outcome), TRUE)
         \/ /\ outcome.serialisable
            /\ ~Stops(outcome)
            /\ Goto(c, y, IF AllStepsRan(y) THEN "complete" ELSE "step")
      /\ UNCHANGED <<consumed, now, started>>

\* workflow.completed, then verify and _terminal.
Complete(c) ==
  LET x == execution[c]
      y == [x EXCEPT !.evidence = Append(@, RuntimeRecord("workflow.completed", now, "-"))]
  IN  /\ x.pc = "complete"
      /\ Terminal(c, y, "PASS", TRUE)
      /\ UNCHANGED <<consumed, now, started, calls>>

Tick ==
  /\ now < MaxTime
  /\ now' = now + 1
  /\ UNCHANGED <<consumed, execution, started, calls, results>>

Next ==
  \/ Tick
  \/ \E c \in Callers :
       \/ \E w \in Workflows, g \in Grants, l \in InitialLedgers : Execute(c, w, g, l)
       \/ ConsumeTest(c)
       \/ ConsumeAdd(c)
       \/ EvaluateStep(c)
       \/ \E o \in Outcomes : RunHandler(c, o)
       \/ Complete(c)

Spec == Init /\ [][Next]_vars

-----------------------------------------------------------------------------
(***************************************************************************)
(* Properties                                                              *)
(***************************************************************************)

TypeOK ==
  /\ consumed \subseteq {g.authorization_id : g \in Grants}
  /\ execution \in [Callers -> {Idle} \cup Execution]
  /\ now \in 0..MaxTime
  /\ started \in 0..MaxExecutions
  /\ calls \in [Numbers -> Seq(HandlerCall)]
  /\ results \subseteq WorkflowResult

\* Two calls of executions m and n under one single-use authorization.
OneGrant(m, i, n, j) ==
  LET g == calls[m][i].state.authority
      h == calls[n][j].state.authority
  IN  g.single_use /\ h.single_use /\ g.authorization_id = h.authorization_id

\* "Single-use grants cannot replay in one runtime process" (README): handlers
\* called under one single-use authorization belong to one execution.
NoReplay ==
  \A m, n \in Numbers : \A i \in DOMAIN calls[m], j \in DOMAIN calls[n] :
    OneGrant(m, i, n, j) => m = n

\* The part of it the code keeps: once an execution is over, however it ended, no
\* later one calls a handler under the grant it called one under.
NoSerialReplay ==
  \A m, n \in Numbers : \A i \in DOMAIN calls[m], j \in DOMAIN calls[n] :
    OneGrant(m, i, n, j) => m \notin calls[n][j].state.past

\* A handler is called only on a grant that was valid at admission and, if it is
\* single-use, is consumed by then, with its step's capabilities in place and its
\* evidence on the execution's own ledger.
CallsSatisfyPolicy ==
  \A n \in Numbers : \A i \in DOMAIN calls[n] :
    LET x == calls[n][i].state
        step == current(x)
    IN  /\ InForce(x.authority, x.workflow, Subject, x.admitted)
        /\ Entitled(step, Registry[step.agent_id], x.authority, x.evidence)
        /\ x.authority.single_use => is_consumed(x.authority)

\* No handler is called twice in an execution, nor after one that did not pass:
\* the calls of an execution are its workflow's first steps, in order, and all
\* but the last passed.
CallsFollowTheWorkflow ==
  \A n \in Numbers : \A i \in DOMAIN calls[n] :
    /\ calls[n][i].step_id = calls[n][i].state.workflow.steps[i].step_id
    /\ i < Len(calls[n]) => calls[n][i].decision = "PASS"

\* A result agrees with what happened: its step results are the calls made plus
\* at most one refused step, PASS means that every step ran and passed, a result
\* that says the authority was not consumed reports no call, and every call has
\* its record on the chain.
ResultsAreTrue ==
  \A r \in results :
    LET mine == calls[r.number]
    IN  /\ \/ Len(r.steps) = Len(mine)
           \/ Len(r.steps) = Len(mine) + 1 /\ r.decision = "BLOCKED"
        /\ \A i \in DOMAIN mine : /\ r.steps[i].step_id = mine[i].step_id
                                  /\ r.steps[i].decision = mine[i].decision
        /\ r.decision = "PASS" =>
             /\ Len(mine) = Len(r.workflow.steps)
             /\ \A i \in DOMAIN mine : mine[i].decision = "PASS"
        /\ ~r.authority_consumed => mine = <<>>
        /\ \A i \in DOMAIN mine : \E n \in DOMAIN r.evidence :
             r.evidence[n].step_id = mine[i].step_id
=============================================================================
