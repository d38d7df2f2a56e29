---------------------------- MODULE GovernedGraph ----------------------------
(***************************************************************************)
(* GovernedLangGraphExecutor (langgraph_adapter.py): the nodes authorize,  *)
(* gate, execute and finalize, the calls start and resume that drive them, *)
(* and the two durable stores they use, the journal's tables and the       *)
(* checkpoints.  A session is one start or resume call running in some     *)
(* process; a crash ends a session and loses all it had not stored.        *)
(*                                                                         *)
(* LangGraph is external and modelled from how the adapter relies on it:   *)
(*  - a node is run again from its beginning when its thread is resumed,   *)
(*    and its interrupts are answered in order by the stored responses,    *)
(*    then by the new one;                                                 *)
(*  - checkpoints are written by a background writer, so that a node can   *)
(*    be running while the checkpoint before it is not yet stored; a call  *)
(*    that returns or raises has stored what it had;                       *)
(*  - whether a response outlives a crash or an exception after its gate   *)
(*    used it is left open (both may happen).                              *)
(***************************************************************************)
EXTENDS JournalOps, RuntimePolicy, SequencesExt
\* As in JournalOps, an operator whose name starts with Mut is a bug put beside
\* the operator that follows it.

CONSTANTS
  Sessions,        \* start or resume calls that may be in progress together
  Threads,         \* LangGraph thread ids
  Subject,         \* the executor's subject
  Workflows,       \* workflow contracts a caller may present
  Grants,          \* authority grants a caller may present
  Registries,      \* what a process may have registered: agent_id -> descriptor
  Outcomes,        \* what handlers return: decision, and evidence kinds in order
  Reviews,         \* what a reviewer may answer: approved, and evidence kinds
  InitialLedgers,  \* evidence a caller may pass to start
  MaxTime,         \* bound of the clock
  MaxResponses,    \* bound of the responses stored for one gate
  MaxCalls         \* bound of the start and resume calls made in all

VARIABLES
  authority_uses,   \* journal table, durable
  step_executions,  \* journal table, durable
  checkpoints,      \* checkpoint store, durable: latest checkpoint of a thread
  session,          \* the calls in progress
  now,              \* Clock.now()
  calls,            \* how many start and resume calls were made
  handled,          \* history: the handler calls, in order
  reviewed,         \* history: the decisions passed to resume
  closed            \* history: the threads whose terminal result was returned

durable == <<authority_uses, step_executions, checkpoints>>
history == <<handled, reviewed, closed>>
vars == <<authority_uses, step_executions, checkpoints, session, now, calls,
          handled, reviewed, closed>>

WorkflowIds == {w.workflow_id : w \in Workflows}
Steps       == UNION {ToSet(w.steps) : w \in Workflows}
StepIds     == {p.step_id : p \in Steps}
AuthIds     == {g.authorization_id : g \in Grants}
Keys        == Threads \X WorkflowIds \X StepIds

-----------------------------------------------------------------------------
(***************************************************************************)
(* What the stores and the calls hold                                      *)
(***************************************************************************)

Decisions == {"PASS", "BLOCKED", "FAIL"}

\* The kinds of evidence the adapter, the reviewers and the handlers add.
Kinds ==
  {"workflow.started", "workflow.blocked", "workflow.completed",
   "step.pass", "step.blocked", "step.fail", "step.in_doubt"}
    \cup UNION {ToSet(x.kinds) : x \in Reviews}
    \cup UNION {ToSet(o.evidence) : o \in Outcomes}

EvidenceRecord ==
  [producer : {"langgraph-adapter", "human-review"} \cup {p.agent_id : p \in Steps},
   kind : Kinds, at : 0..MaxTime, step_id : StepIds \cup {NoRow}, replay : BOOLEAN]
    \cup UNION {ToSet(l) : l \in InitialLedgers}

\* What the gate's loop came to, for which step and when.
Verdict == [step_id : StepIds, at : 0..MaxTime,
            verdict : {"ready", "refused", "denied", "raised", "interrupt"}]

GraphState ==
  [workflow     : Workflows,
   authority    : Grants,
   current_step : Nat,
   decision     : Decisions \cup {"NONE"},
   terminal     : BOOLEAN,
   consumed     : BOOLEAN,
   evidence     : Seq(EvidenceRecord),
   step_results : Seq([step_id : StepIds, decision : Decisions]),
   gated        : Verdict \cup {NoRow}]

AuthorityRow ==
  [thread_id : Threads, workflow_id : {g.workflow_id : g \in Grants}, grant_digest : Grants]

StepRow ==
  [request_digest : [thread_id : Threads, workflow_id : WorkflowIds,
                     authorization_id : AuthIds, step : Steps,
                     evidence_head : Seq(EvidenceRecord)],
   status  : {"STARTED", "COMPLETED", "FAILED"},
   outcome : Outcomes \cup {NoRow}]

Interrupt == [workflow_id : WorkflowIds, step_id : StepIds]

Response == [workflow_id : WorkflowIds, step_id : StepIds, approved : BOOLEAN,
             kinds : Seq(Kinds), at : 0..MaxTime]

Checkpoint ==
  [values    : GraphState,
   next      : {"authorize", "gate", "execute", "finalize", "end"},
   interrupt : Interrupt \cup {NoRow},
   responses : Seq(Response)]

\* A session: nothing, a resume call that validated its response, or a call
\* that is inside the graph.
Idle == [pc |-> "idle"]

Resuming == [pc : {"resuming"}, thread : Threads, response : Seq(Response),
             registry : Registries]

Call ==
  [pc        : {"authorize", "gate", "claim", "handler", "seal", "finalize",
                "interrupted", "end"},
   thread    : Threads,
   values    : GraphState,
   interrupt : Interrupt \cup {NoRow},
   responses : Seq(Response),
   response  : Seq(Response),
   outcome   : Outcomes \cup {NoRow},
   registry  : Registries]

\* A call of a handler, with the descriptor that was registered for it.
HandlerCall ==
  [key        : Keys,
   state      : GraphState,
   descriptor : UNION {{r[a] : a \in DOMAIN r} : r \in Registries},
   outcome    : Outcomes]

\* WorkflowSpec refuses a workflow without steps.
ASSUME WorkflowsAssumption == \A w \in Workflows : w.steps \in Seq(Steps) /\ w.steps # <<>>

ASSUME GrantsAssumption ==
  \A g \in Grants : g.single_use \in BOOLEAN /\ g.expires_at \in Int

ASSUME OutcomesAssumption ==
  \A o \in Outcomes : /\ o.decision \in Decisions
                      /\ o.evidence \in Seq(Kinds)
                      /\ o.serialisable \in BOOLEAN

ASSUME ReviewsAssumption ==
  \A x \in Reviews : x.approved \in BOOLEAN /\ x.kinds \in Seq(Kinds)

ASSUME LedgersAssumption == \A l \in InitialLedgers : l \in Seq(EvidenceRecord)

ASSUME BoundsAssumption == MaxTime \in Nat /\ MaxCalls \in Nat

ASSUME NoRowIsNone ==
  /\ NoRow \notin AuthorityRow \cup StepRow \cup Checkpoint
  /\ NoRow \notin Outcomes \cup Interrupt \cup StepIds \cup Verdict

-----------------------------------------------------------------------------
(***************************************************************************)
(* The graph state and what the nodes do to it                             *)
(***************************************************************************)

\* One link of the evidence chain: the part of its material that can differ.
Record(producer, kind, at, step, replay) ==
  [producer |-> producer, kind |-> kind, at |-> at, step_id |-> step, replay |-> replay]

AdapterRecord(kind, step) == Record("langgraph-adapter", kind, now, step, FALSE)

InitialState(workflow, grant, ledger) ==
  [workflow     |-> workflow,
   authority    |-> grant,
   current_step |-> 0,
   decision     |-> "NONE",
   terminal     |-> FALSE,
   consumed     |-> FALSE,
   evidence     |-> ledger,
   step_results |-> <<>>,
   gated        |-> NoRow]      \* history: the last verdict of the gate

\* Python's workflow.steps[current_step].
current(v) == v.workflow.steps[v.current_step + 1]
finished(v) == v.current_step >= Len(v.workflow.steps)

\* _terminal_blocked: one record, one step result when a step is blocked.
Blocked(v, ledger, step_id, kind) ==
  [v EXCEPT !.terminal = TRUE,
            !.decision = "BLOCKED",
            !.evidence = Append(ledger, AdapterRecord(kind, step_id)),
            !.step_results = IF step_id = NoRow THEN @
                             ELSE Append(@, [step_id |-> step_id, decision |-> "BLOCKED"])]

Started(v) ==
  [v EXCEPT !.consumed = v.authority.single_use,
            !.evidence = Append(@, AdapterRecord("workflow.started", NoRow))]

StepRecordKind(decision) ==
  CASE decision = "PASS"    -> "step.pass"
    [] decision = "BLOCKED" -> "step.blocked"
    [] decision = "FAIL"    -> "step.fail"

\* The tail of the execute node: the outcome's evidence, the completion record
\* and the step result ...
Reported(v, outcome, replay) ==
  LET step  == current(v)
      items == [i \in DOMAIN outcome.evidence |->
                  Record(step.agent_id, outcome.evidence[i], now, NoRow, FALSE)]
      last  == Record("langgraph-adapter", StepRecordKind(outcome.decision), now,
                      step.step_id, replay)
  IN  [v EXCEPT
         !.evidence = @ \o Append(items, last),
         !.step_results = Append(@, [step_id  |-> step.step_id,
                                     decision |-> outcome.decision])]

\* Only the record tells what the handler decided.
MutReportedAsPass(v, outcome, replay) ==
  [Reported(v, outcome, replay) EXCEPT
     !.step_results[Len(v.step_results) + 1].decision = "PASS",
     !.current_step = @ + 1]

\* A failure is on record, and the workflow goes on.
MutContinueAfterFail(v, outcome, replay) ==
  [Reported(v, outcome, replay) EXCEPT !.current_step = @ + 1]

\* ... then the next step or the stop.
Completed(v, outcome, replay) ==
  LET updated == Reported(v, outcome, replay)
  IN  IF outcome.decision = "PASS"
      THEN [updated EXCEPT !.current_step = @ + 1]
      ELSE [updated EXCEPT !.decision = outcome.decision, !.terminal = TRUE]

\* The terminal flag is forgotten.
MutNotTerminal(v) ==
  [v EXCEPT !.evidence = Append(@, AdapterRecord("workflow.completed", NoRow)),
            !.decision = "PASS"]

Finalized(v) ==
  [v EXCEPT !.evidence = Append(@, AdapterRecord("workflow.completed", NoRow)),
            !.decision = "PASS",
            !.terminal = TRUE]

\* SHA-256 of the canonical request, taken to be collision free; evidence_head
\* stands for the whole chain it closes.
request_digest(thread, v) ==
  [thread_id        |-> thread,
   workflow_id      |-> v.workflow.workflow_id,
   authorization_id |-> v.authority.authorization_id,
   step             |-> current(v),
   evidence_head    |-> v.evidence]

KeyOf(thread, v) == <<thread, v.workflow.workflow_id, current(v).step_id>>

-----------------------------------------------------------------------------
(***************************************************************************)
(* The gate's loop over the responses to its interrupts                    *)
(***************************************************************************)

OnlyMissingEvidence(reasons) == reasons = {"REQUIRED_EVIDENCE_MISSING"}

\* The response is trusted to answer this interruption.
MutAnyStep(response, v) == response.workflow_id = v.workflow.workflow_id

\* A response names the workflow and the step it was given for.
Addresses(response, v) ==
  /\ response.workflow_id = v.workflow.workflow_id
  /\ response.step_id = current(v).step_id

\* One turn of the loop: the interrupt is answered by response.
Answer(v, ledger, response) ==
  IF ~Addresses(response, v) THEN [status |-> "raised", ledger |-> ledger]
  ELSE IF ~response.approved THEN [status |-> "denied", ledger |-> ledger]
  ELSE IF ~(ToSet(response.kinds) \subseteq missing(current(v), ledger))
       THEN [status |-> "raised", ledger |-> ledger]
  ELSE [status |-> "open",
        ledger |-> ledger \o [i \in DOMAIN response.kinds |->
          Record("human-review", response.kinds[i], response.at, NoRow, FALSE)]]

\* A step that passes, or that is refused for another reason, takes no further
\* response.
Turn(v, descriptor, acc, response) ==
  IF /\ acc.status = "open"
     /\ OnlyMissingEvidence(StepReasons(current(v), descriptor, v.authority, acc.ledger))
  THEN Answer(v, acc.ledger, response)
  ELSE acc

\* The loop from the checkpoint's ledger: where n responses lead.
Turns(v, descriptor, responses) ==
  LET turn[n \in 0..Len(responses)] ==
        IF n = 0 THEN [status |-> "open", ledger |-> v.evidence]
        ELSE Turn(v, descriptor, turn[n - 1], responses[n])
  IN  turn[Len(responses)]

Review(v, descriptor, responses) ==
  LET final   == Turns(v, descriptor, responses)
      reasons == StepReasons(current(v), descriptor, v.authority, final.ledger)
  IN  [ledger  |-> final.ledger,
       verdict |-> IF final.status # "open" THEN final.status
                   ELSE IF reasons = {} THEN "ready"
                   ELSE IF OnlyMissingEvidence(reasons) THEN "interrupt"
                   ELSE "refused"]

-----------------------------------------------------------------------------
(***************************************************************************)
(* Sessions and checkpoints                                                *)
(***************************************************************************)

Init ==
  /\ authority_uses = [a \in AuthIds |-> NoRow]
  /\ step_executions = [k \in Keys |-> NoRow]
  /\ checkpoints = [t \in Threads |-> NoRow]
  /\ session = [s \in Sessions |-> Idle]
  /\ now = 0
  /\ calls = 0
  /\ handled = <<>>
  /\ reviewed = {}
  /\ closed = {}

\* The node a session stands at, as a checkpoint records it.
NodeOf(pc) ==
  IF pc \in {"claim", "handler", "seal"} THEN "execute"
  ELSE IF pc = "interrupted" THEN "gate" ELSE pc

\* The checkpoint a running session stores: the state before its current node.
Image(s) ==
  [values    |-> session[s].values,
   next      |-> NodeOf(session[s].pc),
   interrupt |-> session[s].interrupt,
   responses |-> session[s].responses]

Stored(s) == [checkpoints EXCEPT ![session[s].thread] = Image(s)]

\* What start, resume and inspect report of a checkpoint, and what gar-langgraph
\* exits with: a thread that is neither interrupted nor over is running.
run_status(c) ==
  IF c.interrupt # NoRow THEN "INTERRUPTED"
  ELSE IF c.values.terminal THEN "TERMINAL" ELSE "RUNNING"

EXIT_BY_DECISION == [PASS |-> 0, BLOCKED |-> 3, FAIL |-> 4]

exit_code(c) ==
  CASE run_status(c) = "INTERRUPTED" -> EXIT_BY_DECISION["BLOCKED"]
    [] run_status(c) = "RUNNING"     -> 2
    [] run_status(c) = "TERMINAL"    -> EXIT_BY_DECISION[c.values.decision]

AtNode(s, node) == session[s].pc = node

\* The node is done: the session holds state v and stands at the next one.
GoTo(s, v, next) ==
  session' = [session EXCEPT ![s].values = v,
                             ![s].pc = next,
                             ![s].interrupt = NoRow,
                             ![s].responses = <<>>,
                             ![s].response = <<>>]

\* The node or the journal raised: invoke stores what came before and raises.
Raise(s) ==
  /\ checkpoints' = Stored(s)
  /\ session' = [session EXCEPT ![s] = Idle]

\* LangGraph may keep the response beside the checkpoint its gate started from.
Kept(s) ==
  [checkpoints EXCEPT ![session[s].thread].responses = @ \o session[s].response]

MayKeepResponse(s) ==
  \/ UNCHANGED checkpoints
  \/ /\ session[s].response # <<>>
     /\ checkpoints[session[s].thread] = Image(s)
     /\ checkpoints' = Kept(s)

\* The background writer.
Persist(s) ==
  /\ session[s].pc \notin {"idle", "resuming"}
  /\ checkpoints' = Stored(s)
  /\ UNCHANGED <<authority_uses, step_executions, session, now, calls, history>>

-----------------------------------------------------------------------------
(***************************************************************************)
(* start and resume                                                        *)
(***************************************************************************)

\* start does not look for a checkpoint.
MutRestart(t) == TRUE

Fresh(t) == checkpoints[t] = NoRow

\* start refuses a thread that has a checkpoint; the graph then enters
\* authorize while its first checkpoint is being written.
Start(s, t, workflow, grant, ledger, registry) ==
  /\ session[s] = Idle
  /\ calls < MaxCalls
  /\ calls' = calls + 1
  /\ Fresh(t)
  /\ session' = [session EXCEPT ![s] =
       [pc        |-> "authorize",
        thread    |-> t,
        values    |-> InitialState(workflow, grant, ledger),
        interrupt |-> NoRow,
        responses |-> <<>>,
        response  |-> <<>>,
        outcome   |-> NoRow,
        registry  |-> registry]]
  /\ UNCHANGED <<durable, now, history>>

\* resume reads the snapshot and refuses a thread that is not interrupted, and
\* a decision that does not name the interrupted step.  The evidence takes the
\* time of this moment.
Resume(s, t, review, registry) ==
  /\ session[s] = Idle
  /\ calls < MaxCalls
  /\ calls' = calls + 1
  /\ checkpoints[t] # NoRow
  /\ checkpoints[t].interrupt # NoRow
  /\ Len(checkpoints[t].responses) < MaxResponses
  /\ LET response == [workflow_id |-> checkpoints[t].interrupt.workflow_id,
                      step_id     |-> checkpoints[t].interrupt.step_id,
                      approved    |-> review.approved,
                      kinds       |-> review.kinds,
                      at          |-> now]
     IN  /\ session' = [session EXCEPT ![s] =
              [pc |-> "resuming", thread |-> t, response |-> <<response>>,
               registry |-> registry]]
         /\ reviewed' = reviewed \cup {<<t, response>>}
  /\ UNCHANGED <<durable, now, handled, closed>>

\* invoke(Command(resume=...)) reads the checkpoint again: another session may
\* have moved the thread on.  A gate is answered by the responses kept for it
\* and then by this one; a finished graph returns at once.
Enter(s) ==
  LET t == session[s].thread
      c == checkpoints[t]
  IN  /\ AtNode(s, "resuming")
      /\ session' = [session EXCEPT ![s] =
           IF c.next = "end" THEN Idle
           ELSE [pc        |-> IF c.next = "execute" THEN "claim" ELSE c.next,
                 thread    |-> t,
                 values    |-> c.values,
                 interrupt |-> c.interrupt,
                 responses |-> c.responses,
                 response  |-> session[s].response,
                 outcome   |-> NoRow,
                 registry  |-> session[s].registry]]
      /\ UNCHANGED <<durable, now, calls, history>>

-----------------------------------------------------------------------------
(***************************************************************************)
(* The nodes                                                               *)
(***************************************************************************)

Accepted(v) == WorkflowReasons(v.workflow, v.authority, Subject, now) = {}

AllRegistered(v, registry) ==
  \A i \in DOMAIN v.workflow.steps : v.workflow.steps[i].agent_id \in DOMAIN registry

\* _authorize_node: policy, then the registry, then the journal's claim.
AuthorizeNode(s) ==
  LET v == session[s].values
      t == session[s].thread
      g == v.authority
      ready == Accepted(v) /\ AllRegistered(v, session[s].registry)
  IN  /\ AtNode(s, "authorize")
      /\ \/ /\ ~ready \/ (~AuthorityAllowed(authority_uses, g, t)
                            /\ ~AuthorityMismatch(authority_uses, g))
            /\ GoTo(s, Blocked(v, v.evidence, NoRow, "workflow.blocked"), "end")
            /\ UNCHANGED <<authority_uses, checkpoints>>
         \/ /\ ready
            /\ AuthorityMismatch(authority_uses, g)
            /\ Raise(s)
            /\ UNCHANGED authority_uses
         \/ /\ ready
            /\ AuthorityAllowed(authority_uses, g, t)
            /\ authority_uses' = AuthorityTable(authority_uses, g, t)
            /\ GoTo(s, Started(v), "gate")
            /\ UNCHANGED checkpoints
      /\ UNCHANGED <<step_executions, now, calls, history>>

\* Policy and ownership again, on every entry of the gate: a grant that expired
\* or is owned elsewhere ends the workflow, one with other content raises.
GateRecheck(s) ==
  LET v == session[s].values
  IN  /\ AtNode(s, "gate")
      /\ ~(Accepted(v) /\ AuthorityAllowed(authority_uses, v.authority, session[s].thread))
      /\ IF Accepted(v) /\ AuthorityMismatch(authority_uses, v.authority)
         THEN Raise(s)
         ELSE /\ GoTo(s, Blocked(v, v.evidence, NoRow, "workflow.blocked"), "end")
              /\ UNCHANGED checkpoints
      /\ UNCHANGED <<authority_uses, step_executions, now, calls, history>>

\* The rest of _gate_node, once the grant holds (again): the step's agent, then
\* the loop of policy and human responses.
GateStep(s) ==
  LET v == session[s].values
      t == session[s].thread
      agent == current(v).agent_id
      responses == session[s].responses \o session[s].response
      review == Review(v, session[s].registry[agent], responses)
      step_id == current(v).step_id
      judged == [v EXCEPT !.gated =
                   [step_id |-> step_id, at |-> now, verdict |-> review.verdict]]
  IN  /\ AtNode(s, "gate")
      /\ Accepted(v)
      /\ AuthorityAllowed(authority_uses, v.authority, t)
      /\ authority_uses' = AuthorityTable(authority_uses, v.authority, t)
      /\ \/ /\ agent \notin DOMAIN session[s].registry
            /\ GoTo(s, Blocked(v, v.evidence, step_id, "step.blocked"), "end")
            /\ MayKeepResponse(s)
         \/ /\ agent \in DOMAIN session[s].registry
            /\ review.verdict = "ready"
            /\ GoTo(s, [judged EXCEPT !.evidence = review.ledger], "claim")
            /\ MayKeepResponse(s)
         \/ /\ agent \in DOMAIN session[s].registry
            /\ review.verdict \in {"refused", "denied"}
            /\ GoTo(s, Blocked(judged, review.ledger, step_id, "step.blocked"), "end")
            /\ MayKeepResponse(s)
         \/ /\ agent \in DOMAIN session[s].registry
            /\ review.verdict = "raised"
            /\ session' = [session EXCEPT ![s] = Idle]
            /\ MayKeepResponse(s)
         \/ /\ agent \in DOMAIN session[s].registry
            /\ review.verdict = "interrupt"
            /\ session' = [session EXCEPT
                 ![s].pc = "interrupted",
                 ![s].interrupt = [workflow_id |-> v.workflow.workflow_id,
                                   step_id |-> step_id],
                 ![s].responses = responses,
                 ![s].response = <<>>]
            /\ UNCHANGED checkpoints
      /\ UNCHANGED <<step_executions, now, calls, history>>

\* A passed step leads straight to the next execution.
MutSkipGate(v) ==
  IF v.terminal THEN "end" ELSE IF finished(v) THEN "finalize" ELSE "claim"

\* The last step is taken for the end of the workflow.
MutFinishEarly(v) ==
  IF v.terminal THEN "end"
  ELSE IF v.current_step + 1 >= Len(v.workflow.steps) THEN "finalize" ELSE "gate"

\* After a step: more steps to gate, or the end of the workflow.
AfterStep(v) ==
  IF v.terminal THEN "end" ELSE IF finished(v) THEN "finalize" ELSE "gate"

\* _execute_node up to the journal's answer.
ClaimNode(s) ==
  LET v == session[s].values
      key == KeyOf(session[s].thread, v)
      digest == request_digest(session[s].thread, v)
      registered == current(v).agent_id \in DOMAIN session[s].registry
      step_id == current(v).step_id
  IN  /\ AtNode(s, "claim")
      /\ \/ /\ ~registered
            /\ GoTo(s, Blocked(v, v.evidence, step_id, "step.blocked"), "end")
            /\ UNCHANGED <<step_executions, checkpoints>>
         \/ /\ registered
            /\ StepNew(step_executions, key)
            /\ step_executions' = StepTable(step_executions, key, digest)
            /\ session' = [session EXCEPT ![s].pc = "handler"]
            /\ UNCHANGED checkpoints
         \/ /\ registered
            /\ StepInDoubt(step_executions, key, digest)
            /\ GoTo(s, Blocked(v, v.evidence, step_id, "step.in_doubt"), "end")
            /\ UNCHANGED <<step_executions, checkpoints>>
         \/ /\ registered
            /\ StepMismatch(step_executions, key, digest)
            /\ Raise(s)
            /\ UNCHANGED step_executions
         \/ /\ registered
            /\ StepTerminal(step_executions, key, digest)
            /\ LET w == Completed(v, step_executions[key].outcome, TRUE)
               IN  GoTo(s, w, AfterStep(w))
            /\ UNCHANGED <<step_executions, checkpoints>>
      /\ UNCHANGED <<authority_uses, now, calls, history>>

\* The registered handler runs and returns outcome; an exception is an outcome
\* with decision FAIL and no evidence.  One that cannot be serialised raises
\* out of the node after the effect, before the row is sealed.
HandlerNode(s, outcome) ==
  LET v == session[s].values
  IN  /\ AtNode(s, "handler")
      /\ handled' = Append(handled,
           [key        |-> KeyOf(session[s].thread, v),
            state      |-> v,
            descriptor |-> session[s].registry[current(v).agent_id],
            outcome    |-> outcome])
      /\ \/ /\ outcome.serialisable
            /\ session' = [session EXCEPT ![s].pc = "seal", ![s].outcome = outcome]
            /\ UNCHANGED checkpoints
         \/ /\ ~outcome.serialisable
            /\ Raise(s)
      /\ UNCHANGED <<authority_uses, step_executions, now, calls, reviewed, closed>>

\* finish_step seals the row, then the node's tail runs.
SealNode(s) ==
  LET v == session[s].values
      key == KeyOf(session[s].thread, v)
      digest == request_digest(session[s].thread, v)
      outcome == session[s].outcome
      failed == outcome.decision = "FAIL"
      w == Completed(v, outcome, FALSE)
  IN  /\ AtNode(s, "seal")
      /\ step_executions' = FinishTable(step_executions, key, digest, outcome, failed)
      /\ IF FinishRaises(step_executions, key, digest, outcome, failed)
         THEN Raise(s)
         ELSE GoTo(s, w, AfterStep(w)) /\ UNCHANGED checkpoints
      /\ UNCHANGED <<authority_uses, now, calls, history>>

FinalizeNode(s) ==
  /\ AtNode(s, "finalize")
  /\ GoTo(s, Finalized(session[s].values), "end")
  /\ UNCHANGED <<durable, now, calls, history>>

\* An interrupted graph waits for its reviewer inside invoke.
MutWaitForReview(s) == AtNode(s, "end")

Returns(s) == AtNode(s, "end") \/ AtNode(s, "interrupted")

\* invoke returns: the last checkpoint is stored, the caller learns the state.
Return(s) ==
  /\ Returns(s)
  /\ checkpoints' = Stored(s)
  /\ session' = [session EXCEPT ![s] = Idle]
  /\ closed' = closed \cup {t \in {session[s].thread} : AtNode(s, "end")}
  /\ UNCHANGED <<authority_uses, step_executions, now, calls, handled, reviewed>>

\* The process dies.
Crash(s) ==
  /\ session[s] # Idle
  /\ session' = [session EXCEPT ![s] = Idle]
  /\ UNCHANGED <<durable, now, calls, history>>

Tick ==
  /\ now < MaxTime
  /\ now' = now + 1
  /\ UNCHANGED <<durable, session, calls, history>>

-----------------------------------------------------------------------------

Work(s) ==
  \/ Enter(s)
  \/ AuthorizeNode(s)
  \/ GateRecheck(s)
  \/ GateStep(s)
  \/ ClaimNode(s)
  \/ \E o \in Outcomes : HandlerNode(s, o)
  \/ SealNode(s)
  \/ FinalizeNode(s)
  \/ Return(s)

\* Everything but a crash.
Calm ==
  \/ Tick
  \/ \E s \in Sessions :
       \/ Work(s)
       \/ Persist(s)
       \/ \E t \in Threads, w \in Workflows, g \in Grants, l \in InitialLedgers,
            r \in Registries : Start(s, t, w, g, l, r)
       \/ \E t \in Threads, x \in Reviews, r \in Registries : Resume(s, t, x, r)

Next == Calm \/ \E s \in Sessions : Crash(s)

Spec == Init /\ [][Next]_vars

\* Runs in which no process dies.
CalmSpec == Init /\ [][Calm]_vars

\* An invocation is a thread of Python code that runs on until it returns.
FairSpec == Spec /\ \A s \in Sessions : WF_vars(Work(s))

-----------------------------------------------------------------------------
(***************************************************************************)
(* Properties                                                              *)
(***************************************************************************)

\* The types; and a stored state is not past the last step, is over exactly at
\* the end of the graph, and waits for a reviewer only at a gate.
TypeOK ==
  /\ authority_uses \in [AuthIds -> AuthorityRow \cup {NoRow}]
  /\ step_executions \in [Keys -> StepRow \cup {NoRow}]
  /\ checkpoints \in [Threads -> Checkpoint \cup {NoRow}]
  /\ session \in [Sessions -> {Idle} \cup Resuming \cup Call]
  /\ now \in 0..MaxTime
  /\ calls \in 0..MaxCalls
  /\ handled \in Seq(HandlerCall)
  /\ reviewed \subseteq Threads \X Response
  /\ closed \subseteq Threads
  /\ \A t \in Threads : checkpoints[t] # NoRow =>
       /\ checkpoints[t].values.current_step <= Len(checkpoints[t].values.workflow.steps)
       /\ checkpoints[t].values.terminal <=> checkpoints[t].next = "end"
       /\ checkpoints[t].interrupt # NoRow => checkpoints[t].next = "gate"

RowOf(t, v, n) == step_executions[<<t, v.workflow.workflow_id, v.workflow.steps[n].step_id>>]

\* The graph states that exist: stored ones and those of running sessions.
Running(s) == session[s].pc \notin {"idle", "resuming"}
StatesOf(t) ==
  {checkpoints[t].values : x \in {y \in {t} : checkpoints[y] # NoRow}}
    \cup {session[s].values : s \in {r \in Sessions : Running(r) /\ session[r].thread = t}}

\* The handler of a (thread, workflow, step) is called at most once, over all
\* crashes, resumes and racing sessions (claim before call, _execute_node).
AtMostOnce ==
  \A i, j \in DOMAIN handled : handled[i].key = handled[j].key => i = j

\* A handler is called only after every earlier step of its workflow was sealed
\* with PASS on that thread: "No later step is called after BLOCKED or FAIL".
EarlierStepsPassed ==
  \A i \in DOMAIN handled :
    LET h == handled[i]
    IN  \A n \in 1..h.state.current_step :
          /\ RowOf(h.key[1], h.state, n) # NoRow
          /\ RowOf(h.key[1], h.state, n).status = "COMPLETED"
          /\ RowOf(h.key[1], h.state, n).outcome.decision = "PASS"

\* A handler is called only on a state that the gate let through for that very
\* step while the grant was still valid, also when a session enters a
\* checkpoint another one left between gate and execute.
GatedInTime ==
  \A i \in DOMAIN handled :
    LET h == handled[i]
    IN  /\ h.state.gated # NoRow
        /\ h.state.gated.verdict = "ready"
        /\ h.state.gated.step_id = h.key[3]
        /\ h.state.gated.at < h.state.authority.expires_at

\* Whatever thread is started, crashed and resumed with whatever grants, agents
\* and responses, a handler is called only when the whole policy accepts the
\* call: subject, workflow and time at its gate; capabilities of the grant and
\* of the agent, effect and evidence (threat-model.md, invariants 1 to 3).
CallsSatisfyPolicy ==
  \A i \in DOMAIN handled :
    LET v == handled[i].state
    IN  /\ InForce(v.authority, v.workflow, Subject, v.gated.at)
        /\ Entitled(current(v), handled[i].descriptor, v.authority, v.evidence)

\* A thread that got past authorize keeps its claim on the grant: the gate's
\* second claim never finds it taken ("Resuming the same thread is idempotent").
ClaimLasts ==
  \A s \in Sessions : session[s].pc \in {"gate", "claim", "handler", "seal", "finalize"} =>
    AuthorityAllowed(authority_uses, session[s].values.authority, session[s].thread)

\* Handlers called under one single-use authorization are called on one thread.
SingleUseOneThread ==
  \A i, j \in DOMAIN handled :
    LET g == handled[i].state.authority
        h == handled[j].state.authority
    IN  g.single_use /\ h.single_use /\ g.authorization_id = h.authorization_id
          => handled[i].key[1] = handled[j].key[1]

\* A human response takes effect only on the step it was given for: a denial
\* blocks no other step, and human evidence on a chain comes from an approval
\* for a step of that workflow that requires the kind.  A resume validated
\* against one interruption may meet another one when it enters the graph.
ResponsesKeepTheirStep ==
  \A t \in Threads : \A v \in StatesOf(t) :
    /\ v.gated # NoRow /\ v.gated.verdict = "denied" =>
         \E x \in reviewed :
           /\ x[1] = t
           /\ x[2].workflow_id = v.workflow.workflow_id
           /\ x[2].step_id = v.gated.step_id
           /\ ~x[2].approved
    /\ \A n \in DOMAIN v.evidence : v.evidence[n].producer = "human-review" =>
         \E x \in reviewed, m \in DOMAIN v.workflow.steps :
           /\ x[1] = t
           /\ x[2].workflow_id = v.workflow.workflow_id
           /\ x[2].step_id = v.workflow.steps[m].step_id
           /\ x[2].approved
           /\ x[2].at = v.evidence[n].at
           /\ v.evidence[n].kind \in ToSet(x[2].kinds) \cap v.workflow.steps[m].requires

\* The step results a graph state reports are those the journal sealed, also
\* when the state was replayed after a crash.
ResultsMatchJournal ==
  \A t \in Threads : \A v \in StatesOf(t) : \A n \in DOMAIN v.step_results :
    v.step_results[n].decision \in {"PASS", "FAIL"} =>
      /\ RowOf(t, v, n) # NoRow
      /\ RowOf(t, v, n).status # "STARTED"
      /\ RowOf(t, v, n).outcome.decision = v.step_results[n].decision

\* The step.pass records of a chain are those of its first k steps, in order.
PassesInOrder(v, k) ==
  \E at \in [1..k -> DOMAIN v.evidence] :
    /\ \A i, j \in 1..k : i < j => at[i] < at[j]
    /\ \A i \in 1..k : v.evidence[at[i]].step_id = v.workflow.steps[i].step_id
    /\ {n \in DOMAIN v.evidence : v.evidence[n].kind = "step.pass"} = {at[i] : i \in 1..k}

\* A workflow reported as PASS had every one of its handlers called, and its
\* chain holds one step.pass record per step, in order.
PassMeansAllRan ==
  \A t \in Threads : \A v \in StatesOf(t) : v.decision = "PASS" =>
    /\ \A m \in DOMAIN v.workflow.steps : \E i \in DOMAIN handled :
         handled[i].key = <<t, v.workflow.workflow_id, v.workflow.steps[m].step_id>>
    /\ PassesInOrder(v, Len(v.workflow.steps))

\* With one session at a time, a stored chain is only ever extended.
EvidenceOnlyGrows ==
  [][\A t \in Threads : checkpoints[t] # NoRow =>
       IsPrefix(checkpoints[t].values.evidence, checkpoints'[t].values.evidence)]_vars

\* With one session at a time, no handler runs on a thread whose terminal
\* result (a human denial, for one) was returned to a caller.
TerminalIsFinal ==
  [][handled' # handled => Last(handled').key[1] \notin closed]_vars

\* Every start or resume call ends.
CallsEnd == \A s \in Sessions : []<>(session[s] = Idle)

(***************************************************************************)
(* The graph implements StepLifecycle.                                     *)
(***************************************************************************)

Workers(k) ==
  {s \in Sessions : /\ session[s].pc \in {"handler", "seal"}
                    /\ KeyOf(session[s].thread, session[s].values) = k}

StageOf(k) ==
  LET row == step_executions[k]
      s == CHOOSE w \in Workers(k) : TRUE
  IN  IF row = NoRow THEN [at |-> "unclaimed", outcome |-> NoRow]
      ELSE IF row.status # "STARTED" THEN [at |-> "sealed", outcome |-> row.outcome]
      ELSE IF Workers(k) = {} THEN [at |-> "in_doubt", outcome |-> NoRow]
      ELSE IF session[s].pc = "seal" THEN [at |-> "ran", outcome |-> session[s].outcome]
      ELSE [at |-> "claimed", outcome |-> NoRow]

Lifecycle == INSTANCE StepLifecycle
               WITH NoOutcome <- NoRow, stage <- [k \in Keys |-> StageOf(k)]

\* Nodes, crashes, resumes and replays are, for the journal's rows, steps of the
\* lifecycle of one workflow step.
ImplementsLifecycle == Lifecycle!Spec

(***************************************************************************)
(* What the documents say of an unfinished claim.                          *)
(***************************************************************************)

\* "STARTED without terminal outcome becomes BLOCKED" (threat-model.md): when
\* no session is at work on a thread with an in-doubt step, its stored state is
\* reported as blocked, or start can still take the thread.
InDoubtIsReported ==
  \A k \in Keys :
    /\ step_executions[k] # NoRow
    /\ step_executions[k].status = "STARTED"
    /\ \A s \in Sessions : session[s] # Idle => session[s].thread # k[1]
    => checkpoints[k[1]] = NoRow \/ exit_code(checkpoints[k[1]]) = 3

\* "Every attempted governed execution after authority consumption is represented
\* on the evidence chain" (threat-model.md, invariant 9), for calls that were not
\* cut off by a crash: once no call is in progress on its thread, a handler call
\* has a step record on the stored chain.
AttemptsAreRecorded ==
  \A i \in DOMAIN handled :
    LET t == handled[i].key[1]
    IN  (\A s \in Sessions : session[s] # Idle => session[s].thread # t)
        => /\ checkpoints[t] # NoRow
           /\ \E n \in DOMAIN checkpoints[t].values.evidence :
                checkpoints[t].values.evidence[n].step_id = handled[i].key[3]
=============================================================================
