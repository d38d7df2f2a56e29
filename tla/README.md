# A TLA+ model of the governed agent runtime

This directory models `governed_agent_runtime`, a Python package that runs
multi-agent workflows only where a grant, a policy and evidence allow it, and
that can keep such a workflow on disk through LangGraph. The modules are
translated from `src/src/governed_agent_runtime/` (called by file name below);
`PROJECT.json` maps every definition to the lines it stands for.

## 1. The system

| Part | Source | State | Operations |
| --- | --- | --- | --- |
| Execution journal | `execution_journal.py` | two SQLite tables: `authority_uses` (who owns a single-use grant), `step_executions` (request digest, status, outcome of a step); per process a connection, its open transaction and an RLock | `claim_authority`, `claim_step`, `finish_step`, each a write transaction; `close`; `authority_owner` reads |
| LangGraph adapter | `langgraph_adapter.py` | per thread a checkpoint: workflow, grant, current step, decision, terminal flag, evidence, step results | `start`, `resume`, `inspect`; nodes authorize, gate, execute, finalize |
| Core runtime | `runtime.py` | `AuthorityUseRegistry._consumed`, a set in memory; locals of each `execute` | `execute`, `consume` |
| Policy and contracts | `policy.py`, `models.py` | none | `evaluate_workflow`, `evaluate_step`, `is_expired` |
| Evidence ledger | `evidence.py` | a list of hash-linked records | `append`, `verify`, `export`; `_ledger_from_export` in the adapter |
| Agent registry | `registry.py` | agents of one process | `register` (setup), `resolve` |
| Clock | `clock.py` | the time | `now` |
| Serialization | `serialization.py`, with the constructors of `models.py` | none | `workflow_from_mapping`, `authority_from_mapping`, `read_mapping` |
| Command lines | `cli.py`, `langgraph_cli.py` | files, standard output, the exit code | `gar run`, `gar demo`, `gar semantics`; `gar-langgraph start`, `resume`, `inspect` |
| Built-in agents | `builtin_agents.py` | none | three fixed handlers |

How they interact. `start` writes the first checkpoint and runs the graph;
authorize asks the policy, the registry and the journal, gate asks them again on
every entry and interrupts the graph while evidence is missing, execute claims
the step in the journal, calls the handler, seals the outcome and appends to the
evidence, and the routes lead back to gate, to finalize or to the end. `resume`
checks a human decision against a snapshot and enters the graph again. Each node
rebuilds its ledger from the checkpoint. The two stores are separate: the
journal commits inside a node, the checkpoint is written after it, and a process
can die in between. The core runtime has no store: it runs a whole workflow in
one call, and shares only the registry of consumed grants between calls. `gar`
reads contracts from files, runs them in a core runtime of its own with the
built-in agents, prints the result, writes the evidence and exits. The adapter
uses the same parser on the contracts it stored in a checkpoint.

What is hard about it, and which properties it makes necessary:

- *Journal.* Callers of several processes race for one row and die holding it.
  A step is run at most once, an outcome is what its handler produced, an
  abandoned claim is never taken over, an owner never replaced. Underneath, an
  operation is several statements on a connection that other threads of the
  process share, beside connections of other processes, and COMMIT itself may
  fail: it must look atomic all the same, and nobody may wait for ever.
- *Adapter.* A node runs again from its beginning after a crash or an interrupt;
  responses may be answered to another interruption than the one they were
  validated against; a grant expires while a human decides; a claim, an effect,
  a seal and a checkpoint are four steps with a crash possible between any two.
- *Core runtime.* Threads share a registry without a lock; one reading of the
  clock serves a whole workflow; exceptions and refusals must stop it and the
  result must tell the truth about it.
- *Boundary.* Effects come first, printing and writing after them, each may
  fail, and a script sees an exit code: it must not say less or more than what
  happened. A contract must be read the same from a file and from a checkpoint,
  and a file that is none must be refused as one.
- *Evidence.* A verification must not miss a change nor refuse a sound ledger,
  although payloads are shared and arrays lie in stores.

The hazards, each at its line, are listed in `PROJECT.json`.

## 2. The modules

    StepLifecycle          what the journal promises for one step
        ^  implemented by
    ExecutionJournal       the step protocol of the journal's callers
        ^  implemented by
    SqliteJournal          the same, as transactions on shared connections
    JournalOps             the journal's three operations as table functions,
                           extended by ExecutionJournal and GovernedGraph
    GovernedGraph          the adapter: nodes, sessions, checkpoints, crashes
                           (implements StepLifecycle as well)
    RuntimePolicy          the policy, used by GovernedGraph and CoreRuntime
    CoreRuntime            execute and its registry, with threads
    Contracts              contracts as JSON: reading, storing, the schemas
    GarCommand             the gar command, over CoreRuntime and Contracts
    EvidenceLedger         the chain, its export and its restoration

The theorems are in modules of their own:

    JournalProofs          ExecutionJournal, then SqliteJournal
    GovernedGraphProofs    the invariant of the adapter, and its consequences
    GraphEvidenceProofs    what its chains say; extends GovernedGraphProofs
    GraphStepProofs        what its steps do; extends GraphEvidenceProofs
    CoreRuntimeProofs      CoreRuntime
    EvidenceLedgerProofs   EvidenceLedger
    GarCommandProofs       Contracts and GarCommand
    NumberInduction        induction over numbers, for loops and sequences

Operators whose name starts with `Mut` are deliberate mistakes. Each stands
before the operator it could replace, and shows, when it does, that a property
depends on that operator; nothing else refers to them.

**JournalOps.** A table is a function from its key to a row or `NoRow`.
`claim_authority`, `claim_step` and `finish_step` run inside `_write_transaction`
(`BEGIN IMMEDIATE`, commit or rollback), so each is one atomic
read-modify-write: predicates name its branches (`AuthorityFree`, `StepNew`,
`StepInDoubt`, `FinishRaises`, ...) and `...Table` operators what it commits.
Digests are the contents they digest: SHA-256 is taken to be collision free.

**ExecutionJournal.** Callers that follow the adapter's order: `Authorize`,
one of `ClaimNew`, `ClaimReplay`, `ClaimRefused`, then `RunHandler`, `Finish`,
and `Stop` anywhere (a return, an exception, the death of the process). Steps,
digests and outcomes are arbitrary: the journal's promises do not depend on the
graph.

**SqliteJournal.** One level down. Each process has one connection and one
RLock. `CallClaimAuthority`, `CallClaimStep` and `CallFinishStep` enter an
operation, which takes the lock (`TakeLock`), begins (`Begin`, or `BeginFails`
when the write lock is held or the connection has a transaction open), runs its
SELECT and its write inside the transaction (`Body`, or `Rollback` when the code
raises) and commits. `CommitFails` and `Interrupted` are the two ways a
transaction can outlive its operation: COMMIT stands outside the `try`, and
`except Exception` lets a `KeyboardInterrupt` pass. `Down`, `Gone` and `Open` are
the end of a process, of its callers, and its return. `txn[p]` holds the tables
as the open transaction sees them, which makes isolation and rollback plain:
others see nothing of it until `Commit` stores it. `BEGIN` may fail as soon as
the lock is not free (how long the timeout is does not matter to what is
checked). The refinement is by identity: the variables of `ExecutionJournal` are
still there, `Commit`, the failures and the ends change them as its actions do,
and every other step stutters; `ImplementsJournal` is its `Spec`.

**StepLifecycle.** The abstract promise: a step is unclaimed, claimed, ran, then
sealed with what its handler returned, or in doubt for ever once its claimant is
lost. Both `ExecutionJournal` and `GovernedGraph` implement it
(`ImplementsLifecycle`, with `StageOf` as the refinement mapping: a STARTED row
is *claimed* or *ran* while some caller works on it, and *in doubt* after that).

**GovernedGraph.** A session is one `start` or `resume` call in some process. It
holds the graph state and stands at a node; the execute node is three steps
(claim, handler, seal), since other sessions and crashes can come in between.
`Persist` is the background writer of checkpoints, `Raise` an exception out of a
node, `Crash` the end of the process. `Resume` reads a snapshot and `Enter`, a
separate step, reads the checkpoint again, as `invoke` does. `Review` is the
gate's loop over its responses. What LangGraph does is external, and taken as
the adapter relies on it: an interrupted or unfinished node runs again from its
beginning with its stored responses in order; a call that returns or raises has
stored the state before the node it stopped in; a checkpoint can lag behind a
running node; whether a response survives a crash after its gate consumed it is
left open. The record field `gated` is history: the gate's last verdict, its
step and its time. `run_status` and `exit_code` are what `inspect` reports of a
stored checkpoint and what `gar-langgraph` makes of it.

**RuntimePolicy.** A verdict is the set of reasons to refuse. Beside the policy
stand `InForce` and `Entitled`: what an accepted call can rely on, said of the
grant, the step, the agent and the chain themselves. The properties about handler
calls use these two and not the operators that translate the policy, so a slip in
the policy (a grant good at the instant it expires, say) violates them.

**CoreRuntime.** `Execute` (policy and registry), `ConsumeTest` and `ConsumeAdd`
(the two halves of `consume`), then `EvaluateStep` and `RunHandler` for each
step and `Complete`. `Tick` can come between any two of them. Executions are
numbered; `calls[n]` is the history of the handler calls of execution `n`, each
with the execution as it was, and the field `past` of an execution is the set of
those that were over when it began. A result is returned only if `verify` passes:
`SharedKinds` are the kinds of evidence whose payloads nest something their
supplier keeps, and an execution with one of these on its chain may raise where it
would have returned (`Terminal`). An outcome that cannot be recorded raises too.

**Contracts.** Functions between JSON values and contract records, in both
directions, with the outcome of reading (`none`, `ContractError`, or another
exception, which the command lines do not catch the same way), and the published
schemas as predicates. A string has its text without the blanks around it and
whether there were any, since `models.py` strips and `fromisoformat` does not.
`JsonValue` says what any value that `json.loads` returns has.

**GarCommand.** One process, from `ReadContracts` (or `DemoContracts`,
`Semantics`) over the steps of `CoreRuntime`'s `Execute` with the built-in
handlers to `PrintResult` and `WriteEvidence`, or to `Uncaught`, an exception out
of `execute`, or to `PrintFails`, output that cannot be printed. `Registry` is `BuiltinRegistry`; `handler` gives what a built-in
agent makes of a step's input; a NaN makes it unrecordable at any depth.

**EvidenceLedger.** `AppendRecord`, `MutateShared` (the supplier of a payload
changes what is nested in it), `Export`, `Damage` of the stored array (records
lost, doubled, moved, renumbered, edited) and `Restore` by
`_ledger_from_export`, whose loop over the array is a recursive function
(`rebuild`). A digest is the material it digests, and nothing but
`append` computes one: forging a whole chain with new digests is outside the
model, as the documents exclude it (no external anchoring).

## 3. What the runs check

| Run | Question | Instance | Result |
| --- | --- | --- | --- |
| `journal` | do transactions on shared connections implement the step protocol, does it keep its promises and implement StepLifecycle, and does every operation end? | 3 callers in 2 processes, 2 threads, 1 step, 2 digests, 2 outcomes, 1 single-use grant, 1 fault | 329 thousand states, holds |
| `graph_serial` | does one call at a time keep them over crashes and resumes? | 1 session, 2 threads, plan then deploy (needs approval), one single-use grant that expires at 2, time to 2, 5 calls | 476 thousand states, holds |
| `graph_races` | and two calls at once on one thread? | 2 sessions, 2 steps with an approval each, grant expires at 1, 5 calls | 0.6 million states, holds |
| `graph_contracts` | is a handler ever called outside the policy, and does every call end whatever it is given? | 7 grants, 3 registries, 2 outcomes, 3 approvals, 2 initial ledgers, time to 1, 3 calls, weak fairness of `Work` | 471 thousand states, holds |
| `graph_in_doubt` | is an abandoned step always reported as BLOCKED? | 1 session, 1 grant | violated |
| `graph_unrecorded` | is every attempt on the chain? | no crashes | violated |
| `core_threads` | policy, order, stopping, truth of results, no replay between executions that do not overlap | 2 threads, 2 executions, 3 grants, 6 outcomes, payloads of one kind shared, time to 1 | 176 thousand states, holds |
| `core_race` | no replay at all in one process? | 2 threads, 1 grant | violated |
| `ledger` | is verification exact, and restoration faithful? | 3 records, 2 payloads, 2 damages | 617 thousand states, holds |
| `ledger_aliasing` | are records immutable? | as above | violated |
| `gar` | does the exit code tell the truth, and do contracts survive a checkpoint? | 28 workflow files, 12 authority files, the 3 demos, 3 evidence paths, time to 1 | 8 thousand states, holds |
| `gar_schema` | is a file outside the published schema refused as a contract error? | 2 workflow files the schema rules out | violated |

The properties are stated, each with the code behaviour it is about, at the end
of the modules. In short:

- `AtMostOnce`: one handler call for each (thread, workflow, step), ever.
- `AnswersAgree`, `ResultsMatchJournal`: outcomes reported, fresh or replayed,
  are those produced and sealed.
- `SingleUseOneThread`, `ClaimLasts`, `RowsOnlyAdvance`: ownership of single-use
  grants.
- `FinishNeverRaises`, `InDoubtIsFinal`: no claim is taken over.
- `ImplementsJournal`: an operation is atomic, over lock waits, timeouts,
  rollbacks, failing COMMITs, interrupts and the loss of processes.
- `OrphansComeFromFaults`, `OrphansStoreNothing`: a transaction is left open only
  by the two faults above, and then no process commits anything, so that a write
  that was reported as failed is never stored by a later operation.
- `LockComesFree`: the callers of a process are never kept from its connection
  for ever, not even by such a transaction in another process.
- `CallsEnd`: every start and resume call ends. That a gate gets through its
  responses is not tested by it: each turn of the loop that stays in it uses up one
  of finitely many, and `Turns` takes that over from the code.
- `EarlierStepsPassed`, `GatedInTime`, `CallsSatisfyPolicy`: what must be true
  when a handler is called, the last two stated without the policy's operators.
- `ResponsesKeepTheirStep`: a human response affects only the step it was given
  for, also when it meets another interruption than it was validated against.
- `PassMeansAllRan`, `TerminalIsFinal`, `EvidenceOnlyGrows`: what a run reports
  is true and stays so; the last two with one call at a time, since concurrent
  calls on one thread overwrite each other's checkpoints (the documents exclude
  multi-process use).
- `NoSerialReplay`, `CallsFollowTheWorkflow`, `ResultsAreTrue`: the core runtime.
- `VerifyIsExact`, `RestoredIsOriginal`, `SoundExportsRestore`: evidence.
- `ExitTellsTheTruth`: what a script may conclude from each exit code of `gar`
  about the handlers that ran and the evidence that was written.
- `ReloadsUnchanged`: workflow and grant, with every default and normalised field,
  come back from a checkpoint as they went in.

### Where the code and its documents differ

1. `graph_in_doubt`. "`STARTED` without terminal outcome becomes `BLOCKED`"
   (`docs/threat-model.md`). After a crash in the execute node with the
   checkpoint before it (or the one before authorize) stored, `start` refuses the
   thread because it exists and `resume` because it is not interrupted. The
   branch that reports `step.in_doubt` is not reached, and `inspect` shows
   RUNNING.
2. `graph_unrecorded`. "Every attempted governed execution after authority
   consumption is represented on the evidence chain." An outcome that is not
   JSON-representable raises after the handler's effect and outside its `try`;
   there is no record of the attempt and the row stays STARTED.
3. `core_race`. "Single-use grants cannot replay in one runtime process"
   (`README.md`). `consume` tests and inserts without a lock.
4. `ledger_aliasing`. "One immutable link in an evidence chain." Payloads are
   copied one level deep. A handler that keeps a nested list and appends to it
   makes `verify` raise at the end of a workflow that ran. What the runtime keeps
   nevertheless is checked in `core_threads`: the grant stays consumed.
5. `gar_schema`. `ContractError` is "raised when external JSON does not match a
   runtime contract". `StepSpec` is built outside the `try` that makes contract
   errors, so a file whose `requires_evidence_kinds` names a kind twice, which the
   schema rules out, ends in a traceback with exit 1. Nothing is called. Fields
   the schema does not allow are ignored, so with a misspelt
   `requires_evidence_kinds` the step is called without the evidence. A file that
   is not UTF-8 ends in a traceback as well.

Two more that no run is about. `GovernedRuntime.execute` reads the clock once, so
a handler late in a workflow may be called on a grant that has expired meanwhile
("A handler is not called when workflow authority is invalid", `threat-model.md`);
the adapter judges the grant again at every gate, but not between gate and
execute. And `gar-langgraph resume` compares the stripped thread id of its resume
file with the `--thread-id` as it was typed, while `start` strips that one too:
with blanks around it, an option that started a thread does not resume it.

## 4. Bounds, and why they are enough

- *Two of everything that competes*: two callers of a connection and two
  connections (hence three callers), two sessions on a thread, two Python
  threads; a race here has a winner and a loser, and a third party only repeats
  the loser's part. Two LangGraph threads where they
  compete for a grant, one where sessions compete for a thread.
- *Two steps*: one has a predecessor, one a successor, and a response can be
  meant for the other one.
- `MaxTime` 2 lets a grant that expires at 2 be valid twice and then expire
  while a gate waits; 1 where time only has to expire it; 0 where time does not
  matter. The interesting instant is `now = expires_at`.
- `MaxCalls` 5 pays for a start, an approval, a crash and another entry; 3, for a
  start and two approvals, where contracts vary instead.
  `MaxResponses` bounds the responses LangGraph keeps for one gate, 2 where wrong
  kinds and right ones may follow each other.
- `MaxExecutions` 2, the second being the replay. `MaxRecords` 3 gives a chain a
  first, a middle and a last record; `MaxDamages` 2 lets a lost record be
  followed by renumbering.
- `MaxFaults` 1 leaves one transaction open; a second one cannot be opened while
  it is there. One single-use grant in `journal`, since the graph's runs have
  forged and multi-use ones; two digests, so that an operation raises within its
  transaction.
- `gar` has files that are refused as text, as JSON, by the parser and by the
  contracts' constructors, by the policy, and one for each way a workflow of
  built-in agents can end, up to three steps. `MaxNesting` 2 is the depth to which
  inputs are searched for a NaN, and one file has it that deep, in an object in a
  list.
- Symmetry is used for model values the specification treats alike, in runs
  without liveness properties (`graph_races`, `core_threads`).
- Deadlock is not checked where the bounds on calls, executions and time stop
  the system (`graph_*`, `core_*`), where a command ends (`gar*`), in a run that
  looks for one violation, nor in `journal`, whose callers may all have stopped
  with their steps settled. There `LockComesFree` is the stronger statement.

*Fairness.* `graph_contracts` assumes weak fairness of `Work(s)`: an invocation is
Python code on a thread of the operating system, every node of it terminates when
its handler does, and nothing in the graph waits. That a handler returns is part
of the assumption; nothing is assumed about crashes, the background writer, or
that anybody resumes. `journal` assumes weak fairness of `Works(p)`, that some
operation of a live process goes on while one can: again code that runs, where
the only waits are for the RLock, which its holder gives back, and for SQLite's
write lock, which `BEGIN` gives up after the busy timeout (`BeginFails`). No
fairness is assumed between the callers of a process, since an RLock promises
none, and none against the faults.

## 5. What is proved

All theorems hold for every value of the constants that the named assumptions of
the modules allow (fields the code reads have their types, a workflow has steps,
`NoRow` and its like are no rows, bounds are numbers). TLC evaluates these
assumptions in every run. Each safety property below is first checked on an
instance, and so was each inductive invariant before it was proved.

| Module | Theorem | Property |
| --- | --- | --- |
| `JournalProofs` | `TypeCorrect` | `TypeOK` |
| | `HandlerAtMostOnce` | `AtMostOnce` |
| | `AnswersAreTheHandlers` | `AnswersAgree` |
| | `SingleUseIsOneThread` | `SingleUseOneThread` |
| | `FinishIsClean` | `FinishNeverRaises` |
| | `InDoubtStays` | `InDoubtIsFinal` |
| | `RowsAdvance` | `RowsOnlyAdvance` |
| | `JournalImplementsLifecycle` | `ImplementsLifecycle` |
| | `TransactionsAreAtomic` | `ImplementsJournal` |
| | `OrphansAreFaults`, `OrphansKeepOut` | `OrphansComeFromFaults`, `OrphansStoreNothing` |
| | `Sql...` | the eight above, carried over |
| `GovernedGraphProofs` | `GraphTypeOK` | `TypeOK` |
| | `GraphAtMostOnce` | `AtMostOnce` |
| | `GraphEarlierStepsPassed` | `EarlierStepsPassed` |
| | `GraphGatedInTime` | `GatedInTime` |
| | `GraphSingleUseOneThread` | `SingleUseOneThread` |
| | `GraphClaimLasts` | `ClaimLasts` |
| | `GraphResultsMatchJournal` | `ResultsMatchJournal` |
| | `GraphCallsAreGranted` | `CallsSatisfyPolicy`, for the agent the gate was asked about |
| | `GraphCallsSatisfyPolicy` | `CallsSatisfyPolicy`, if `SameDescriptors` |
| `GraphEvidenceProofs` | `GraphResponsesKeepTheirStep` | `ResponsesKeepTheirStep`, if `NoForgedReviews` |
| | `GraphPassMeansAllRan` | `PassMeansAllRan`, if `NoForgedPasses` |
| `GraphStepProofs` | `GraphImplementsLifecycle` | `ImplementsLifecycle` |
| | `GraphEvidenceOnlyGrows` | `EvidenceOnlyGrows`, if `OneSession` |
| | `GraphTerminalIsFinal` | `TerminalIsFinal`, if `OneSession` |
| | `GraphOneSessionPolicy` | `CallsSatisfyPolicy`, if `OneSession` |
| `CoreRuntimeProofs` | `CoreTypeOK` | `TypeOK` |
| | `CoreCallsSatisfyPolicy` | `CallsSatisfyPolicy` |
| | `CoreCallsFollowTheWorkflow` | `CallsFollowTheWorkflow` |
| | `CoreResultsAreTrue` | `ResultsAreTrue` |
| | `CoreNoSerialReplay` | `NoSerialReplay` |
| | `CoreNoReplay` | `NoReplay`, if `OneThread` |
| `EvidenceLedgerProofs` | `LedgerTypeOK` | `TypeOK` |
| | `LedgerVerifyIsExact` | `VerifyIsExact` |
| | `LedgerRestoredIsOriginal` | `RestoredIsOriginal` |
| | `LedgerSoundExportsRestore` | `SoundExportsRestore` |
| `GarCommandProofs` | `GarExitTellsTheTruth` | `ExitTellsTheTruth` |
| | `GarReloadsUnchanged` | `ReloadsUnchanged` |

None of the safety properties is inductive by itself. In each module an invariant
is shown to hold initially and to be kept by every action, one lemma or step per
action; the theorems follow from it.

*The step protocol* (`IInv`). `AtMostOnce` holds because a handler call needs a
caller at *claimed*, and such a caller is the only one with that key, owns a
STARTED row with its digest, and no handler of that key has run yet. `IInv` says
this for every position of a caller: what its session, claim and answer are, what
its row must be, that no two working callers share a key, that a row which does
not exist has no effect, that a sealed row holds the outcome of its one effect,
and that whoever passed `Authorize` with a single-use grant, and every effect
under one, has the grant's row in `authority_uses`. The refinement of
`StepLifecycle` maps a key to its stage by its row and the caller working on it.

*The transactions* (`SInv`). To `IInv` it adds who holds each RLock, that at most
one transaction is open, and that the transaction of an operation in progress
shows the stored tables, before its body, or those tables as the body leaves
them, before its COMMIT. Hence a COMMIT stores exactly what the atomic action of
`ExecutionJournal` computes from the tables stored at that moment; a ROLLBACK, a
timeout, a failing COMMIT or a lost process stores nothing and maps to a stutter
or to `Stop`. What was proved of the protocol then holds of the transactions.

*The graph* (`GInv`, `EInv`). `GInv` is written over values: of a state, a call, a
checkpoint, a row, against the tables. A state past the gate carries a verdict that
was `ready` for its current step; a state past authorize owns its grant; the
results of every state, however old its checkpoint, are those sealed in the
journal; a call in its handler is the only one that holds its row (`OneHolder`). A
step of the system touches one call, one checkpoint and one row at most, and the
tables only advance, so what was true of an old state stays true. `EInv` adds what
the chains say: human records come from reviews given for a step, and the
`step.pass` records are those of the passed steps, in order. The gate's loop over
responses of any number is dealt with by `TurnsKeep`: whatever a turn keeps, the
loop keeps.

*One session at a time* (`AInv`). Calls that race on a thread may store an old
state over a newer one, so what a thread's checkpoint holds can go back. When one
call at a time enters the graph it cannot, and `AInv` says why: a call in progress
works on a thread that is not over, its chain extends the stored one, it resumes
only what is interrupted, and past the gate its own registry has been asked about
the step. A checkpoint written late, a node run again after a crash and a response
that is kept all store a state that extends the one before. The third theorem
needs no agreement between processes: with nobody in between, gate and execute
ask one registry.

*The core runtime* (`CInv`). For each execution in progress: which calls it has
made, that they follow its workflow and passed, what is on its chain, and that a
single-use grant it is past consuming is in the registry. An execution that began
when another was over began after that one's grant was inserted, which is what
`consume` tests.

*The ledger* (`LInv`). Digests never change and hold the number and the content of
the record they were computed for. `LInv` says so of the ledger's digests
(`Chain`) and of those on the store wherever damage has moved them (`StoredOk`). An
accepted array has in place k the digest of the record rebuilt in place k, so that
this content was appended k-th. Conversely a sound, undamaged export is accepted,
since record by record the rebuilt ledger links to the same digests.

*The command* (`GarInv`). One half is about `Contracts` as functions: what is
read is well formed (`WorkflowRead`, `GrantRead`), that is, has no blank texts, a
known effect, finite sets without blanks, unique step ids, two dates in order; and
what is well formed is read from its own JSON without an error and unchanged
(`WorkflowBack`, `GrantBack`). `authority_from_mapping` and
`authority_to_mapping` are no inverses of each other: zones, padding, order and
repetition of capabilities are lost, and the first half is what makes the way back
exact. The other half follows the one execution of the process: its contracts
are those that were read, its calls are of the first steps of the workflow, in
order, and all passed while it goes on; a result says PASS only after the last
step, BLOCKED only with a step left or a declining last call, FAIL only with a
failing last call. The exit code is read off that result, or off its absence.
`CInv` is no help there, since `CoreRuntime` proves it for contracts out of
`Workflows` and `Grants`, and a file's contracts are not known before they are
read.

Its assumptions describe the program's surroundings. `FilesAssumption`: what a
file holds is JSON, down to the fields of its steps (an array is a sequence, a date
has numbers). `SubjectAssumption` and `RegistryAssumption` are the literals of
`cli.py`; `CallersAssumption` and `ExecutionAssumption`: a process has one thread
and one execution. `SharedAssumption`: the built-in agents keep nothing of the
payloads they supply.

Loops over sequences (the gate's, `rebuild`) need induction, which is done on a set
of numbers (`SetInduction`, from the well-foundedness of the numbers); the first step with an
error, which decides about a workflow file, exists by `LeastNumber`.

*The conditional theorems* name what the code relies on and does not enforce.
`SameDescriptors`: processes agree on their agents' capabilities; execute looks
the agent up in its own registry while another process's gate may have judged it.
`NoForgedReviews`: no agent is called `human-review` and no initial ledger has
records of that producer. `NoForgedPasses`: handlers, reviewers and initial
ledgers write no `step.pass` records of their own. `OneSession`: the documents
exclude concurrent calls on one thread, but nothing in the adapter refuses them;
the instances of `graph_serial` and `graph_contracts` satisfy it. `OneThread`:
without it `NoReplay` is false (`core_race`). The instances that check
`ResponsesKeepTheirStep` and `PassMeansAllRan` satisfy the second and the third.
In `graph_contracts` processes do disagree, so there `CallsSatisfyPolicy` is
`GraphOneSessionPolicy`. Several sessions need `SameDescriptors`: with the workflow
of `graph_races` and the registries of `graph_contracts` TLC finds a call for an
agent that the caller's registry does not give the capability. What holds there
without it is `GraphCallsAreGranted`: the same, for the agent as the registry
asked at the gate knew it.

Every safety property that a passing run checks is stated by a theorem. Only
model-checked are the two liveness properties (`CallsEnd`, `LockComesFree`): they
depend on fairness and on when actions are enabled, which is out of the prover's
reach. So are the five violations, which are single counterexamples.

## 6. What is not modelled

- `ensure_private_sqlite_path`, which checks paths and permissions before SQLite
  opens a file, and the pragmas; SQLite's own recovery is taken as it is.
- `authority_owner`, which changes nothing; the validation of malformed
  checkpoints and stored outcomes, which only the program itself writes.
- Two branches the routes cannot reach: gate and execute with no current step.
- A ledger object shared by two concurrent core executions.
- `gar-langgraph` beyond its exit codes: options, demos, and `_load_resume`, which
  parses a resume file into what `GovernedGraph` takes as a review.
- `AgentRegistry.register`: setup, before anything runs, in one thread.
- `gar`'s standard error, taken as writable, and output that is lost when Python
  flushes it on its way out, after `main` has returned.
- The text of results and summaries; argument parsing; repository scripts.

## 7. Plan

Done: all modules of section 2, with the theorems of section 5. What would come
next, if the code moves on:

1. `gar-langgraph` as a command: the reading of resume files and the options, with
   an exit property like that of `gar`.
2. Malformed checkpoints, as data a store may return, against the checks with
   which the adapter reads them.
3. Weaker hypotheses for several sessions: which of the properties proved under
   `OneSession` hold when two calls run on different threads of one process.
