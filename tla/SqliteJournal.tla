---------------------------- MODULE SqliteJournal ----------------------------
(***************************************************************************)
(* The transactions inside ExecutionJournal's steps.  Each process has one *)
(* SqliteExecutionJournal (execution_journal.py): a connection to the      *)
(* journal file and an RLock that its callers take in turn.  A write       *)
(* operation is BEGIN IMMEDIATE, a SELECT with at most one INSERT or       *)
(* UPDATE, and COMMIT or ROLLBACK (_write_transaction).                    *)
(*                                                                         *)
(* SQLite is external and modelled from how the journal relies on it:      *)
(* BEGIN IMMEDIATE takes the file's only write lock, waits for it no       *)
(* longer than the busy timeout and fails on a connection that has a       *)
(* transaction open; writes are seen by others once COMMIT returns; a      *)
(* COMMIT that fails may leave the transaction open or roll it back; a     *)
(* closed or lost connection rolls back.                                   *)
(***************************************************************************)
EXTENDS ExecutionJournal
\* As in JournalOps, an operator whose name starts with Mut is a bug put beside
\* the operator that follows it.

CONSTANTS
  Processes,    \* processes that opened the journal file
  Home,         \* Home[c]: the process caller c runs in
  MaxFaults     \* bound of the failing statements, failing COMMITs and interrupts

ASSUME HomeAssumption == Home \in [Callers -> Processes]

VARIABLES
  txn,      \* txn[p]: the tables as p's open transaction sees them, or NoRow
  owner,    \* owner[p]: the caller that holds p's RLock, or NoRow
  call,     \* call[c]: the journal operation c is in, or NoRow
  up,       \* the processes that are alive
  faults    \* history: how many faults there were

Tables == [uses : [AuthIds -> AuthorityRow \cup {NoRow}],
           rows : [Keys -> StepRow \cup {NoRow}]]

\* The journal operations with their arguments; finish_step takes the caller's.
Ops == [op : {"claim_authority"}, thread : Threads, grant : Grants]
         \cup [op : {"claim_step"}, key : Keys, digest : Digests]
         \cup [op : {"finish_step"}]

\* An operation in progress: how far it is, and what it answers once it commits.
Calls == [op   : Ops,
          at   : {"lock", "begin", "body", "commit"},
          next : [pc      : {"idle", "authorized", "claimed", "answered"},
                  session : Session \cup {NoRow},
                  claim   : Claim \cup {NoRow},
                  answer  : Outcomes \cup {NoRow}] \cup {NoRow}]

ASSUME NoRowIsNone == NoRow \notin Callers \cup Tables \cup Calls

sqlVars == <<txn, owner, call, up, faults>>
allVars == <<vars, sqlVars>>

SqlInit ==
  /\ Init
  /\ txn = [p \in Processes |-> NoRow]
  /\ owner = [p \in Processes |-> NoRow]
  /\ call = [c \in Callers |-> NoRow]
  /\ up = Processes
  /\ faults = 0

-----------------------------------------------------------------------------
(***************************************************************************)
(* The operations' bodies, as what the caller goes on with.                *)
(***************************************************************************)

\* What a caller knows, and nothing.
Local(c) == [pc |-> pc[c], session |-> session[c], claim |-> claim[c], answer |-> answer[c]]
Nothing == [pc |-> "idle", session |-> NoRow, claim |-> NoRow, answer |-> NoRow]

Become(c, local) ==
  /\ pc' = [pc EXCEPT ![c] = local.pc]
  /\ session' = [session EXCEPT ![c] = local.session]
  /\ claim' = [claim EXCEPT ![c] = local.claim]
  /\ answer' = [answer EXCEPT ![c] = local.answer]

ClaimAuthority(t, g) == [op |-> "claim_authority", thread |-> t, grant |-> g]
ClaimStep(k, d)      == [op |-> "claim_step", key |-> k, digest |-> d]
FinishStep           == [op |-> "finish_step"]

\* The operation raises a JournalError in view of these tables.
OpRaises(c, op, t) ==
  CASE op.op = "claim_authority" -> AuthorityMismatch(t.uses, op.grant)
    [] op.op = "claim_step"      -> StepMismatch(t.rows, op.key, op.digest)
    [] op.op = "finish_step"     ->
         FinishRaises(t.rows, claim[c].key, claim[c].digest, answer[c], answer[c] \in Failures)

\* The tables it leaves in the transaction.
OpTables(c, op, t) ==
  CASE op.op = "claim_authority" ->
         [t EXCEPT !.uses = AuthorityTable(@, op.grant, op.thread)]
    [] op.op = "claim_step"      -> [t EXCEPT !.rows = StepTable(@, op.key, op.digest)]
    [] op.op = "finish_step"     ->
         [t EXCEPT !.rows = FinishTable(@, claim[c].key, claim[c].digest, answer[c],
                                        answer[c] \in Failures)]

\* What its answer makes of the caller: admitted or not; obliged to run the
\* handler, answered, or at an end by an in-doubt row; done with the step.
OpAnswer(c, op, t) ==
  LET claimed == [Local(c) EXCEPT !.claim = [key |-> op.key, digest |-> op.digest]]
  IN  CASE op.op = "claim_authority" ->
             IF AuthorityAllowed(t.uses, op.grant, op.thread)
             THEN [Nothing EXCEPT !.pc = "authorized",
                                  !.session = [thread |-> op.thread, grant |-> op.grant]]
             ELSE Nothing
        [] op.op = "claim_step" ->
             IF StepNew(t.rows, op.key)
             THEN [claimed EXCEPT !.pc = "claimed", !.answer = NoRow]
             ELSE IF StepTerminal(t.rows, op.key, op.digest)
             THEN [claimed EXCEPT !.pc = "answered", !.answer = t.rows[op.key].outcome]
             ELSE Nothing
        [] op.op = "finish_step" -> [Local(c) EXCEPT !.pc = "answered"]

-----------------------------------------------------------------------------
(***************************************************************************)
(* The steps of an operation                                               *)
(***************************************************************************)

At(c, place) == call[c] # NoRow /\ call[c].at = place /\ Home[c] \in up
Goes(c, place) == call' = [call EXCEPT ![c].at = place]

\* Nobody is in an operation of c.
Quiet(c) == call[c] = NoRow /\ Home[c] \in up

Enter(c, op) ==
  /\ call' = [call EXCEPT ![c] = [op |-> op, at |-> "lock", next |-> NoRow]]
  /\ UNCHANGED <<vars, txn, owner, up, faults>>

\* A multi-use grant is accepted before any transaction.
CallClaimAuthority(c, t, g) ==
  /\ Quiet(c)
  /\ pc[c] = "idle"
  /\ IF g.single_use THEN Enter(c, ClaimAuthority(t, g))
     ELSE Authorize(c, t, g) /\ UNCHANGED sqlVars

CallClaimStep(c, s, d) ==
  /\ Quiet(c)
  /\ pc[c] \in {"authorized", "answered"}
  /\ Enter(c, ClaimStep(KeyOf(c, s), d))

CallFinishStep(c) ==
  /\ Quiet(c)
  /\ pc[c] = "ran"
  /\ Enter(c, FinishStep)

\* Between two operations the caller runs its handler or ends.
Handle(c, o) == Quiet(c) /\ RunHandler(c, o) /\ UNCHANGED sqlVars
End(c)       == Quiet(c) /\ Stop(c) /\ UNCHANGED sqlVars

\* with self._lock
TakeLock(c) ==
  /\ At(c, "lock")
  /\ owner[Home[c]] = NoRow
  /\ owner' = [owner EXCEPT ![Home[c]] = c]
  /\ Goes(c, "begin")
  /\ UNCHANGED <<vars, txn, up, faults>>

\* The operation is over for c; the RLock is released on every way out of the
\* with statement.
Leave(c) ==
  /\ call' = [call EXCEPT ![c] = NoRow]
  /\ owner' = [owner EXCEPT ![Home[c]] = NoRow]

Ends(p) == txn' = [txn EXCEPT ![p] = NoRow]

\* An open transaction is taken for the operation's own.
MutReuseTransaction(c) == \A p \in Processes \ {Home[c]} : txn[p] = NoRow

\* BEGIN without IMMEDIATE: the write lock is not waited for.
MutDeferred(c) == txn[Home[c]] = NoRow

WriteLockFree(c) == \A p \in Processes : txn[p] = NoRow

Begin(c) ==
  /\ At(c, "begin")
  /\ WriteLockFree(c)
  /\ txn' = [txn EXCEPT ![Home[c]] =
       IF @ = NoRow THEN [uses |-> authority_uses, rows |-> step_executions] ELSE @]
  /\ Goes(c, "body")
  /\ UNCHANGED <<vars, owner, up, faults>>

\* Without a busy timeout BEGIN waits for the lock as long as it is held.
MutNoTimeout(c) == txn[Home[c]] # NoRow

BeginCanFail(c) == \E p \in Processes : txn[p] # NoRow

\* "cannot start a transaction within a transaction", at once, or "database is
\* locked", after the timeout.  BEGIN stands before the try.
BeginFails(c) ==
  /\ At(c, "begin")
  /\ BeginCanFail(c)
  /\ Forget(c)
  /\ Leave(c)
  /\ UNCHANGED <<durable, effects, txn, up, faults>>

\* SELECT, then INSERT or UPDATE; the answer is returned through COMMIT.
Body(c) ==
  LET p == Home[c]
      op == call[c].op
  IN  /\ At(c, "body")
      /\ ~OpRaises(c, op, txn[p])
      /\ txn' = [txn EXCEPT ![p] = OpTables(c, op, @)]
      /\ call' = [call EXCEPT ![c].at = "commit", ![c].next = OpAnswer(c, op, txn[p])]
      /\ UNCHANGED <<vars, owner, up, faults>>

\* The exception leaves the transaction as it is.
MutNoRollback(p) == UNCHANGED txn

Rolls(p) == Ends(p)

Rollback(c) ==
  /\ At(c, "body")
  /\ OpRaises(c, call[c].op, txn[Home[c]])
  /\ Rolls(Home[c])
  /\ Forget(c)
  /\ Leave(c)
  /\ UNCHANGED <<durable, effects, up, faults>>

Commit(c) ==
  LET p == Home[c]
  IN  /\ At(c, "commit")
      /\ authority_uses' = txn[p].uses
      /\ step_executions' = txn[p].rows
      /\ Ends(p)
      /\ Become(c, call[c].next)
      /\ Leave(c)
      /\ UNCHANGED <<effects, up, faults>>

\* COMMIT raises.  It stands outside the try, so nothing rolls back what SQLite
\* did not roll back itself.
CommitFails(c) ==
  /\ At(c, "commit")
  /\ faults < MaxFaults
  /\ faults' = faults + 1
  /\ Ends(Home[c]) \/ UNCHANGED txn
  /\ Forget(c)
  /\ Leave(c)
  /\ UNCHANGED <<durable, effects, up>>

\* A statement fails, which is rolled back; or the thread is interrupted: a
\* KeyboardInterrupt is no Exception, and neither ROLLBACK nor COMMIT is run.
Interrupted(c) ==
  /\ At(c, "body")
  /\ faults < MaxFaults
  /\ faults' = faults + 1
  /\ Ends(Home[c]) \/ UNCHANGED txn
  /\ Forget(c)
  /\ Leave(c)
  /\ UNCHANGED <<durable, effects, up>>

-----------------------------------------------------------------------------
(***************************************************************************)
(* The end of a process, by death or by closing its journal, takes the     *)
(* connection and all its callers with it, one step for each; then it may  *)
(* open the file again.                                                    *)
(***************************************************************************)

Down(p) ==
  /\ p \in up
  /\ up' = up \ {p}
  /\ Ends(p)
  /\ owner' = [owner EXCEPT ![p] = NoRow]
  /\ call' = [c \in Callers |-> IF Home[c] = p THEN NoRow ELSE call[c]]
  /\ UNCHANGED <<vars, faults>>

Gone(c) ==
  /\ Home[c] \notin up
  /\ Stop(c)
  /\ UNCHANGED sqlVars

Open(p) ==
  /\ p \notin up
  /\ \A c \in Callers : Home[c] = p => pc[c] = "idle"
  /\ up' = up \cup {p}
  /\ UNCHANGED <<vars, txn, owner, call, faults>>

-----------------------------------------------------------------------------

\* The steps of an operation on its own.
Step(c) == TakeLock(c) \/ Begin(c) \/ BeginFails(c) \/ Body(c) \/ Rollback(c) \/ Commit(c)

Works(p) == \E c \in Callers : Home[c] = p /\ Step(c)

SqlNext ==
  \/ \E c \in Callers :
       \/ \E t \in Threads, g \in Grants : CallClaimAuthority(c, t, g)
       \/ \E s \in Steps, d \in Digests : CallClaimStep(c, s, d)
       \/ CallFinishStep(c)
       \/ \E o \in Outcomes : Handle(c, o)
       \/ End(c)
       \/ Step(c)
       \/ CommitFails(c)
       \/ Interrupted(c)
       \/ Gone(c)
  \/ \E p \in Processes : Down(p) \/ Open(p)

\* An operation is Python code that runs on, and waits for nothing but the
\* RLock and, as long as the timeout, for SQLite's lock.
SqlSpec == SqlInit /\ [][SqlNext]_allVars /\ \A p \in Processes : WF_allVars(Works(p))

-----------------------------------------------------------------------------
(***************************************************************************)
(* Properties                                                              *)
(***************************************************************************)

\* An operation is atomic: whatever connections, timeouts, failing COMMITs and
\* crashes do, the tables and the callers move as in ExecutionJournal.
ImplementsJournal == Spec

Orphan(p) == txn[p] # NoRow /\ owner[p] = NoRow

\* An open transaction belongs to the caller that holds the connection's lock,
\* except after a COMMIT that failed or an interrupt: JournalErrors, timeouts
\* and the loss of other processes leave none behind (_write_transaction).
OrphansComeFromFaults ==
  \A p \in Processes : Orphan(p) => faults > 0 /\ p \in up

\* While a transaction is left open on a connection no process commits
\* anything: other connections are locked out and its own cannot BEGIN again, so
\* what it holds is never stored along with a later operation.
OrphansStoreNothing ==
  [][(\E p \in Processes : Orphan(p)) => UNCHANGED durable]_allVars

\* A connection's RLock comes free again and again, also when another process
\* keeps SQLite's write lock for ever: the busy timeout ends the wait.
LockComesFree == \A p \in Processes : []<>(owner[p] = NoRow)
=============================================================================
