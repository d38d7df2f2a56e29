----------------------------- MODULE JournalOps -----------------------------
(***************************************************************************)
(* The three write operations of SqliteExecutionJournal                    *)
(* (execution_journal.py) as functions of the two tables it keeps.  Each   *)
(* one runs inside _write_transaction: BEGIN IMMEDIATE takes SQLite's      *)
(* write lock before the SELECT, an exception rolls back, and only COMMIT  *)
(* makes the row visible, so an operation is one atomic read-modify-write  *)
(* of its table.  The predicates below are the branches it can take, and   *)
(* the ...Table operators are the table it commits.                        *)
(*                                                                         *)
(* A table is a function from its primary key to a row or NoRow.  The      *)
(* *_at columns are left out: they are written and never read.             *)
(***************************************************************************)

CONSTANT NoRow          \* SELECT ... fetchone() returned None

(***************************************************************************)
(* The operators whose name starts with Mut are wrong on purpose: each is  *)
(* a bug this code could have had, in place of the operator that follows.  *)
(***************************************************************************)

\* SHA-256 of the canonical grant is taken to be collision free: two digests
\* are equal exactly when the grants are equal in every field.
authority_digest(grant) == grant

(***************************************************************************)
(* claim_authority: a multi-use grant is accepted without a look at the    *)
(* table; a single-use one is free, resumed by its own thread, presented   *)
(* with other content (JournalError), or owned by another thread.          *)
(***************************************************************************)

\* INSERT OR REPLACE: every claim takes the grant over.
MutReplaceOwner(uses, grant) == grant.single_use

AuthorityFree(uses, grant) ==
  grant.single_use /\ uses[grant.authorization_id] = NoRow

AuthorityMismatch(uses, grant) ==
  /\ grant.single_use
  /\ uses[grant.authorization_id] # NoRow
  /\ uses[grant.authorization_id].grant_digest # authority_digest(grant)

\* The owner is compared by workflow only.
MutAnyThread(uses, grant, thread) ==
  /\ grant.single_use
  /\ uses[grant.authorization_id] # NoRow
  /\ uses[grant.authorization_id].grant_digest = authority_digest(grant)
  /\ uses[grant.authorization_id].workflow_id = grant.workflow_id

\* A claim by the owning thread itself is a replay too.
MutNotIdempotent(uses, grant, thread) == FALSE

AuthorityResumed(uses, grant, thread) ==
  /\ grant.single_use
  /\ uses[grant.authorization_id] # NoRow
  /\ uses[grant.authorization_id].grant_digest = authority_digest(grant)
  /\ uses[grant.authorization_id].thread_id = thread
  /\ uses[grant.authorization_id].workflow_id = grant.workflow_id

AuthorityAllowed(uses, grant, thread) ==
  \/ ~grant.single_use
  \/ AuthorityFree(uses, grant)
  \/ AuthorityResumed(uses, grant, thread)

AuthorityTable(uses, grant, thread) ==
  IF AuthorityFree(uses, grant)
  THEN [uses EXCEPT ![grant.authorization_id] =
          [thread_id    |-> thread,
           workflow_id  |-> grant.workflow_id,
           grant_digest |-> authority_digest(grant)]]
  ELSE uses

(***************************************************************************)
(* claim_step: NEW, a JournalError on other request content, IN_DOUBT, or  *)
(* the terminal status with the stored outcome.                            *)
(***************************************************************************)

\* A STARTED row is claimed again, in the hope that its handler did not run.
MutBlindRetry(rows, key) == rows[key] # NoRow => rows[key].status = "STARTED"

\* A step that failed is tried again.
MutRetryFailed(rows, key) == rows[key] # NoRow => rows[key].status = "FAILED"

StepNew(rows, key) == rows[key] = NoRow

StepMismatch(rows, key, digest) ==
  rows[key] # NoRow /\ rows[key].request_digest # digest

StepInDoubt(rows, key, digest) ==
  /\ rows[key] # NoRow
  /\ rows[key].request_digest = digest
  /\ rows[key].status = "STARTED"

StepTerminal(rows, key, digest) ==
  /\ rows[key] # NoRow
  /\ rows[key].request_digest = digest
  /\ rows[key].status \in {"COMPLETED", "FAILED"}

\* A claim that finds a row in doubt closes it.
MutCloseStale(rows, key, digest) ==
  IF StepNew(rows, key)
  THEN [rows EXCEPT ![key] = [request_digest |-> digest,
                              status         |-> "STARTED",
                              outcome        |-> NoRow]]
  ELSE [rows EXCEPT ![key].status = IF @ = "STARTED" THEN "FAILED" ELSE @]

StepTable(rows, key, digest) ==
  IF StepNew(rows, key)
  THEN [rows EXCEPT ![key] = [request_digest |-> digest,
                              status         |-> "STARTED",
                              outcome        |-> NoRow]]
  ELSE rows

(***************************************************************************)
(* finish_step: seals a STARTED row; on a terminal row it is a no-op when  *)
(* nothing would change; everything else is a JournalError.                *)
(***************************************************************************)

\* The decision is stored in place of the status.
MutDecisionAsStatus(failed) == IF failed THEN "FAIL" ELSE "PASS"

TerminalStatus(failed) == IF failed THEN "FAILED" ELSE "COMPLETED"

FinishSeals(rows, key, digest) == StepInDoubt(rows, key, digest)

FinishRaises(rows, key, digest, outcome, failed) ==
  \/ StepNew(rows, key)
  \/ StepMismatch(rows, key, digest)
  \/ /\ StepTerminal(rows, key, digest)
     /\ \/ rows[key].status # TerminalStatus(failed)
        \/ rows[key].outcome # outcome

\* The row is sealed without its outcome.
MutOutcomeDropped(rows, key, digest, outcome, failed) ==
  IF FinishSeals(rows, key, digest)
  THEN [rows EXCEPT ![key].status = TerminalStatus(failed)]
  ELSE rows

\* The UPDATE is never committed.
MutSealLost(rows, key, digest, outcome, failed) == rows

FinishTable(rows, key, digest, outcome, failed) ==
  IF FinishSeals(rows, key, digest)
  THEN [rows EXCEPT ![key] = [request_digest |-> digest,
                              status         |-> TerminalStatus(failed),
                              outcome        |-> outcome]]
  ELSE rows
=============================================================================
