---------------------------- MODULE JournalProofs ----------------------------
(***************************************************************************)
(* Proofs about the journal, for any callers, processes, threads, grants,  *)
(* digests, outcomes and number of faults.                                 *)
(*                                                                         *)
(* First the durable step protocol, ExecutionJournal.  IInv strengthens    *)
(* its invariants so that each action preserves it.  It says who may be    *)
(* working on a row (Held, OneHolder), what a row knows about the handler  *)
(* (RowsMatchEffects), and that a single-use grant in use is the one its   *)
(* ownership row names (Admitted, EffectsOwned).                           *)
(*                                                                         *)
(* Then the transactions of SqliteJournal, which implement its atomic      *)
(* operations, so that every theorem about ExecutionJournal holds of them  *)
(* too.  SInv adds to IInv what holds inside an operation: who has the     *)
(* RLock, that at most one transaction is open, and that the transaction   *)
(* of an operation shows the tables as they are stored (before its body)   *)
(* or as the body leaves them (before its COMMIT).  The last is what makes *)
(* an operation atomic: between BEGIN IMMEDIATE and COMMIT nobody else     *)
(* stores anything.                                                        *)
(***************************************************************************)
EXTENDS SqliteJournal, TLAPS

Held ==
  \A c \in Callers : Working(c) =>
    /\ claim[c] \in Claim
    /\ session[c] \in Session
    /\ claim[c].key[1] = session[c].thread
    /\ claim[c].key[2] = session[c].grant.workflow_id
    /\ InDoubt(claim[c].key)
    /\ step_executions[claim[c].key].request_digest = claim[c].digest
    /\ pc[c] = "claimed" => effects[claim[c].key].calls = 0
    /\ pc[c] = "ran" => /\ effects[claim[c].key].calls = 1
                        /\ effects[claim[c].key].outcome = answer[c]
                        /\ answer[c] \in Outcomes

OneHolder ==
  \A c, e \in Callers :
    Working(c) /\ Working(e) /\ claim[c].key = claim[e].key => c = e

RowsMatchEffects ==
  \A k \in Keys :
    /\ step_executions[k] = NoRow => effects[k].calls = 0
    /\ InDoubt(k) => effects[k].calls <= 1
    /\ Sealed(k) =>
         /\ effects[k].calls = 1
         /\ effects[k].outcome = step_executions[k].outcome
         /\ step_executions[k].outcome \in Outcomes
         /\ step_executions[k].status =
              TerminalStatus(step_executions[k].outcome \in Failures)

\* The ownership row of grant g names thread t.
Owns(t, g) ==
  /\ authority_uses[g.authorization_id] # NoRow
  /\ authority_uses[g.authorization_id].thread_id = t
  /\ authority_uses[g.authorization_id].workflow_id = g.workflow_id

Admitted ==
  \A c \in Callers : pc[c] # "idle" =>
    /\ session[c] \in Session
    /\ session[c].grant.single_use => Owns(session[c].thread, session[c].grant)

EffectsOwned ==
  \A k \in Keys : effects[k].calls > 0 =>
    /\ effects[k].grant \in Grants
    /\ effects[k].grant.workflow_id = k[2]
    /\ effects[k].grant.single_use => Owns(k[1], effects[k].grant)

Answered ==
  \A c \in Callers : pc[c] = "answered" =>
    /\ claim[c] \in Claim
    /\ Sealed(claim[c].key)
    /\ step_executions[claim[c].key].outcome = answer[c]

IInv == /\ TypeOK
        /\ Held
        /\ OneHolder
        /\ RowsMatchEffects
        /\ Admitted
        /\ EffectsOwned
        /\ Answered

-----------------------------------------------------------------------------
(***************************************************************************)
(* What the three table operations do                                      *)
(***************************************************************************)

\* claim_authority keeps the table's type and every row it has; when it allows
\* a single-use grant, the grant's row names the claiming thread.
LEMMA AuthorityTableFacts ==
  ASSUME authority_uses \in [AuthIds -> AuthorityRow \cup {NoRow}],
         NEW t \in Threads, NEW g \in Grants,
         NEW uses, uses = AuthorityTable(authority_uses, g, t)
  PROVE  /\ uses \in [AuthIds -> AuthorityRow \cup {NoRow}]
         /\ \A a \in AuthIds : authority_uses[a] # NoRow => uses[a] = authority_uses[a]
         /\ AuthorityAllowed(authority_uses, g, t) /\ g.single_use
              => /\ uses[g.authorization_id] # NoRow
                 /\ uses[g.authorization_id].thread_id = t
                 /\ uses[g.authorization_id].workflow_id = g.workflow_id
<1> DEFINE id == g.authorization_id
           new == [thread_id |-> t, workflow_id |-> g.workflow_id, grant_digest |-> g]
<1>1. id \in AuthIds /\ g.single_use \in BOOLEAN
  BY GrantsAssumption DEF AuthIds
<1>2. new \in AuthorityRow /\ new # NoRow
  BY NoRowAssumption DEF AuthorityRow, Workflows
<1>3. CASE AuthorityFree(authority_uses, g)
  <2>1. uses = [authority_uses EXCEPT ![id] = new]
    BY <1>3 DEF AuthorityTable, authority_digest
  <2>2. authority_uses[id] = NoRow
    BY <1>3 DEF AuthorityFree
  <2> QED BY <1>1, <1>2, <2>1, <2>2
<1>4. CASE ~AuthorityFree(authority_uses, g)
  <2>1. uses = authority_uses
    BY <1>4 DEF AuthorityTable
  <2> QED BY <1>4, <2>1 DEF AuthorityAllowed, AuthorityResumed
<1> QED BY <1>3, <1>4

\* A NEW claim fills the empty row with STARTED.
LEMMA StepNewFacts ==
  ASSUME step_executions \in [Keys -> StepRow \cup {NoRow}],
         NEW k \in Keys, NEW d \in Digests,
         StepNew(step_executions, k),
         NEW rows, rows = StepTable(step_executions, k, d)
  PROVE  /\ rows \in [Keys -> StepRow \cup {NoRow}]
         /\ step_executions[k] = NoRow
         /\ rows[k] # NoRow
         /\ rows[k].status = "STARTED"
         /\ rows[k].request_digest = d
         /\ \A j \in Keys : j # k => rows[j] = step_executions[j]
<1> DEFINE new == [request_digest |-> d, status |-> "STARTED", outcome |-> NoRow]
<1>1. new \in StepRow /\ new # NoRow
  BY NoRowAssumption DEF StepRow
<1>2. rows = [step_executions EXCEPT ![k] = new]
  BY DEF StepTable
<1> QED BY <1>1, <1>2 DEF StepNew

\* finish_step by the caller that owns an in-doubt row seals it.
LEMMA FinishFacts ==
  ASSUME step_executions \in [Keys -> StepRow \cup {NoRow}],
         NEW k \in Keys, NEW d \in Digests, NEW o \in Outcomes,
         InDoubt(k), step_executions[k].request_digest = d,
         NEW rows, rows = FinishTable(step_executions, k, d, o, o \in Failures)
  PROVE  /\ ~FinishRaises(step_executions, k, d, o, o \in Failures)
         /\ rows \in [Keys -> StepRow \cup {NoRow}]
         /\ rows[k] # NoRow
         /\ rows[k].status = TerminalStatus(o \in Failures)
         /\ rows[k].status # "STARTED"
         /\ rows[k].outcome = o
         /\ rows[k].request_digest = d
         /\ \A j \in Keys : j # k => rows[j] = step_executions[j]
<1> DEFINE new == [request_digest |-> d,
                   status |-> TerminalStatus(o \in Failures), outcome |-> o]
<1>1. FinishSeals(step_executions, k, d)
  BY DEF FinishSeals, StepInDoubt, InDoubt
<1>2. ~FinishRaises(step_executions, k, d, o, o \in Failures)
  BY DEF FinishRaises, StepNew, StepMismatch, StepTerminal, InDoubt
<1>3. rows = [step_executions EXCEPT ![k] = new]
  BY <1>1 DEF FinishTable
<1>4. new \in StepRow /\ new # NoRow /\ TerminalStatus(o \in Failures) # "STARTED"
  BY NoRowAssumption DEF StepRow, TerminalStatus
<1> QED BY <1>2, <1>3, <1>4

-----------------------------------------------------------------------------
(***************************************************************************)
(* IInv is inductive: one lemma per action                                 *)
(***************************************************************************)

\* KeyOf(c, s) is a primary key of the admitted caller's thread and workflow.
LEMMA KeyFacts ==
  ASSUME NEW c \in Callers, NEW s \in Steps, session[c] \in Session
  PROVE  /\ KeyOf(c, s) \in Keys
         /\ KeyOf(c, s)[1] = session[c].thread
         /\ KeyOf(c, s)[2] = session[c].grant.workflow_id
  BY DEF KeyOf, Keys, Session, Workflows

\* The initial state satisfies the inductive invariant.
LEMMA InitIInv == Init => IInv
<1> SUFFICES ASSUME Init PROVE IInv
  OBVIOUS
<1> USE DEF Init
<1>1. TypeOK
  BY DEF TypeOK, NoEffect
<1>2. Held /\ OneHolder /\ Admitted /\ Answered
  BY DEF Held, OneHolder, Admitted, Answered, Working
<1>3. RowsMatchEffects /\ EffectsOwned
  BY DEF RowsMatchEffects, EffectsOwned, NoEffect, InDoubt, Sealed
<1> QED BY <1>1, <1>2, <1>3 DEF IInv

\* Claiming the grant keeps IInv: the owner of a present row does not change.
LEMMA AuthorizeIInv ==
  ASSUME IInv, NEW c \in Callers, NEW t \in Threads, NEW g \in Grants,
         Authorize(c, t, g)
  PROVE  IInv'
<1> USE DEF Authorize
<1>1. /\ authority_uses' \in [AuthIds -> AuthorityRow \cup {NoRow}]
      /\ \A a \in AuthIds : authority_uses[a] # NoRow =>
           authority_uses'[a] = authority_uses[a]
      /\ AuthorityAllowed(authority_uses, g, t) /\ g.single_use
           => Owns(t, g)'
  BY AuthorityTableFacts DEF IInv, TypeOK, Owns
<1>2. \A h \in Grants, u \in Threads : Owns(u, h) => Owns(u, h)'
  BY <1>1 DEF Owns, AuthIds
<1>3. [thread |-> t, grant |-> g] \in Session
  BY DEF Session
<1>4. TypeOK'
  BY <1>1, <1>3 DEF IInv, TypeOK
<1>5. \A e \in Callers : Working(e)' => Working(e) /\ e # c
  BY DEF IInv, TypeOK, Working
<1>6. Held'
  BY <1>5 DEF IInv, TypeOK, Held, Working, InDoubt
<1>7. OneHolder'
  BY <1>5 DEF IInv, OneHolder
<1>8. RowsMatchEffects'
  BY DEF IInv, RowsMatchEffects, InDoubt, Sealed
<1>9. Admitted'
  <2> SUFFICES ASSUME NEW e \in Callers, pc'[e] # "idle"
               PROVE  /\ session'[e] \in Session
                      /\ session'[e].grant.single_use =>
                           Owns(session[e].thread, session[e].grant)'
    BY DEF Admitted
  <2>1. CASE e = c
    <3>1. AuthorityAllowed(authority_uses, g, t)
          /\ session'[c] = [thread |-> t, grant |-> g]
      BY <2>1 DEF IInv, TypeOK
    <3> QED BY <2>1, <3>1, <1>1, <1>3 DEF Owns
  <2>2. CASE e # c
    <3>1. session'[e] = session[e] /\ pc'[e] = pc[e]
      BY <2>2 DEF IInv, TypeOK
    <3> QED BY <3>1, <1>2 DEF IInv, Admitted, Session, Owns
  <2> QED BY <2>1, <2>2
<1>10. EffectsOwned'
  BY <1>2 DEF IInv, EffectsOwned, Keys
<1>11. Answered'
  BY DEF IInv, TypeOK, Answered, Sealed
<1> QED BY <1>4, <1>6, <1>7, <1>8, <1>9, <1>10, <1>11 DEF IInv

\* A NEW claim keeps IInv: the row was empty, so no other caller works on it
\* and its handler never ran.
LEMMA ClaimNewIInv ==
  ASSUME IInv, NEW c \in Callers, NEW s \in Steps, NEW d \in Digests,
         ClaimNew(c, s, d)
  PROVE  IInv'
<1> DEFINE k == KeyOf(c, s)
<1> USE DEF ClaimNew
<1>1. session[c] \in Session
  BY DEF IInv, Admitted
<1>2. /\ k \in Keys
      /\ k[1] = session[c].thread
      /\ k[2] = session[c].grant.workflow_id
  BY <1>1, KeyFacts
<1>3. /\ step_executions' \in [Keys -> StepRow \cup {NoRow}]
      /\ step_executions[k] = NoRow
      /\ step_executions'[k] # NoRow
      /\ step_executions'[k].status = "STARTED"
      /\ step_executions'[k].request_digest = d
      /\ \A j \in Keys : j # k => step_executions'[j] = step_executions[j]
  BY <1>2, StepNewFacts DEF IInv, TypeOK
<1>4. effects[k].calls = 0
  BY <1>2, <1>3 DEF IInv, RowsMatchEffects
<1>5. /\ [key |-> k, digest |-> d] \in Claim
      /\ claim'[c] = [key |-> k, digest |-> d]
      /\ pc'[c] = "claimed"
      /\ \A e \in Callers : e # c => claim'[e] = claim[e] /\ pc'[e] = pc[e]
                                     /\ answer'[e] = answer[e]
  BY <1>2 DEF IInv, TypeOK, Claim
<1>6. TypeOK'
  BY <1>3, <1>5 DEF IInv, TypeOK
<1>7. \A e \in Callers : Working(e) => claim[e].key \in Keys /\ claim[e].key # k
  BY <1>3 DEF IInv, Held, Claim, InDoubt
<1>8. \A e \in Callers : e # c => (Working(e)' <=> Working(e))
  BY <1>5 DEF Working
<1>9. Held'
  <2> SUFFICES ASSUME NEW e \in Callers, Working(e)'
               PROVE  /\ claim'[e] \in Claim
                      /\ session'[e] \in Session
                      /\ claim'[e].key[1] = session'[e].thread
                      /\ claim'[e].key[2] = session'[e].grant.workflow_id
                      /\ InDoubt(claim[e].key)'
                      /\ step_executions'[claim'[e].key].request_digest
                           = claim'[e].digest
                      /\ pc'[e] = "claimed" => effects'[claim'[e].key].calls = 0
                      /\ pc'[e] = "ran" =>
                           /\ effects'[claim'[e].key].calls = 1
                           /\ effects'[claim'[e].key].outcome = answer'[e]
                           /\ answer'[e] \in Outcomes
    BY DEF Held
  <2>1. CASE e = c
    BY <2>1, <1>1, <1>2, <1>3, <1>4, <1>5 DEF InDoubt
  <2>2. CASE e # c
    BY <2>2, <1>3, <1>5, <1>7, <1>8 DEF IInv, Held, InDoubt
  <2> QED BY <2>1, <2>2
<1>10. OneHolder'
  BY <1>5, <1>7, <1>8 DEF IInv, OneHolder
<1>11. RowsMatchEffects'
  BY <1>2, <1>3, <1>4 DEF IInv, RowsMatchEffects, InDoubt, Sealed
<1>12. Admitted'
  BY <1>5 DEF IInv, TypeOK, Admitted, Owns
<1>13. EffectsOwned'
  BY DEF IInv, EffectsOwned, Owns
<1>14. Answered'
  BY <1>3, <1>5 DEF IInv, Answered, Sealed, Claim
<1> QED BY <1>6, <1>9, <1>10, <1>11, <1>12, <1>13, <1>14 DEF IInv

\* An answer from a terminal row keeps IInv: no row changes, and the outcome
\* handed out is the row's.
LEMMA ClaimReplayIInv ==
  ASSUME IInv, NEW c \in Callers, NEW s \in Steps, NEW d \in Digests,
         ClaimReplay(c, s, d)
  PROVE  IInv'
<1> DEFINE k == KeyOf(c, s)
<1> USE DEF ClaimReplay
<1>1. session[c] \in Session
  BY DEF IInv, Admitted
<1>2. k \in Keys
  BY <1>1, KeyFacts
<1>3. Sealed(k)
  BY DEF StepTerminal, Sealed
<1>4. step_executions[k].outcome \in Outcomes
  BY <1>2, <1>3 DEF IInv, RowsMatchEffects
<1>5. /\ [key |-> k, digest |-> d] \in Claim
      /\ claim'[c] = [key |-> k, digest |-> d]
      /\ pc'[c] = "answered"
      /\ answer'[c] = step_executions[k].outcome
      /\ \A e \in Callers : e # c => claim'[e] = claim[e] /\ pc'[e] = pc[e]
                                     /\ answer'[e] = answer[e]
  BY <1>2 DEF IInv, TypeOK, Claim
<1>6. TypeOK'
  BY <1>4, <1>5 DEF IInv, TypeOK
<1>7. \A e \in Callers : Working(e)' => Working(e) /\ e # c
  BY <1>5 DEF Working
<1>8. Held'
  BY <1>5, <1>7 DEF IInv, Held, InDoubt
<1>9. OneHolder'
  BY <1>5, <1>7 DEF IInv, OneHolder
<1>10. RowsMatchEffects'
  BY DEF IInv, RowsMatchEffects, InDoubt, Sealed
<1>11. Admitted'
  BY <1>5 DEF IInv, TypeOK, Admitted, Owns
<1>12. EffectsOwned'
  BY DEF IInv, EffectsOwned, Owns
<1>13. Answered'
  BY <1>3, <1>5 DEF IInv, Answered, Sealed
<1> QED BY <1>6, <1>8, <1>9, <1>10, <1>11, <1>12, <1>13 DEF IInv

\* A caller that forgets everything (a return, an exception, a crash, a refused
\* claim) keeps IInv: the rows it worked on stay as they are.
LEMMA ForgetIInv ==
  ASSUME IInv, NEW c \in Callers, Forget(c),
         UNCHANGED <<authority_uses, step_executions, effects>>
  PROVE  IInv'
<1> USE DEF Forget
<1>1. pc'[c] = "idle"
  BY DEF IInv, TypeOK
<1>2. \A e \in Callers : e # c => /\ pc'[e] = pc[e]
                                  /\ session'[e] = session[e]
                                  /\ claim'[e] = claim[e]
                                  /\ answer'[e] = answer[e]
  BY DEF IInv, TypeOK
<1>3. TypeOK'
  BY DEF IInv, TypeOK
<1>4. \A e \in Callers : Working(e)' => Working(e) /\ e # c
  BY <1>1, <1>2 DEF Working
<1>5. Held'
  BY <1>2, <1>4 DEF IInv, Held, InDoubt
<1>6. OneHolder'
  BY <1>2, <1>4 DEF IInv, OneHolder
<1>7. RowsMatchEffects'
  BY DEF IInv, RowsMatchEffects, InDoubt, Sealed
<1>8. Admitted'
  BY <1>1, <1>2 DEF IInv, Admitted, Owns
<1>9. EffectsOwned'
  BY DEF IInv, EffectsOwned, Owns
<1>10. Answered'
  BY <1>1, <1>2 DEF IInv, Answered, Sealed
<1> QED BY <1>3, <1>5, <1>6, <1>7, <1>8, <1>9, <1>10 DEF IInv

\* The handler call keeps IInv: the caller holds the in-doubt row alone, and
\* the row's handler had not run.
LEMMA RunHandlerIInv ==
  ASSUME IInv, NEW c \in Callers, NEW o \in Outcomes, RunHandler(c, o)
  PROVE  IInv'
<1> DEFINE k == claim[c].key
           ran == [calls |-> effects[k].calls + 1, grant |-> session[c].grant,
                   outcome |-> o]
<1> USE DEF RunHandler
<1>1. /\ Working(c)
      /\ k \in Keys
      /\ session[c] \in Session
      /\ k[1] = session[c].thread
      /\ k[2] = session[c].grant.workflow_id
      /\ InDoubt(k)
      /\ effects[k].calls = 0
  BY DEF IInv, Held, Working, Claim
<1>2. /\ effects' = [effects EXCEPT ![k] = ran]
      /\ ran.calls = 1
      /\ ran.grant \in Grants
  BY <1>1 DEF IInv, TypeOK, Session
<1>3. /\ effects'[k] = ran
      /\ \A j \in Keys : j # k => effects'[j] = effects[j]
  BY <1>1, <1>2 DEF IInv, TypeOK
<1>4. /\ pc'[c] = "ran"
      /\ answer'[c] = o
      /\ \A e \in Callers : e # c => pc'[e] = pc[e] /\ answer'[e] = answer[e]
  BY DEF IInv, TypeOK
<1>5. TypeOK'
  BY <1>1, <1>2, <1>4 DEF IInv, TypeOK
<1>6. \A e \in Callers : Working(e)' <=> Working(e)
  BY <1>1, <1>4 DEF Working
<1>7. \A e \in Callers : Working(e) /\ e # c => claim[e].key \in Keys /\ claim[e].key # k
  BY <1>1 DEF IInv, OneHolder, Held, Claim
<1>8. Held'
  <2> SUFFICES ASSUME NEW e \in Callers, Working(e)'
               PROVE  /\ claim'[e] \in Claim
                      /\ session'[e] \in Session
                      /\ claim'[e].key[1] = session'[e].thread
                      /\ claim'[e].key[2] = session'[e].grant.workflow_id
                      /\ InDoubt(claim[e].key)'
                      /\ step_executions'[claim'[e].key].request_digest
                           = claim'[e].digest
                      /\ pc'[e] = "claimed" => effects'[claim'[e].key].calls = 0
                      /\ pc'[e] = "ran" =>
                           /\ effects'[claim'[e].key].calls = 1
                           /\ effects'[claim'[e].key].outcome = answer'[e]
                           /\ answer'[e] \in Outcomes
    BY DEF Held
  <2>1. CASE e = c
    BY <2>1, <1>1, <1>2, <1>3, <1>4 DEF IInv, Held, InDoubt
  <2>2. CASE e # c
    BY <2>2, <1>3, <1>4, <1>6, <1>7 DEF IInv, Held, InDoubt
  <2> QED BY <2>1, <2>2
<1>9. OneHolder'
  BY <1>6 DEF IInv, OneHolder
<1>10. RowsMatchEffects'
  BY <1>1, <1>2, <1>3 DEF IInv, RowsMatchEffects, InDoubt, Sealed
<1>11. Admitted'
  BY <1>1, <1>4 DEF IInv, Admitted, Owns, Working
<1>12. EffectsOwned'
  <2>1. session[c].grant.single_use => Owns(k[1], session[c].grant)
    BY <1>1 DEF IInv, Admitted, Working
  <2> QED BY <2>1, <1>1, <1>2, <1>3 DEF IInv, EffectsOwned, Owns
<1>13. Answered'
  BY <1>4 DEF IInv, Answered, Sealed
<1> QED BY <1>5, <1>8, <1>9, <1>10, <1>11, <1>12, <1>13 DEF IInv

\* Sealing keeps IInv: the row takes the outcome the handler just returned.
LEMMA FinishIInv ==
  ASSUME IInv, NEW c \in Callers, Finish(c)
  PROVE  IInv' /\ ~FinishFails(c)
<1> DEFINE k == claim[c].key
           failed == answer[c] \in Failures
<1> USE DEF Finish
<1>1. /\ Working(c)
      /\ claim[c] \in Claim
      /\ k \in Keys
      /\ claim[c].digest \in Digests
      /\ InDoubt(k)
      /\ step_executions[k].request_digest = claim[c].digest
      /\ effects[k].calls = 1
      /\ effects[k].outcome = answer[c]
      /\ answer[c] \in Outcomes
  BY DEF IInv, Held, Working, Claim
<1>2. /\ ~FinishFails(c)
      /\ step_executions' \in [Keys -> StepRow \cup {NoRow}]
      /\ step_executions'[k] # NoRow
      /\ step_executions'[k].status = TerminalStatus(failed)
      /\ step_executions'[k].status # "STARTED"
      /\ step_executions'[k].outcome = answer[c]
      /\ \A j \in Keys : j # k => step_executions'[j] = step_executions[j]
  <2> DEFINE d == claim[c].digest
             o == answer[c]
  <2>1. /\ step_executions \in [Keys -> StepRow \cup {NoRow}]
        /\ step_executions' = FinishTable(step_executions, k, d, o, o \in Failures)
    BY DEF IInv, TypeOK
  <2> HIDE DEF k, d, o
  <2>2. /\ k \in Keys /\ d \in Digests /\ o \in Outcomes
        /\ InDoubt(k) /\ step_executions[k].request_digest = d
    BY <1>1 DEF k, d, o
  <2>3. /\ ~FinishRaises(step_executions, k, d, o, o \in Failures)
        /\ step_executions' \in [Keys -> StepRow \cup {NoRow}]
        /\ step_executions'[k] # NoRow
        /\ step_executions'[k].status = TerminalStatus(o \in Failures)
        /\ step_executions'[k].status # "STARTED"
        /\ step_executions'[k].outcome = o
        /\ \A j \in Keys : j # k => step_executions'[j] = step_executions[j]
    BY <2>1, <2>2, FinishFacts
  <2> QED BY <2>3 DEF k, d, o, FinishFails
<1>3. /\ pc'[c] = "answered"
      /\ \A e \in Callers : e # c => pc'[e] = pc[e]
      /\ UNCHANGED <<session, claim, answer>>
  BY <1>2 DEF IInv, TypeOK
<1>4. TypeOK'
  BY <1>2 DEF IInv, TypeOK
<1>5. \A e \in Callers : Working(e)' => Working(e) /\ e # c
  BY <1>3 DEF Working
<1>6. \A e \in Callers : Working(e) /\ e # c => claim[e].key \in Keys /\ claim[e].key # k
  BY <1>1 DEF IInv, OneHolder, Held, Claim
<1>7. Held'
  <2> SUFFICES ASSUME NEW e \in Callers, Working(e)'
               PROVE  /\ claim[e] \in Claim
                      /\ session[e] \in Session
                      /\ claim[e].key[1] = session[e].thread
                      /\ claim[e].key[2] = session[e].grant.workflow_id
                      /\ InDoubt(claim[e].key)'
                      /\ step_executions'[claim[e].key].request_digest
                           = claim[e].digest
                      /\ pc'[e] = "claimed" => effects[claim[e].key].calls = 0
                      /\ pc'[e] = "ran" => /\ effects[claim[e].key].calls = 1
                                           /\ effects[claim[e].key].outcome = answer[e]
                                           /\ answer[e] \in Outcomes
    BY <1>3 DEF Held
  <2>1. Working(e) /\ e # c
    BY <1>5
  <2> QED BY <2>1, <1>2, <1>3, <1>6 DEF IInv, Held, InDoubt
<1>8. OneHolder'
  BY <1>3, <1>5 DEF IInv, OneHolder
<1>9. RowsMatchEffects'
  BY <1>1, <1>2 DEF IInv, RowsMatchEffects, InDoubt, Sealed
<1>10. Admitted'
  BY <1>1, <1>3 DEF IInv, Admitted, Owns, Working
<1>11. EffectsOwned'
  BY DEF IInv, EffectsOwned, Owns
<1>12. Answered'
  <2> SUFFICES ASSUME NEW e \in Callers, pc'[e] = "answered"
               PROVE  /\ claim[e] \in Claim
                      /\ Sealed(claim[e].key)'
                      /\ step_executions'[claim[e].key].outcome = answer[e]
    BY <1>3 DEF Answered
  <2>1. CASE e = c
    BY <2>1, <1>1, <1>2, <1>3 DEF Sealed
  <2>2. CASE e # c
    <3>1. claim[e] \in Claim /\ claim[e].key \in Keys /\ claim[e].key # k
      BY <2>2, <1>1, <1>3 DEF IInv, Answered, Claim, Sealed, InDoubt
    <3> QED BY <2>2, <3>1, <1>2, <1>3 DEF IInv, Answered, Sealed
  <2> QED BY <2>1, <2>2
<1> QED BY <1>2, <1>4, <1>7, <1>8, <1>9, <1>10, <1>11, <1>12 DEF IInv

\* Every step of the protocol keeps IInv.
LEMMA NextIInv == IInv /\ [Next]_vars => IInv'
<1> SUFFICES ASSUME IInv, [Next]_vars PROVE IInv'
  OBVIOUS
<1>1. CASE UNCHANGED vars
  BY <1>1 DEF vars, IInv, TypeOK, Held, OneHolder, RowsMatchEffects, Admitted,
              EffectsOwned, Answered, Working, InDoubt, Sealed, Owns
<1>2. ASSUME NEW c \in Callers, NEW t \in Threads, NEW g \in Grants, Authorize(c, t, g)
      PROVE  IInv'
  BY <1>2, AuthorizeIInv
<1>3. ASSUME NEW c \in Callers, NEW s \in Steps, NEW d \in Digests, ClaimNew(c, s, d)
      PROVE  IInv'
  BY <1>3, ClaimNewIInv
<1>4. ASSUME NEW c \in Callers, NEW s \in Steps, NEW d \in Digests, ClaimReplay(c, s, d)
      PROVE  IInv'
  BY <1>4, ClaimReplayIInv
<1>5. ASSUME NEW c \in Callers, NEW s \in Steps, NEW d \in Digests, ClaimRefused(c, s, d)
      PROVE  IInv'
  BY <1>5, ForgetIInv DEF ClaimRefused
<1>6. ASSUME NEW c \in Callers, NEW o \in Outcomes, RunHandler(c, o) PROVE IInv'
  BY <1>6, RunHandlerIInv
<1>7. ASSUME NEW c \in Callers, Finish(c) PROVE IInv'
  BY <1>7, FinishIInv
<1>8. ASSUME NEW c \in Callers, Stop(c) PROVE IInv'
  BY <1>8, ForgetIInv DEF Stop
<1> QED BY <1>1, <1>2, <1>3, <1>4, <1>5, <1>6, <1>7, <1>8 DEF Next

\* The inductive invariant holds in every reachable state.
THEOREM SpecIInv == Spec => []IInv
  BY InitIInv, NextIInv, PTL DEF Spec

-----------------------------------------------------------------------------
(***************************************************************************)
(* What the protocol guarantees                                            *)
(***************************************************************************)

\* The tables and the callers always have the types of the schema.
THEOREM TypeCorrect == Spec => []TypeOK
<1>1. IInv => TypeOK
  BY DEF IInv
<1> QED BY <1>1, SpecIInv, PTL

\* The handler of a (thread, workflow, step) runs at most once, for any number
\* of callers, crashes and retries.
THEOREM HandlerAtMostOnce == Spec => []AtMostOnce
<1>1. IInv => AtMostOnce
  BY DEF IInv, TypeOK, RowsMatchEffects, AtMostOnce, InDoubt, Sealed
<1> QED BY <1>1, SpecIInv, PTL

\* Whoever is answered for a step is answered with what its one handler call
\* produced, under the status finish_step stored.
THEOREM AnswersAreTheHandlers == Spec => []AnswersAgree
<1>1. IInv => AnswersAgree
  <2> SUFFICES ASSUME IInv, NEW c \in Callers, pc[c] = "answered"
               PROVE  /\ effects[claim[c].key].calls = 1
                      /\ effects[claim[c].key].outcome = answer[c]
                      /\ step_executions[claim[c].key].status
                           = TerminalStatus(answer[c] \in Failures)
    BY DEF AnswersAgree
  <2>1. /\ claim[c].key \in Keys
        /\ Sealed(claim[c].key)
        /\ step_executions[claim[c].key].outcome = answer[c]
    BY DEF IInv, Answered, Claim
  <2> QED BY <2>1 DEF IInv, RowsMatchEffects
<1> QED BY <1>1, SpecIInv, PTL

\* One single-use authorization never pays for handlers of two threads.
THEOREM SingleUseIsOneThread == Spec => []SingleUseOneThread
<1>1. IInv => SingleUseOneThread
  BY DEF IInv, EffectsOwned, SingleUseOneThread, Owns
<1> QED BY <1>1, SpecIInv, PTL

\* finish_step's error branches are out of the protocol's reach.
THEOREM FinishIsClean == Spec => []FinishNeverRaises
<1>1. IInv => FinishNeverRaises
  <2> SUFFICES ASSUME IInv, NEW c \in Callers, pc[c] = "ran"
               PROVE  ~FinishFails(c)
    BY DEF FinishNeverRaises
  <2>1. /\ InDoubt(claim[c].key)
        /\ step_executions[claim[c].key].request_digest = claim[c].digest
    BY DEF IInv, Held, Working
  <2> QED BY <2>1 DEF FinishFails, FinishRaises, StepNew, StepMismatch,
                      StepTerminal, InDoubt
<1> QED BY <1>1, SpecIInv, PTL

\* How one step may change the two tables: an owner and a sealed row never
\* change, and an in-doubt row only by the caller working on it.
LEMMA RowsStep ==
  ASSUME IInv, [Next]_vars
  PROVE  /\ \A a \in AuthIds : authority_uses[a] # NoRow =>
              authority_uses'[a] = authority_uses[a]
         /\ \A k \in Keys : step_executions[k] # NoRow =>
              \/ step_executions'[k] = step_executions[k]
              \/ /\ InDoubt(k)
                 /\ \E c \in Callers : Working(c) /\ claim[c].key = k
<1>1. CASE UNCHANGED <<authority_uses, step_executions>>
  BY <1>1
<1>2. ASSUME NEW c \in Callers, NEW t \in Threads, NEW g \in Grants, Authorize(c, t, g)
      PROVE  /\ \A a \in AuthIds : authority_uses[a] # NoRow =>
                  authority_uses'[a] = authority_uses[a]
             /\ UNCHANGED step_executions
  BY <1>2, AuthorityTableFacts DEF Authorize, IInv, TypeOK
<1>3. ASSUME NEW c \in Callers, NEW s \in Steps, NEW d \in Digests, ClaimNew(c, s, d)
      PROVE  /\ UNCHANGED authority_uses
             /\ \A k \in Keys : step_executions[k] # NoRow =>
                  step_executions'[k] = step_executions[k]
  <2>1. session[c] \in Session
    BY <1>3 DEF IInv, Admitted, ClaimNew
  <2>2. KeyOf(c, s) \in Keys
    BY <2>1, KeyFacts
  <2> QED BY <1>3, <2>2, StepNewFacts DEF ClaimNew, IInv, TypeOK
<1>4. ASSUME NEW c \in Callers, Finish(c)
      PROVE  /\ UNCHANGED authority_uses
             /\ Working(c) /\ InDoubt(claim[c].key)
             /\ \A k \in Keys : k # claim[c].key =>
                  step_executions'[k] = step_executions[k]
  <2>1. Working(c) /\ claim[c] \in Claim /\ InDoubt(claim[c].key)
    BY <1>4 DEF IInv, Held, Working, Finish
  <2>2. \A k \in Keys : k # claim[c].key => step_executions'[k] = step_executions[k]
    BY <1>4, <2>1 DEF Finish, FinishTable, IInv, TypeOK, Claim
  <2> QED BY <1>4, <2>1, <2>2 DEF Finish
<1>5. \/ UNCHANGED <<authority_uses, step_executions>>
      \/ \E c \in Callers, t \in Threads, g \in Grants : Authorize(c, t, g)
      \/ \E c \in Callers, s \in Steps, d \in Digests : ClaimNew(c, s, d)
      \/ \E c \in Callers : Finish(c)
  BY DEF Next, vars, ClaimReplay, ClaimRefused, RunHandler, Stop
<1> QED BY <1>1, <1>2, <1>3, <1>4, <1>5

\* A row that nobody works on any more stays in doubt for ever.
THEOREM InDoubtStays == Spec => InDoubtIsFinal
<1>1. IInv /\ [Next]_vars =>
        [\A k \in Keys :
           InDoubt(k) /\ (\A c \in Callers : Working(c) => claim[c].key # k)
           => step_executions'[k] = step_executions[k]]_vars
  BY RowsStep DEF InDoubt
<1> QED BY <1>1, SpecIInv, PTL DEF Spec, InDoubtIsFinal

\* Sealed outcomes and grant owners are written once.
THEOREM RowsAdvance == Spec => RowsOnlyAdvance
<1>1. IInv /\ [Next]_vars =>
        [/\ \A k \in Keys : Sealed(k) => step_executions'[k] = step_executions[k]
         /\ \A a \in AuthIds : authority_uses[a] # NoRow =>
              authority_uses'[a] = authority_uses[a]]_vars
  BY RowsStep DEF InDoubt, Sealed
<1> QED BY <1>1, SpecIInv, PTL DEF Spec, RowsOnlyAdvance

-----------------------------------------------------------------------------
(***************************************************************************)
(* ExecutionJournal implements StepLifecycle.  Each action moves the stage *)
(* of one key as an action of the lifecycle does, or leaves all stages     *)
(* alone; which of the two follows from IInv, above all from OneHolder:    *)
(* the caller that acts is the only one that works on its row.             *)
(***************************************************************************)

\* A step that changes the stage of k alone is a move of the lifecycle.
LEMMA OneStageMoves ==
  ASSUME NEW k \in Keys, NEW from, NEW to, NEW o,
         StageOf(k).at \in from,
         StageOf(k)' = [at |-> to, outcome |-> o],
         \A j \in Keys : j # k => StageOf(j)' = StageOf(j)
  PROVE  Lifecycle!Move(k, from, to, o)
  BY DEF Lifecycle!Move

\* A step that changes no stage is a stutter of the lifecycle.
LEMMA NoStageMoves ==
  ASSUME \A j \in Keys : StageOf(j)' = StageOf(j)
  PROVE  UNCHANGED [k \in Keys |-> StageOf(k)]
  OBVIOUS

\* The stage of a key depends on its row, the callers that work on it and its
\* handler's outcome, and on nothing else.
LEMMA StageKept ==
  ASSUME NEW j \in Keys,
         step_executions'[j] = step_executions[j],
         effects'[j] = effects[j],
         \A c \in Callers : Working(c)' /\ claim'[c].key = j
                            <=> Working(c) /\ claim[c].key = j,
         \A c \in Callers : Working(c) /\ claim[c].key = j => pc'[c] = pc[c]
  PROVE  StageOf(j)' = StageOf(j)
<1>1. Workers(j)' = Workers(j)
  BY DEF Workers
<1>2. (\E c \in Workers(j)' : pc'[c] = "ran") <=> (\E c \in Workers(j) : pc[c] = "ran")
  BY <1>1 DEF Workers
<1> QED BY <1>1, <1>2 DEF StageOf, Sealed

\* While a caller works on a row, the row's stage is where that caller stands.
LEMMA StageOfWorker ==
  ASSUME IInv, NEW c \in Callers, Working(c)
  PROVE  /\ claim[c].key \in Keys
         /\ Workers(claim[c].key) = {c}
         /\ pc[c] = "claimed" => StageOf(claim[c].key).at = "claimed"
         /\ pc[c] = "ran" => /\ StageOf(claim[c].key).at = "ran"
                             /\ StageOf(claim[c].key).outcome = answer[c]
<1> DEFINE k == claim[c].key
<1>1. /\ k \in Keys
      /\ InDoubt(k)
      /\ pc[c] = "ran" => effects[k].outcome = answer[c]
  BY DEF IInv, Held, Claim
<1>2. Workers(k) = {c}
  BY DEF IInv, OneHolder, Workers
<1>3. StageOf(k) = IF pc[c] = "ran" THEN [at |-> "ran", outcome |-> effects[k].outcome]
                                    ELSE [at |-> "claimed", outcome |-> NoRow]
  BY <1>1, <1>2 DEF StageOf, InDoubt, Sealed
<1> QED BY <1>1, <1>2, <1>3

-----------------------------------------------------------------------------
(***************************************************************************)
(* One lemma per action                                                    *)
(***************************************************************************)

\* Every step starts with no row, no worker and no effect: unclaimed.
LEMMA InitLifecycle == Init => Lifecycle!Init
<1> SUFFICES ASSUME Init PROVE Lifecycle!Init
  OBVIOUS
<1>1. \A k \in Keys : StageOf(k) = [at |-> "unclaimed", outcome |-> NoRow]
  BY DEF Init, StageOf
<1> QED BY <1>1 DEF Lifecycle!Init

\* Being admitted, or not, is invisible: the caller was idle.
LEMMA AuthorizeStage ==
  ASSUME IInv, NEW c \in Callers, NEW t \in Threads, NEW g \in Grants,
         Authorize(c, t, g)
  PROVE  UNCHANGED [k \in Keys |-> StageOf(k)]
<1>1. \A e \in Callers : Working(e)' <=> Working(e)
  BY DEF Authorize, IInv, TypeOK, Working
<1>2. \A e \in Callers : Working(e) => pc'[e] = pc[e]
  BY DEF Authorize, IInv, TypeOK, Working
<1>3. \A j \in Keys : StageOf(j)' = StageOf(j)
  BY <1>1, <1>2, StageKept DEF Authorize
<1> QED BY <1>3, NoStageMoves

\* A NEW claim is the lifecycle's Claim.
LEMMA ClaimNewStage ==
  ASSUME IInv, NEW c \in Callers, NEW s \in Steps, NEW d \in Digests,
         ClaimNew(c, s, d)
  PROVE  Lifecycle!Next
<1>1. session[c] \in Session
  BY DEF ClaimNew, IInv, Admitted
<1>2. PICK k \in Keys : k = KeyOf(c, s)
  BY <1>1, KeyFacts
<1>3. /\ step_executions[k] = NoRow
      /\ step_executions'[k] # NoRow
      /\ step_executions'[k].status = "STARTED"
      /\ \A j \in Keys : j # k => step_executions'[j] = step_executions[j]
  BY <1>2, StepNewFacts DEF ClaimNew, IInv, TypeOK
<1>4. /\ claim'[c].key = k
      /\ pc'[c] = "claimed"
      /\ pc[c] # "claimed" /\ pc[c] # "ran"
      /\ \A e \in Callers : e # c => claim'[e] = claim[e] /\ pc'[e] = pc[e]
      /\ UNCHANGED effects
  BY <1>2 DEF ClaimNew, IInv, TypeOK
<1>5. \A e \in Callers : Working(e) => claim[e].key # k /\ e # c
  BY <1>2, <1>3, <1>4 DEF IInv, Held, InDoubt, Working
<1>6. StageOf(k).at = "unclaimed"
  BY <1>3 DEF StageOf
<1>7. StageOf(k)' = [at |-> "claimed", outcome |-> NoRow]
  <2>1. Workers(k)' = {c}
    BY <1>4, <1>5 DEF Workers, Working
  <2> QED BY <1>3, <1>4, <2>1 DEF StageOf, Sealed
<1>8. \A j \in Keys : j # k => StageOf(j)' = StageOf(j)
  <2> SUFFICES ASSUME NEW j \in Keys, j # k PROVE StageOf(j)' = StageOf(j)
    OBVIOUS
  <2>1. \A e \in Callers : Working(e)' /\ claim'[e].key = j
                           <=> Working(e) /\ claim[e].key = j
    BY <1>4 DEF Working
  <2>2. \A e \in Callers : Working(e) /\ claim[e].key = j => pc'[e] = pc[e]
    BY <1>4, <1>5
  <2> QED BY <1>3, <1>4, <2>1, <2>2, StageKept
<1>9. Lifecycle!Claim(k)
  BY <1>6, <1>7, <1>8, OneStageMoves DEF Lifecycle!Claim
<1> QED BY <1>9 DEF Lifecycle!Next

\* An answer from a terminal row moves nothing.
LEMMA ClaimReplayStage ==
  ASSUME IInv, NEW c \in Callers, NEW s \in Steps, NEW d \in Digests,
         ClaimReplay(c, s, d)
  PROVE  UNCHANGED [k \in Keys |-> StageOf(k)]
<1>1. /\ ~Working(c) /\ ~Working(c)'
      /\ \A e \in Callers : e # c => claim'[e] = claim[e] /\ pc'[e] = pc[e]
      /\ UNCHANGED <<step_executions, effects>>
  BY DEF ClaimReplay, IInv, TypeOK, Working
<1>2. \A j \in Keys, e \in Callers :
        Working(e)' /\ claim'[e].key = j <=> Working(e) /\ claim[e].key = j
  BY <1>1 DEF Working
<1>3. \A j \in Keys : StageOf(j)' = StageOf(j)
  BY <1>1, <1>2, StageKept
<1> QED BY <1>3, NoStageMoves

\* A caller that ends while it works on a row loses it, before or after its
\* handler ran; any other end is invisible.
LEMMA ForgetStage ==
  ASSUME IInv, NEW c \in Callers, Forget(c),
         UNCHANGED <<step_executions, effects>>
  PROVE  Lifecycle!Next \/ UNCHANGED [k \in Keys |-> StageOf(k)]
<1>1. /\ ~Working(c)'
      /\ \A e \in Callers : e # c => claim'[e] = claim[e] /\ pc'[e] = pc[e]
  BY DEF Forget, IInv, TypeOK, Working
<1>2. CASE ~Working(c)
  <2>1. \A j \in Keys, e \in Callers :
          Working(e)' /\ claim'[e].key = j <=> Working(e) /\ claim[e].key = j
    BY <1>1, <1>2 DEF Working
  <2>2. \A j \in Keys : StageOf(j)' = StageOf(j)
    BY <1>1, <1>2, <2>1, StageKept
  <2> QED BY <2>2, NoStageMoves
<1>3. CASE Working(c)
  <2>k. PICK k \in Keys : k = claim[c].key
    BY <1>3, StageOfWorker
  <2>1. /\ Workers(k) = {c}
        /\ StageOf(k).at \in {"claimed", "ran"}
    BY <1>3, <2>k, StageOfWorker DEF Working
  <2>2. \A e \in Callers : Working(e) /\ e # c => claim[e].key # k
    BY <2>1 DEF Workers
  <2>3. StageOf(k)' = [at |-> "in_doubt", outcome |-> NoRow]
    <3>1. Workers(k)' = {}
      BY <1>1, <2>2 DEF Workers, Working
    <3>2. InDoubt(k)
      BY <1>3, <2>k DEF IInv, Held
    <3> QED BY <3>1, <3>2 DEF StageOf, Sealed, InDoubt
  <2>4. \A j \in Keys : j # k => StageOf(j)' = StageOf(j)
    <3> SUFFICES ASSUME NEW j \in Keys, j # k PROVE StageOf(j)' = StageOf(j)
      OBVIOUS
    <3>1. \A e \in Callers : Working(e)' /\ claim'[e].key = j
                             <=> Working(e) /\ claim[e].key = j
      BY <1>1, <2>k DEF Working
    <3>2. \A e \in Callers : Working(e) /\ claim[e].key = j => pc'[e] = pc[e]
      BY <1>1, <2>k
    <3> QED BY <3>1, <3>2, StageKept
  <2>5. Lifecycle!Lose(k)
    BY <2>1, <2>3, <2>4, OneStageMoves DEF Lifecycle!Lose
  <2> QED BY <2>5 DEF Lifecycle!Next
<1> QED BY <1>2, <1>3

\* The handler call is the lifecycle's Run.
LEMMA RunHandlerStage ==
  ASSUME IInv, NEW c \in Callers, NEW o \in Outcomes, RunHandler(c, o)
  PROVE  Lifecycle!Next
<1>1. Working(c)
  BY DEF RunHandler, Working
<1>k. PICK k \in Keys : k = claim[c].key
  BY <1>1, StageOfWorker
<1>2. /\ Workers(k) = {c}
      /\ StageOf(k).at = "claimed"
  BY <1>1, <1>k, StageOfWorker DEF RunHandler
<1>3. /\ pc'[c] = "ran"
      /\ effects'[k].outcome = o
      /\ \A j \in Keys : j # k => effects'[j] = effects[j]
      /\ \A e \in Callers : e # c => pc'[e] = pc[e]
      /\ UNCHANGED <<step_executions, claim>>
  BY <1>k DEF RunHandler, IInv, TypeOK
<1>4. \A e \in Callers : Working(e)' <=> Working(e)
  BY <1>1, <1>3 DEF Working
<1>5. StageOf(k)' = [at |-> "ran", outcome |-> o]
  <2>1. Workers(k)' = {c}
    BY <1>2, <1>3, <1>4 DEF Workers
  <2>2. InDoubt(k)
    BY <1>1, <1>k DEF IInv, Held
  <2> QED BY <1>3, <2>1, <2>2 DEF StageOf, Sealed, InDoubt
<1>6. \A j \in Keys : j # k => StageOf(j)' = StageOf(j)
  <2> SUFFICES ASSUME NEW j \in Keys, j # k PROVE StageOf(j)' = StageOf(j)
    OBVIOUS
  <2>1. \A e \in Callers : Working(e) /\ claim[e].key = j => pc'[e] = pc[e]
    BY <1>3, <1>k
  <2> QED BY <1>3, <1>4, <2>1, StageKept
<1>7. Lifecycle!Run(k, o)
  BY <1>2, <1>5, <1>6, OneStageMoves DEF Lifecycle!Run
<1> QED BY <1>7 DEF Lifecycle!Next

\* finish_step is the lifecycle's Seal: the row keeps what the handler returned.
LEMMA FinishStage ==
  ASSUME IInv, NEW c \in Callers, Finish(c)
  PROVE  Lifecycle!Next
<1>1. Working(c)
  BY DEF Finish, Working
<1>k. PICK k \in Keys, d \in Digests, o \in Outcomes :
        k = claim[c].key /\ d = claim[c].digest /\ o = answer[c]
  BY <1>1 DEF IInv, Held, Claim, Finish
<1>2. /\ Workers(k) = {c}
      /\ StageOf(k).at = "ran"
      /\ StageOf(k).outcome = o
  BY <1>1, <1>k, StageOfWorker DEF Finish
<1>3. ~FinishFails(c)
  BY FinishIInv
<1>4. /\ pc'[c] = "answered"
      /\ \A e \in Callers : e # c => pc'[e] = pc[e]
      /\ UNCHANGED <<claim, answer, effects>>
  BY <1>3 DEF Finish, IInv, TypeOK
<1>5. /\ \A j \in Keys : j # k => step_executions'[j] = step_executions[j]
      /\ step_executions'[k] # NoRow
      /\ step_executions'[k].status # "STARTED"
      /\ step_executions'[k].outcome = o
  <2>1. /\ step_executions \in [Keys -> StepRow \cup {NoRow}]
        /\ step_executions' = FinishTable(step_executions, k, d, o, o \in Failures)
    BY <1>k DEF Finish, IInv, TypeOK
  <2>2. InDoubt(k) /\ step_executions[k].request_digest = d
    BY <1>1, <1>k DEF IInv, Held
  <2> QED BY <2>1, <2>2, FinishFacts
<1>6. StageOf(k)' = [at |-> "sealed", outcome |-> o]
  BY <1>5 DEF StageOf, Sealed
<1>7. \A j \in Keys : j # k => StageOf(j)' = StageOf(j)
  <2> SUFFICES ASSUME NEW j \in Keys, j # k PROVE StageOf(j)' = StageOf(j)
    OBVIOUS
  <2>1. \A e \in Callers : Working(e)' /\ claim'[e].key = j
                           <=> Working(e) /\ claim[e].key = j
    BY <1>4, <1>k DEF Working
  <2>2. \A e \in Callers : Working(e) /\ claim[e].key = j => pc'[e] = pc[e]
    BY <1>4, <1>k
  <2> QED BY <1>4, <1>5, <2>1, <2>2, StageKept
<1>8. Lifecycle!Move(k, {"ran"}, "sealed", o)
  BY <1>2, <1>6, <1>7, OneStageMoves
<1>9. Lifecycle!Seal(k)
  BY <1>2, <1>8 DEF Lifecycle!Seal
<1> QED BY <1>9 DEF Lifecycle!Next

-----------------------------------------------------------------------------

\* Every step of the protocol is a step of the lifecycle or none at all.
LEMMA NextLifecycle ==
  ASSUME IInv, [Next]_vars
  PROVE  [Lifecycle!Next]_[k \in Keys |-> StageOf(k)]
<1>1. CASE UNCHANGED vars
  <2>1. \A j \in Keys : StageOf(j)' = StageOf(j)
    BY <1>1 DEF vars, StageOf, Sealed, Workers, Working
  <2> QED BY <2>1, NoStageMoves
<1>2. ASSUME NEW c \in Callers, NEW t \in Threads, NEW g \in Grants, Authorize(c, t, g)
      PROVE  UNCHANGED [k \in Keys |-> StageOf(k)]
  BY <1>2, AuthorizeStage
<1>3. ASSUME NEW c \in Callers, NEW s \in Steps, NEW d \in Digests, ClaimNew(c, s, d)
      PROVE  Lifecycle!Next
  BY <1>3, ClaimNewStage
<1>4. ASSUME NEW c \in Callers, NEW s \in Steps, NEW d \in Digests, ClaimReplay(c, s, d)
      PROVE  UNCHANGED [k \in Keys |-> StageOf(k)]
  BY <1>4, ClaimReplayStage
<1>5. ASSUME NEW c \in Callers, NEW s \in Steps, NEW d \in Digests, ClaimRefused(c, s, d)
      PROVE  Lifecycle!Next \/ UNCHANGED [k \in Keys |-> StageOf(k)]
  BY <1>5, ForgetStage DEF ClaimRefused
<1>6. ASSUME NEW c \in Callers, NEW o \in Outcomes, RunHandler(c, o)
      PROVE  Lifecycle!Next
  BY <1>6, RunHandlerStage
<1>7. ASSUME NEW c \in Callers, Finish(c) PROVE Lifecycle!Next
  BY <1>7, FinishStage
<1>8. ASSUME NEW c \in Callers, Stop(c)
      PROVE  Lifecycle!Next \/ UNCHANGED [k \in Keys |-> StageOf(k)]
  BY <1>8, ForgetStage DEF Stop
<1> QED BY <1>1, <1>2, <1>3, <1>4, <1>5, <1>6, <1>7, <1>8 DEF Next

\* Whatever callers race, crash and retry, each step is claimed once, runs once
\* and ends sealed with its handler's outcome or in doubt: the protocol
\* implements the lifecycle.
THEOREM JournalImplementsLifecycle == Spec => ImplementsLifecycle
  BY InitLifecycle, NextLifecycle, SpecIInv, PTL
     DEF Spec, ImplementsLifecycle, Lifecycle!Spec

-----------------------------------------------------------------------------
(***************************************************************************)
(* The transactions                                                        *)
(***************************************************************************)

Stored == [uses |-> authority_uses, rows |-> step_executions]

SqlTypeOK ==
  /\ txn \in [Processes -> Tables \cup {NoRow}]
  /\ owner \in [Processes -> Callers \cup {NoRow}]
  /\ call \in [Callers -> Calls \cup {NoRow}]
  /\ up \subseteq Processes
  /\ faults \in Nat

IdleKnowsNothing ==
  \A c \in Callers : pc[c] = "idle" =>
    session[c] = NoRow /\ claim[c] = NoRow /\ answer[c] = NoRow

\* The caller stands where it may call op.
OpFits(c, op) ==
  \/ op.op = "claim_authority" /\ pc[c] = "idle"
  \/ /\ op.op = "claim_step"
     /\ pc[c] \in {"authorized", "answered"}
     /\ \E s \in Steps : op.key = KeyOf(c, s)
  \/ op.op = "finish_step" /\ pc[c] = "ran"

InTransaction(c) == call[c] # NoRow /\ call[c].at \in {"body", "commit"}

CallOk(c) ==
  call[c] # NoRow =>
    /\ Home[c] \in up
    /\ OpFits(c, call[c].op)
    /\ call[c].at # "lock" => owner[Home[c]] = c
    /\ call[c].at = "body" => txn[Home[c]] = Stored
    /\ call[c].at = "commit" =>
         /\ ~OpRaises(c, call[c].op, Stored)
         /\ txn[Home[c]] = OpTables(c, call[c].op, Stored)
         /\ call[c].next = OpAnswer(c, call[c].op, Stored)

CallsOk == \A c \in Callers : CallOk(c)

OwnersAreInside ==
  \A p \in Processes : owner[p] # NoRow =>
    /\ Home[owner[p]] = p
    /\ call[owner[p]] # NoRow
    /\ call[owner[p]].at # "lock"

OneTransaction ==
  \A p, q \in Processes : txn[p] # NoRow /\ txn[q] # NoRow => p = q

\* A transaction nobody is in was left open by a fault, on a live connection.
TransactionsAreUsed ==
  \A p \in Processes : txn[p] # NoRow =>
    \/ faults > 0 /\ p \in up
    \/ \E c \in Callers : Home[c] = p /\ InTransaction(c)

SqlPart == /\ SqlTypeOK
           /\ CallsOk
           /\ OwnersAreInside
           /\ OneTransaction
           /\ TransactionsAreUsed

SInv == IInv /\ IdleKnowsNothing /\ SqlPart
-----------------------------------------------------------------------------
(***************************************************************************)
(* What an operation's body does                                           *)
(***************************************************************************)

\* An operation in progress has one of the three shapes, with typed arguments.
LEMMA OpCases ==
  ASSUME SInv, NEW c \in Callers, call[c] # NoRow
  PROVE  LET op == call[c].op
         IN  \/ /\ op.op = "claim_authority" /\ pc[c] = "idle"
                /\ op.thread \in Threads /\ op.grant \in Grants
             \/ /\ op.op = "claim_step" /\ pc[c] \in {"authorized", "answered"}
                /\ op.digest \in Digests
                /\ op.key \in Keys
                /\ \E s \in Steps : op.key = KeyOf(c, s)
             \/ op.op = "finish_step" /\ pc[c] = "ran"
  BY DEF SInv, SqlPart, SqlTypeOK, CallsOk, CallOk, OpFits, Calls, Ops

\* The stored tables are tables.
LEMMA StoredFacts ==
  ASSUME IInv
  PROVE  Stored \in Tables /\ Stored # NoRow
  BY NoRowIsNone DEF IInv, TypeOK, Stored, Tables

\* The body of an operation leaves tables of the same type.
LEMMA OpTablesFacts ==
  ASSUME SInv, NEW c \in Callers, call[c] # NoRow
  PROVE  /\ OpTables(c, call[c].op, Stored) \in Tables
         /\ OpTables(c, call[c].op, Stored) # NoRow
<1> DEFINE op == call[c].op
           t == OpTables(c, op, Stored)
<1> SUFFICES t \in Tables
  BY NoRowIsNone
<1>1. /\ authority_uses \in [AuthIds -> AuthorityRow \cup {NoRow}]
      /\ step_executions \in [Keys -> StepRow \cup {NoRow}]
  BY DEF SInv, IInv, TypeOK
<1>t. ASSUME NEW uses \in [AuthIds -> AuthorityRow \cup {NoRow}],
             NEW rows \in [Keys -> StepRow \cup {NoRow}]
      PROVE  [uses |-> uses, rows |-> rows] \in Tables
  BY DEF Tables
<1>2. CASE op.op = "claim_authority" /\ op.thread \in Threads /\ op.grant \in Grants
  <2>1. t = [uses |-> AuthorityTable(authority_uses, op.grant, op.thread),
             rows |-> step_executions]
    BY <1>2 DEF OpTables, Stored
  <2>2. AuthorityTable(authority_uses, op.grant, op.thread)
          \in [AuthIds -> AuthorityRow \cup {NoRow}]
    BY <1>1, <1>2, AuthorityTableFacts
  <2> QED BY <1>1, <1>t, <2>1, <2>2
<1>3. CASE op.op = "claim_step" /\ op.digest \in Digests /\ op.key \in Keys
  <2>1. t = [uses |-> authority_uses,
             rows |-> StepTable(step_executions, op.key, op.digest)]
    BY <1>3 DEF OpTables, Stored
  <2>2. StepTable(step_executions, op.key, op.digest) \in [Keys -> StepRow \cup {NoRow}]
    <3>1. CASE StepNew(step_executions, op.key)
      BY <1>1, <1>3, <3>1, StepNewFacts
    <3>2. CASE ~StepNew(step_executions, op.key)
      BY <1>1, <3>2 DEF StepTable
    <3> QED BY <3>1, <3>2
  <2> QED BY <1>1, <1>t, <2>1, <2>2
<1>4. CASE op.op = "finish_step" /\ pc[c] = "ran"
  <2> DEFINE rows == FinishTable(step_executions, claim[c].key, claim[c].digest,
                                 answer[c], answer[c] \in Failures)
  <2>1. t = [uses |-> authority_uses, rows |-> rows]
    BY <1>4 DEF OpTables, Stored
  <2>2. /\ claim[c].key \in Keys /\ claim[c].digest \in Digests
        /\ answer[c] \in Outcomes
        /\ InDoubt(claim[c].key)
        /\ step_executions[claim[c].key].request_digest = claim[c].digest
    BY <1>4 DEF SInv, IInv, Held, Working, Claim
  <2>3. rows \in [Keys -> StepRow \cup {NoRow}]
    BY <1>1, <2>2, FinishFacts
  <2> HIDE DEF rows
  <2> QED BY <1>1, <1>t, <2>1, <2>3
<1> QED BY <1>2, <1>3, <1>4, OpCases

\* A caller between BEGIN and COMMIT has an open transaction and the RLock.
LEMMA InTransactionFacts ==
  ASSUME SInv, NEW c \in Callers, InTransaction(c)
  PROVE  /\ Home[c] \in Processes
         /\ txn[Home[c]] # NoRow
         /\ owner[Home[c]] = c
<1>1. CallOk(c)
  BY DEF SInv, SqlPart, CallsOk
<1>2. txn[Home[c]] # NoRow
  BY <1>1, StoredFacts, OpTablesFacts DEF CallOk, InTransaction, SInv
<1> QED BY <1>1, <1>2, HomeAssumption DEF CallOk, InTransaction

\* At most one caller is between BEGIN and COMMIT.
LEMMA OneInTransaction ==
  ASSUME SInv, NEW c \in Callers, NEW e \in Callers, InTransaction(c), InTransaction(e)
  PROVE  c = e
<1>1. Home[c] = Home[e]
  BY InTransactionFacts DEF SInv, SqlPart, OneTransaction
<1> QED BY <1>1, InTransactionFacts

-----------------------------------------------------------------------------
(***************************************************************************)
(* Every step is a step of ExecutionJournal, or none                       *)
(***************************************************************************)

\* An operation that ends without COMMIT is the end of its caller there.
LEMMA ForgetImplements ==
  ASSUME IInv, IdleKnowsNothing, NEW c \in Callers, Forget(c), UNCHANGED <<durable, effects>>
  PROVE  [Next]_vars
<1>1. CASE pc[c] = "idle"
  <2>1. UNCHANGED <<pc, session, claim, answer>>
    BY <1>1 DEF Forget, IdleKnowsNothing, IInv, TypeOK
  <2> QED BY <2>1 DEF vars, durable
<1>2. CASE pc[c] # "idle"
  BY <1>2 DEF Next, Stop, durable
<1> QED BY <1>1, <1>2

\* A COMMIT is the whole operation at once.
LEMMA CommitImplements ==
  ASSUME SInv, NEW c \in Callers, Commit(c)
  PROVE  Next
<1> DEFINE op == call[c].op
<1>1. /\ call[c] # NoRow
      /\ ~OpRaises(c, op, Stored)
      /\ authority_uses' = OpTables(c, op, Stored).uses
      /\ step_executions' = OpTables(c, op, Stored).rows
      /\ Become(c, OpAnswer(c, op, Stored))
      /\ UNCHANGED effects
  BY DEF Commit, At, SInv, SqlPart, CallsOk, CallOk
<1>2. /\ pc \in [Callers -> {"idle", "authorized", "claimed", "ran", "answered"}]
      /\ session \in [Callers -> Session \cup {NoRow}]
      /\ claim \in [Callers -> Claim \cup {NoRow}]
      /\ answer \in [Callers -> Outcomes \cup {NoRow}]
  BY DEF SInv, IInv, TypeOK
<1>3. CASE /\ op.op = "claim_authority" /\ pc[c] = "idle"
           /\ op.thread \in Threads /\ op.grant \in Grants
  <2>1. /\ authority_uses' = AuthorityTable(authority_uses, op.grant, op.thread)
        /\ UNCHANGED step_executions
    BY <1>1, <1>3 DEF OpTables, Stored
  <2>2. session[c] = NoRow /\ claim[c] = NoRow /\ answer[c] = NoRow
    BY <1>3 DEF SInv, IdleKnowsNothing
  <2>3. CASE AuthorityAllowed(authority_uses, op.grant, op.thread)
    <3>1. OpAnswer(c, op, Stored)
            = [pc |-> "authorized",
               session |-> [thread |-> op.thread, grant |-> op.grant],
               claim |-> NoRow, answer |-> NoRow]
      BY <1>3, <2>3 DEF OpAnswer, Stored, Nothing
    <3>2. /\ pc' = [pc EXCEPT ![c] = "authorized"]
          /\ session' = [session EXCEPT ![c] = [thread |-> op.thread, grant |-> op.grant]]
          /\ UNCHANGED <<claim, answer>>
      BY <1>1, <1>2, <2>2, <3>1 DEF Become
    <3>3. Authorize(c, op.thread, op.grant)
      BY <1>1, <1>3, <2>1, <2>3, <3>2 DEF Authorize
    <3> QED BY <1>3, <3>3 DEF Next
  <2>4. CASE ~AuthorityAllowed(authority_uses, op.grant, op.thread)
    <3>1. OpAnswer(c, op, Stored) = Nothing
      BY <1>3, <2>4 DEF OpAnswer, Stored
    <3>2. UNCHANGED <<pc, session, claim, answer>>
      BY <1>1, <1>2, <1>3, <2>2, <3>1 DEF Become, Nothing
    <3>3. Authorize(c, op.thread, op.grant)
      BY <1>1, <1>3, <2>1, <2>4, <3>2 DEF Authorize
    <3> QED BY <1>3, <3>3 DEF Next
  <2> QED BY <2>3, <2>4
<1>4. CASE /\ op.op = "claim_step" /\ pc[c] \in {"authorized", "answered"}
           /\ op.digest \in Digests /\ op.key \in Keys
           /\ \E s \in Steps : op.key = KeyOf(c, s)
  <2>0. PICK s \in Steps : op.key = KeyOf(c, s)
    BY <1>4
  <2>1. /\ step_executions' = StepTable(step_executions, op.key, op.digest)
        /\ UNCHANGED authority_uses
    BY <1>1, <1>4 DEF OpTables, Stored
  <2>2. CASE StepNew(step_executions, op.key)
    <3>1. OpAnswer(c, op, Stored)
            = [pc |-> "claimed", session |-> session[c],
               claim |-> [key |-> op.key, digest |-> op.digest], answer |-> NoRow]
      BY <1>4, <2>2 DEF OpAnswer, Stored, Local
    <3>2. /\ pc' = [pc EXCEPT ![c] = "claimed"]
          /\ UNCHANGED session
          /\ claim' = [claim EXCEPT ![c] = [key |-> op.key, digest |-> op.digest]]
          /\ answer' = [answer EXCEPT ![c] = NoRow]
      BY <1>1, <1>2, <3>1 DEF Become
    <3>3. ClaimNew(c, s, op.digest)
      BY <1>1, <1>4, <2>0, <2>1, <2>2, <3>2 DEF ClaimNew
    <3> QED BY <1>4, <3>3 DEF Next
  <2>3. CASE StepTerminal(step_executions, op.key, op.digest)
    <3>0. ~StepNew(step_executions, op.key) /\ UNCHANGED step_executions
      BY <2>1, <2>3 DEF StepNew, StepTerminal, StepTable
    <3>1. OpAnswer(c, op, Stored)
            = [pc |-> "answered", session |-> session[c],
               claim |-> [key |-> op.key, digest |-> op.digest],
               answer |-> step_executions[op.key].outcome]
      BY <1>4, <2>3, <3>0 DEF OpAnswer, Stored, Local
    <3>2. /\ pc' = [pc EXCEPT ![c] = "answered"]
          /\ UNCHANGED session
          /\ claim' = [claim EXCEPT ![c] = [key |-> op.key, digest |-> op.digest]]
          /\ answer' = [answer EXCEPT ![c] = step_executions[op.key].outcome]
      BY <1>1, <1>2, <3>1 DEF Become
    <3>3. ClaimReplay(c, s, op.digest)
      BY <1>1, <1>4, <2>0, <2>1, <2>3, <3>0, <3>2 DEF ClaimReplay
    <3> QED BY <1>4, <3>3 DEF Next
  <2>4. CASE /\ ~StepNew(step_executions, op.key)
             /\ ~StepTerminal(step_executions, op.key, op.digest)
    <3>0. UNCHANGED step_executions
      BY <2>1, <2>4 DEF StepTable
    <3>1. StepInDoubt(step_executions, op.key, op.digest)
      <4>1. ~StepMismatch(step_executions, op.key, op.digest)
        BY <1>1, <1>4 DEF OpRaises, Stored
      <4>2. step_executions[op.key] \in StepRow
        BY <1>4, <2>4 DEF StepNew, SInv, IInv, TypeOK
      <4> QED BY <2>4, <4>1, <4>2
              DEF StepNew, StepMismatch, StepTerminal, StepInDoubt, StepRow
    <3>2. OpAnswer(c, op, Stored) = Nothing
      BY <1>4, <2>4 DEF OpAnswer, Stored
    <3>3. Forget(c)
      BY <1>1, <3>2 DEF Become, Nothing, Forget
    <3>4. ClaimRefused(c, s, op.digest)
      BY <1>1, <1>4, <2>0, <2>1, <3>0, <3>1, <3>3 DEF ClaimRefused
    <3> QED BY <1>4, <3>4 DEF Next
  <2> QED BY <2>2, <2>3, <2>4
<1>5. CASE op.op = "finish_step" /\ pc[c] = "ran"
  <2>1. /\ ~FinishFails(c)
        /\ step_executions' = FinishTable(step_executions, claim[c].key, claim[c].digest,
                                          answer[c], answer[c] \in Failures)
        /\ UNCHANGED authority_uses
    BY <1>1, <1>5 DEF OpRaises, OpTables, Stored, FinishFails
  <2>2. OpAnswer(c, op, Stored)
          = [pc |-> "answered", session |-> session[c], claim |-> claim[c],
             answer |-> answer[c]]
    BY <1>5 DEF OpAnswer, Local
  <2>3. /\ pc' = [pc EXCEPT ![c] = "answered"]
        /\ UNCHANGED <<session, claim, answer>>
    BY <1>1, <1>2, <2>2 DEF Become
  <2>4. Finish(c)
    BY <1>1, <1>5, <2>1, <2>3 DEF Finish
  <2> QED BY <2>4 DEF Next
<1> QED BY <1>1, <1>3, <1>4, <1>5, OpCases

\* No step of a connection, a lock or a process shows in the tables or the
\* callers except as a step of the protocol.
LEMMA NextImplements ==
  ASSUME SInv, [SqlNext]_allVars
  PROVE  [Next]_vars
<1>1. CASE UNCHANGED allVars
  BY <1>1 DEF allVars
<1>2. ASSUME NEW c \in Callers, NEW t \in Threads, NEW g \in Grants,
             CallClaimAuthority(c, t, g)
      PROVE  [Next]_vars
  BY <1>2 DEF CallClaimAuthority, Enter, Next
<1>3. ASSUME NEW c \in Callers, NEW s \in Steps, NEW d \in Digests, CallClaimStep(c, s, d)
      PROVE  [Next]_vars
  BY <1>3 DEF CallClaimStep, Enter
<1>4. ASSUME NEW c \in Callers, CallFinishStep(c) PROVE [Next]_vars
  BY <1>4 DEF CallFinishStep, Enter
<1>5. ASSUME NEW c \in Callers, NEW o \in Outcomes, Handle(c, o) PROVE [Next]_vars
  BY <1>5 DEF Handle, Next
<1>6. ASSUME NEW c \in Callers, End(c) \/ Gone(c) PROVE [Next]_vars
  BY <1>6 DEF End, Gone, Next
<1>7. ASSUME NEW c \in Callers, TakeLock(c) \/ Begin(c) \/ Body(c) PROVE [Next]_vars
  BY <1>7 DEF TakeLock, Begin, Body
<1>8. ASSUME NEW c \in Callers,
             BeginFails(c) \/ Rollback(c) \/ CommitFails(c) \/ Interrupted(c)
      PROVE  [Next]_vars
  BY <1>8, ForgetImplements DEF BeginFails, Rollback, CommitFails, Interrupted, SInv
<1>9. ASSUME NEW c \in Callers, Commit(c) PROVE [Next]_vars
  BY <1>9, CommitImplements
<1>10. ASSUME NEW p \in Processes, Down(p) \/ Open(p) PROVE [Next]_vars
  BY <1>10 DEF Down, Open
<1> QED BY <1>1, <1>2, <1>3, <1>4, <1>5, <1>6, <1>7, <1>8, <1>9, <1>10 DEF SqlNext, Step

\* A caller that is idle again has dropped all it knew.
LEMMA IdleKept ==
  ASSUME IInv, IdleKnowsNothing, [Next]_vars
  PROVE  IdleKnowsNothing'
<1>1. ASSUME NEW c \in Callers, NEW t \in Threads, NEW g \in Grants, Authorize(c, t, g)
      PROVE  IdleKnowsNothing'
  BY <1>1 DEF Authorize, IInv, TypeOK, IdleKnowsNothing
<1>2. ASSUME NEW c \in Callers, NEW s \in Steps, NEW d \in Digests,
             ClaimNew(c, s, d) \/ ClaimReplay(c, s, d)
      PROVE  IdleKnowsNothing'
  BY <1>2 DEF ClaimNew, ClaimReplay, IInv, TypeOK, IdleKnowsNothing
<1>3. ASSUME NEW c \in Callers, Forget(c) PROVE IdleKnowsNothing'
  BY <1>3 DEF Forget, IInv, TypeOK, IdleKnowsNothing
<1>4. ASSUME NEW c \in Callers, NEW o \in Outcomes, RunHandler(c, o)
      PROVE  IdleKnowsNothing'
  BY <1>4 DEF RunHandler, IInv, TypeOK, IdleKnowsNothing
<1>5. ASSUME NEW c \in Callers, Finish(c) PROVE IdleKnowsNothing'
  BY <1>5, FinishIInv DEF Finish, IInv, TypeOK, IdleKnowsNothing
<1>6. CASE UNCHANGED vars
  BY <1>6 DEF vars, IdleKnowsNothing
<1> QED BY <1>1, <1>2, <1>3, <1>4, <1>5, <1>6 DEF Next, ClaimRefused, Stop

-----------------------------------------------------------------------------
(***************************************************************************)
(* SInv is inductive                                                       *)
(***************************************************************************)

\* What a caller knows stays the same.
SameLocal(e) == /\ pc'[e] = pc[e]
                /\ session'[e] = session[e]
                /\ claim'[e] = claim[e]
                /\ answer'[e] = answer[e]

\* An operation of another caller goes on undisturbed when its connection is
\* alive, its lock stays held and, between BEGIN and COMMIT, neither its
\* transaction nor the stored tables change.
LEMMA CallKept ==
  ASSUME NEW e \in Callers, CallOk(e), SameLocal(e), call'[e] = call[e],
         call[e] # NoRow => Home[e] \in up',
         call[e] # NoRow /\ call[e].at # "lock" => owner'[Home[e]] = owner[Home[e]],
         InTransaction(e) => UNCHANGED durable /\ txn'[Home[e]] = txn[Home[e]]
  PROVE  CallOk(e)'
<1> SUFFICES ASSUME call[e] # NoRow PROVE CallOk(e)'
  BY DEF CallOk
<1> PICK op, at : op = call[e].op /\ at = call[e].at
  OBVIOUS
<1>1. OpFits(e, op)'
  BY DEF CallOk, OpFits, SameLocal, KeyOf
<1>2. CASE ~InTransaction(e)
  BY <1>1, <1>2 DEF CallOk, InTransaction
<1>3. CASE InTransaction(e)
  <2> PICK t : t = Stored
    OBVIOUS
  <2>1. Stored' = t
    BY <1>3 DEF Stored, durable
  <2>2. /\ OpRaises(e, op, t)' <=> OpRaises(e, op, t)
        /\ OpTables(e, op, t)' = OpTables(e, op, t)
        /\ OpAnswer(e, op, t)' = OpAnswer(e, op, t)
    BY DEF SameLocal, OpRaises, OpTables, OpAnswer, Local
  <2>3. at = "body" => txn'[Home[e]] = t
    BY <1>3 DEF CallOk
  <2>4. at = "commit" => /\ ~OpRaises(e, op, t)'
                         /\ txn'[Home[e]] = OpTables(e, op, t)'
                         /\ call'[e].next = OpAnswer(e, op, t)'
    BY <1>3, <2>2 DEF CallOk
  <2> QED BY <1>1, <1>3, <2>1, <2>3, <2>4 DEF CallOk
<1> QED BY <1>2, <1>3

\* The initial state has no operation, no lock and no transaction.
LEMMA InitSInv == SqlInit => SInv
<1> SUFFICES ASSUME SqlInit PROVE SInv
  OBVIOUS
<1>1. IInv /\ IdleKnowsNothing
  BY InitIInv DEF SqlInit, Init, IdleKnowsNothing
<1>2. SqlPart
  BY DEF SqlInit, SqlPart, SqlTypeOK, CallsOk, CallOk, OwnersAreInside, OneTransaction,
         TransactionsAreUsed
<1> QED BY <1>1, <1>2 DEF SInv

\* A step of the caller outside of any operation.
LEMMA QuietSql ==
  ASSUME SInv, NEW c \in Callers, call[c] = NoRow, UNCHANGED sqlVars,
         UNCHANGED durable, \A e \in Callers : e # c => SameLocal(e)
  PROVE  SqlPart'
<1>1. CallsOk'
  <2> SUFFICES ASSUME NEW e \in Callers PROVE CallOk(e)'
    BY DEF CallsOk
  <2>1. CASE e = c
    BY <2>1 DEF CallOk, sqlVars
  <2>2. CASE e # c
    BY <2>2, CallKept DEF SInv, SqlPart, CallsOk, CallOk, sqlVars
  <2> QED BY <2>1, <2>2
<1> QED BY <1>1 DEF SInv, SqlPart, SqlTypeOK, OwnersAreInside, OneTransaction,
                    TransactionsAreUsed, InTransaction, sqlVars

\* The start of an operation.
LEMMA EnterSql ==
  ASSUME SInv, NEW c \in Callers, NEW op \in Ops, Quiet(c), OpFits(c, op), Enter(c, op)
  PROVE  SqlPart'
<1> USE DEF Enter
<1>1. /\ [op |-> op, at |-> "lock", next |-> NoRow] \in Calls
      /\ [op |-> op, at |-> "lock", next |-> NoRow] # NoRow
  BY NoRowIsNone DEF Calls
<1>2. /\ call'[c] = [op |-> op, at |-> "lock", next |-> NoRow]
      /\ call[c] = NoRow
      /\ \A e \in Callers : e # c => call'[e] = call[e]
      /\ \A e \in Callers : SameLocal(e)
  BY DEF SInv, SqlPart, SqlTypeOK, Quiet, vars, SameLocal
<1>3. SqlTypeOK'
  BY <1>1 DEF SInv, SqlPart, SqlTypeOK
<1>4. CallsOk'
  <2> SUFFICES ASSUME NEW e \in Callers PROVE CallOk(e)'
    BY DEF CallsOk
  <2>1. CASE e = c
    BY <1>1, <1>2, <2>1 DEF CallOk, Quiet, OpFits, KeyOf, vars
  <2>2. CASE e # c
    BY <1>2, <2>2, CallKept DEF SInv, SqlPart, CallsOk, CallOk, vars, durable
  <2> QED BY <2>1, <2>2
<1>5. OwnersAreInside'
  BY <1>2 DEF SInv, SqlPart, SqlTypeOK, OwnersAreInside
<1>6. TransactionsAreUsed'
  BY <1>2 DEF SInv, SqlPart, TransactionsAreUsed, InTransaction
<1> QED BY <1>3, <1>4, <1>5, <1>6 DEF SInv, SqlPart, OneTransaction

\* The RLock is taken by one caller of the process.
LEMMA TakeLockSql ==
  ASSUME SInv, NEW c \in Callers, TakeLock(c)
  PROVE  SqlPart'
<1> DEFINE p == Home[c]
<1> USE DEF TakeLock, At, Goes
<1>1. p \in Processes /\ call[c] \in Calls
  BY HomeAssumption DEF SInv, SqlPart, SqlTypeOK
<1>2. /\ call'[c] = [call[c] EXCEPT !.at = "begin"]
      /\ call'[c] \in Calls
      /\ call'[c] # NoRow
      /\ call'[c].at = "begin"
      /\ call'[c].op = call[c].op
      /\ \A e \in Callers : e # c => call'[e] = call[e]
      /\ \A e \in Callers : SameLocal(e)
      /\ owner'[p] = c
      /\ \A q \in Processes : q # p => owner'[q] = owner[q]
      /\ c # NoRow
  BY <1>1, NoRowIsNone DEF SInv, SqlPart, SqlTypeOK, vars, SameLocal, Calls
<1>3. SqlTypeOK'
  BY <1>1, <1>2 DEF SInv, SqlPart, SqlTypeOK
<1>4. CallsOk'
  <2> SUFFICES ASSUME NEW e \in Callers PROVE CallOk(e)'
    BY DEF CallsOk
  <2>1. CASE e = c
    <3> PICK op : op = call[c].op
      OBVIOUS
    <3>1. OpFits(c, op)'
      BY DEF SInv, SqlPart, CallsOk, CallOk, OpFits, KeyOf, vars
    <3> QED BY <1>2, <2>1, <3>1 DEF CallOk
  <2>2. CASE e # c
    <3>1. CallOk(e) /\ Home[e] \in Processes
      BY HomeAssumption DEF SInv, SqlPart, CallsOk
    <3>2. call[e] # NoRow /\ call[e].at # "lock" => owner'[Home[e]] = owner[Home[e]]
      BY <1>2, <2>2, <3>1, NoRowIsNone DEF CallOk
    <3> QED BY <1>2, <2>2, <3>1, <3>2, CallKept DEF CallOk, vars, durable
  <2> QED BY <2>1, <2>2
<1>5. OwnersAreInside'
  BY <1>1, <1>2 DEF SInv, SqlPart, SqlTypeOK, OwnersAreInside
<1>6. TransactionsAreUsed'
  BY <1>2 DEF SInv, SqlPart, TransactionsAreUsed, InTransaction
<1> QED BY <1>3, <1>4, <1>5, <1>6 DEF SInv, SqlPart, OneTransaction

\* BEGIN IMMEDIATE opens the only transaction, with the tables as stored.
LEMMA BeginSql ==
  ASSUME SInv, NEW c \in Callers, Begin(c)
  PROVE  SqlPart'
<1> DEFINE p == Home[c]
<1> USE DEF Begin, At, Goes, WriteLockFree
<1>1. p \in Processes /\ call[c] \in Calls /\ owner[p] = c
  BY HomeAssumption DEF SInv, SqlPart, SqlTypeOK, CallsOk, CallOk
<1>2. /\ call'[c] = [call[c] EXCEPT !.at = "body"]
      /\ call'[c] \in Calls
      /\ call'[c] # NoRow
      /\ call'[c].at = "body"
      /\ call'[c].op = call[c].op
      /\ \A e \in Callers : e # c => call'[e] = call[e]
      /\ \A e \in Callers : SameLocal(e)
      /\ txn'[p] = Stored
      /\ \A q \in Processes : q # p => txn'[q] = NoRow
  BY <1>1, NoRowIsNone DEF SInv, SqlPart, SqlTypeOK, vars, SameLocal, Calls, Stored
<1>3. SqlTypeOK'
  BY <1>1, <1>2, StoredFacts DEF SInv, SqlPart, SqlTypeOK
<1>4. CallsOk'
  <2> SUFFICES ASSUME NEW e \in Callers PROVE CallOk(e)'
    BY DEF CallsOk
  <2>1. CASE e = c
    <3> PICK op, t : op = call[c].op /\ t = Stored
      OBVIOUS
    <3>1. OpFits(c, op)' /\ Stored' = t
      BY DEF SInv, SqlPart, CallsOk, CallOk, OpFits, KeyOf, vars, Stored
    <3> QED BY <1>1, <1>2, <2>1, <3>1 DEF CallOk
  <2>2. CASE e # c
    <3>1. CallOk(e) /\ ~InTransaction(e)
      BY InTransactionFacts DEF SInv, SqlPart, CallsOk
    <3> QED BY <1>2, <2>2, <3>1, CallKept DEF CallOk, vars, durable
  <2> QED BY <2>1, <2>2
<1>5. OwnersAreInside'
  BY <1>1, <1>2 DEF SInv, SqlPart, SqlTypeOK, OwnersAreInside
<1>6. TransactionsAreUsed'
  BY <1>1, <1>2 DEF SInv, SqlPart, TransactionsAreUsed, InTransaction
<1>7. OneTransaction'
  BY <1>2 DEF OneTransaction
<1> QED BY <1>3, <1>4, <1>5, <1>6, <1>7 DEF SqlPart

\* The body computes the answer and the tables from what is stored.
LEMMA BodySql ==
  ASSUME SInv, NEW c \in Callers, Body(c)
  PROVE  SqlPart'
<1> PICK op, t : op = call[c].op /\ t = Stored
  OBVIOUS
<1> DEFINE p == Home[c]
           next == OpAnswer(c, op, t)
<1>1. /\ p \in Processes /\ p \in up
      /\ call[c] \in Calls
      /\ call[c].at = "body"
      /\ InTransaction(c)
      /\ owner[p] = c
      /\ txn[p] = t
      /\ txn[p] # NoRow
  BY InTransactionFacts DEF Body, At, InTransaction, SInv, SqlPart, SqlTypeOK, CallsOk, CallOk
<1>2. /\ ~OpRaises(c, op, t)
      /\ txn' = [txn EXCEPT ![p] = OpTables(c, op, t)]
      /\ call' = [call EXCEPT ![c].at = "commit", ![c].next = next]
      /\ UNCHANGED <<vars, owner, up, faults>>
  BY <1>1 DEF Body
<1>3. /\ OpTables(c, op, t) \in Tables
      /\ OpTables(c, op, t) # NoRow
  BY <1>1, OpTablesFacts DEF InTransaction
<1>4. next \in [pc      : {"idle", "authorized", "claimed", "answered"},
                session : Session \cup {NoRow},
                claim   : Claim \cup {NoRow},
                answer  : Outcomes \cup {NoRow}]
  <2>1. /\ session[c] \in Session \cup {NoRow}
        /\ claim[c] \in Claim \cup {NoRow}
        /\ answer[c] \in Outcomes \cup {NoRow}
        /\ step_executions \in [Keys -> StepRow \cup {NoRow}]
    BY DEF SInv, IInv, TypeOK
  <2>2. CASE /\ op.op = "claim_authority"
             /\ op.thread \in Threads /\ op.grant \in Grants
    BY <2>2 DEF OpAnswer, Nothing, Session
  <2>3. CASE op.op = "claim_step" /\ op.digest \in Digests /\ op.key \in Keys
    <3>1. StepTerminal(t.rows, op.key, op.digest)
          => t.rows[op.key].outcome \in Outcomes \cup {NoRow}
      BY <2>1, <2>3 DEF StepTerminal, Stored, StepRow
    <3>2. [key |-> op.key, digest |-> op.digest] \in Claim
      BY <2>3 DEF Claim
    <3> QED BY <2>1, <2>3, <3>1, <3>2 DEF OpAnswer, Nothing, Local
  <2>4. CASE op.op = "finish_step"
    BY <2>1, <2>4 DEF OpAnswer, Local
  <2> QED BY <1>1, <2>2, <2>3, <2>4, OpCases DEF InTransaction
<1> HIDE DEF next
<1>5. /\ call'[c] = [call[c] EXCEPT !.at = "commit", !.next = next]
      /\ call'[c] \in Calls
      /\ call'[c] # NoRow
      /\ call'[c].at = "commit"
      /\ call'[c].op = op
      /\ call'[c].next = next
      /\ \A e \in Callers : e # c => call'[e] = call[e]
      /\ \A e \in Callers : SameLocal(e)
      /\ txn'[p] = OpTables(c, op, t)
      /\ \A q \in Processes : q # p => txn'[q] = txn[q]
  BY <1>1, <1>2, <1>4, NoRowIsNone DEF SInv, SqlPart, SqlTypeOK, vars, SameLocal, Calls
<1>6. SqlTypeOK'
  BY <1>1, <1>2, <1>3, <1>5 DEF SInv, SqlPart, SqlTypeOK
<1>7. CallsOk'
  <2> SUFFICES ASSUME NEW e \in Callers PROVE CallOk(e)'
    BY DEF CallsOk
  <2>1. CASE e = c
    <3>1. OpFits(c, op)' /\ Stored' = t
      BY <1>1, <1>2 DEF SInv, SqlPart, CallsOk, CallOk, OpFits, KeyOf, vars, Stored,
                        InTransaction
    <3>2. /\ ~OpRaises(c, op, t)'
          /\ txn'[p] = OpTables(c, op, t)'
          /\ next = OpAnswer(c, op, t)'
      BY <1>2, <1>5 DEF next, vars, OpRaises, OpTables, OpAnswer, Local
    <3> QED BY <1>1, <1>2, <1>5, <2>1, <3>1, <3>2 DEF CallOk
  <2>2. CASE e # c
    <3>1. CallOk(e) /\ ~InTransaction(e)
      BY <1>1, <2>2, OneInTransaction DEF SInv, SqlPart, CallsOk
    <3> QED BY <1>2, <1>5, <2>2, <3>1, CallKept DEF CallOk, vars, durable
  <2> QED BY <2>1, <2>2
<1>8. OwnersAreInside'
  BY <1>1, <1>2, <1>5 DEF SInv, SqlPart, SqlTypeOK, OwnersAreInside
<1>9. TransactionsAreUsed'
  <2> SUFFICES ASSUME NEW q \in Processes, txn'[q] # NoRow
               PROVE  \/ faults' > 0 /\ q \in up'
                      \/ \E e \in Callers : Home[e] = q /\ InTransaction(e)'
    BY DEF TransactionsAreUsed
  <2>1. q = p
    BY <1>1, <1>5 DEF SInv, SqlPart, OneTransaction
  <2>2. InTransaction(c)'
    BY <1>5 DEF InTransaction
  <2> QED BY <2>1, <2>2
<1>10. OneTransaction'
  BY <1>1, <1>5 DEF SInv, SqlPart, OneTransaction
<1> QED BY <1>6, <1>7, <1>8, <1>9, <1>10 DEF SqlPart

\* An operation's end gives the RLock back; the transaction is closed, or was
\* never opened by this operation, or stays open by a fault.
LEMMA LeaveSql ==
  ASSUME SInv, NEW c \in Callers, call[c] # NoRow, call[c].at # "lock", Leave(c),
         \A e \in Callers : e # c => SameLocal(e),
         UNCHANGED up, faults' \in Nat, faults' >= faults,
         \/ Ends(Home[c])
         \/ UNCHANGED txn /\ (InTransaction(c) => faults' > 0),
         UNCHANGED durable \/ InTransaction(c)
  PROVE  SqlPart'
<1> DEFINE p == Home[c]
<1>1. /\ p \in Processes /\ p \in up
      /\ owner[p] = c
      /\ faults \in Nat
  BY HomeAssumption DEF SInv, SqlPart, SqlTypeOK, CallsOk, CallOk
<1>2. /\ call'[c] = NoRow
      /\ \A e \in Callers : e # c => call'[e] = call[e]
      /\ owner'[p] = NoRow
      /\ \A q \in Processes : q # p => owner'[q] = owner[q]
      /\ \A q \in Processes : q # p => txn'[q] = txn[q]
      /\ \/ txn'[p] = NoRow
         \/ UNCHANGED txn /\ (InTransaction(c) => faults' > 0)
  BY <1>1 DEF SInv, SqlPart, SqlTypeOK, Leave, Ends
<1>3. SqlTypeOK'
  <2>1. txn' \in [Processes -> Tables \cup {NoRow}]
    BY <1>1 DEF SInv, SqlPart, SqlTypeOK, Ends
  <2> QED BY <1>1, <2>1 DEF SInv, SqlPart, SqlTypeOK, Leave
<1>4. CallsOk'
  <2> SUFFICES ASSUME NEW e \in Callers PROVE CallOk(e)'
    BY DEF CallsOk
  <2>1. CASE e = c
    BY <1>2, <2>1 DEF CallOk
  <2>2. CASE e # c
    <3>1. CallOk(e) /\ Home[e] \in Processes
      BY HomeAssumption DEF SInv, SqlPart, CallsOk
    <3>2. call[e] # NoRow /\ call[e].at # "lock" => Home[e] # p
      BY <1>1, <2>2, <3>1 DEF CallOk
    <3>3. InTransaction(e) => UNCHANGED durable
      BY <2>2, OneInTransaction
    <3> QED BY <1>2, <2>2, <3>1, <3>2, <3>3, CallKept DEF CallOk, InTransaction
  <2> QED BY <2>1, <2>2
<1>5. OwnersAreInside'
  BY <1>1, <1>2 DEF SInv, SqlPart, SqlTypeOK, OwnersAreInside
<1>6. TransactionsAreUsed'
  <2> SUFFICES ASSUME NEW q \in Processes, txn'[q] # NoRow
               PROVE  \/ faults' > 0 /\ q \in up
                      \/ \E e \in Callers : Home[e] = q /\ InTransaction(e)'
    BY DEF TransactionsAreUsed
  <2>1. \/ faults > 0 /\ q \in up
        \/ \E e \in Callers : Home[e] = q /\ InTransaction(e)
    BY <1>2 DEF SInv, SqlPart, TransactionsAreUsed
  <2>2. CASE faults > 0 /\ q \in up
    BY <1>1, <2>2
  <2>3. ASSUME NEW e \in Callers, Home[e] = q, InTransaction(e)
        PROVE  \/ faults' > 0 /\ q \in up
               \/ InTransaction(e)'
    BY <1>1, <1>2, <2>3 DEF InTransaction
  <2> QED BY <2>1, <2>2, <2>3
<1>7. OneTransaction'
  BY <1>2 DEF SInv, SqlPart, OneTransaction
<1> QED BY <1>3, <1>4, <1>5, <1>6, <1>7 DEF SqlPart

\* A process that ends takes its connection, lock and calls with it.
LEMMA DownSql ==
  ASSUME SInv, NEW p \in Processes, Down(p)
  PROVE  SqlPart'
<1> USE DEF Down, Ends
<1>1. /\ txn'[p] = NoRow /\ owner'[p] = NoRow
      /\ \A q \in Processes : q # p => txn'[q] = txn[q] /\ owner'[q] = owner[q]
      /\ \A e \in Callers : SameLocal(e)
      /\ \A e \in Callers : call'[e] = IF Home[e] = p THEN NoRow ELSE call[e]
  BY DEF SInv, SqlPart, SqlTypeOK, vars, SameLocal
<1>2. SqlTypeOK'
  BY DEF SInv, SqlPart, SqlTypeOK
<1>3. CallsOk'
  <2> SUFFICES ASSUME NEW e \in Callers PROVE CallOk(e)'
    BY DEF CallsOk
  <2>1. CASE Home[e] = p
    BY <1>1, <2>1 DEF CallOk
  <2>2. CASE Home[e] # p
    <3>1. CallOk(e) /\ Home[e] \in Processes
      BY HomeAssumption DEF SInv, SqlPart, CallsOk
    <3> QED BY <1>1, <2>2, <3>1, CallKept DEF CallOk, vars, durable
  <2> QED BY <2>1, <2>2
<1>4. OwnersAreInside'
  BY <1>1 DEF SInv, SqlPart, SqlTypeOK, OwnersAreInside
<1>5. TransactionsAreUsed'
  BY <1>1 DEF SInv, SqlPart, TransactionsAreUsed, InTransaction
<1>6. OneTransaction'
  BY <1>1 DEF SInv, SqlPart, OneTransaction
<1> QED BY <1>2, <1>3, <1>4, <1>5, <1>6 DEF SqlPart

\* A process that opens the file starts with a connection of its own.
LEMMA OpenSql ==
  ASSUME SInv, NEW p \in Processes, Open(p)
  PROVE  SqlPart'
<1> USE DEF Open
<1>1. \A e \in Callers : SameLocal(e)
  BY DEF vars, SameLocal
<1>2. CallsOk'
  BY <1>1, CallKept DEF SInv, SqlPart, CallsOk, CallOk, vars, durable
<1> QED BY <1>2 DEF SInv, SqlPart, SqlTypeOK, OwnersAreInside, OneTransaction,
                    TransactionsAreUsed, InTransaction

\* Every step of SqliteJournal keeps SInv.
LEMMA NextSInv == SInv /\ [SqlNext]_allVars => SInv'
<1> SUFFICES ASSUME SInv, [SqlNext]_allVars PROVE SInv'
  OBVIOUS
<1>1. IInv' /\ IdleKnowsNothing'
  BY NextImplements, NextIInv, IdleKept DEF SInv
<1> SUFFICES SqlPart'
  BY <1>1 DEF SInv
<1>t. /\ pc \in [Callers -> {"idle", "authorized", "claimed", "ran", "answered"}]
      /\ session \in [Callers -> Session \cup {NoRow}]
      /\ claim \in [Callers -> Claim \cup {NoRow}]
      /\ answer \in [Callers -> Outcomes \cup {NoRow}]
  BY DEF SInv, IInv, TypeOK
<1>f. ASSUME NEW c \in Callers, Forget(c)
      PROVE  \A e \in Callers : e # c => SameLocal(e)
  BY <1>f, <1>t DEF Forget, SameLocal
<1>2. CASE UNCHANGED allVars
  <2>1. \A e \in Callers : CallOk(e)'
    BY <1>2, CallKept DEF SInv, SqlPart, CallsOk, CallOk, allVars, vars, sqlVars, durable,
                          SameLocal
  <2> QED BY <1>2, <2>1
          DEF SInv, SqlPart, SqlTypeOK, CallsOk, OwnersAreInside, OneTransaction,
              TransactionsAreUsed, InTransaction, allVars, sqlVars
<1>3. ASSUME NEW c \in Callers, NEW t \in Threads, NEW g \in Grants,
             CallClaimAuthority(c, t, g)
      PROVE  SqlPart'
  <2>1. CASE g.single_use
    <3>1. ClaimAuthority(t, g) \in Ops /\ OpFits(c, ClaimAuthority(t, g))
      BY <1>3 DEF ClaimAuthority, Ops, OpFits, CallClaimAuthority
    <3> QED BY <1>3, <2>1, <3>1, EnterSql DEF CallClaimAuthority
  <2>2. CASE ~g.single_use
    <3>1. call[c] = NoRow /\ Authorize(c, t, g) /\ UNCHANGED sqlVars
      BY <1>3, <2>2 DEF CallClaimAuthority, Quiet
    <3>2. UNCHANGED durable
      BY <2>2, <3>1 DEF Authorize, AuthorityTable, AuthorityFree, durable
    <3>3. \A e \in Callers : e # c => SameLocal(e)
      BY <1>t, <3>1 DEF Authorize, SameLocal
    <3> QED BY <3>1, <3>2, <3>3, QuietSql
  <2> QED BY <2>1, <2>2
<1>4. ASSUME NEW c \in Callers, NEW s \in Steps, NEW d \in Digests, CallClaimStep(c, s, d)
      PROVE  SqlPart'
  <2>1. session[c] \in Session
    BY <1>4 DEF CallClaimStep, SInv, IInv, Admitted
  <2> PICK k \in Keys : k = KeyOf(c, s)
    BY <2>1, KeyFacts
  <2>2. ClaimStep(k, d) \in Ops /\ OpFits(c, ClaimStep(k, d))
    BY <1>4 DEF ClaimStep, Ops, OpFits, CallClaimStep
  <2> QED BY <1>4, <2>2, EnterSql DEF CallClaimStep
<1>5. ASSUME NEW c \in Callers, CallFinishStep(c) PROVE SqlPart'
  <2>1. FinishStep \in Ops /\ OpFits(c, FinishStep)
    BY <1>5 DEF FinishStep, Ops, OpFits, CallFinishStep
  <2> QED BY <1>5, <2>1, EnterSql DEF CallFinishStep
<1>6. ASSUME NEW c \in Callers, NEW o \in Outcomes, Handle(c, o) PROVE SqlPart'
  <2>1. \A e \in Callers : e # c => SameLocal(e)
    BY <1>t, <1>6 DEF Handle, RunHandler, SameLocal
  <2> QED BY <1>6, <2>1, QuietSql DEF Handle, Quiet, RunHandler, durable
<1>7. ASSUME NEW c \in Callers, End(c) PROVE SqlPart'
  BY <1>7, <1>f, QuietSql DEF End, Quiet, Stop, durable
<1>8. ASSUME NEW c \in Callers, Gone(c) PROVE SqlPart'
  <2>1. call[c] = NoRow
    BY <1>8 DEF Gone, SInv, SqlPart, CallsOk, CallOk
  <2> QED BY <1>8, <1>f, <2>1, QuietSql DEF Gone, Stop, durable
<1>9. ASSUME NEW c \in Callers, TakeLock(c) PROVE SqlPart'
  BY <1>9, TakeLockSql
<1>10. ASSUME NEW c \in Callers, Begin(c) PROVE SqlPart'
  BY <1>10, BeginSql
<1>11. ASSUME NEW c \in Callers, Body(c) PROVE SqlPart'
  BY <1>11, BodySql
<1>12. faults \in Nat /\ faults >= faults /\ faults + 1 \in Nat /\ faults + 1 >= faults
       /\ faults + 1 > 0
  BY DEF SInv, SqlPart, SqlTypeOK
<1>13. ASSUME NEW c \in Callers, BeginFails(c) PROVE SqlPart'
  BY <1>13, <1>f, <1>12, LeaveSql DEF BeginFails, At, InTransaction
<1>14. ASSUME NEW c \in Callers, Rollback(c) PROVE SqlPart'
  BY <1>14, <1>f, <1>12, LeaveSql DEF Rollback, Rolls, At
<1>15. ASSUME NEW c \in Callers, Commit(c) PROVE SqlPart'
  <2>1. \A e \in Callers : e # c => SameLocal(e)
    BY <1>t, <1>15 DEF Commit, Become, SameLocal
  <2> QED BY <1>15, <1>12, <2>1, LeaveSql DEF Commit, At, InTransaction
<1>16. ASSUME NEW c \in Callers, CommitFails(c) \/ Interrupted(c) PROVE SqlPart'
  BY <1>16, <1>f, <1>12, LeaveSql DEF CommitFails, Interrupted, At
<1>17. ASSUME NEW p \in Processes, Down(p) \/ Open(p) PROVE SqlPart'
  BY <1>17, DownSql, OpenSql
<1> QED BY <1>2, <1>3, <1>4, <1>5, <1>6, <1>7, <1>8, <1>9, <1>10, <1>11, <1>13, <1>14,
           <1>15, <1>16, <1>17 DEF SqlNext, Step

\* The inductive invariant holds in every reachable state.
THEOREM SqlSpecSInv == SqlSpec => []SInv
  BY InitSInv, NextSInv, PTL DEF SqlSpec

-----------------------------------------------------------------------------
(***************************************************************************)
(* What the connections, locks and transactions guarantee                  *)
(***************************************************************************)

\* An open transaction without a holder of the RLock was left by a COMMIT that
\* failed or an interrupt, on a connection that is still there.
THEOREM OrphansAreFaults == SqlSpec => []OrphansComeFromFaults
<1>1. SInv => OrphansComeFromFaults
  BY InTransactionFacts, NoRowIsNone
     DEF SInv, SqlPart, TransactionsAreUsed, OrphansComeFromFaults, Orphan
<1> QED BY <1>1, SqlSpecSInv, PTL

\* While a transaction is left open nothing is stored by anybody.
THEOREM OrphansKeepOut == SqlSpec => OrphansStoreNothing
<1>1. ASSUME SInv, [SqlNext]_allVars
      PROVE  [(\E p \in Processes : Orphan(p)) => UNCHANGED durable]_allVars
  <2> SUFFICES ASSUME NEW p \in Processes, Orphan(p), SqlNext PROVE UNCHANGED durable
    BY <1>1
  <2>1. ASSUME NEW c \in Callers, Commit(c) PROVE FALSE
    <3>1. InTransaction(c)
      BY <2>1 DEF Commit, At, InTransaction
    <3>2. Home[c] = p
      BY <1>1, <3>1, InTransactionFacts DEF SInv, SqlPart, OneTransaction, Orphan
    <3>3. owner[p] = c
      BY <1>1, <3>1, <3>2, InTransactionFacts
    <3> QED BY <3>3, NoRowIsNone DEF Orphan
  <2>2. ASSUME NEW c \in Callers, NEW t \in Threads, NEW g \in Grants,
               CallClaimAuthority(c, t, g)
        PROVE  UNCHANGED durable
    BY <2>2 DEF CallClaimAuthority, Enter, Authorize, AuthorityTable, AuthorityFree, durable,
                vars
  <2> QED BY <2>1, <2>2
          DEF SqlNext, Step, CallClaimStep, CallFinishStep, Enter, Handle, RunHandler, End,
              Gone, Stop, TakeLock, Begin, BeginFails, Body, Rollback, CommitFails,
              Interrupted, Down, Open, durable, vars
<1> QED BY <1>1, SqlSpecSInv, PTL DEF SqlSpec, OrphansStoreNothing

\* An operation is atomic: the transactions implement ExecutionJournal.
THEOREM TransactionsAreAtomic == SqlSpec => ImplementsJournal
<1>1. SqlInit => Init
  BY DEF SqlInit
<1>2. SInv /\ [SqlNext]_allVars => [Next]_vars
  BY NextImplements
<1> QED BY <1>1, <1>2, SqlSpecSInv, PTL DEF SqlSpec, ImplementsJournal, Spec

\* Hence no crash, timeout or failing COMMIT makes a handler run twice.
COROLLARY SqlHandlerAtMostOnce == SqlSpec => []AtMostOnce
  BY TransactionsAreAtomic, HandlerAtMostOnce, PTL DEF ImplementsJournal

\* Hence every answer is the one handler call's, under its stored status.
COROLLARY SqlAnswersAreTheHandlers == SqlSpec => []AnswersAgree
  BY TransactionsAreAtomic, AnswersAreTheHandlers, PTL DEF ImplementsJournal

\* Hence a single-use authorization stays with one thread across processes.
COROLLARY SqlSingleUseIsOneThread == SqlSpec => []SingleUseOneThread
  BY TransactionsAreAtomic, SingleUseIsOneThread, PTL DEF ImplementsJournal

\* Hence finish_step's error branches stay out of reach.
COROLLARY SqlFinishIsClean == SqlSpec => []FinishNeverRaises
  BY TransactionsAreAtomic, FinishIsClean, PTL DEF ImplementsJournal

\* Hence an abandoned row stays in doubt whatever transactions come and go.
COROLLARY SqlInDoubtStays == SqlSpec => InDoubtIsFinal
  BY TransactionsAreAtomic, InDoubtStays, PTL DEF ImplementsJournal

\* Hence sealed outcomes and owners are written once.
COROLLARY SqlRowsAdvance == SqlSpec => RowsOnlyAdvance
  BY TransactionsAreAtomic, RowsAdvance, PTL DEF ImplementsJournal

\* Hence each step's life, seen through SQLite, is a life of StepLifecycle.
COROLLARY SqlImplementsLifecycle == SqlSpec => ImplementsLifecycle
  BY TransactionsAreAtomic, JournalImplementsLifecycle, PTL DEF ImplementsJournal
=============================================================================
