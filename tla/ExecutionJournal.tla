-------------------------- MODULE ExecutionJournal --------------------------
(***************************************************************************)
(* The durable step protocol: callers that follow the order in which the   *)
(* adapter uses its SqliteExecutionJournal, over the two tables they       *)
(* share.  A caller is one invocation of the graph, in this process or in  *)
(* another one that opened the same journal file.  It claims the grant for *)
(* its thread, claims a step, calls the handler only if the claim was NEW, *)
(* and seals the outcome.  It may crash anywhere: what it knew is gone and *)
(* the tables stay.                                                        *)
(*                                                                         *)
(* This module is the abstract promise of the adapter: GovernedGraph says  *)
(* how the graph's nodes, checkpoints and resumes drive these operations.  *)
(***************************************************************************)
EXTENDS JournalOps, Naturals

CONSTANTS
  Callers,      \* concurrent graph invocations
  Threads,      \* LangGraph thread ids
  Steps,        \* step ids
  Grants,       \* authority grants that may be presented
  Digests,      \* request digests (_request_digest)
  Outcomes,     \* what a handler can return, in canonical form
  Failures      \* the outcomes whose decision is FAIL

ASSUME GrantsAssumption ==
  \A g \in Grants : /\ g.single_use \in BOOLEAN
                    /\ {"authorization_id", "workflow_id"} \subseteq DOMAIN g

ASSUME OutcomesAssumption ==
  /\ NoRow \notin Outcomes
  /\ Failures \subseteq Outcomes

AuthIds   == {g.authorization_id : g \in Grants}
Workflows == {g.workflow_id : g \in Grants}
Keys      == Threads \X Workflows \X Steps    \* primary key of step_executions

AuthorityRow == [thread_id    : Threads,
                 workflow_id  : Workflows,
                 grant_digest : Grants]

StepRow == [request_digest : Digests,
            status         : {"STARTED", "COMPLETED", "FAILED"},
            outcome        : Outcomes \cup {NoRow}]

ASSUME NoRowAssumption == NoRow \notin AuthorityRow \cup StepRow

VARIABLES
  authority_uses,   \* durable table
  step_executions,  \* durable table
  pc,               \* where each caller stands
  session,          \* the thread and grant it was admitted with
  claim,            \* the step row it is working on
  answer,           \* the outcome it got, from the handler or from the row
  effects           \* history: how often each key's handler ran, under which
                    \* grant, with which outcome

durable == <<authority_uses, step_executions>>
vars == <<authority_uses, step_executions, pc, session, claim, answer, effects>>

Session == [thread : Threads, grant : Grants]
Claim   == [key : Keys, digest : Digests]
NoEffect == [calls |-> 0, grant |-> NoRow, outcome |-> NoRow]

TypeOK ==
  /\ authority_uses \in [AuthIds -> AuthorityRow \cup {NoRow}]
  /\ step_executions \in [Keys -> StepRow \cup {NoRow}]
  /\ pc \in [Callers -> {"idle", "authorized", "claimed", "ran", "answered"}]
  /\ session \in [Callers -> Session \cup {NoRow}]
  /\ claim \in [Callers -> Claim \cup {NoRow}]
  /\ answer \in [Callers -> Outcomes \cup {NoRow}]
  /\ effects \in [Keys -> [calls   : Nat,
                           grant   : Grants \cup {NoRow},
                           outcome : Outcomes \cup {NoRow}]]

Init ==
  /\ authority_uses = [a \in AuthIds |-> NoRow]
  /\ step_executions = [k \in Keys |-> NoRow]
  /\ pc = [c \in Callers |-> "idle"]
  /\ session = [c \in Callers |-> NoRow]
  /\ claim = [c \in Callers |-> NoRow]
  /\ answer = [c \in Callers |-> NoRow]
  /\ effects = [k \in Keys |-> NoEffect]

-----------------------------------------------------------------------------

\* Everything a caller knows is lost or dropped; the tables are not touched.
Forget(c) ==
  /\ pc' = [pc EXCEPT ![c] = "idle"]
  /\ session' = [session EXCEPT ![c] = NoRow]
  /\ claim' = [claim EXCEPT ![c] = NoRow]
  /\ answer' = [answer EXCEPT ![c] = NoRow]

\* The authorize and gate nodes: go on only when the journal allows the grant
\* for this thread; a foreign grant ends the run and a digest mismatch raises.
Authorize(c, t, g) ==
  /\ pc[c] = "idle"
  /\ authority_uses' = AuthorityTable(authority_uses, g, t)
  /\ IF AuthorityAllowed(authority_uses, g, t)
     THEN /\ pc' = [pc EXCEPT ![c] = "authorized"]
          /\ session' = [session EXCEPT ![c] = [thread |-> t, grant |-> g]]
     ELSE UNCHANGED <<pc, session>>
  /\ UNCHANGED <<step_executions, claim, answer, effects>>

KeyOf(c, s) == <<session[c].thread, session[c].grant.workflow_id, s>>

\* A NEW claim obliges the caller to run the handler.
ClaimNew(c, s, d) ==
  /\ pc[c] \in {"authorized", "answered"}
  /\ StepNew(step_executions, KeyOf(c, s))
  /\ step_executions' = StepTable(step_executions, KeyOf(c, s), d)
  /\ pc' = [pc EXCEPT ![c] = "claimed"]
  /\ claim' = [claim EXCEPT ![c] = [key |-> KeyOf(c, s), digest |-> d]]
  /\ answer' = [answer EXCEPT ![c] = NoRow]
  /\ UNCHANGED <<authority_uses, session, effects>>

\* A terminal row answers with its stored outcome, without the handler.
ClaimReplay(c, s, d) ==
  /\ pc[c] \in {"authorized", "answered"}
  /\ StepTerminal(step_executions, KeyOf(c, s), d)
  /\ pc' = [pc EXCEPT ![c] = "answered"]
  /\ claim' = [claim EXCEPT ![c] = [key |-> KeyOf(c, s), digest |-> d]]
  /\ answer' = [answer EXCEPT ![c] = step_executions[KeyOf(c, s)].outcome]
  /\ UNCHANGED <<authority_uses, step_executions, session, effects>>

\* An in-doubt row ends the run as BLOCKED; other request content raises.
ClaimRefused(c, s, d) ==
  /\ pc[c] \in {"authorized", "answered"}
  /\ \/ StepInDoubt(step_executions, KeyOf(c, s), d)
     \/ StepMismatch(step_executions, KeyOf(c, s), d)
  /\ Forget(c)
  /\ UNCHANGED <<authority_uses, step_executions, effects>>

\* The handler's external effect, counted in effects, then its return.  An
\* exception is turned into a FAIL outcome.
RunHandler(c, o) ==
  /\ pc[c] = "claimed"
  /\ pc' = [pc EXCEPT ![c] = "ran"]
  /\ answer' = [answer EXCEPT ![c] = o]
  /\ effects' = [effects EXCEPT ![claim[c].key] =
                   [calls   |-> @.calls + 1,
                    grant   |-> session[c].grant,
                    outcome |-> o]]
  /\ UNCHANGED <<authority_uses, step_executions, session, claim>>

FinishFails(c) ==
  FinishRaises(step_executions, claim[c].key, claim[c].digest,
               answer[c], answer[c] \in Failures)

Finish(c) ==
  /\ pc[c] = "ran"
  /\ step_executions' = FinishTable(step_executions, claim[c].key, claim[c].digest,
                                    answer[c], answer[c] \in Failures)
  /\ IF FinishFails(c)
     THEN Forget(c)
     ELSE /\ pc' = [pc EXCEPT ![c] = "answered"]
          /\ UNCHANGED <<session, claim, answer>>
  /\ UNCHANGED <<authority_uses, effects>>

\* A return of the invocation, an exception out of it (an outcome that cannot
\* be serialised, for one), or the death of its process.
Stop(c) ==
  /\ pc[c] # "idle"
  /\ Forget(c)
  /\ UNCHANGED <<authority_uses, step_executions, effects>>

Next ==
  \E c \in Callers :
    \/ \E t \in Threads, g \in Grants : Authorize(c, t, g)
    \/ \E s \in Steps, d \in Digests : ClaimNew(c, s, d)
    \/ \E s \in Steps, d \in Digests : ClaimReplay(c, s, d)
    \/ \E s \in Steps, d \in Digests : ClaimRefused(c, s, d)
    \/ \E o \in Outcomes : RunHandler(c, o)
    \/ Finish(c)
    \/ Stop(c)

Spec == Init /\ [][Next]_vars

-----------------------------------------------------------------------------
(***************************************************************************)
(* Properties                                                              *)
(***************************************************************************)

Sealed(k) == step_executions[k] # NoRow /\ step_executions[k].status # "STARTED"
InDoubt(k) == step_executions[k] # NoRow /\ step_executions[k].status = "STARTED"
Working(c) == pc[c] \in {"claimed", "ran"}

\* The handler of a (thread, workflow, step) runs at most once, whatever
\* callers race, crash or come back: claim_step's INSERT before the call.
AtMostOnce == \A k \in Keys : effects[k].calls <= 1

\* Every caller that holds an outcome holds the one the handler produced, be
\* it the caller that ran it or a later one answered from the row.
AnswersAgree ==
  \A c \in Callers : pc[c] = "answered" =>
    LET k == claim[c].key
    IN  /\ effects[k].calls = 1
        /\ effects[k].outcome = answer[c]
        /\ step_executions[k].status = TerminalStatus(answer[c] \in Failures)

\* All handlers that ran under one single-use authorization ran for one
\* thread and one workflow (claim_authority's ownership row).
SingleUseOneThread ==
  \A k1, k2 \in Keys :
    /\ effects[k1].calls > 0 /\ effects[k1].grant.single_use
    /\ effects[k2].calls > 0 /\ effects[k2].grant.single_use
    /\ effects[k1].grant.authorization_id = effects[k2].grant.authorization_id
    => k1[1] = k2[1] /\ k1[2] = k2[2]

\* finish_step never meets its error branches (no row, another digest, another
\* terminal outcome): the caller that ran the handler still owns its row.
FinishNeverRaises == \A c \in Callers : pc[c] = "ran" => ~FinishFails(c)

\* A row nobody is working on any more stays in doubt for ever: no later claim
\* takes it over, and no caller seals an outcome it did not produce.
InDoubtIsFinal ==
  [][\A k \in Keys :
       InDoubt(k) /\ (\A c \in Callers : Working(c) => claim[c].key # k)
       => step_executions'[k] = step_executions[k]]_vars

\* A sealed outcome is never rewritten and an owner never replaced.
RowsOnlyAdvance ==
  [][/\ \A k \in Keys : Sealed(k) => step_executions'[k] = step_executions[k]
     /\ \A a \in AuthIds : authority_uses[a] # NoRow =>
          authority_uses'[a] = authority_uses[a]]_vars

-----------------------------------------------------------------------------
(***************************************************************************)
(* The protocol implements StepLifecycle: a STARTED row is claimed or ran  *)
(* while a caller works on it, and in doubt once nobody does.              *)
(***************************************************************************)

Workers(k) == {c \in Callers : Working(c) /\ claim[c].key = k}

StageOf(k) ==
  IF step_executions[k] = NoRow THEN [at |-> "unclaimed", outcome |-> NoRow]
  ELSE IF Sealed(k) THEN [at |-> "sealed", outcome |-> step_executions[k].outcome]
  ELSE IF Workers(k) = {} THEN [at |-> "in_doubt", outcome |-> NoRow]
  ELSE IF \E c \in Workers(k) : pc[c] = "ran"
       THEN [at |-> "ran", outcome |-> effects[k].outcome]
       ELSE [at |-> "claimed", outcome |-> NoRow]

Lifecycle == INSTANCE StepLifecycle
               WITH NoOutcome <- NoRow, stage <- [k \in Keys |-> StageOf(k)]

\* Seen from outside, claims, crashes and retries of any callers are steps of
\* the lifecycle of one step at a time.
ImplementsLifecycle == Lifecycle!Spec
=============================================================================
