-------------------------- MODULE GovernedGraphProofs --------------------------
(***************************************************************************)
(* Safety of the adapter for any sessions, threads, contracts, registries, *)
(* outcomes, reviews and ledgers, and any bounds.                          *)
(*                                                                         *)
(* The invariant GInv is written over values: of a graph state, a call, a  *)
(* checkpoint, a row, together with the tables it is judged against.  A    *)
(* step changes one session, one checkpoint and one row at most; what it   *)
(* leaves alone stays sound because the tables only advance.               *)
(***************************************************************************)
EXTENDS GovernedGraph, NumberInduction, SequenceTheorems, TLAPS

-----------------------------------------------------------------------------
(***************************************************************************)
(* What the gate's loop over its responses keeps, for responses of any     *)
(* number.                                                                 *)
(***************************************************************************)

\* Whatever a turn keeps, the loop keeps.
LEMMA TurnsKeep ==
  ASSUME NEW v, NEW descriptor, NEW S, NEW responses \in Seq(S), NEW Acc,
         [status |-> "open", ledger |-> v.evidence] \in Acc,
         \A acc \in Acc, n \in 1..Len(responses) :
           Turn(v, descriptor, acc, responses[n]) \in Acc
  PROVE  Turns(v, descriptor, responses) \in Acc
<1> DEFINE N == Len(responses)
           start == [status |-> "open", ledger |-> v.evidence]
           after(acc, n) == Turn(v, descriptor, acc, responses[n])
           body(f) == [n \in 0..N |-> IF n = 0 THEN start ELSE after(f[n - 1], n)]
           turn == CHOOSE f : f = body(f)
<1>n. N \in Nat
  BY LenProperties
<1>a. start \in Acc /\ \A acc \in Acc, n \in 1..N : after(acc, n) \in Acc
  OBVIOUS
<1>t. Turns(v, descriptor, responses) = turn[N]
  BY DEF Turns
<1> HIDE DEF N, start, after
<1>1. \E f : f = body(f)
  <2> DEFINE Follows(m, f) == /\ f \in [0..m -> Acc]
                           /\ f[0] = start
                           /\ \A n \in 1..m : f[n] = after(f[n - 1], n)
             Built == {m \in Nat : m <= N => \E f : Follows(m, f)}
  <2>1. 0 \in Built
    <3>1. Follows(0, [i \in 0..0 |-> start])
      BY <1>a
    <3> QED BY <3>1
  <2>2. ASSUME NEW m \in Built \cap Nat PROVE m + 1 \in Built
    <3> SUFFICES ASSUME m + 1 <= N PROVE \E f : Follows(m + 1, f)
      OBVIOUS
    <3>1. PICK f : Follows(m, f)
      BY <1>n
    <3> DEFINE g == [i \in 0..(m + 1) |-> IF i = m + 1 THEN after(f[m], m + 1) ELSE f[i]]
    <3>2. f[m] \in Acc /\ m + 1 \in 1..N
      BY <3>1, <1>n
    <3>3. g \in [0..(m + 1) -> Acc]
      BY <3>1, <3>2, <1>a
    <3>4. g[0] = start
      BY <3>1
    <3>5. ASSUME NEW n \in 1..(m + 1) PROVE g[n] = after(g[n - 1], n)
      <4>1. g[n - 1] = f[n - 1]
        OBVIOUS
      <4>2. CASE n = m + 1
        BY <4>1, <4>2
      <4>3. CASE n # m + 1
        BY <4>1, <4>3, <3>1
      <4> QED BY <4>2, <4>3
    <3> QED BY <3>3, <3>4, <3>5
  <2> HIDE DEF Built
  <2>3. N \in Built
    BY <2>1, <2>2, <1>n, SetInduction
  <2>4. PICK f : Follows(N, f)
    BY <2>3, <1>n DEF Built
  <2>5. f = body(f)
    BY <2>4, <1>n
  <2> QED BY <2>5
<1>2. turn = body(turn)
  <2> HIDE DEF body
  <2> QED BY <1>1, Zenon
<1> HIDE DEF turn
<1> DEFINE Reached == {m \in Nat : m <= N => turn[m] \in Acc}
<1>3. 0 \in Reached
  BY <1>2, <1>a, <1>n
<1>4. ASSUME NEW m \in Reached \cap Nat PROVE m + 1 \in Reached
  <2> SUFFICES ASSUME m + 1 <= N PROVE turn[m + 1] \in Acc
    OBVIOUS
  <2>1. turn[m + 1] = after(turn[m], m + 1)
    BY <1>2, <1>n
  <2> QED BY <2>1, <1>a, <1>n
<1> HIDE DEF Reached
<1>5. N \in Reached
  BY <1>3, <1>4, <1>n, SetInduction
<1> QED BY <1>5, <1>t, <1>n DEF Reached

-----------------------------------------------------------------------------

\* What a graph state takes from the contracts it carries.
LEMMA CurrentStep ==
  ASSUME NEW v \in GraphState
  PROVE  /\ Len(v.workflow.steps) \in Nat \ {0}
         /\ v.workflow.steps \in Seq(Steps)
         /\ v.workflow.workflow_id \in WorkflowIds
         /\ \A n \in 1..Len(v.workflow.steps) :
              /\ v.workflow.steps[n] \in Steps
              /\ v.workflow.steps[n].step_id \in StepIds
              /\ v.workflow.steps[n].step_id # NoRow
         /\ v.current_step < Len(v.workflow.steps) =>
              /\ current(v) \in Steps
              /\ current(v).step_id \in StepIds
              /\ current(v).step_id # NoRow
<1>1. v.workflow \in Workflows /\ v.current_step \in Nat
  BY DEF GraphState
<1>2. v.workflow.steps \in Seq(Steps) /\ v.workflow.steps # <<>>
  BY <1>1, WorkflowsAssumption
<1>3. Len(v.workflow.steps) \in Nat \ {0}
  BY <1>2, EmptySeq
<1>4. \A n \in 1..Len(v.workflow.steps) :
        /\ v.workflow.steps[n] \in Steps
        /\ v.workflow.steps[n].step_id \in StepIds
        /\ v.workflow.steps[n].step_id # NoRow
  BY <1>2, ElementOfSeq, NoRowIsNone DEF StepIds
<1>5. v.current_step < Len(v.workflow.steps) => v.current_step + 1 \in 1..Len(v.workflow.steps)
  BY <1>1, <1>3
<1> QED BY <1>1, <1>2, <1>3, <1>4, <1>5 DEF current, WorkflowIds

\* The evidence of a response is evidence.
LEMMA AnswerLedger ==
  ASSUME NEW ledger \in Seq(EvidenceRecord), NEW response \in Response
  PROVE  LET added == [i \in DOMAIN response.kinds |->
                        Record("human-review", response.kinds[i], response.at, NoRow, FALSE)]
         IN  /\ added \in Seq(EvidenceRecord)
             /\ Len(added) = Len(response.kinds)
             /\ ledger \o added \in Seq(EvidenceRecord)
<1> DEFINE added == [i \in DOMAIN response.kinds |->
                      Record("human-review", response.kinds[i], response.at, NoRow, FALSE)]
<1>1. response.kinds \in Seq(Kinds) /\ response.at \in 0..MaxTime
  BY DEF Response
<1>2. Len(response.kinds) \in Nat /\ DOMAIN response.kinds = 1..Len(response.kinds)
  BY <1>1, LenProperties
<1>3. \A i \in 1..Len(response.kinds) : added[i] \in EvidenceRecord
  <2> SUFFICES ASSUME NEW i \in 1..Len(response.kinds) PROVE added[i] \in EvidenceRecord
    OBVIOUS
  <2>1. response.kinds[i] \in Kinds
    BY <1>1, ElementOfSeq
  <2> QED BY <2>1, <1>1, <1>2 DEF Record, EvidenceRecord
<1>4. added \in [1..Len(response.kinds) -> EvidenceRecord]
  BY <1>2, <1>3
<1>5. added \in Seq(EvidenceRecord)
  <2>1. PICK n, t : n = Len(response.kinds) /\ t = added
    OBVIOUS
  <2>2. n \in Nat /\ t \in [1..n -> EvidenceRecord]
    BY <1>2, <1>4, <2>1
  <2>3. t \in Seq(EvidenceRecord)
    BY <2>2, SeqDef
  <2> QED BY <2>1, <2>3
<1>6. Len(added) = Len(response.kinds)
  BY <1>2, <1>4, <1>5, LenProperties
<1> HIDE DEF added
<1>7. ledger \o added \in Seq(EvidenceRecord)
  BY <1>5, ConcatProperties
<1> QED BY <1>5, <1>6, <1>7 DEF added

\* The loop: how far it is, and the ledger so far.
Loop == [status : {"open", "raised", "denied"}, ledger : Seq(EvidenceRecord)]

LEMMA TurnType ==
  ASSUME NEW v \in GraphState, NEW descriptor, NEW acc \in Loop, NEW response \in Response
  PROVE  Turn(v, descriptor, acc, response) \in Loop
  BY AnswerLedger DEF Turn, Answer, Loop

\* A review yields a ledger and one of five verdicts, and says ready only of a
\* step that the policy accepts on that ledger.
LEMMA ReviewType ==
  ASSUME NEW v \in GraphState, NEW descriptor, NEW responses \in Seq(Response)
  PROVE  LET review == Review(v, descriptor, responses)
         IN  /\ review.ledger \in Seq(EvidenceRecord)
             /\ review.verdict \in {"ready", "refused", "denied", "raised", "interrupt"}
             /\ review.verdict = "ready" =>
                  StepReasons(current(v), descriptor, v.authority, review.ledger) = {}
<1>1. [status |-> "open", ledger |-> v.evidence] \in Loop
  BY DEF Loop, GraphState
<1>2. \A acc \in Loop, n \in 1..Len(responses) :
        Turn(v, descriptor, acc, responses[n]) \in Loop
  BY ElementOfSeq, TurnType
<1>3. Turns(v, descriptor, responses) \in Loop
  BY <1>1, <1>2, TurnsKeep
<1> QED BY <1>3 DEF Review, Loop

-----------------------------------------------------------------------------
(***************************************************************************)
(* The inductive invariant                                                 *)
(***************************************************************************)

RowIn(rows, t, v, n) == rows[<<t, v.workflow.workflow_id, v.workflow.steps[n].step_id>>]

\* Where a state can stand in the graph.
Placed(v, node) ==
  /\ v.current_step <= Len(v.workflow.steps)
  /\ v.terminal <=> node = "end"
  /\ node \in {"authorize", "gate", "execute"} => v.current_step < Len(v.workflow.steps)
  /\ node = "finalize" => finished(v)
  /\ v.decision = "PASS" => finished(v)

\* What the gate established before it let a state through to execute.
Judged(v) ==
  /\ v.gated # NoRow
  /\ v.gated.verdict = "ready"
  /\ v.gated.step_id = current(v).step_id
  /\ WorkflowReasons(v.workflow, v.authority, Subject, v.gated.at) = {}
  /\ \E r \in Registries :
       /\ current(v).agent_id \in DOMAIN r
       /\ StepReasons(current(v), r[current(v).agent_id], v.authority, v.evidence) = {}

\* A state past authorize owns its grant ...
Owned(uses, t, v) == v.authority.single_use => AuthorityResumed(uses, v.authority, t)

\* ... the steps before its current one are sealed with PASS ...
Passed(rows, t, v) ==
  \A n \in 1..v.current_step :
    /\ RowIn(rows, t, v, n) # NoRow
    /\ RowIn(rows, t, v, n).status = "COMPLETED"
    /\ RowIn(rows, t, v, n).outcome.decision = "PASS"

\* ... and its results, one per step so far, are those of the rows.
Recorded(rows, t, v) ==
  /\ v.terminal \/ Len(v.step_results) = v.current_step
  /\ Len(v.step_results) <= Len(v.workflow.steps)
  /\ \A n \in DOMAIN v.step_results :
       v.step_results[n].decision \in {"PASS", "FAIL"} =>
         /\ RowIn(rows, t, v, n) # NoRow
         /\ RowIn(rows, t, v, n).status # "STARTED"
         /\ RowIn(rows, t, v, n).outcome.decision = v.step_results[n].decision

Sound(uses, rows, t, v, node) ==
  /\ Placed(v, node)
  /\ node = "execute" => Judged(v)
  /\ node \in {"gate", "execute", "finalize"} => Owned(uses, t, v)
  /\ Passed(rows, t, v)
  /\ Recorded(rows, t, v)

InHandler(c) == c.pc \in {"handler", "seal"}

\* A call that is about to call its handler, or to seal what it returned, has
\* the row STARTED on its own request; before the call there was none for it.
Holds(rows, done, c) ==
  LET key == KeyOf(c.thread, c.values)
  IN  /\ rows[key] # NoRow
      /\ rows[key].status = "STARTED"
      /\ rows[key].request_digest = request_digest(c.thread, c.values)
      /\ current(c.values).agent_id \in DOMAIN c.registry
      /\ c.pc = "handler" => \A i \in DOMAIN done : done[i].key # key
      /\ c.pc = "seal" =>
           /\ c.outcome \in Outcomes
           /\ \E i \in DOMAIN done : done[i].key = key

CallOk(uses, rows, points, done, c) ==
  /\ c.pc = "resuming" => points[c.thread] # NoRow
  /\ c.pc \notin {"idle", "resuming"} =>
       /\ Sound(uses, rows, c.thread, c.values, NodeOf(c.pc))
       /\ c.interrupt # NoRow => NodeOf(c.pc) = "gate"
  /\ InHandler(c) => Holds(rows, done, c)

CheckpointOk(uses, rows, t, p) ==
  p # NoRow => /\ Sound(uses, rows, t, p.values, p.next)
               /\ p.interrupt # NoRow => p.next = "gate"

\* A row that is sealed has its handler's call, and is sealed as the outcome says.
RowOk(done, k, row) ==
  row # NoRow /\ row.status # "STARTED" =>
    /\ row.outcome \in Outcomes
    /\ row.status = TerminalStatus(row.outcome.decision = "FAIL")
    /\ \E i \in DOMAIN done : done[i].key = k

HandledOk(uses, rows, h) ==
  /\ h.key = KeyOf(h.key[1], h.state)
  /\ rows[h.key] # NoRow
  /\ Sound(uses, rows, h.key[1], h.state, "execute")
  /\ \E r \in Registries : /\ current(h.state).agent_id \in DOMAIN r
                           /\ h.descriptor = r[current(h.state).agent_id]

\* A call that works on a row works on it alone.
OneHolder ==
  \A r, s \in Sessions :
    /\ InHandler(session[r])
    /\ InHandler(session[s])
    /\ KeyOf(session[r].thread, session[r].values) = KeyOf(session[s].thread, session[s].values)
    => r = s

Uses     == [AuthIds -> AuthorityRow \cup {NoRow}]
Rows     == [Keys -> StepRow \cup {NoRow}]
Points   == [Threads -> Checkpoint \cup {NoRow}]
Session  == {Idle} \cup Resuming \cup Call

GInv ==
  /\ authority_uses \in Uses
  /\ step_executions \in Rows
  /\ checkpoints \in Points
  /\ session \in [Sessions -> Session]
  /\ handled \in Seq(HandlerCall)
  /\ now \in 0..MaxTime
  /\ calls \in 0..MaxCalls
  /\ reviewed \subseteq Threads \X Response
  /\ closed \subseteq Threads
  /\ \A s \in Sessions :
       CallOk(authority_uses, step_executions, checkpoints, handled, session[s])
  /\ \A t \in Threads : CheckpointOk(authority_uses, step_executions, t, checkpoints[t])
  /\ \A k \in Keys : RowOk(handled, k, step_executions[k])
  /\ \A i \in DOMAIN handled : HandledOk(authority_uses, step_executions, handled[i])
  /\ AtMostOnce
  /\ OneHolder

-----------------------------------------------------------------------------
(***************************************************************************)
(* Keys and tables                                                         *)
(***************************************************************************)

Digest == [thread_id : Threads, workflow_id : WorkflowIds, authorization_id : AuthIds,
           step : Steps, evidence_head : Seq(EvidenceRecord)]

\* The keys of a state's steps, and the request of its current one.
LEMMA KeyIn ==
  ASSUME NEW t \in Threads, NEW v \in GraphState
  PROVE  /\ \A n \in 1..Len(v.workflow.steps) :
              <<t, v.workflow.workflow_id, v.workflow.steps[n].step_id>> \in Keys
         /\ KeyOf(t, v) = <<t, v.workflow.workflow_id, current(v).step_id>>
         /\ v.current_step < Len(v.workflow.steps) =>
              /\ KeyOf(t, v) \in Keys
              /\ request_digest(t, v) \in Digest
              /\ v.current_step + 1 \in 1..Len(v.workflow.steps)
<1>1. /\ v.authority.authorization_id \in AuthIds
      /\ v.evidence \in Seq(EvidenceRecord)
      /\ v.current_step \in Nat
  BY DEF GraphState, AuthIds
<1>2. v.current_step < Len(v.workflow.steps) => request_digest(t, v) \in Digest
  BY <1>1, CurrentStep DEF request_digest, Digest
<1> QED BY <1>1, <1>2, CurrentStep DEF Keys, KeyOf

\* The tables advance: an owner stays, a row stays, a sealed row stays as it is.
Advance(uses, rows, uses2, rows2) ==
  /\ \A a \in AuthIds : uses[a] # NoRow => uses2[a] = uses[a]
  /\ \A k \in Keys : rows[k] # NoRow =>
       /\ rows2[k] # NoRow
       /\ rows[k].status # "STARTED" => rows2[k] = rows[k]

\* A claim of a grant keeps the owners there are; one that is allowed makes its
\* thread an owner.
LEMMA AuthorityFacts ==
  ASSUME NEW uses \in Uses, NEW g \in Grants, NEW t \in Threads
  PROVE  /\ AuthorityTable(uses, g, t) \in Uses
         /\ \A a \in AuthIds : uses[a] # NoRow => AuthorityTable(uses, g, t)[a] = uses[a]
         /\ AuthorityAllowed(uses, g, t) /\ g.single_use =>
              AuthorityResumed(AuthorityTable(uses, g, t), g, t)
<1> DEFINE a == g.authorization_id
           row == [thread_id |-> t, workflow_id |-> g.workflow_id, grant_digest |-> g]
<1>1. a \in AuthIds
  BY DEF AuthIds
<1>2. row \in AuthorityRow /\ row # NoRow
  BY NoRowIsNone DEF AuthorityRow
<1>3. CASE AuthorityFree(uses, g)
  <2>1. AuthorityTable(uses, g, t) = [uses EXCEPT ![a] = row]
    BY <1>3 DEF AuthorityTable, authority_digest
  <2>2. uses[a] = NoRow
    BY <1>3 DEF AuthorityFree
  <2>3. AuthorityTable(uses, g, t) \in Uses
    BY <1>1, <1>2, <2>1 DEF Uses
  <2>4. AuthorityTable(uses, g, t)[a] = row
    BY <1>1, <2>1 DEF Uses
  <2>5. \A b \in AuthIds : b # a => AuthorityTable(uses, g, t)[b] = uses[b]
    BY <1>1, <2>1 DEF Uses
  <2> QED BY <1>2, <2>2, <2>3, <2>4, <2>5 DEF AuthorityResumed, authority_digest
<1>4. CASE ~AuthorityFree(uses, g)
  <2>1. AuthorityTable(uses, g, t) = uses
    BY <1>4 DEF AuthorityTable
  <2> QED BY <1>4, <2>1 DEF AuthorityAllowed
<1> QED BY <1>3, <1>4

\* claim_step on a free key adds a STARTED row there and changes no other.
LEMMA StepTableFacts ==
  ASSUME NEW rows \in Rows, NEW k \in Keys, NEW d \in Digest, StepNew(rows, k)
  PROVE  LET after == StepTable(rows, k, d)
         IN  /\ after \in Rows
             /\ \A j \in Keys : j # k => after[j] = rows[j]
             /\ after[k] # NoRow
             /\ after[k].status = "STARTED"
             /\ after[k].request_digest = d
<1> DEFINE row == [request_digest |-> d, status |-> "STARTED", outcome |-> NoRow]
<1>1. row \in StepRow /\ row # NoRow
  BY NoRowIsNone DEF StepRow, Digest
<1>2. StepTable(rows, k, d) = [rows EXCEPT ![k] = row]
  BY DEF StepTable
<1> QED BY <1>1, <1>2 DEF Rows

\* finish_step on a STARTED row of the same request seals it and changes no other.
LEMMA FinishTableFacts ==
  ASSUME NEW rows \in Rows, NEW k \in Keys, NEW d \in Digest, NEW o \in Outcomes,
         NEW failed \in BOOLEAN, StepInDoubt(rows, k, d)
  PROVE  LET after == FinishTable(rows, k, d, o, failed)
         IN  /\ after \in Rows
             /\ \A j \in Keys : j # k => after[j] = rows[j]
             /\ after[k] # NoRow
             /\ after[k].status = TerminalStatus(failed)
             /\ after[k].status # "STARTED"
             /\ after[k].outcome = o
<1> DEFINE row == [request_digest |-> d, status |-> TerminalStatus(failed), outcome |-> o]
<1>1. row \in StepRow /\ row # NoRow
  BY NoRowIsNone DEF StepRow, Digest, TerminalStatus
<1>2. FinishTable(rows, k, d, o, failed) = [rows EXCEPT ![k] = row]
  BY DEF FinishTable, FinishSeals
<1> QED BY <1>1, <1>2 DEF Rows, TerminalStatus

-----------------------------------------------------------------------------
(***************************************************************************)
(* What is sound stays sound                                               *)
(***************************************************************************)

\* A graph state stays sound while the tables advance.
LEMMA SoundKept ==
  ASSUME NEW uses, NEW rows, NEW uses2, NEW rows2,
         Advance(uses, rows, uses2, rows2),
         NEW t \in Threads, NEW v \in GraphState, NEW node,
         Sound(uses, rows, t, v, node)
  PROVE  Sound(uses2, rows2, t, v, node)
<1>1. /\ v.current_step \in Nat
      /\ v.authority \in Grants
      /\ v.authority.authorization_id \in AuthIds
      /\ v.step_results \in Seq([step_id : StepIds, decision : Decisions])
      /\ v.current_step <= Len(v.workflow.steps)
      /\ Len(v.step_results) <= Len(v.workflow.steps)
  BY DEF GraphState, AuthIds, Sound, Placed, Recorded
<1>2. Owned(uses, t, v) => Owned(uses2, t, v)
  BY <1>1 DEF Owned, AuthorityResumed, Advance
<1>3. ASSUME NEW n \in 1..Len(v.workflow.steps), RowIn(rows, t, v, n) # NoRow,
             RowIn(rows, t, v, n).status # "STARTED"
      PROVE  RowIn(rows2, t, v, n) = RowIn(rows, t, v, n)
  BY <1>3, KeyIn DEF RowIn, Advance
<1>4. Passed(rows2, t, v)
  <2>1. \A n \in 1..v.current_step : n \in 1..Len(v.workflow.steps)
    BY <1>1, CurrentStep
  <2> QED BY <1>3, <2>1 DEF Passed, Sound
<1>5. Recorded(rows2, t, v)
  <2>1. \A n \in DOMAIN v.step_results : n \in 1..Len(v.workflow.steps)
    BY <1>1, CurrentStep, LenProperties
  <2> QED BY <1>3, <2>1 DEF Recorded, Sound
<1> QED BY <1>2, <1>4, <1>5 DEF Sound

\* A call's key and request, while it stands in the execute node.
LEMMA HandlerKey ==
  ASSUME NEW uses, NEW rows, NEW points, NEW done, NEW c \in Session,
         CallOk(uses, rows, points, done, c), InHandler(c)
  PROVE  /\ c \in Call
         /\ Sound(uses, rows, c.thread, c.values, "execute")
         /\ c.values.current_step < Len(c.values.workflow.steps)
         /\ KeyOf(c.thread, c.values) \in Keys
         /\ request_digest(c.thread, c.values) \in Digest
         /\ StepInDoubt(rows, KeyOf(c.thread, c.values), request_digest(c.thread, c.values))
<1>1. c \in Call
  BY DEF Session, Idle, Resuming, InHandler
<1>2. Sound(uses, rows, c.thread, c.values, "execute")
  BY DEF CallOk, InHandler, NodeOf
<1>3. c.values.current_step < Len(c.values.workflow.steps)
  BY <1>2 DEF Sound, Placed
<1>4. c.thread \in Threads /\ c.values \in GraphState
  BY <1>1 DEF Call
<1> QED BY <1>1, <1>2, <1>3, <1>4, KeyIn DEF CallOk, Holds, StepInDoubt

\* A call stays as it should be while the tables advance, checkpoints stay and
\* nobody touches the row it works on.
LEMMA CallKept ==
  ASSUME NEW uses, NEW rows, NEW points, NEW done,
         NEW uses2, NEW rows2, NEW points2, NEW done2,
         Advance(uses, rows, uses2, rows2),
         \A t \in Threads : points[t] # NoRow => points2[t] # NoRow,
         \A i \in DOMAIN done : i \in DOMAIN done2 /\ done2[i] = done[i],
         NEW c \in Session,
         CallOk(uses, rows, points, done, c),
         InHandler(c) => rows2[KeyOf(c.thread, c.values)] = rows[KeyOf(c.thread, c.values)],
         c.pc = "handler" => \A i \in DOMAIN done2 : done2[i].key # KeyOf(c.thread, c.values)
  PROVE  CallOk(uses2, rows2, points2, done2, c)
<1>1. c.pc = "resuming" => points2[c.thread] # NoRow
  BY DEF CallOk, Session, Idle, Resuming, Call
<1>2. ASSUME c.pc \notin {"idle", "resuming"}
      PROVE  /\ Sound(uses2, rows2, c.thread, c.values, NodeOf(c.pc))
             /\ c.interrupt # NoRow => NodeOf(c.pc) = "gate"
  <2>1. c.thread \in Threads /\ c.values \in GraphState
    BY <1>2 DEF Session, Idle, Resuming, Call
  <2> QED BY <1>2, <2>1, SoundKept DEF CallOk
<1>3. ASSUME InHandler(c) PROVE Holds(rows2, done2, c)
  BY <1>3 DEF CallOk, Holds
<1> QED BY <1>1, <1>2, <1>3 DEF CallOk

LEMMA CheckpointKept ==
  ASSUME NEW uses, NEW rows, NEW uses2, NEW rows2,
         Advance(uses, rows, uses2, rows2),
         NEW t \in Threads, NEW p \in Checkpoint \cup {NoRow},
         CheckpointOk(uses, rows, t, p)
  PROVE  CheckpointOk(uses2, rows2, t, p)
  BY SoundKept DEF CheckpointOk, Checkpoint

LEMMA HandledKept ==
  ASSUME NEW uses, NEW rows, NEW uses2, NEW rows2,
         Advance(uses, rows, uses2, rows2),
         NEW h \in HandlerCall, HandledOk(uses, rows, h)
  PROVE  HandledOk(uses2, rows2, h)
<1>1. h.key \in Keys /\ h.key[1] \in Threads /\ h.state \in GraphState
  BY DEF HandlerCall, Keys
<1>2. rows2[h.key] # NoRow
  BY <1>1 DEF HandledOk, Advance
<1>3. Sound(uses2, rows2, h.key[1], h.state, "execute")
  BY <1>1, SoundKept DEF HandledOk
<1> QED BY <1>2, <1>3 DEF HandledOk

-----------------------------------------------------------------------------
(***************************************************************************)
(* What the nodes make of a state                                          *)
(***************************************************************************)

LEMMA RecordIn ==
  ASSUME now \in 0..MaxTime, NEW step \in StepIds \cup {NoRow}, NEW replay \in BOOLEAN
  PROVE  /\ \A k \in Kinds : AdapterRecord(k, step) \in EvidenceRecord
         /\ \A k \in Kinds : Record("langgraph-adapter", k, now, step, replay) \in EvidenceRecord
         /\ \A p \in Steps, k \in Kinds :
              Record(p.agent_id, k, now, step, replay) \in EvidenceRecord
  BY DEF AdapterRecord, Record, EvidenceRecord

LEMMA OwnKinds ==
  /\ {"workflow.started", "workflow.blocked", "workflow.completed",
      "step.pass", "step.blocked", "step.fail", "step.in_doubt"} \subseteq Kinds
  /\ \A d \in Decisions : StepRecordKind(d) \in Kinds
  BY DEF Kinds, Decisions, StepRecordKind

\* A state that is blocked is over.
LEMMA BlockedFacts ==
  ASSUME now \in 0..MaxTime, NEW v \in GraphState, NEW ledger \in Seq(EvidenceRecord),
         NEW step \in StepIds \cup {NoRow}, NEW kind \in Kinds,
         NEW uses, NEW rows, NEW t, NEW node,
         Sound(uses, rows, t, v, node), node # "end",
         step # NoRow => v.current_step < Len(v.workflow.steps)
  PROVE  /\ Blocked(v, ledger, step, kind) \in GraphState
         /\ Sound(uses, rows, t, Blocked(v, ledger, step, kind), "end")
<1> DEFINE result == [step_id |-> step, decision |-> "BLOCKED"]
           Results == Seq([step_id : StepIds, decision : Decisions])
<1>w. PICK w : w = Blocked(v, ledger, step, kind)
  OBVIOUS
<1>1. Append(ledger, AdapterRecord(kind, step)) \in Seq(EvidenceRecord)
  BY RecordIn, AppendProperties
<1>2. /\ v.step_results \in Results
      /\ Len(v.step_results) = v.current_step
      /\ v.current_step \in Nat
      /\ v.decision # "PASS" \/ finished(v)
      /\ Len(v.step_results) <= Len(v.workflow.steps)
      /\ Len(v.workflow.steps) \in Nat
  BY CurrentStep DEF Sound, Placed, Recorded, GraphState
<1>3. step # NoRow => result \in [step_id : StepIds, decision : Decisions]
  BY DEF Decisions
<1>4. /\ w.workflow = v.workflow /\ w.current_step = v.current_step
      /\ w.terminal = TRUE /\ w.decision = "BLOCKED"
      /\ w.step_results = IF step = NoRow THEN v.step_results ELSE Append(v.step_results, result)
  BY <1>w DEF Blocked, GraphState
<1>5. /\ w.step_results \in Results
      /\ Len(w.step_results) <= Len(v.workflow.steps)
      /\ \A n \in DOMAIN w.step_results :
           \/ n \in DOMAIN v.step_results /\ w.step_results[n] = v.step_results[n]
           \/ w.step_results[n].decision = "BLOCKED"
  <2>1. CASE step = NoRow
    BY <1>2, <1>4, <2>1
  <2>2. CASE step # NoRow
    <3> HIDE DEF Results
    <3>1. /\ Append(v.step_results, result) \in Results
          /\ Len(Append(v.step_results, result)) = Len(v.step_results) + 1
          /\ \A n \in 1..(Len(v.step_results) + 1) : Append(v.step_results, result)[n] =
               IF n = Len(v.step_results) + 1 THEN result ELSE v.step_results[n]
      BY <1>2, <1>3, <2>2, AppendProperties DEF Results
    <3>2. /\ DOMAIN v.step_results = 1..Len(v.step_results)
          /\ DOMAIN Append(v.step_results, result) = 1..(Len(v.step_results) + 1)
      BY <1>2, <3>1, LenProperties DEF Results
    <3> QED BY <1>2, <1>4, <2>2, <3>1, <3>2
  <2> QED BY <2>1, <2>2
<1>6. w \in GraphState
  BY <1>w, <1>1, <1>4, <1>5 DEF Blocked, GraphState, Decisions
<1>7. Sound(uses, rows, t, w, "end")
  <2>1. Placed(w, "end")
    BY <1>4 DEF Sound, Placed
  <2>2. Passed(rows, t, w)
    BY <1>4 DEF Sound, Passed, RowIn
  <2>3. Recorded(rows, t, w)
    BY <1>4, <1>5 DEF Sound, Recorded, RowIn
  <2> QED BY <2>1, <2>2, <2>3 DEF Sound
<1> QED BY <1>w, <1>6, <1>7

\* A state that was started is before its first gate, on a grant it owns.
LEMMA StartedFacts ==
  ASSUME now \in 0..MaxTime, NEW v \in GraphState, NEW uses, NEW rows, NEW t,
         Sound(uses, rows, t, v, "authorize"),
         v.current_step < Len(v.workflow.steps),
         Owned(uses, t, v)
  PROVE  /\ Started(v) \in GraphState
         /\ Sound(uses, rows, t, Started(v), "gate")
<1>w. PICK w : w = Started(v)
  OBVIOUS
<1>1. AdapterRecord("workflow.started", NoRow) \in EvidenceRecord
  BY RecordIn, OwnKinds
<1>2. Append(v.evidence, AdapterRecord("workflow.started", NoRow)) \in Seq(EvidenceRecord)
  BY <1>1, AppendProperties DEF GraphState
<1>3. v.authority.single_use \in BOOLEAN
  BY GrantsAssumption DEF GraphState
<1>4. w \in GraphState
  BY <1>w, <1>2, <1>3 DEF Started, GraphState
<1>5. /\ w.workflow = v.workflow /\ w.current_step = v.current_step
      /\ w.terminal = v.terminal /\ w.decision = v.decision
      /\ w.step_results = v.step_results /\ w.authority = v.authority
  BY <1>w DEF Started, GraphState
<1>6. Sound(uses, rows, t, w, "gate")
  BY <1>5 DEF Sound, Placed, Owned, Passed, Recorded, RowIn, finished
<1> QED BY <1>w, <1>4, <1>6

\* A state that was finalized passed all its steps.
LEMMA FinalizedFacts ==
  ASSUME now \in 0..MaxTime, NEW v \in GraphState, NEW uses, NEW rows, NEW t,
         Sound(uses, rows, t, v, "finalize")
  PROVE  /\ Finalized(v) \in GraphState
         /\ Sound(uses, rows, t, Finalized(v), "end")
<1>w. PICK w : w = Finalized(v)
  OBVIOUS
<1>1. AdapterRecord("workflow.completed", NoRow) \in EvidenceRecord
  BY RecordIn, OwnKinds
<1>2. Append(v.evidence, AdapterRecord("workflow.completed", NoRow)) \in Seq(EvidenceRecord)
  BY <1>1, AppendProperties DEF GraphState
<1>3. w \in GraphState
  BY <1>w, <1>2 DEF Finalized, GraphState, Decisions
<1>4. /\ w.workflow = v.workflow /\ w.current_step = v.current_step
      /\ w.terminal = TRUE
      /\ w.step_results = v.step_results /\ w.authority = v.authority
  BY <1>w DEF Finalized, GraphState
<1>5. Sound(uses, rows, t, w, "end")
  BY <1>4, SMTT(20) DEF Sound, Placed, Passed, Recorded, RowIn, finished
<1> QED BY <1>w, <1>3, <1>5

\* The evidence of an outcome is evidence.
LEMMA ReportedEvidence ==
  ASSUME now \in 0..MaxTime, NEW v \in GraphState, NEW o \in Outcomes, NEW replay \in BOOLEAN,
         v.current_step < Len(v.workflow.steps)
  PROVE  LET items == [i \in DOMAIN o.evidence |->
                        Record(current(v).agent_id, o.evidence[i], now, NoRow, FALSE)]
             last  == Record("langgraph-adapter", StepRecordKind(o.decision), now,
                             current(v).step_id, replay)
         IN  v.evidence \o Append(items, last) \in Seq(EvidenceRecord)
<1> DEFINE items == [i \in DOMAIN o.evidence |->
                      Record(current(v).agent_id, o.evidence[i], now, NoRow, FALSE)]
           last  == Record("langgraph-adapter", StepRecordKind(o.decision), now,
                           current(v).step_id, replay)
<1>1. /\ o.evidence \in Seq(Kinds) /\ o.decision \in Decisions
      /\ current(v) \in Steps /\ current(v).step_id \in StepIds
      /\ v.evidence \in Seq(EvidenceRecord)
  BY CurrentStep, OutcomesAssumption DEF GraphState
<1>2. Len(o.evidence) \in Nat /\ DOMAIN o.evidence = 1..Len(o.evidence)
  BY <1>1, LenProperties
<1>3. \A i \in 1..Len(o.evidence) : items[i] \in EvidenceRecord
  <2> SUFFICES ASSUME NEW i \in 1..Len(o.evidence) PROVE items[i] \in EvidenceRecord
    OBVIOUS
  <2>1. o.evidence[i] \in Kinds
    BY <1>1, ElementOfSeq
  <2> QED BY <2>1, <1>1, <1>2, RecordIn
<1>4. items \in [1..Len(o.evidence) -> EvidenceRecord]
  BY <1>2, <1>3
<1> HIDE DEF items
<1>5. items \in Seq(EvidenceRecord)
  BY <1>2, <1>4, SeqDef
<1>6. last \in EvidenceRecord
  BY <1>1, RecordIn, OwnKinds
<1> HIDE DEF last
<1>7. Append(items, last) \in Seq(EvidenceRecord)
  BY <1>5, <1>6, AppendProperties
<1>8. v.evidence \o Append(items, last) \in Seq(EvidenceRecord)
  BY <1>1, <1>7, ConcatProperties
<1> QED BY <1>8 DEF items, last

\* A row that is sealed with an outcome, as finish_step leaves it.
SealedWith(row, o) ==
  /\ row # NoRow
  /\ row.status = TerminalStatus(o.decision = "FAIL")
  /\ row.outcome = o

\* A state whose current step is sealed with the outcome it reports goes on to
\* the next gate, to finalize, or to the end.
LEMMA CompletedFacts ==
  ASSUME now \in 0..MaxTime, NEW v \in GraphState, NEW o \in Outcomes, NEW replay \in BOOLEAN,
         NEW w, w = Completed(v, o, replay),
         NEW uses, NEW rows, NEW t \in Threads,
         Sound(uses, rows, t, v, "execute"),
         SealedWith(rows[KeyOf(t, v)], o)
  PROVE  /\ w \in GraphState
         /\ AfterStep(w) \in {"gate", "finalize", "end"}
         /\ Sound(uses, rows, t, w, AfterStep(w))
<1> DEFINE result == [step_id |-> current(v).step_id, decision |-> o.decision]
           Results == Seq([step_id : StepIds, decision : Decisions])
           n0 == v.current_step
<1>1. /\ n0 \in Nat /\ n0 < Len(v.workflow.steps)
      /\ Len(v.workflow.steps) \in Nat
      /\ ~v.terminal /\ v.decision # "PASS"
      /\ v.step_results \in Results
      /\ Len(v.step_results) = n0
      /\ Owned(uses, t, v)
  BY CurrentStep DEF Sound, Placed, Recorded, GraphState, finished
<1>2. result \in [step_id : StepIds, decision : Decisions]
  BY <1>1, CurrentStep, OutcomesAssumption
<1>3. RowIn(rows, t, v, n0 + 1) = rows[KeyOf(t, v)]
  BY KeyIn DEF RowIn, KeyOf, current
<1>u. PICK u : u = Reported(v, o, replay)
  OBVIOUS
<1>4. u \in GraphState /\ u = [v EXCEPT !.evidence = u.evidence,
                                       !.step_results = Append(@, result)]
  <2>1. Append(v.step_results, result) \in Results
    BY <1>1, <1>2, AppendProperties
  <2>2. PICK ledger \in Seq(EvidenceRecord) :
          u = [v EXCEPT !.evidence = ledger, !.step_results = Append(@, result)]
    BY <1>u, <1>1, ReportedEvidence DEF Reported
  <2> QED BY <2>1, <2>2 DEF GraphState
<1>5. /\ DOMAIN u.step_results = 1..(n0 + 1)
      /\ Len(u.step_results) = n0 + 1
      /\ u.step_results[n0 + 1].decision = o.decision
      /\ \A n \in 1..n0 : n \in DOMAIN v.step_results /\ u.step_results[n] = v.step_results[n]
  <2> HIDE DEF Results
  <2>1. /\ Append(v.step_results, result) \in Seq([step_id : StepIds, decision : Decisions])
        /\ Len(Append(v.step_results, result)) = n0 + 1
        /\ \A n \in 1..(n0 + 1) : Append(v.step_results, result)[n] =
             IF n = n0 + 1 THEN result ELSE v.step_results[n]
    BY <1>1, <1>2, AppendProperties DEF Results
  <2>2. /\ DOMAIN Append(v.step_results, result) = 1..(n0 + 1)
        /\ DOMAIN v.step_results = 1..n0
    BY <1>1, <2>1, LenProperties DEF Results
  <2>3. u.step_results = Append(v.step_results, result)
    BY <1>4 DEF GraphState
  <2> QED BY <1>1, <2>1, <2>2, <2>3
<1> HIDE DEF result, Results
<1>6. \A n \in DOMAIN u.step_results :
        u.step_results[n].decision \in {"PASS", "FAIL"} =>
          /\ RowIn(rows, t, v, n) # NoRow
          /\ RowIn(rows, t, v, n).status # "STARTED"
          /\ RowIn(rows, t, v, n).outcome.decision = u.step_results[n].decision
  <2> SUFFICES ASSUME NEW n \in DOMAIN u.step_results,
                      u.step_results[n].decision \in {"PASS", "FAIL"}
               PROVE  /\ RowIn(rows, t, v, n) # NoRow
                      /\ RowIn(rows, t, v, n).status # "STARTED"
                      /\ RowIn(rows, t, v, n).outcome.decision = u.step_results[n].decision
    OBVIOUS
  <2>1. CASE n = n0 + 1
    BY <2>1, <1>3, <1>5 DEF TerminalStatus, SealedWith
  <2>2. CASE n \in 1..n0
    BY <2>2, <1>5 DEF Sound, Recorded
  <2> QED BY <2>1, <2>2, <1>1, <1>5
<1>7. CASE o.decision = "PASS"
  <2>1. w = [u EXCEPT !.current_step = @ + 1]
    BY <1>u, <1>7 DEF Completed
  <2>2. /\ w \in GraphState
        /\ w.current_step = n0 + 1 /\ w.workflow = v.workflow /\ w.authority = v.authority
        /\ ~w.terminal /\ w.decision = v.decision /\ w.step_results = u.step_results
    <3>1. /\ u.terminal = v.terminal /\ u.current_step = n0
          /\ u.workflow = v.workflow /\ u.authority = v.authority /\ u.decision = v.decision
      BY <1>4 DEF GraphState
    <3>2. w = [u EXCEPT !.current_step = n0 + 1]
      BY <2>1, <3>1
    <3>3. n0 + 1 \in Nat
      BY <1>1
    <3>4. /\ w \in GraphState
          /\ w.current_step = n0 + 1 /\ w.terminal = u.terminal
          /\ w.workflow = u.workflow /\ w.authority = u.authority
          /\ w.decision = u.decision /\ w.step_results = u.step_results
      BY <1>4, <3>2, <3>3 DEF GraphState
    <3> QED BY <1>1, <3>1, <3>4
  <2>3. Passed(rows, t, w)
    <3>1. RowIn(rows, t, v, n0 + 1).status = "COMPLETED"
      BY <1>3, <1>7 DEF TerminalStatus, SealedWith
    <3>2. \A n \in 1..(n0 + 1) : n = n0 + 1 \/ n \in 1..n0
      BY <1>1
    <3> QED BY <1>3, <1>7, <2>2, <3>1, <3>2 DEF Sound, Passed, RowIn, SealedWith
  <2>4. Recorded(rows, t, w)
    <3>1. \A n : RowIn(rows, t, w, n) = RowIn(rows, t, v, n)
      BY <2>2 DEF RowIn
    <3>2. /\ w.terminal \/ Len(w.step_results) = w.current_step
          /\ Len(w.step_results) <= Len(w.workflow.steps)
      BY <1>1, <1>5, <2>2
    <3>3. \A n \in DOMAIN w.step_results :
            w.step_results[n].decision \in {"PASS", "FAIL"} =>
              /\ RowIn(rows, t, w, n) # NoRow
              /\ RowIn(rows, t, w, n).status # "STARTED"
              /\ RowIn(rows, t, w, n).outcome.decision = w.step_results[n].decision
      BY <1>6, <2>2, <3>1
    <3> QED BY <3>2, <3>3 DEF Recorded
  <2>5. Owned(uses, t, w)
    BY <1>1, <2>2 DEF Owned
  <2>6. AfterStep(w) = IF n0 + 1 >= Len(v.workflow.steps) THEN "finalize" ELSE "gate"
    BY <2>2 DEF AfterStep, finished
  <2>7. Placed(w, AfterStep(w))
    BY <1>1, <2>2, <2>6 DEF Placed, finished
  <2>8. Sound(uses, rows, t, w, AfterStep(w))
    BY <2>3, <2>4, <2>5, <2>6, <2>7 DEF Sound
  <2> QED BY <2>2, <2>6, <2>8
<1>8. CASE o.decision # "PASS"
  <2>1. w = [u EXCEPT !.decision = o.decision, !.terminal = TRUE]
    BY <1>u, <1>8 DEF Completed
  <2>2. /\ w \in GraphState
        /\ w.current_step = n0 /\ w.workflow = v.workflow
        /\ w.terminal /\ w.decision # "PASS" /\ w.step_results = u.step_results
    <3>1. /\ o.decision \in Decisions /\ u.current_step = n0 /\ u.workflow = v.workflow
      BY <1>4, OutcomesAssumption DEF GraphState
    <3> QED BY <1>4, <1>8, <2>1, <3>1 DEF GraphState
  <2>3. AfterStep(w) = "end"
    BY <2>2 DEF AfterStep
  <2>4. Placed(w, "end")
    BY <1>1, <2>2 DEF Placed
  <2>5. Passed(rows, t, w)
    BY <2>2 DEF Sound, Passed, RowIn
  <2>6. Recorded(rows, t, w)
    <3>1. \A n : RowIn(rows, t, w, n) = RowIn(rows, t, v, n)
      BY <2>2 DEF RowIn
    <3>2. /\ w.terminal \/ Len(w.step_results) = w.current_step
          /\ Len(w.step_results) <= Len(w.workflow.steps)
      BY <1>1, <1>5, <2>2
    <3>3. \A n \in DOMAIN w.step_results :
            w.step_results[n].decision \in {"PASS", "FAIL"} =>
              /\ RowIn(rows, t, w, n) # NoRow
              /\ RowIn(rows, t, w, n).status # "STARTED"
              /\ RowIn(rows, t, w, n).outcome.decision = w.step_results[n].decision
      BY <1>6, <2>2, <3>1
    <3> QED BY <3>2, <3>3 DEF Recorded
  <2> QED BY <2>2, <2>3, <2>4, <2>5, <2>6 DEF Sound
<1> QED BY <1>7, <1>8

-----------------------------------------------------------------------------
(***************************************************************************)
(* One step of one call                                                    *)
(***************************************************************************)

KeyOfCall(c) == KeyOf(c.thread, c.values)

\* Checkpoints that changed are sound.
Moved(uses, rows, points, points2) ==
  /\ points2 \in Points
  /\ \A t \in Threads :
       \/ points2[t] = points[t]
       \/ points2[t] # NoRow /\ CheckpointOk(uses, rows, t, points2[t])

\* A step after which session s holds c, tables have advanced, a checkpoint that
\* changed is sound, and a row that changed was nobody else's, keeps GInv; handler calls may be
\* added, each with what it needs and for a key of its own.
LEMMA AnyStep ==
  ASSUME GInv, NEW s \in Sessions, NEW c \in Session,
         session' = [session EXCEPT ![s] = c],
         authority_uses' \in Uses,
         step_executions' \in Rows,
         Advance(authority_uses, step_executions, authority_uses', step_executions'),
         Moved(authority_uses', step_executions', checkpoints, checkpoints'),
         CallOk(authority_uses', step_executions', checkpoints', handled', c),
         \A k \in Keys :
           \/ step_executions'[k] = step_executions[k]
           \/ /\ RowOk(handled', k, step_executions'[k])
              /\ \A r \in Sessions :
                   r # s /\ InHandler(session[r]) => KeyOfCall(session[r]) # k,
         InHandler(c) => \A r \in Sessions :
           r # s /\ InHandler(session[r]) => KeyOfCall(session[r]) # KeyOfCall(c),
         handled' \in Seq(HandlerCall),
         \A i \in DOMAIN handled : i \in DOMAIN handled' /\ handled'[i] = handled[i],
         \A i \in DOMAIN handled' :
           i \in DOMAIN handled \/ HandledOk(authority_uses', step_executions', handled'[i]),
         \A r \in Sessions : r # s /\ session[r].pc = "handler" =>
           \A i \in DOMAIN handled' : handled'[i].key # KeyOfCall(session[r]),
         AtMostOnce',
         now' \in 0..MaxTime,
         calls' \in 0..MaxCalls,
         reviewed' \subseteq Threads \X Response,
         closed' \subseteq Threads
  PROVE  GInv'
<1>1. /\ session \in [Sessions -> Session]
      /\ session' \in [Sessions -> Session]
      /\ session'[s] = c
      /\ \A r \in Sessions : r # s => session'[r] = session[r]
  BY DEF GInv
<1>2. ASSUME NEW r \in Sessions
      PROVE  CallOk(authority_uses', step_executions', checkpoints', handled', session'[r])
  <2>1. CASE r = s
    BY <1>1, <2>1
  <2>2. CASE r # s
    <3>1. PICK d \in Session : d = session[r]
      BY <1>1
    <3>2. CallOk(authority_uses, step_executions, checkpoints, handled, d)
      BY <3>1 DEF GInv
    <3>3. \A t \in Threads : checkpoints[t] # NoRow => checkpoints'[t] # NoRow
      BY DEF Moved
    <3>4. InHandler(d) => step_executions'[KeyOf(d.thread, d.values)]
                            = step_executions[KeyOf(d.thread, d.values)]
      BY <2>2, <3>1, <3>2, HandlerKey DEF KeyOfCall
    <3>5. d.pc = "handler" => \A i \in DOMAIN handled' : handled'[i].key # KeyOf(d.thread, d.values)
      BY <2>2, <3>1 DEF KeyOfCall
    <3>6. CallOk(authority_uses', step_executions', checkpoints', handled', d)
      BY <3>2, <3>3, <3>4, <3>5, CallKept
    <3> QED BY <1>1, <2>2, <3>1, <3>6
  <2> QED BY <2>1, <2>2
<1>3. ASSUME NEW t \in Threads
      PROVE  CheckpointOk(authority_uses', step_executions', t, checkpoints'[t])
  <2>1. CASE checkpoints'[t] = checkpoints[t]
    <3>1. PICK p \in Checkpoint \cup {NoRow} : p = checkpoints[t]
      BY DEF GInv, Points
    <3>2. CheckpointOk(authority_uses, step_executions, t, p)
      BY <3>1 DEF GInv
    <3>3. CheckpointOk(authority_uses', step_executions', t, p)
      BY <3>2, CheckpointKept
    <3> QED BY <2>1, <3>1, <3>3
  <2> QED BY <2>1 DEF Moved
<1>4. \A k \in Keys : RowOk(handled', k, step_executions'[k])
  BY DEF GInv, RowOk
<1>5. ASSUME NEW i \in DOMAIN handled'
      PROVE  HandledOk(authority_uses', step_executions', handled'[i])
  <2>1. CASE i \in DOMAIN handled
    <3>1. PICK h \in HandlerCall : h = handled[i]
      BY <2>1, LenProperties, ElementOfSeq DEF GInv
    <3>2. HandledOk(authority_uses, step_executions, h)
      BY <2>1, <3>1 DEF GInv
    <3> QED BY <2>1, <3>1, <3>2, HandledKept
  <2> QED BY <2>1
<1>6. OneHolder'
  <2> SUFFICES ASSUME NEW r1 \in Sessions, NEW r2 \in Sessions,
                      InHandler(session'[r1]), InHandler(session'[r2]),
                      KeyOfCall(session'[r1]) = KeyOfCall(session'[r2])
               PROVE  r1 = r2
    BY DEF OneHolder, KeyOfCall
  <2>1. CASE r1 # s /\ r2 # s
    BY <1>1, <2>1 DEF GInv, OneHolder, KeyOfCall
  <2> QED BY <1>1, <2>1
<1> QED BY <1>1, <1>2, <1>3, <1>4, <1>5, <1>6 DEF GInv, Moved

\* The same of a step that calls no handler.
LEMMA CallStep ==
  ASSUME GInv, NEW s \in Sessions, NEW c \in Session,
         session' = [session EXCEPT ![s] = c],
         authority_uses' \in Uses,
         step_executions' \in Rows,
         Advance(authority_uses, step_executions, authority_uses', step_executions'),
         Moved(authority_uses', step_executions', checkpoints, checkpoints'),
         CallOk(authority_uses', step_executions', checkpoints', handled, c),
         \A k \in Keys :
           \/ step_executions'[k] = step_executions[k]
           \/ /\ RowOk(handled, k, step_executions'[k])
              /\ \A r \in Sessions :
                   r # s /\ InHandler(session[r]) => KeyOfCall(session[r]) # k,
         InHandler(c) => \A r \in Sessions :
           r # s /\ InHandler(session[r]) => KeyOfCall(session[r]) # KeyOfCall(c),
         handled' = handled,
         now' \in 0..MaxTime,
         calls' \in 0..MaxCalls,
         reviewed' \subseteq Threads \X Response,
         closed' \subseteq Threads
  PROVE  GInv'
<1>1. \A r \in Sessions : session[r].pc = "handler" =>
        \A i \in DOMAIN handled : handled[i].key # KeyOfCall(session[r])
  BY DEF GInv, CallOk, Holds, InHandler, KeyOfCall
<1>2. AtMostOnce'
  BY DEF GInv, AtMostOnce
<1> QED BY <1>1, <1>2, AnyStep DEF GInv

\* Tables that stay advance.
LEMMA SameTables ==
  ASSUME NEW uses, NEW rows
  PROVE  Advance(uses, rows, uses, rows)
  BY DEF Advance

\* What a call in the graph is, and what it stores.
LEMMA CallFacts ==
  ASSUME GInv, NEW s \in Sessions, session[s].pc \notin {"idle", "resuming"}
  PROVE  /\ session[s] \in Call
         /\ session[s].thread \in Threads
         /\ session[s].values \in GraphState
         /\ Sound(authority_uses, step_executions, session[s].thread, session[s].values,
                  NodeOf(session[s].pc))
         /\ Image(s) \in Checkpoint
         /\ CheckpointOk(authority_uses, step_executions, session[s].thread, Image(s))
<1>1. session[s] \in Session
  BY DEF GInv
<1>2. session[s] \in Call
  BY <1>1 DEF Session, Idle, Resuming
<1>3. CallOk(authority_uses, step_executions, checkpoints, handled, session[s])
  BY DEF GInv
<1>4. NodeOf(session[s].pc) \in {"authorize", "gate", "execute", "finalize", "end"}
  BY <1>2 DEF Call, NodeOf
<1>5. Image(s) \in Checkpoint
  BY <1>2, <1>4 DEF Image, Checkpoint, Call
<1>6. CheckpointOk(authority_uses, step_executions, session[s].thread, Image(s))
  BY <1>3 DEF CallOk, CheckpointOk, Image
<1> QED BY <1>2, <1>3, <1>5, <1>6 DEF Call, CallOk

\* A call that stores its checkpoint moves the checkpoints.
LEMMA StoredMoves ==
  ASSUME GInv, NEW s \in Sessions, session[s].pc \notin {"idle", "resuming"}
  PROVE  Moved(authority_uses, step_executions, checkpoints, Stored(s))
<1>1. PICK t \in Threads, p \in Checkpoint : t = session[s].thread /\ p = Image(s)
  BY CallFacts
<1>2. CheckpointOk(authority_uses, step_executions, t, p) /\ p # NoRow
  BY <1>1, CallFacts, NoRowIsNone
<1>3. Stored(s) = [checkpoints EXCEPT ![t] = p]
  BY <1>1 DEF Stored
<1>4. checkpoints \in Points
  BY DEF GInv
<1> QED BY <1>2, <1>3, <1>4 DEF Moved, Points

\* A response that is kept changes nothing a checkpoint is judged by.
LEMMA KeptMoves ==
  ASSUME GInv, NEW s \in Sessions, session[s].pc \notin {"idle", "resuming"},
         MayKeepResponse(s),
         NEW uses2, NEW rows2, Advance(authority_uses, step_executions, uses2, rows2)
  PROVE  Moved(uses2, rows2, checkpoints, checkpoints')
<1>1. PICK t \in Threads, p \in Checkpoint : t = session[s].thread /\ p = Image(s)
  BY CallFacts
<1>2. CheckpointOk(uses2, rows2, t, p)
  BY <1>1, CallFacts, CheckpointKept
<1>3. checkpoints \in Points
  BY DEF GInv
<1>4. CASE UNCHANGED checkpoints
  BY <1>3, <1>4 DEF Moved
<1>5. CASE checkpoints[session[s].thread] = Image(s) /\ checkpoints' = Kept(s)
  <2>1. PICK kept \in Seq(Response) : kept = p.responses \o session[s].response
    BY <1>1, CallFacts, ConcatProperties DEF Call, Checkpoint
  <2>2. PICK q : q = [p EXCEPT !.responses = kept]
    OBVIOUS
  <2>3. q \in Checkpoint /\ q.values = p.values /\ q.next = p.next /\ q.interrupt = p.interrupt
    BY <2>2 DEF Checkpoint
  <2>4. q # NoRow /\ CheckpointOk(uses2, rows2, t, q)
    BY <1>2, <2>3, NoRowIsNone DEF CheckpointOk
  <2>5. checkpoints' = [checkpoints EXCEPT ![t] = q]
    BY <1>1, <1>3, <1>5, <2>1, <2>2 DEF Kept, Points
  <2> QED BY <1>3, <2>3, <2>4, <2>5 DEF Moved, Points
<1> QED BY <1>4, <1>5 DEF MayKeepResponse

LEMMA SameMoves ==
  ASSUME GInv, NEW uses2, NEW rows2
  PROVE  Moved(uses2, rows2, checkpoints, checkpoints)
  BY DEF Moved, GInv

\* A step that ends a call, and leaves the tables alone.
LEMMA IdleStep ==
  ASSUME GInv, NEW s \in Sessions,
         session' = [session EXCEPT ![s] = Idle],
         UNCHANGED <<authority_uses, step_executions, now, calls, handled, reviewed>>,
         Moved(authority_uses, step_executions, checkpoints, checkpoints'),
         closed' \subseteq Threads
  PROVE  GInv'
<1>1. PICK c \in Session : c = Idle
  BY DEF Session
<1>2. Advance(authority_uses, step_executions, authority_uses', step_executions')
  BY SameTables
<1>3. CallOk(authority_uses', step_executions', checkpoints', handled, c) /\ ~InHandler(c)
  BY <1>1 DEF CallOk, InHandler, Idle
<1> QED BY <1>1, <1>2, <1>3, CallStep DEF GInv

\* A step that leads a call to the next node.
LEMMA GoToStep ==
  ASSUME GInv, NEW s \in Sessions, session[s].pc \notin {"idle", "resuming"},
         NEW w \in GraphState, NEW node \in {"gate", "claim", "finalize", "end"},
         GoTo(s, w, node),
         authority_uses' \in Uses,
         step_executions' \in Rows,
         Advance(authority_uses, step_executions, authority_uses', step_executions'),
         Sound(authority_uses', step_executions', session[s].thread, w, NodeOf(node)),
         Moved(authority_uses', step_executions', checkpoints, checkpoints'),
         \A k \in Keys :
           \/ step_executions'[k] = step_executions[k]
           \/ /\ RowOk(handled, k, step_executions'[k])
              /\ \A r \in Sessions :
                   r # s /\ InHandler(session[r]) => KeyOfCall(session[r]) # k,
         UNCHANGED <<now, calls, history>>
  PROVE  GInv'
<1>1. session[s] \in Call
  BY CallFacts
<1>2. PICK c : c = [session[s] EXCEPT !.values = w, !.pc = node, !.interrupt = NoRow,
                                      !.responses = <<>>, !.response = <<>>]
  OBVIOUS
<1>3. /\ c \in Call
      /\ c.pc = node /\ c.thread = session[s].thread /\ c.values = w /\ c.interrupt = NoRow
  BY <1>1, <1>2, EmptySeq DEF Call
<1>4. session' = [session EXCEPT ![s] = c]
  BY <1>2 DEF GoTo, GInv
<1>5. CallOk(authority_uses', step_executions', checkpoints', handled, c) /\ ~InHandler(c)
  BY <1>3 DEF CallOk, InHandler
<1> QED BY <1>3, <1>4, <1>5, CallStep DEF GInv, Session, history

-----------------------------------------------------------------------------
(***************************************************************************)
(* One lemma per action                                                    *)
(***************************************************************************)

\* At the start nothing is stored, no call is in progress and none has run.
LEMMA InitGInv == Init => GInv
<1> SUFFICES ASSUME Init PROVE GInv
  OBVIOUS
<1>1. /\ authority_uses \in Uses
      /\ step_executions \in Rows
      /\ checkpoints \in Points
      /\ session \in [Sessions -> Session]
  BY DEF Init, Uses, Rows, Points, Session
<1>2. /\ handled \in Seq(HandlerCall)
      /\ DOMAIN handled = {}
  BY EmptySeq, LenProperties DEF Init
<1>3. /\ now \in 0..MaxTime /\ calls \in 0..MaxCalls
      /\ reviewed \subseteq Threads \X Response /\ closed \subseteq Threads
  BY BoundsAssumption DEF Init
<1>4. \A s \in Sessions :
        CallOk(authority_uses, step_executions, checkpoints, handled, session[s])
  BY DEF Init, CallOk, InHandler, Idle
<1>5. \A t \in Threads : CheckpointOk(authority_uses, step_executions, t, checkpoints[t])
  BY DEF Init, CheckpointOk
<1>6. \A k \in Keys : RowOk(handled, k, step_executions[k])
  BY DEF Init, RowOk
<1>7. AtMostOnce /\ OneHolder
  BY <1>2 DEF Init, AtMostOnce, OneHolder, InHandler, Idle
<1> QED BY <1>1, <1>2, <1>3, <1>4, <1>5, <1>6, <1>7 DEF GInv

\* start: a state with no step done and nothing owned.
LEMMA StartGInv ==
  ASSUME GInv, NEW s \in Sessions, NEW t \in Threads, NEW w \in Workflows,
         NEW g \in Grants, NEW l \in InitialLedgers, NEW r \in Registries,
         Start(s, t, w, g, l, r)
  PROVE  GInv'
<1>1. PICK v : v = InitialState(w, g, l)
  OBVIOUS
<1>2. v \in GraphState
  BY <1>1, LedgersAssumption, EmptySeq DEF InitialState, GraphState
<1>3. Sound(authority_uses, step_executions, t, v, "authorize")
  <2>1. /\ v.current_step = 0 /\ v.terminal = FALSE /\ v.decision = "NONE"
        /\ v.step_results = <<>>
    BY <1>1 DEF InitialState
  <2>2. Len(v.workflow.steps) \in Nat \ {0}
    BY <1>2, CurrentStep
  <2> QED BY <2>1, <2>2 DEF Sound, Placed, Passed, Recorded
<1>4. PICK c : c = [pc        |-> "authorize",
                    thread    |-> t,
                    values    |-> v,
                    interrupt |-> NoRow,
                    responses |-> <<>>,
                    response  |-> <<>>,
                    outcome   |-> NoRow,
                    registry  |-> r]
  OBVIOUS
<1>5. c \in Call /\ c.pc = "authorize" /\ c.thread = t /\ c.values = v /\ c.interrupt = NoRow
  BY <1>2, <1>4, EmptySeq DEF Call
<1>6. session' = [session EXCEPT ![s] = c]
  BY <1>1, <1>4 DEF Start
<1>7. CallOk(authority_uses', step_executions', checkpoints', handled, c) /\ ~InHandler(c)
  BY <1>3, <1>5 DEF CallOk, InHandler, NodeOf, Start, durable
<1>8. Advance(authority_uses, step_executions, authority_uses', step_executions')
  BY SameTables DEF Start, durable
<1>9. calls' \in 0..MaxCalls
  BY BoundsAssumption DEF Start, GInv
<1>10. Moved(authority_uses', step_executions', checkpoints, checkpoints')
  BY SameMoves DEF Start, durable
<1> QED BY <1>5, <1>6, <1>7, <1>8, <1>9, <1>10, CallStep DEF GInv, Session, Start, durable, history

\* resume up to the graph: the response, and the thread it is for.
LEMMA ResumeGInv ==
  ASSUME GInv, NEW s \in Sessions, NEW t \in Threads, NEW x \in Reviews,
         NEW r \in Registries, Resume(s, t, x, r)
  PROVE  GInv'
<1>1. PICK p \in Checkpoint : p = checkpoints[t]
  BY DEF Resume, GInv, Points
<1>2. PICK response : response = [workflow_id |-> p.interrupt.workflow_id,
                                  step_id     |-> p.interrupt.step_id,
                                  approved    |-> x.approved,
                                  kinds       |-> x.kinds,
                                  at          |-> now]
  OBVIOUS
<1>3. response \in Response
  BY <1>1, <1>2, ReviewsAssumption DEF Response, Checkpoint, Interrupt, Resume, GInv
<1>4. PICK c : c = [pc |-> "resuming", thread |-> t, response |-> <<response>>, registry |-> r]
  OBVIOUS
<1>5. c \in Resuming /\ c.pc = "resuming" /\ c.thread = t
  BY <1>3, <1>4 DEF Resuming
<1>6. /\ session' = [session EXCEPT ![s] = c]
      /\ reviewed' = reviewed \cup {<<t, response>>}
  BY <1>1, <1>2, <1>4 DEF Resume
<1>7. CallOk(authority_uses', step_executions', checkpoints', handled, c) /\ ~InHandler(c)
  BY <1>5 DEF CallOk, InHandler, Resume, durable
<1>8. Advance(authority_uses, step_executions, authority_uses', step_executions')
  BY SameTables DEF Resume, durable
<1>9. calls' \in 0..MaxCalls /\ reviewed' \subseteq Threads \X Response
  BY <1>3, <1>6, BoundsAssumption DEF Resume, GInv
<1>10. Moved(authority_uses', step_executions', checkpoints, checkpoints')
  BY SameMoves DEF Resume, durable
<1> QED BY <1>5, <1>6, <1>7, <1>8, <1>9, <1>10, CallStep DEF GInv, Session, Resume, durable

\* Entering a checkpoint: the call takes over what is stored.
LEMMA EnterGInv ==
  ASSUME GInv, NEW s \in Sessions, Enter(s)
  PROVE  GInv'
<1>1. PICK d \in Resuming : d = session[s]
  BY DEF Enter, AtNode, GInv, Session, Idle, Call
<1>2. checkpoints[d.thread] # NoRow /\ d.thread \in Threads
  BY <1>1 DEF GInv, CallOk, Enter, AtNode, Resuming
<1>3. PICK p \in Checkpoint : p = checkpoints[d.thread]
  BY <1>2 DEF GInv, Points
<1>4. CheckpointOk(authority_uses, step_executions, d.thread, p) /\ p # NoRow
  BY <1>2, <1>3 DEF GInv
<1>5. CASE p.next = "end"
  <2>1. session' = [session EXCEPT ![s] = Idle]
    BY <1>1, <1>3, <1>5 DEF Enter
  <2> QED BY <2>1, SameMoves, IdleStep DEF Enter, durable, history, GInv
<1>6. CASE p.next # "end"
  <2>1. PICK c : c = [pc        |-> IF p.next = "execute" THEN "claim" ELSE p.next,
                      thread    |-> d.thread,
                      values    |-> p.values,
                      interrupt |-> p.interrupt,
                      responses |-> p.responses,
                      response  |-> d.response,
                      outcome   |-> NoRow,
                      registry  |-> d.registry]
    OBVIOUS
  <2>2. /\ c \in Call /\ c.pc \in {"authorize", "gate", "claim", "finalize"}
        /\ NodeOf(c.pc) = p.next
        /\ c.thread = d.thread /\ c.values = p.values /\ c.interrupt = p.interrupt
    BY <1>1, <1>2, <1>6, <2>1 DEF Call, Checkpoint, Resuming, NodeOf
  <2>3. session' = [session EXCEPT ![s] = c]
    BY <1>1, <1>3, <1>6, <2>1 DEF Enter
  <2>4. CallOk(authority_uses', step_executions', checkpoints', handled, c) /\ ~InHandler(c)
    BY <1>4, <2>2 DEF CallOk, CheckpointOk, InHandler, Enter, durable
  <2>5. Advance(authority_uses, step_executions, authority_uses', step_executions')
    BY SameTables DEF Enter, durable
  <2>6. Moved(authority_uses', step_executions', checkpoints, checkpoints')
    BY SameMoves DEF Enter, durable
  <2> QED BY <2>2, <2>3, <2>4, <2>5, <2>6, CallStep DEF GInv, Session, Enter, durable, history
<1> QED BY <1>5, <1>6

\* The background writer.
LEMMA PersistGInv ==
  ASSUME GInv, NEW s \in Sessions, Persist(s)
  PROVE  GInv'
<1>1. PICK c \in Session : c = session[s]
  BY DEF GInv
<1>2. session' = [session EXCEPT ![s] = c]
  BY <1>1 DEF Persist, GInv
<1>3. Moved(authority_uses', step_executions', checkpoints, checkpoints')
  BY StoredMoves DEF Persist
<1>4. Advance(authority_uses, step_executions, authority_uses', step_executions')
  BY SameTables DEF Persist
<1>5. CallOk(authority_uses', step_executions', checkpoints', handled, c)
  <2>1. CallOk(authority_uses, step_executions, checkpoints, handled, c)
    BY <1>1 DEF GInv
  <2> QED BY <1>1, <2>1 DEF CallOk, Persist
<1>6. InHandler(c) => \A r \in Sessions :
        r # s /\ InHandler(session[r]) => KeyOfCall(session[r]) # KeyOfCall(c)
  BY <1>1 DEF GInv, OneHolder, KeyOfCall
<1> QED BY <1>2, <1>3, <1>4, <1>5, <1>6, CallStep DEF GInv, Persist, history

\* A node that raises stores its checkpoint and ends the call.
LEMMA RaiseGInv ==
  ASSUME GInv, NEW s \in Sessions, session[s].pc \notin {"idle", "resuming"}, Raise(s),
         UNCHANGED <<authority_uses, step_executions, now, calls, history>>
  PROVE  GInv'
<1>1. Moved(authority_uses, step_executions, checkpoints, checkpoints')
  BY StoredMoves DEF Raise
<1> QED BY <1>1, IdleStep DEF Raise, history, GInv

\* invoke returns.
LEMMA ReturnGInv ==
  ASSUME GInv, NEW s \in Sessions, Return(s)
  PROVE  GInv'
<1>1. session[s].pc \notin {"idle", "resuming"}
  BY DEF Return, Returns, AtNode
<1>2. Moved(authority_uses, step_executions, checkpoints, checkpoints')
  BY <1>1, StoredMoves DEF Return
<1>3. closed' \subseteq Threads
  BY <1>1, CallFacts DEF Return, GInv
<1> QED BY <1>2, <1>3, IdleStep DEF Return

\* A process dies.
LEMMA CrashGInv ==
  ASSUME GInv, NEW s \in Sessions, Crash(s)
  PROVE  GInv'
  BY SameMoves, IdleStep DEF Crash, durable, history, GInv

\* Time passes.
LEMMA TickGInv ==
  ASSUME GInv, Tick
  PROVE  GInv'
<1>1. now' \in 0..MaxTime
  BY BoundsAssumption DEF Tick, GInv
<1> QED BY <1>1 DEF Tick, GInv, AtMostOnce, OneHolder, durable, history

\* A grant that is claimed: the table advances, and the thread owns the grant.
LEMMA ClaimedGrant ==
  ASSUME GInv, NEW t \in Threads, NEW v \in GraphState,
         AuthorityAllowed(authority_uses, v.authority, t),
         authority_uses' = AuthorityTable(authority_uses, v.authority, t),
         step_executions' = step_executions
  PROVE  /\ authority_uses' \in Uses
         /\ step_executions' \in Rows
         /\ Advance(authority_uses, step_executions, authority_uses', step_executions')
         /\ Owned(authority_uses', t, v)
<1>1. v.authority \in Grants
  BY DEF GraphState
<1>2. authority_uses \in Uses /\ step_executions \in Rows
  BY DEF GInv
<1> QED BY <1>1, <1>2, AuthorityFacts DEF Advance, Owned

\* authorize: refused, raised, or started on a grant of its own.
LEMMA AuthorizeGInv ==
  ASSUME GInv, NEW s \in Sessions, AuthorizeNode(s)
  PROVE  GInv'
<1>1. session[s].pc = "authorize" /\ NodeOf(session[s].pc) = "authorize"
  BY DEF AuthorizeNode, AtNode, NodeOf
<1>2. PICK v \in GraphState, t \in Threads : v = session[s].values /\ t = session[s].thread
  BY <1>1, CallFacts
<1>3. Sound(authority_uses, step_executions, t, v, "authorize")
  BY <1>1, <1>2, CallFacts
<1>4. now \in 0..MaxTime
  BY DEF GInv
<1>5. CASE GoTo(s, Blocked(v, v.evidence, NoRow, "workflow.blocked"), "end")
            /\ UNCHANGED <<authority_uses, checkpoints>>
  <2>1. PICK w : w = Blocked(v, v.evidence, NoRow, "workflow.blocked")
    OBVIOUS
  <2>2. w \in GraphState /\ Sound(authority_uses, step_executions, t, w, "end")
    BY <1>3, <1>4, <2>1, BlockedFacts, OwnKinds DEF GraphState
  <2>3. Advance(authority_uses, step_executions, authority_uses', step_executions')
    BY <1>5, SameTables DEF AuthorizeNode
  <2>4. Moved(authority_uses', step_executions', checkpoints, checkpoints')
    BY <1>5, SameMoves
  <2> QED BY <1>1, <1>2, <1>5, <2>1, <2>2, <2>3, <2>4, GoToStep DEF AuthorizeNode, GInv, NodeOf
<1>6. CASE Raise(s) /\ UNCHANGED authority_uses
  BY <1>1, <1>6, RaiseGInv DEF AuthorizeNode
<1>7. CASE /\ AuthorityAllowed(authority_uses, v.authority, t)
           /\ authority_uses' = AuthorityTable(authority_uses, v.authority, t)
           /\ GoTo(s, Started(v), "gate")
           /\ UNCHANGED checkpoints
  <2>1. PICK w : w = Started(v)
    OBVIOUS
  <2>2. /\ authority_uses' \in Uses
        /\ step_executions' \in Rows
        /\ Advance(authority_uses, step_executions, authority_uses', step_executions')
        /\ Owned(authority_uses', t, v)
    BY <1>7, ClaimedGrant DEF AuthorizeNode
  <2>3. Sound(authority_uses', step_executions', t, v, "authorize")
    BY <1>3, <2>2, SoundKept
  <2>4. w \in GraphState /\ Sound(authority_uses', step_executions', t, w, "gate")
    BY <1>4, <2>1, <2>2, <2>3, StartedFacts DEF Sound, Placed
  <2>5. Moved(authority_uses', step_executions', checkpoints, checkpoints')
    BY <1>7, SameMoves
  <2> QED BY <1>1, <1>2, <1>7, <2>1, <2>2, <2>4, <2>5, GoToStep DEF AuthorizeNode, NodeOf
<1> QED BY <1>2, <1>5, <1>6, <1>7 DEF AuthorizeNode

\* The gate, when the grant holds no longer.
LEMMA GateRecheckGInv ==
  ASSUME GInv, NEW s \in Sessions, GateRecheck(s)
  PROVE  GInv'
<1>1. session[s].pc = "gate" /\ NodeOf(session[s].pc) = "gate"
  BY DEF GateRecheck, AtNode, NodeOf
<1>2. PICK v \in GraphState, t \in Threads : v = session[s].values /\ t = session[s].thread
  BY <1>1, CallFacts
<1>3. Sound(authority_uses, step_executions, t, v, "gate")
  BY <1>1, <1>2, CallFacts
<1>4. CASE Raise(s)
  BY <1>1, <1>4, RaiseGInv DEF GateRecheck
<1>5. CASE GoTo(s, Blocked(v, v.evidence, NoRow, "workflow.blocked"), "end")
           /\ UNCHANGED checkpoints
  <2>1. PICK w : w = Blocked(v, v.evidence, NoRow, "workflow.blocked")
    OBVIOUS
  <2>2. now \in 0..MaxTime
    BY DEF GInv
  <2>3. w \in GraphState /\ Sound(authority_uses, step_executions, t, w, "end")
    BY <1>3, <2>1, <2>2, BlockedFacts, OwnKinds DEF GraphState
  <2>4. Advance(authority_uses, step_executions, authority_uses', step_executions')
    BY SameTables DEF GateRecheck
  <2>5. Moved(authority_uses', step_executions', checkpoints, checkpoints')
    BY <1>5, SameMoves
  <2> QED BY <1>1, <1>2, <1>5, <2>1, <2>3, <2>4, <2>5, GoToStep DEF GateRecheck, GInv, NodeOf
<1> QED BY <1>2, <1>4, <1>5 DEF GateRecheck

\* finalize.
LEMMA FinalizeGInv ==
  ASSUME GInv, NEW s \in Sessions, FinalizeNode(s)
  PROVE  GInv'
<1>1. session[s].pc = "finalize" /\ NodeOf(session[s].pc) = "finalize"
  BY DEF FinalizeNode, AtNode, NodeOf
<1>2. PICK v \in GraphState, t \in Threads : v = session[s].values /\ t = session[s].thread
  BY <1>1, CallFacts
<1>3. PICK w : w = Finalized(v)
  OBVIOUS
<1>4. w \in GraphState /\ Sound(authority_uses, step_executions, t, w, "end")
  BY <1>1, <1>2, <1>3, CallFacts, FinalizedFacts DEF GInv
<1>5. Advance(authority_uses, step_executions, authority_uses', step_executions')
  BY SameTables DEF FinalizeNode, durable
<1>6. Moved(authority_uses', step_executions', checkpoints, checkpoints')
  BY SameMoves DEF FinalizeNode, durable
<1>7. GoTo(s, w, "end")
  BY <1>2, <1>3 DEF FinalizeNode
<1> QED BY <1>1, <1>2, <1>4, <1>5, <1>6, <1>7, GoToStep DEF FinalizeNode, durable, GInv, NodeOf

\* The gate: what the loop over the responses decides.
LEMMA GateGInv ==
  ASSUME GInv, NEW s \in Sessions, GateStep(s)
  PROVE  GInv'
<1>1. session[s].pc = "gate" /\ NodeOf(session[s].pc) = "gate"
  BY DEF GateStep, AtNode, NodeOf
<1>2. PICK v \in GraphState, t \in Threads, r \in Registries, answered \in Seq(Response) :
        /\ v = session[s].values
        /\ t = session[s].thread
        /\ r = session[s].registry
        /\ answered = session[s].responses \o session[s].response
  BY <1>1, CallFacts, ConcatProperties DEF Call
<1>3. Sound(authority_uses, step_executions, t, v, "gate")
  BY <1>1, <1>2, CallFacts
<1>4. /\ v.current_step < Len(v.workflow.steps)
      /\ current(v).step_id \in StepIds
      /\ current(v).step_id # NoRow
      /\ v.workflow.workflow_id \in WorkflowIds
  BY <1>3, CurrentStep DEF Sound, Placed
<1>5. now \in 0..MaxTime
  BY DEF GInv
<1>6. /\ authority_uses' \in Uses
      /\ step_executions' \in Rows
      /\ Advance(authority_uses, step_executions, authority_uses', step_executions')
      /\ Owned(authority_uses', t, v)
  BY <1>2, ClaimedGrant DEF GateStep
<1>7. Sound(authority_uses', step_executions', t, v, "gate")
  BY <1>3, <1>6, SoundKept
<1>8. MayKeepResponse(s) => Moved(authority_uses', step_executions', checkpoints, checkpoints')
  BY <1>1, <1>6, KeptMoves
<1> DEFINE agent == current(v).agent_id
<1>9. ASSUME NEW w \in GraphState, NEW ledger \in Seq(EvidenceRecord),
             Sound(authority_uses', step_executions', t, w, "gate"),
             w.current_step = v.current_step, w.workflow = v.workflow,
             GoTo(s, Blocked(w, ledger, current(v).step_id, "step.blocked"), "end"),
             MayKeepResponse(s)
      PROVE  GInv'
  <2>1. PICK x : x = Blocked(w, ledger, current(v).step_id, "step.blocked")
    OBVIOUS
  <2>2. x \in GraphState /\ Sound(authority_uses', step_executions', t, x, "end")
    BY <1>4, <1>5, <1>9, <2>1, BlockedFacts, OwnKinds
  <2> QED BY <1>1, <1>2, <1>6, <1>8, <1>9, <2>1, <2>2, GoToStep DEF GateStep, NodeOf, history
<1>10. CASE /\ GoTo(s, Blocked(v, v.evidence, current(v).step_id, "step.blocked"), "end")
            /\ MayKeepResponse(s)
  BY <1>7, <1>9, <1>10 DEF GraphState
<1>11. CASE agent \in DOMAIN r
  <2>1. PICK review : review = Review(v, r[agent], answered)
    OBVIOUS
  <2>2. /\ review.ledger \in Seq(EvidenceRecord)
        /\ review.verdict \in {"ready", "refused", "denied", "raised", "interrupt"}
        /\ review.verdict = "ready" =>
             StepReasons(current(v), r[agent], v.authority, review.ledger) = {}
    BY <2>1, ReviewType
  <2>3. PICK judged : judged = [v EXCEPT !.gated =
          [step_id |-> current(v).step_id, at |-> now, verdict |-> review.verdict]]
    OBVIOUS
  <2>4. /\ judged \in GraphState
        /\ judged.gated = [step_id |-> current(v).step_id, at |-> now,
                           verdict |-> review.verdict]
        /\ judged.workflow = v.workflow /\ judged.authority = v.authority
        /\ judged.current_step = v.current_step /\ judged.terminal = v.terminal
        /\ judged.decision = v.decision /\ judged.step_results = v.step_results
    BY <1>4, <1>5, <2>2, <2>3 DEF GraphState, Verdict
  <2>5. Sound(authority_uses', step_executions', t, judged, "gate")
    BY <1>7, <2>4 DEF Sound, Placed, Owned, Passed, Recorded, RowIn, finished
  <2>6. CASE /\ review.verdict = "ready"
             /\ GoTo(s, [judged EXCEPT !.evidence = review.ledger], "claim")
             /\ MayKeepResponse(s)
    <3>1. PICK w : w = [judged EXCEPT !.evidence = review.ledger]
      OBVIOUS
    <3>2. /\ w \in GraphState
          /\ w.gated = judged.gated /\ w.evidence = review.ledger
          /\ w.workflow = v.workflow /\ w.authority = v.authority
          /\ w.current_step = v.current_step /\ w.terminal = v.terminal
          /\ w.decision = v.decision /\ w.step_results = v.step_results
      BY <2>2, <2>4, <3>1 DEF GraphState
    <3>3. Judged(w)
      <4>1. w.gated # NoRow
        BY <1>4, <1>5, <2>2, <2>4, <3>2, NoRowIsNone DEF Verdict
      <4>2. current(w) = current(v)
        BY <3>2 DEF current
      <4>3. WorkflowReasons(w.workflow, w.authority, Subject, w.gated.at) = {}
        <5>1. w.gated.at = now
          BY <2>4, <3>2
        <5>2. Accepted(v)
          BY <1>2 DEF GateStep
        <5> QED BY <3>2, <5>1, <5>2 DEF Accepted
      <4> QED BY <1>11, <2>2, <2>4, <2>6, <3>2, <4>1, <4>2, <4>3 DEF Judged
    <3>4. Sound(authority_uses', step_executions', t, w, "execute")
      BY <1>7, <3>2, <3>3 DEF Sound, Placed, Owned, Passed, Recorded, RowIn, finished
    <3> QED BY <1>1, <1>2, <1>6, <1>8, <2>6, <3>1, <3>2, <3>4, GoToStep
            DEF GateStep, NodeOf, history
  <2>7. CASE /\ GoTo(s, Blocked(judged, review.ledger, current(v).step_id, "step.blocked"), "end")
             /\ MayKeepResponse(s)
    BY <1>9, <2>2, <2>4, <2>5, <2>7
  <2>8. CASE /\ session' = [session EXCEPT ![s] = Idle]
             /\ MayKeepResponse(s)
    <3>1. PICK c \in Session : c = Idle
      BY DEF Session
    <3>2. CallOk(authority_uses', step_executions', checkpoints', handled, c) /\ ~InHandler(c)
      BY <3>1 DEF CallOk, InHandler, Idle
    <3> QED BY <1>6, <1>8, <2>8, <3>1, <3>2, CallStep DEF GateStep, GInv, history
  <2>9. CASE /\ session' = [session EXCEPT
                  ![s].pc = "interrupted",
                  ![s].interrupt = [workflow_id |-> v.workflow.workflow_id,
                                    step_id |-> current(v).step_id],
                  ![s].responses = answered,
                  ![s].response = <<>>]
             /\ UNCHANGED checkpoints
    <3>1. PICK c : c = [session[s] EXCEPT
                          !.pc = "interrupted",
                          !.interrupt = [workflow_id |-> v.workflow.workflow_id,
                                         step_id |-> current(v).step_id],
                          !.responses = answered,
                          !.response = <<>>]
      OBVIOUS
    <3>2. [workflow_id |-> v.workflow.workflow_id, step_id |-> current(v).step_id] \in Interrupt
      BY <1>4 DEF Interrupt
    <3>3. c \in Call /\ c.pc = "interrupted" /\ c.thread = t /\ c.values = v
      <4>1. session[s] \in Call /\ session[s].thread = t /\ session[s].values = v
        BY <1>1, <1>2, CallFacts
      <4>2. <<>> \in Seq(Response)
        BY EmptySeq
      <4>3. PICK x : x = session[s] OBVIOUS
      <4>4. PICK i : i = [workflow_id |-> v.workflow.workflow_id, step_id |-> current(v).step_id]
        OBVIOUS
      <4>5. c = [x EXCEPT !.pc = "interrupted", !.interrupt = i, !.responses = answered,
                          !.response = <<>>]
        BY <3>1, <4>3, <4>4
      <4>6. x \in Call /\ i \in Interrupt /\ answered \in Seq(Response)
            /\ x.thread = t /\ x.values = v
        BY <1>2, <3>2, <4>1, <4>3, <4>4
      <4> QED BY <4>2, <4>5, <4>6 DEF Call
    <3>4. session' = [session EXCEPT ![s] = c]
      BY <2>9, <3>1 DEF GInv
    <3>5. CallOk(authority_uses', step_executions', checkpoints', handled, c) /\ ~InHandler(c)
      BY <1>7, <3>3 DEF CallOk, InHandler, NodeOf
    <3>6. Moved(authority_uses', step_executions', checkpoints, checkpoints')
      BY <2>9, SameMoves
    <3> QED BY <1>6, <3>3, <3>4, <3>5, <3>6, CallStep DEF GateStep, GInv, Session, history
  <2> QED BY <1>2, <1>10, <1>11, <2>1, <2>3, <2>6, <2>7, <2>8, <2>9 DEF GateStep
<1> QED BY <1>2, <1>10, <1>11 DEF GateStep

\* execute, up to the journal's answer: the step is claimed on a row of its own,
\* blocked, or replayed from the row that sealed it.
LEMMA ClaimNodeGInv ==
  ASSUME GInv, NEW s \in Sessions, ClaimNode(s)
  PROVE  GInv'
<1>1. session[s].pc = "claim" /\ NodeOf(session[s].pc) = "execute"
  BY DEF ClaimNode, AtNode, NodeOf
<1>2. PICK v \in GraphState, t \in Threads, k \in Keys, d \in Digest :
        /\ v = session[s].values
        /\ t = session[s].thread
        /\ k = KeyOf(t, v)
        /\ d = request_digest(t, v)
        /\ Sound(authority_uses, step_executions, t, v, "execute")
        /\ v.current_step < Len(v.workflow.steps)
  <2>1. /\ session[s].values \in GraphState
        /\ session[s].thread \in Threads
        /\ Sound(authority_uses, step_executions, session[s].thread, session[s].values, "execute")
        /\ session[s].values.current_step < Len(session[s].values.workflow.steps)
    BY <1>1, CallFacts DEF Sound, Placed
  <2> QED BY <2>1, KeyIn
<1>3. /\ current(v).step_id \in StepIds
      /\ now \in 0..MaxTime
      /\ authority_uses' = authority_uses
      /\ authority_uses \in Uses
      /\ step_executions \in Rows
  BY <1>2, CurrentStep DEF GInv, ClaimNode
<1>4. ASSUME NEW kind \in Kinds,
             GoTo(s, Blocked(v, v.evidence, current(v).step_id, kind), "end"),
             UNCHANGED <<step_executions, checkpoints>>
      PROVE  GInv'
  <2>1. PICK w : w = Blocked(v, v.evidence, current(v).step_id, kind)
    OBVIOUS
  <2>2. w \in GraphState /\ Sound(authority_uses, step_executions, t, w, "end")
    BY <1>2, <1>3, <2>1, BlockedFacts DEF GraphState
  <2>3. Advance(authority_uses, step_executions, authority_uses', step_executions')
    BY <1>3, <1>4, SameTables
  <2>4. Moved(authority_uses', step_executions', checkpoints, checkpoints')
    BY <1>4, SameMoves
  <2> QED BY <1>1, <1>2, <1>3, <1>4, <2>1, <2>2, <2>3, <2>4, GoToStep DEF ClaimNode, NodeOf
<1>5. CASE /\ current(v).agent_id \notin DOMAIN session[s].registry
           /\ GoTo(s, Blocked(v, v.evidence, current(v).step_id, "step.blocked"), "end")
           /\ UNCHANGED <<step_executions, checkpoints>>
  BY <1>4, <1>5, OwnKinds
<1>6. CASE /\ GoTo(s, Blocked(v, v.evidence, current(v).step_id, "step.in_doubt"), "end")
           /\ UNCHANGED <<step_executions, checkpoints>>
  BY <1>4, <1>6, OwnKinds
<1>7. CASE Raise(s) /\ UNCHANGED step_executions
  BY <1>1, <1>7, RaiseGInv DEF ClaimNode
<1>8. CASE /\ current(v).agent_id \in DOMAIN session[s].registry
           /\ StepNew(step_executions, k)
           /\ step_executions' = StepTable(step_executions, k, d)
           /\ session' = [session EXCEPT ![s].pc = "handler"]
           /\ UNCHANGED checkpoints
  <2>1. /\ step_executions' \in Rows
        /\ \A j \in Keys : j # k => step_executions'[j] = step_executions[j]
        /\ step_executions'[k] # NoRow
        /\ step_executions'[k].status = "STARTED"
        /\ step_executions'[k].request_digest = d
    BY <1>3, <1>8, StepTableFacts
  <2>2. step_executions[k] = NoRow
    BY <1>8 DEF StepNew
  <2>3. Advance(authority_uses, step_executions, authority_uses', step_executions')
    BY <1>3, <2>1, <2>2 DEF Advance
  <2>4. \A i \in DOMAIN handled : handled[i].key # k
    BY <2>2 DEF GInv, HandledOk
  <2>5. \A r \in Sessions : InHandler(session[r]) => KeyOfCall(session[r]) # k
    BY <2>2 DEF GInv, CallOk, Holds, KeyOfCall
  <2>6. PICK c : c = [session[s] EXCEPT !.pc = "handler"]
    OBVIOUS
  <2>7. /\ c \in Call /\ c.pc = "handler" /\ c.thread = t /\ c.values = v
        /\ c.interrupt = session[s].interrupt /\ c.registry = session[s].registry
    BY <1>1, <1>2, <2>6, CallFacts DEF Call
  <2>8. session' = [session EXCEPT ![s] = c]
    BY <1>8, <2>6 DEF GInv
  <2>9. c.interrupt = NoRow
    BY <1>1, <2>7 DEF GInv, CallOk
  <2>10. Sound(authority_uses', step_executions', t, v, "execute")
    BY <1>2, <2>3, SoundKept
  <2>11. Holds(step_executions', handled, c)
    BY <1>2, <1>8, <2>1, <2>4, <2>7 DEF Holds
  <2>12. CallOk(authority_uses', step_executions', checkpoints', handled, c)
    BY <2>7, <2>9, <2>10, <2>11 DEF CallOk, NodeOf
  <2>13. RowOk(handled, k, step_executions'[k])
    BY <2>1 DEF RowOk
  <2>14. Moved(authority_uses', step_executions', checkpoints, checkpoints')
    BY <1>8, SameMoves
  <2>15. KeyOfCall(c) = k
    BY <1>2, <2>7 DEF KeyOfCall
  <2>16. \A j \in Keys :
           \/ step_executions'[j] = step_executions[j]
           \/ /\ RowOk(handled, j, step_executions'[j])
              /\ \A r \in Sessions : r # s /\ InHandler(session[r]) => KeyOfCall(session[r]) # j
    BY <2>1, <2>5, <2>13
  <2>17. /\ handled' = handled /\ now' \in 0..MaxTime /\ calls' \in 0..MaxCalls
         /\ reviewed' \subseteq Threads \X Response /\ closed' \subseteq Threads
    BY DEF ClaimNode, GInv, history
  <2>18. c \in Session
    BY <2>7 DEF Session
  <2> QED BY <1>3, <2>1, <2>3, <2>5, <2>8, <2>12, <2>14, <2>15, <2>16, <2>17, <2>18, CallStep
<1>9. CASE /\ StepTerminal(step_executions, k, d)
           /\ GoTo(s, Completed(v, step_executions[k].outcome, TRUE),
                   AfterStep(Completed(v, step_executions[k].outcome, TRUE)))
           /\ UNCHANGED <<step_executions, checkpoints>>
  <2>1. PICK o \in Outcomes : o = step_executions[k].outcome
    BY <1>9 DEF GInv, RowOk, StepTerminal
  <2>w. PICK w : w = Completed(v, o, TRUE)
    OBVIOUS
  <2>2. /\ step_executions[k] # NoRow
        /\ step_executions[k].status = TerminalStatus(o.decision = "FAIL")
    BY <1>9, <2>1 DEF GInv, RowOk, StepTerminal
  <2>3. /\ w \in GraphState
        /\ AfterStep(w) \in {"gate", "finalize", "end"}
        /\ Sound(authority_uses, step_executions, t, w, AfterStep(w))
    <3>1. SealedWith(step_executions[KeyOf(t, v)], o)
      BY <1>2, <2>1, <2>2 DEF SealedWith
    <3>2. TRUE \in BOOLEAN
      OBVIOUS
    <3> QED BY <1>2, <1>3, <2>w, <3>1, <3>2, CompletedFacts
  <2>4. GoTo(s, w, AfterStep(w)) /\ NodeOf(AfterStep(w)) = AfterStep(w)
    BY <1>9, <2>1, <2>w, <2>3 DEF NodeOf
  <2>5. Advance(authority_uses, step_executions, authority_uses', step_executions')
    BY <1>3, <1>9, SameTables
  <2>6. Moved(authority_uses', step_executions', checkpoints, checkpoints')
    BY <1>9, SameMoves
  <2> QED BY <1>1, <1>2, <1>3, <1>9, <2>3, <2>4, <2>5, <2>6, GoToStep DEF ClaimNode
<1> QED BY <1>2, <1>5, <1>6, <1>7, <1>8, <1>9 DEF ClaimNode

\* execute, the call of the handler.
LEMMA HandlerGInv ==
  ASSUME GInv, NEW s \in Sessions, NEW o \in Outcomes, HandlerNode(s, o)
  PROVE  GInv'
<1>1. session[s].pc = "handler" /\ NodeOf(session[s].pc) = "execute" /\ InHandler(session[s])
  BY DEF HandlerNode, AtNode, NodeOf, InHandler
<1>2. PICK v \in GraphState, t \in Threads, k \in Keys :
        /\ v = session[s].values
        /\ t = session[s].thread
        /\ k = KeyOf(t, v)
        /\ Sound(authority_uses, step_executions, t, v, "execute")
        /\ k = KeyOfCall(session[s])
  <2>1. CallOk(authority_uses, step_executions, checkpoints, handled, session[s])
    BY DEF GInv
  <2> QED BY <1>1, <2>1, CallFacts, HandlerKey DEF GInv, KeyOfCall
<1>3. /\ step_executions[k] # NoRow
      /\ current(v).agent_id \in DOMAIN session[s].registry
      /\ \A i \in DOMAIN handled : handled[i].key # k
      /\ session[s].registry \in Registries
      /\ session[s].interrupt = NoRow
  BY <1>1, <1>2, CallFacts DEF GInv, CallOk, Holds, KeyOfCall, Call
<1>4. PICK h : h = [key        |-> k,
                    state      |-> v,
                    descriptor |-> session[s].registry[current(v).agent_id],
                    outcome    |-> o]
  OBVIOUS
<1>5. h \in HandlerCall
  BY <1>3, <1>4 DEF HandlerCall
<1>6. h.key = k /\ h.state = v /\ h.key[1] = t
  BY <1>2, <1>4 DEF KeyOf
<1>7. HandledOk(authority_uses, step_executions, h)
  BY <1>2, <1>3, <1>4, <1>6 DEF HandledOk
<1>8. handled \in Seq(HandlerCall) /\ handled' = Append(handled, h)
  BY <1>2, <1>4 DEF GInv, HandlerNode
<1>9. /\ handled' \in Seq(HandlerCall)
      /\ DOMAIN handled = 1..Len(handled) /\ Len(handled) \in Nat
      /\ DOMAIN handled' = 1..(Len(handled) + 1)
      /\ \A i \in DOMAIN handled : i \in DOMAIN handled' /\ handled'[i] = handled[i]
      /\ handled'[Len(handled) + 1] = h
  BY <1>5, <1>8, AppendProperties, LenProperties
<1>10. \A i \in DOMAIN handled' : i \in DOMAIN handled \/ handled'[i] = h
  BY <1>9
<1>11. AtMostOnce'
  <2> SUFFICES ASSUME NEW i \in DOMAIN handled', NEW j \in DOMAIN handled',
                      handled'[i].key = handled'[j].key
               PROVE  i = j
    BY DEF AtMostOnce
  <2>1. CASE i \in DOMAIN handled /\ j \in DOMAIN handled
    BY <1>9, <2>1 DEF GInv, AtMostOnce
  <2>2. CASE i \notin DOMAIN handled /\ j \notin DOMAIN handled
    BY <1>9, <2>2
  <2> QED BY <1>3, <1>6, <1>9, <1>10, <2>1, <2>2
<1>12. \A r \in Sessions : r # s /\ InHandler(session[r]) => KeyOfCall(session[r]) # k
  BY <1>1, <1>2 DEF GInv, OneHolder, KeyOfCall
<1>13. \A r \in Sessions : r # s /\ session[r].pc = "handler" =>
         \A i \in DOMAIN handled' : handled'[i].key # KeyOfCall(session[r])
  <2> SUFFICES ASSUME NEW r \in Sessions, r # s, session[r].pc = "handler",
                      NEW i \in DOMAIN handled'
               PROVE  handled'[i].key # KeyOfCall(session[r])
    OBVIOUS
  <2>1. InHandler(session[r])
    BY DEF InHandler
  <2>2. i \in DOMAIN handled => handled[i].key # KeyOfCall(session[r])
    BY <2>1 DEF GInv, CallOk, Holds, KeyOfCall
  <2> QED BY <1>6, <1>9, <1>10, <1>12, <2>1, <2>2
<1>14. Advance(authority_uses, step_executions, authority_uses', step_executions')
  BY SameTables DEF HandlerNode
<1>15. \A i \in DOMAIN handled' :
         i \in DOMAIN handled \/ HandledOk(authority_uses', step_executions', handled'[i])
  BY <1>7, <1>10 DEF HandlerNode
<1>16. ASSUME NEW c \in Session,
              session' = [session EXCEPT ![s] = c],
              Moved(authority_uses', step_executions', checkpoints, checkpoints'),
              CallOk(authority_uses', step_executions', checkpoints', handled', c),
              InHandler(c) => KeyOfCall(c) = k
       PROVE  GInv'
  <2>1. /\ authority_uses' \in Uses /\ step_executions' \in Rows
        /\ \A j \in Keys : step_executions'[j] = step_executions[j]
        /\ now' \in 0..MaxTime /\ calls' \in 0..MaxCalls
        /\ reviewed' \subseteq Threads \X Response /\ closed' \subseteq Threads
    BY DEF GInv, HandlerNode
  <2>2. InHandler(c) => \A r \in Sessions :
          r # s /\ InHandler(session[r]) => KeyOfCall(session[r]) # KeyOfCall(c)
    BY <1>12, <1>16
  <2>3. \A i \in DOMAIN handled : i \in DOMAIN handled' /\ handled'[i] = handled[i]
    BY <1>9
  <2>4. handled' \in Seq(HandlerCall)
    BY <1>9
  <2> QED BY <1>11, <1>13, <1>14, <1>15, <1>16, <2>1, <2>2, <2>3, <2>4, AnyStep
<1>17. CASE session' = [session EXCEPT ![s].pc = "seal", ![s].outcome = o] /\ UNCHANGED checkpoints
  <2>1. PICK c : c = [session[s] EXCEPT !.pc = "seal", !.outcome = o]
    OBVIOUS
  <2>2. /\ c \in Call /\ c.pc = "seal" /\ c.thread = t /\ c.values = v /\ c.outcome = o
        /\ c.interrupt = NoRow /\ c.registry = session[s].registry
    BY <1>1, <1>2, <1>3, <2>1, CallFacts DEF Call
  <2>3. session' = [session EXCEPT ![s] = c]
    BY <1>17, <2>1 DEF GInv
  <2>4. Moved(authority_uses', step_executions', checkpoints, checkpoints')
    BY <1>17, SameMoves
  <2>5. Holds(step_executions, handled', c)
    <3>1. \E i \in DOMAIN handled' : handled'[i].key = k
      BY <1>6, <1>9
    <3>2. Holds(step_executions, handled, session[s])
      BY <1>1 DEF GInv, CallOk
    <3> QED BY <1>2, <2>2, <3>1, <3>2 DEF Holds
  <2>6. CallOk(authority_uses', step_executions', checkpoints', handled', c)
    BY <1>2, <2>2, <2>5 DEF CallOk, NodeOf, HandlerNode
  <2> QED BY <1>2, <1>16, <2>2, <2>3, <2>4, <2>6 DEF Session, KeyOfCall
<1>18. CASE Raise(s)
  <2>1. PICK c \in Session : c = Idle
    BY DEF Session
  <2>2. Moved(authority_uses', step_executions', checkpoints, checkpoints')
    BY <1>1, <1>18, StoredMoves DEF Raise, HandlerNode
  <2>3. CallOk(authority_uses', step_executions', checkpoints', handled', c) /\ ~InHandler(c)
    BY <2>1 DEF CallOk, InHandler, Idle
  <2> QED BY <1>16, <1>18, <2>1, <2>2, <2>3 DEF Raise
<1> QED BY <1>17, <1>18 DEF HandlerNode

\* execute, the seal and what follows it.
LEMMA SealGInv ==
  ASSUME GInv, NEW s \in Sessions, SealNode(s)
  PROVE  GInv'
<1>1. session[s].pc = "seal" /\ NodeOf(session[s].pc) = "execute" /\ InHandler(session[s])
  BY DEF SealNode, AtNode, NodeOf, InHandler
<1>2. PICK v \in GraphState, t \in Threads, k \in Keys, d \in Digest :
        /\ v = session[s].values
        /\ t = session[s].thread
        /\ k = KeyOf(t, v)
        /\ d = request_digest(t, v)
        /\ Sound(authority_uses, step_executions, t, v, "execute")
        /\ k = KeyOfCall(session[s])
        /\ StepInDoubt(step_executions, k, d)
  <2>1. CallOk(authority_uses, step_executions, checkpoints, handled, session[s])
    BY DEF GInv
  <2> QED BY <1>1, <2>1, CallFacts, HandlerKey DEF GInv, KeyOfCall
<1>3. PICK o \in Outcomes : o = session[s].outcome /\ \E i \in DOMAIN handled : handled[i].key = k
  BY <1>1, <1>2 DEF GInv, CallOk, Holds
<1>4. PICK failed \in BOOLEAN : failed = (o.decision = "FAIL")
  OBVIOUS
<1>5. step_executions \in Rows /\ authority_uses \in Uses /\ now \in 0..MaxTime
  BY DEF GInv
<1>6. step_executions' = FinishTable(step_executions, k, d, o, failed)
  BY <1>2, <1>3, <1>4 DEF SealNode
<1>7. /\ step_executions' \in Rows
      /\ \A j \in Keys : j # k => step_executions'[j] = step_executions[j]
      /\ step_executions'[k] # NoRow
      /\ step_executions'[k].status = TerminalStatus(failed)
      /\ step_executions'[k].status # "STARTED"
      /\ step_executions'[k].outcome = o
  BY <1>2, <1>5, <1>6, FinishTableFacts
<1>8. ~FinishRaises(step_executions, k, d, o, failed)
  BY <1>2 DEF FinishRaises, StepInDoubt, StepNew, StepMismatch, StepTerminal
<1>9. PICK w : w = Completed(v, o, FALSE)
  OBVIOUS
<1>10. GoTo(s, w, AfterStep(w)) /\ UNCHANGED checkpoints
  BY <1>2, <1>3, <1>4, <1>8, <1>9 DEF SealNode
<1>11. Advance(authority_uses, step_executions, authority_uses', step_executions')
  BY <1>2, <1>7 DEF Advance, StepInDoubt, SealNode
<1>12. Sound(authority_uses', step_executions', t, v, "execute")
  BY <1>2, <1>11, SoundKept
<1>13. /\ w \in GraphState
       /\ AfterStep(w) \in {"gate", "finalize", "end"}
       /\ Sound(authority_uses', step_executions', t, w, AfterStep(w))
  <2>1. SealedWith(step_executions'[KeyOf(t, v)], o)
    BY <1>2, <1>4, <1>7 DEF SealedWith
  <2>2. FALSE \in BOOLEAN
    OBVIOUS
  <2> QED BY <1>5, <1>9, <1>12, <2>1, <2>2, CompletedFacts
<1>14. NodeOf(AfterStep(w)) = AfterStep(w)
  BY <1>13 DEF NodeOf
<1>15. \A j \in Keys :
         \/ step_executions'[j] = step_executions[j]
         \/ /\ RowOk(handled, j, step_executions'[j])
            /\ \A r \in Sessions : r # s /\ InHandler(session[r]) => KeyOfCall(session[r]) # j
  <2>1. RowOk(handled, k, step_executions'[k])
    BY <1>3, <1>4, <1>7 DEF RowOk
  <2>2. \A r \in Sessions : r # s /\ InHandler(session[r]) => KeyOfCall(session[r]) # k
    BY <1>1, <1>2 DEF GInv, OneHolder, KeyOfCall
  <2> QED BY <1>7, <2>1, <2>2
<1>16. Moved(authority_uses', step_executions', checkpoints, checkpoints')
  BY <1>10, SameMoves
<1>17. PICK node \in {"gate", "finalize", "end"} : node = AfterStep(w)
  BY <1>13
<1>18. /\ node \in {"gate", "claim", "finalize", "end"} /\ w \in GraphState
       /\ GoTo(s, w, node)
       /\ Sound(authority_uses', step_executions', session[s].thread, w, NodeOf(node))
  BY <1>2, <1>10, <1>13, <1>14, <1>17
<1>19. /\ authority_uses' \in Uses /\ step_executions' \in Rows
       /\ UNCHANGED <<now, calls, history>>
       /\ session[s].pc \notin {"idle", "resuming"}
  BY <1>1, <1>5, <1>7 DEF SealNode
<1> QED BY <1>11, <1>15, <1>16, <1>18, <1>19, GoToStep

-----------------------------------------------------------------------------
(***************************************************************************)
(* The invariant, and what follows from it                                 *)
(***************************************************************************)

\* Every step keeps the invariant.
LEMMA NextGInv == GInv /\ [Next]_vars => GInv'
<1> SUFFICES ASSUME GInv, [Next]_vars PROVE GInv'
  OBVIOUS
<1>1. ASSUME NEW s \in Sessions, Work(s) PROVE GInv'
  BY <1>1, EnterGInv, AuthorizeGInv, GateRecheckGInv, GateGInv, ClaimNodeGInv, HandlerGInv,
     SealGInv, FinalizeGInv, ReturnGInv DEF Work
<1>2. ASSUME Calm PROVE GInv'
  BY <1>1, <1>2, TickGInv, PersistGInv, StartGInv, ResumeGInv DEF Calm
<1>3. CASE UNCHANGED vars
  BY <1>3 DEF vars, GInv, AtMostOnce, OneHolder
<1> QED BY <1>2, <1>3, CrashGInv DEF Next

\* GInv holds in every reachable state, whatever sessions do, crash and race.
THEOREM SpecGInv == Spec => []GInv
BY InitGInv, NextGInv, PTL DEF Spec

\* The types, and where stored states stand.
LEMMA GInvType == GInv => TypeOK
<1> SUFFICES ASSUME GInv PROVE TypeOK
  OBVIOUS
<1>1. ASSUME NEW t \in Threads, checkpoints[t] # NoRow
      PROVE  /\ checkpoints[t].values.current_step <= Len(checkpoints[t].values.workflow.steps)
             /\ checkpoints[t].values.terminal <=> checkpoints[t].next = "end"
             /\ checkpoints[t].interrupt # NoRow => checkpoints[t].next = "gate"
  BY <1>1 DEF GInv, CheckpointOk, Sound, Placed
<1> QED BY <1>1 DEF GInv, Uses, Rows, Points, Session, TypeOK

\* Whatever the interleaving, every store, call and history has its type, and a
\* stored state is over exactly at the end of the graph.
THEOREM GraphTypeOK == Spec => []TypeOK
BY SpecGInv, GInvType, PTL

\* No handler of a (thread, workflow, step) is ever called twice, over any
\* crashes, resumes and races.
THEOREM GraphAtMostOnce == Spec => []AtMostOnce
<1>1. GInv => AtMostOnce
  BY DEF GInv
<1> QED BY <1>1, SpecGInv, PTL

\* A handler call stands on a state from a gate that accepted it, on a grant
\* its thread owns.
LEMMA HandledFacts ==
  ASSUME GInv, NEW i \in DOMAIN handled
  PROVE  /\ handled[i] \in HandlerCall
         /\ HandledOk(authority_uses, step_executions, handled[i])
         /\ handled[i].key[1] \in Threads
         /\ handled[i].state \in GraphState
         /\ Sound(authority_uses, step_executions, handled[i].key[1], handled[i].state, "execute")
<1>1. handled[i] \in HandlerCall
  BY LenProperties, ElementOfSeq DEF GInv
<1>2. HandledOk(authority_uses, step_executions, handled[i])
  BY DEF GInv
<1> QED BY <1>1, <1>2 DEF HandlerCall, Keys, HandledOk

\* A grant the policy accepts for a workflow is in force.
LEMMA AcceptedInForce ==
  ASSUME NEW workflow, NEW grant, NEW subject, NEW at \in Int, grant.expires_at \in Int,
         WorkflowReasons(workflow, grant, subject, at) = {}
  PROVE  InForce(grant, workflow, subject, at)
<1>1. /\ grant.subject = subject
      /\ grant.workflow_id = workflow.workflow_id
      /\ ~is_expired(grant, at)
  BY DEF WorkflowReasons
<1> QED BY <1>1 DEF is_expired, InForce

\* A step the policy accepts may run.
LEMMA AcceptedEntitled ==
  ASSUME NEW step, NEW descriptor, NEW grant, NEW ledger,
         StepReasons(step, descriptor, grant, ledger) = {}
  PROVE  Entitled(step, descriptor, grant, ledger)
<1>1. /\ step.capability \in grant.capabilities
      /\ step.capability \in descriptor.capabilities
      /\ effect_capability(step.effect) \subseteq grant.capabilities
      /\ missing(step, ledger) = {}
  BY DEF StepReasons
<1>2. /\ step.effect = "REVERSIBLE" => "effect:reversible" \in grant.capabilities
      /\ step.effect = "IRREVERSIBLE" => "effect:irreversible" \in grant.capabilities
  BY <1>1 DEF effect_capability
<1>3. \A kind \in step.requires : \E i \in DOMAIN ledger : ledger[i].kind = kind
  BY <1>1 DEF missing, kinds
<1> QED BY <1>1, <1>2, <1>3 DEF Entitled

\* The gate's verdict is dated, and grants expire at a date.
LEMMA JudgedInForce ==
  ASSUME NEW v \in GraphState, Judged(v)
  PROVE  InForce(v.authority, v.workflow, Subject, v.gated.at)
<1>1. v.gated \in Verdict
  BY DEF Judged, GraphState
<1>2. v.gated.at \in Int /\ v.authority.expires_at \in Int
  BY <1>1, BoundsAssumption, GrantsAssumption DEF Verdict, GraphState
<1> QED BY <1>2, AcceptedInForce DEF Judged

\* No handler is called before every earlier step was sealed with PASS.
THEOREM GraphEarlierStepsPassed == Spec => []EarlierStepsPassed
<1>1. ASSUME GInv PROVE EarlierStepsPassed
  <2> SUFFICES ASSUME NEW i \in DOMAIN handled, NEW n \in 1..handled[i].state.current_step
               PROVE  /\ RowOf(handled[i].key[1], handled[i].state, n) # NoRow
                      /\ RowOf(handled[i].key[1], handled[i].state, n).status = "COMPLETED"
                      /\ RowOf(handled[i].key[1], handled[i].state, n).outcome.decision = "PASS"
    BY DEF EarlierStepsPassed
  <2>1. Passed(step_executions, handled[i].key[1], handled[i].state)
    BY <1>1, HandledFacts DEF Sound
  <2> QED BY <2>1 DEF Passed, RowIn, RowOf
<1> QED BY <1>1, SpecGInv, PTL

\* No handler is called but on a state that the gate let through for that step
\* at a time the grant was valid, also from a checkpoint another session left.
THEOREM GraphGatedInTime == Spec => []GatedInTime
<1>1. ASSUME GInv PROVE GatedInTime
  <2> SUFFICES ASSUME NEW i \in DOMAIN handled
               PROVE  /\ handled[i].state.gated # NoRow
                      /\ handled[i].state.gated.verdict = "ready"
                      /\ handled[i].state.gated.step_id = handled[i].key[3]
                      /\ handled[i].state.gated.at < handled[i].state.authority.expires_at
    BY DEF GatedInTime
  <2>1. PICK h \in HandlerCall : h = handled[i]
    BY <1>1, HandledFacts
  <2>2. Judged(h.state)
    BY <1>1, <2>1, HandledFacts DEF Sound
  <2>3. h.key[3] = current(h.state).step_id
    BY <1>1, <2>1, HandledFacts DEF HandledOk, KeyOf
  <2>4. h.state.gated.at < h.state.authority.expires_at
    BY <1>1, <2>1, <2>2, HandledFacts, JudgedInForce DEF InForce
  <2> QED BY <2>1, <2>2, <2>3, <2>4 DEF Judged
<1> QED BY <1>1, SpecGInv, PTL

\* Handlers under one single-use authorization run on one thread.
THEOREM GraphSingleUseOneThread == Spec => []SingleUseOneThread
<1>1. ASSUME GInv PROVE SingleUseOneThread
  <2> SUFFICES ASSUME NEW i \in DOMAIN handled, NEW j \in DOMAIN handled,
                      handled[i].state.authority.single_use,
                      handled[j].state.authority.single_use,
                      handled[i].state.authority.authorization_id
                        = handled[j].state.authority.authorization_id
               PROVE  handled[i].key[1] = handled[j].key[1]
    BY DEF SingleUseOneThread
  <2>1. /\ Owned(authority_uses, handled[i].key[1], handled[i].state)
        /\ Owned(authority_uses, handled[j].key[1], handled[j].state)
    BY <1>1, HandledFacts DEF Sound
  <2> QED BY <2>1 DEF Owned, AuthorityResumed
<1> QED BY <1>1, SpecGInv, PTL

\* A call past authorize never finds its grant taken by another thread.
THEOREM GraphClaimLasts == Spec => []ClaimLasts
<1>1. ASSUME GInv PROVE ClaimLasts
  <2> SUFFICES ASSUME NEW s \in Sessions,
                      session[s].pc \in {"gate", "claim", "handler", "seal", "finalize"}
               PROVE  AuthorityAllowed(authority_uses, session[s].values.authority,
                                       session[s].thread)
    BY DEF ClaimLasts
  <2>1. NodeOf(session[s].pc) \in {"gate", "execute", "finalize"}
    BY DEF NodeOf
  <2>2. Owned(authority_uses, session[s].thread, session[s].values)
    BY <1>1, <2>1, CallFacts DEF Sound
  <2> QED BY <2>2 DEF Owned, AuthorityAllowed
<1> QED BY <1>1, SpecGInv, PTL

\* The states that exist are sound.
LEMMA StatesFacts ==
  ASSUME GInv, NEW t \in Threads, NEW v \in StatesOf(t)
  PROVE  /\ v \in GraphState
         /\ \E node : Sound(authority_uses, step_executions, t, v, node)
<1>1. CASE checkpoints[t] # NoRow /\ v = checkpoints[t].values
  BY <1>1 DEF GInv, Points, Checkpoint, CheckpointOk
<1>2. CASE \E s \in Sessions : Running(s) /\ session[s].thread = t /\ v = session[s].values
  BY <1>2, CallFacts DEF Running
<1> QED BY <1>1, <1>2 DEF StatesOf

\* The step results a state reports are those the journal sealed.
THEOREM GraphResultsMatchJournal == Spec => []ResultsMatchJournal
<1>1. ASSUME GInv PROVE ResultsMatchJournal
  <2> SUFFICES ASSUME NEW t \in Threads, NEW v \in StatesOf(t)
               PROVE  \A n \in DOMAIN v.step_results :
                        v.step_results[n].decision \in {"PASS", "FAIL"} =>
                          /\ RowOf(t, v, n) # NoRow
                          /\ RowOf(t, v, n).status # "STARTED"
                          /\ RowOf(t, v, n).outcome.decision = v.step_results[n].decision
    BY DEF ResultsMatchJournal
  <2>1. Recorded(step_executions, t, v)
    BY <1>1, StatesFacts DEF Sound
  <2> QED BY <2>1 DEF Recorded, RowIn, RowOf
<1> QED BY <1>1, SpecGInv, PTL

\* What holds of a handler call whatever processes took part: its grant was in
\* force at its gate, and the step was entitled to run by the agent the registry
\* asked there knew by that name.
CallsAreGranted ==
  \A i \in DOMAIN handled :
    LET v == handled[i].state
    IN  /\ InForce(v.authority, v.workflow, Subject, v.gated.at)
        /\ \E r \in Registries :
             /\ current(v).agent_id \in DOMAIN r
             /\ Entitled(current(v), r[current(v).agent_id], v.authority, v.evidence)

\* However many processes with whatever registries enter a thread between a gate
\* and its execute node (which looks the agent up again, but asks no policy), a
\* handler is called only under a valid grant that has the step's capability and
\* its effect's, on a chain with the evidence the step requires, and for an agent
\* that was judged.
THEOREM GraphCallsAreGranted == Spec => []CallsAreGranted
<1>1. ASSUME GInv PROVE CallsAreGranted
  <2> SUFFICES ASSUME NEW i \in DOMAIN handled
               PROVE  LET v == handled[i].state
                      IN  /\ InForce(v.authority, v.workflow, Subject, v.gated.at)
                          /\ \E r \in Registries :
                               /\ current(v).agent_id \in DOMAIN r
                               /\ Entitled(current(v), r[current(v).agent_id],
                                           v.authority, v.evidence)
    BY DEF CallsAreGranted
  <2>1. PICK h \in HandlerCall : h = handled[i]
    BY <1>1, HandledFacts
  <2>2. Judged(h.state)
    BY <1>1, <2>1, HandledFacts DEF Sound
  <2>3. PICK r \in Registries :
          /\ current(h.state).agent_id \in DOMAIN r
          /\ StepReasons(current(h.state), r[current(h.state).agent_id],
                         h.state.authority, h.state.evidence) = {}
    BY <2>2 DEF Judged
  <2>4. Entitled(current(h.state), r[current(h.state).agent_id],
                 h.state.authority, h.state.evidence)
    BY <2>3, AcceptedEntitled
  <2>5. InForce(h.state.authority, h.state.workflow, Subject, h.state.gated.at)
    BY <1>1, <2>1, <2>2, HandledFacts, JudgedInForce
  <2> QED BY <2>1, <2>3, <2>4, <2>5
<1> QED BY <1>1, SpecGInv, PTL

\* Processes whose registries agree on what an agent may do.
SameDescriptors ==
  \A q, r \in Registries : \A a \in DOMAIN q \cap DOMAIN r :
    q[a].capabilities = r[a].capabilities

\* A handler is called only when the whole policy accepts the call, if the
\* processes agree on their agents' capabilities: execute calls the descriptor
\* of its own registry, the gate may have judged another process's.
THEOREM GraphCallsSatisfyPolicy ==
  ASSUME SameDescriptors
  PROVE  Spec => []CallsSatisfyPolicy
<1>1. ASSUME GInv PROVE CallsSatisfyPolicy
  <2> SUFFICES ASSUME NEW i \in DOMAIN handled
               PROVE  LET v == handled[i].state
                      IN  /\ InForce(v.authority, v.workflow, Subject, v.gated.at)
                          /\ Entitled(current(v), handled[i].descriptor,
                                      v.authority, v.evidence)
    BY DEF CallsSatisfyPolicy
  <2>1. PICK h \in HandlerCall : h = handled[i]
    BY <1>1, HandledFacts
  <2>2. Judged(h.state)
    BY <1>1, <2>1, HandledFacts DEF Sound
  <2>3. PICK r \in Registries :
          /\ current(h.state).agent_id \in DOMAIN r
          /\ StepReasons(current(h.state), r[current(h.state).agent_id],
                         h.state.authority, h.state.evidence) = {}
    BY <2>2 DEF Judged
  <2>4. h.descriptor.capabilities = r[current(h.state).agent_id].capabilities
    BY <1>1, <2>1, <2>3, HandledFacts DEF HandledOk, SameDescriptors
  <2>5. Entitled(current(h.state), r[current(h.state).agent_id],
                 h.state.authority, h.state.evidence)
    BY <2>3, AcceptedEntitled
  <2>6. Entitled(current(h.state), h.descriptor, h.state.authority, h.state.evidence)
    BY <2>4, <2>5 DEF Entitled
  <2>7. InForce(h.state.authority, h.state.workflow, Subject, h.state.gated.at)
    BY <1>1, <2>1, <2>2, HandledFacts, JudgedInForce
  <2> QED BY <2>1, <2>6, <2>7
<1> QED BY <1>1, SpecGInv, PTL
===============================================================================
