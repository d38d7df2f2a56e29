--------------------------- MODULE CoreRuntimeProofs ---------------------------
(***************************************************************************)
(* Safety of GovernedRuntime.execute for any threads, workflows, grants,   *)
(* registry, outcomes and ledgers, and any bounds.                         *)
(*                                                                         *)
(* A step moves one execution and what has its number; CInv says what an   *)
(* execution in progress, a call and a result owe to the calls recorded so *)
(* far, as operators over values.  What is over stays as it is (Over), so  *)
(* that an execution can rely on the calls of those before it.             *)
(***************************************************************************)
EXTENDS CoreRuntime, SequenceTheorems, TLAPS

-----------------------------------------------------------------------------
(***************************************************************************)
(* The inductive invariant                                                 *)
(***************************************************************************)

\* The process has one thread.
OneThread == \A c, d \in Callers : c = d

\* The execution was started, and no caller is in it any more.
Over(begun, running, n) ==
  /\ n \in 1..begun
  /\ \A d \in Callers : running[d] # Idle => running[d].number # n

\* The grant was not used by an execution that was over when x began.
Apart(done, x) ==
  \A m \in x.past : \A i \in DOMAIN done[m] :
    /\ done[m][i].state.authority.single_use
    /\ x.authority.single_use
    => done[m][i].state.authority.authorization_id # x.authority.authorization_id

\* With one thread, all that were numbered before x were over when it began.
InOrder(x) == OneThread => \A m \in 1..(x.number - 1) : m \in x.past

\* The calls of an execution in progress are its steps so far: the workflow's
\* first ones, which all passed and are on its chain.
Follows(mine, x) ==
  /\ Len(mine) = Len(x.steps)
  /\ Len(x.steps) <= Len(x.workflow.steps)
  /\ \A i \in 1..Len(x.steps) :
       /\ mine[i].step_id = x.steps[i].step_id
       /\ mine[i].decision = "PASS"
       /\ x.steps[i].decision = "PASS"
       /\ x.steps[i].step_id = x.workflow.steps[i].step_id
       /\ \E n \in DOMAIN x.evidence : x.evidence[n].step_id = x.steps[i].step_id

\* The grant of x, if single-use, is consumed.
Held(used, x) == x.authority.single_use => x.authority.authorization_id \in used

\* An execution in progress.
ExecutionOk(used, done, x) ==
  /\ WorkflowReasons(x.workflow, x.authority, Subject, x.admitted) = {}
  /\ x.pc \in {"consume", "add"} => x.steps = <<>>
  /\ x.pc = "add" => x.authority.single_use
  /\ x.pc = "complete" <=> Len(x.steps) = Len(x.workflow.steps)
  /\ x.pc = "handler" => StepAllowed(x)
  /\ x.pc \in {"step", "handler", "complete"} => Held(used, x)
  /\ x.pc # "consume" => Apart(done, x)
  /\ InOrder(x)
  /\ Follows(done[x.number], x)

\* The i-th call of execution n.
CallOk(used, done, n, i) ==
  LET h == done[n][i]
  IN  /\ h.state.number = n
      /\ Len(h.state.steps) + 1 = i
      /\ WorkflowReasons(h.state.workflow, h.state.authority, Subject, h.state.admitted) = {}
      /\ StepAllowed(h.state)
      /\ Held(used, h.state)
      /\ h.step_id = h.state.workflow.steps[i].step_id
      /\ i < Len(done[n]) => h.decision = "PASS"
      /\ Apart(done, h.state)
      /\ InOrder(h.state)

\* A result, next to the calls of its execution.
ResultOk(mine, r) ==
  /\ \/ Len(r.steps) = Len(mine)
     \/ Len(r.steps) = Len(mine) + 1 /\ r.decision = "BLOCKED"
  /\ \A i \in DOMAIN mine : /\ r.steps[i].step_id = mine[i].step_id
                            /\ r.steps[i].decision = mine[i].decision
  /\ r.decision = "PASS" =>
       /\ Len(mine) = Len(r.workflow.steps)
       /\ \A i \in DOMAIN mine : mine[i].decision = "PASS"
  /\ ~r.authority_consumed => mine = <<>>
  /\ \A i \in DOMAIN mine : \E n \in DOMAIN r.evidence :
       r.evidence[n].step_id = mine[i].step_id

CInv ==
  /\ TypeOK
  /\ \A c, d \in Callers :
       execution[c] # Idle /\ execution[d] # Idle
         /\ execution[c].number = execution[d].number => c = d
  /\ \A c \in Callers : execution[c] # Idle =>
       /\ execution[c].number \in 1..started
       /\ \A m \in execution[c].past : Over(started, execution, m)
       /\ ExecutionOk(consumed, calls, execution[c])
  /\ \A n \in Numbers : n > started => calls[n] = <<>>
  /\ \A n \in Numbers : \A i \in DOMAIN calls[n] :
       /\ \A m \in calls[n][i].state.past : Over(started, execution, m)
       /\ CallOk(consumed, calls, n, i)
  /\ \A r \in results : Over(started, execution, r.number) /\ ResultOk(calls[r.number], r)

-----------------------------------------------------------------------------
(***************************************************************************)
(* What a step leaves as it was                                            *)
(***************************************************************************)

\* What is over stays over: a step of c moves an execution that is running, or
\* one with a new number.
LEMMA OverKept ==
  ASSUME NEW begun \in Nat, NEW later \in Nat, begun <= later,
         NEW running \in [Callers -> {Idle} \cup Execution],
         NEW c \in Callers, NEW y,
         \/ y = Idle
         \/ running[c] # Idle /\ y.number = running[c].number
         \/ y.number = begun + 1,
         NEW m, Over(begun, running, m)
  PROVE  Over(later, [running EXCEPT ![c] = y], m)
<1> m \in 1..begun /\ m \in 1..later BY DEF Over
<1>1. ASSUME NEW d \in Callers, [running EXCEPT ![c] = y][d] # Idle
      PROVE  [running EXCEPT ![c] = y][d].number # m
  <2>1. CASE d = c BY <1>1, <2>1 DEF Over
  <2>2. CASE d # c BY <1>1, <2>2 DEF Over
  <2> QED BY <2>1, <2>2
<1> QED BY <1>1 DEF Over

\* A call of execution n keeps what it owes when the calls recorded under n and
\* before it stay as they are and grants are only added.
LEMMA CallKept ==
  ASSUME NEW used, NEW more, used \subseteq more,
         NEW done, NEW also, NEW n, NEW i,
         also[n] = done[n],
         \A m \in done[n][i].state.past : also[m] = done[m],
         CallOk(used, done, n, i)
  PROVE  CallOk(more, also, n, i)
<1> DEFINE h == done[n][i]
<1>1. also[n][i] = h OBVIOUS
<1>2. Apart(done, h.state) BY DEF CallOk
<1>3. Apart(also, h.state) BY <1>2 DEF Apart
<1> QED BY <1>1, <1>3 DEF CallOk, Held

\* A step of one caller, in execution n, that leaves the calls of the others as
\* they were, preserves the invariant when what it leaves behind is in order.
LEMMA StepCInv ==
  ASSUME CInv, TypeOK',
         NEW c \in Callers, NEW y \in {Idle} \cup Execution, NEW n \in Numbers,
         execution' = [execution EXCEPT ![c] = y],
         consumed \subseteq consumed',
         \/ execution[c] # Idle /\ n = execution[c].number /\ started' = started
         \/ execution[c] = Idle /\ n = started + 1 /\ started' = n,
         y # Idle =>
           /\ y.number = n
           /\ \A m \in y.past : Over(started, execution, m)
           /\ ExecutionOk(consumed', calls', y),
         \A m \in Numbers : m # n => calls'[m] = calls[m],
         \A i \in DOMAIN calls'[n] :
           /\ \A m \in calls'[n][i].state.past : Over(started, execution, m)
           /\ CallOk(consumed', calls', n, i),
         \A r \in results' :
           r \in results \/ (y = Idle /\ r.number = n /\ ResultOk(calls'[n], r))
  PROVE  CInv'
<1> USE BoundsAssumption
<1>1. /\ started \in Nat /\ started' \in Nat /\ started <= started' /\ started' <= MaxExecutions
      /\ execution \in [Callers -> {Idle} \cup Execution]
  BY DEF CInv, TypeOK, Numbers
<1>2. n \in 1..started'
  BY <1>1 DEF CInv, Numbers
<1>3. ASSUME NEW m, Over(started, execution, m) PROVE m # n /\ m \in Numbers
  <2>1. CASE execution[c] # Idle BY <1>1, <1>3, <2>1 DEF Over, Numbers
  <2>2. CASE execution[c] = Idle BY <1>1, <1>3, <2>2 DEF Over, Numbers
  <2> QED BY <2>1, <2>2
<1>4. ASSUME NEW m, Over(started, execution, m) PROVE Over(started', execution', m)
  <2>1. \/ y = Idle
        \/ execution[c] # Idle /\ y.number = execution[c].number
        \/ y.number = started + 1
    OBVIOUS
  <2> QED BY <1>1, <1>4, <2>1, OverKept
<1>5. ASSUME NEW a \in Callers, NEW b \in Callers, execution'[a] # Idle, execution'[b] # Idle,
             execution'[a].number = execution'[b].number
      PROVE  a = b
  <2>1. ASSUME NEW d \in Callers, d # c, execution[d] # Idle PROVE execution[d].number # n
    BY <1>1, <2>1 DEF CInv, Numbers
  <2>2. CASE a = c /\ b # c BY <1>1, <1>5, <2>1, <2>2
  <2>3. CASE b = c /\ a # c BY <1>1, <1>5, <2>1, <2>3
  <2>4. CASE a # c /\ b # c BY <1>1, <1>5, <2>4 DEF CInv
  <2> QED BY <2>2, <2>3, <2>4
<1>6. ASSUME NEW d \in Callers, execution'[d] # Idle
      PROVE  /\ execution'[d].number \in 1..started'
             /\ \A m \in execution'[d].past : Over(started', execution', m)
             /\ ExecutionOk(consumed', calls', execution'[d])
  <2>1. CASE d = c
    <3>1. execution'[d] = y BY <1>1, <2>1
    <3> QED BY <1>2, <1>4, <1>6, <3>1
  <2>2. CASE d # c
    <3>1. PICK x : x = execution[d] OBVIOUS
    <3>2. execution'[d] = x BY <1>1, <2>2, <3>1
    <3>3. /\ x # Idle
          /\ x.number \in 1..started
          /\ \A m \in x.past : Over(started, execution, m)
          /\ ExecutionOk(consumed, calls, x)
      BY <1>6, <3>1, <3>2 DEF CInv
    <3>4. x.number # n /\ x.number \in Numbers
      BY <1>1, <2>2, <3>1, <3>3 DEF CInv, Numbers
    <3>5. calls'[x.number] = calls[x.number] BY <3>4
    <3>6. \A m \in x.past : calls'[m] = calls[m] BY <1>3, <3>3
    <3>7. Apart(calls, x) => Apart(calls', x) BY <3>6 DEF Apart
    <3>8. ExecutionOk(consumed', calls', x)
      BY <3>3, <3>5, <3>7 DEF ExecutionOk, Held
    <3>9. x.number \in 1..started' BY <1>1, <3>3
    <3>10. \A m \in x.past : Over(started', execution', m) BY <1>4, <3>3
    <3> QED BY <3>2, <3>8, <3>9, <3>10
  <2> QED BY <2>1, <2>2
<1>7. ASSUME NEW m \in Numbers, m > started' PROVE calls'[m] = <<>>
  BY <1>1, <1>2, <1>7 DEF CInv, Numbers
<1>8. ASSUME NEW k \in Numbers, NEW i \in DOMAIN calls'[k]
      PROVE  /\ \A m \in calls'[k][i].state.past : Over(started', execution', m)
             /\ CallOk(consumed', calls', k, i)
  <2>1. CASE k = n BY <1>4, <2>1
  <2>2. CASE k # n
    <3>1. calls'[k] = calls[k] BY <2>2
    <3>2. /\ \A m \in calls[k][i].state.past : Over(started, execution, m)
          /\ CallOk(consumed, calls, k, i)
      BY <3>1 DEF CInv
    <3>3. \A m \in calls[k][i].state.past : calls'[m] = calls[m] BY <1>3, <3>2
    <3>4. CallOk(consumed', calls', k, i) BY <3>1, <3>2, <3>3, CallKept
    <3> QED BY <1>4, <3>1, <3>2, <3>4
  <2> QED BY <2>1, <2>2
<1>9. ASSUME NEW r \in results'
      PROVE  Over(started', execution', r.number) /\ ResultOk(calls'[r.number], r)
  <2>1. CASE r \in results
    <3>1. Over(started, execution, r.number) /\ ResultOk(calls[r.number], r) BY <2>1 DEF CInv
    <3>2. calls'[r.number] = calls[r.number] BY <1>3, <3>1
    <3> QED BY <1>4, <3>1, <3>2
  <2>2. CASE y = Idle /\ r.number = n /\ ResultOk(calls'[n], r)
    <3>1. ASSUME NEW d \in Callers, execution'[d] # Idle PROVE execution'[d].number # n
      <4>1. d # c /\ execution'[d] = execution[d] BY <1>1, <2>2, <3>1
      <4> QED BY <1>1, <3>1, <4>1 DEF CInv, Numbers
    <3> QED BY <1>2, <2>2, <3>1 DEF Over
  <2> QED BY <2>1, <2>2
<1> QED BY <1>5, <1>6, <1>7, <1>8, <1>9 DEF CInv

-----------------------------------------------------------------------------
(***************************************************************************)
(* What the steps build                                                    *)
(***************************************************************************)

\* The step an execution is at is one of its workflow's.
LEMMA CurrentStep ==
  ASSUME NEW x \in Execution, Len(x.steps) < Len(x.workflow.steps)
  PROVE  /\ current(x) \in Steps
         /\ current(x).step_id \in StepIds
         /\ current(x).agent_id \in {p.agent_id : p \in Steps}
<1>1. x.workflow \in Workflows /\ x.steps \in Seq([step_id : StepIds, decision : Decisions])
  BY DEF Execution, StepResults
<1>2. x.workflow.steps \in Seq(Steps) BY <1>1, WorkflowsAssumption
<1>3. Len(x.steps) \in Nat BY <1>1, LenProperties
<1>4. Len(x.steps) + 1 \in 1..Len(x.workflow.steps) BY <1>2, <1>3, LenProperties
<1>5. current(x) \in Steps BY <1>2, <1>4, ElementOfSeq DEF current
<1> QED BY <1>5 DEF StepIds

\* What the runtime puts on a chain is a record.
LEMMA RecordOfRuntime ==
  ASSUME NEW kind \in EvidenceKinds, NEW at \in 0..MaxTime, NEW id \in StepIds \cup {"-"}
  PROVE  RuntimeRecord(kind, at, id) \in EvidenceRecord
BY DEF RuntimeRecord, EvidenceRecord

\* A sequence, continued: what it held, then the rest, then the last element.
LEMMA Continued ==
  ASSUME NEW S, NEW s \in Seq(S), NEW t \in Seq(S), NEW e \in S,
         NEW u, u = s \o Append(t, e)
  PROVE  /\ u \in Seq(S)
         /\ Len(u) = Len(s) + Len(t) + 1
         /\ \A i \in 1..Len(s) : u[i] = s[i]
         /\ u[Len(u)] = e
<1>1. PICK v : v = Append(t, e) OBVIOUS
<1>2. v \in Seq(S) /\ Len(v) = Len(t) + 1 /\ v[Len(t) + 1] = e BY <1>1, AppendProperties
<1>3. u = s \o v BY <1>1
<1>4. u \in Seq(S) /\ Len(u) = Len(s) + Len(v) BY <1>2, <1>3, ConcatProperties
<1>5. Len(s) \in Nat /\ Len(t) \in Nat BY LenProperties
<1>6. \A i \in 1..(Len(s) + Len(v)) : u[i] = IF i <= Len(s) THEN s[i] ELSE v[i - Len(s)]
  BY <1>2, <1>3, ConcatProperties
<1>7. \A i \in 1..Len(s) : u[i] = s[i] BY <1>2, <1>5, <1>6
<1>8. u[Len(u)] = e BY <1>2, <1>4, <1>5, <1>6
<1> QED BY <1>2, <1>4, <1>7, <1>8

\* A sequence with one element more.
LEMMA Longer ==
  ASSUME NEW S, NEW s \in Seq(S), NEW e \in S, NEW u, u = Append(s, e)
  PROVE  /\ u \in Seq(S)
         /\ Len(u) = Len(s) + 1 /\ Len(s) \in Nat
         /\ \A i \in 1..Len(s) : u[i] = s[i]
         /\ u[Len(s) + 1] = e
<1>1. Len(s) \in Nat BY LenProperties
<1>2. u \in Seq(S) /\ Len(u) = Len(s) + 1 /\ u[Len(s) + 1] = e BY AppendProperties
<1>3. \A i \in 1..Len(s) : u[i] = s[i] BY <1>1, AppendProperties
<1> QED BY <1>1, <1>2, <1>3

\* What s holds stays where it is.
Prolongs(s, u) == \A i \in DOMAIN s : i \in DOMAIN u /\ u[i] = s[i]

\* The execution goes on as it was, with more evidence.
Extends(x, y) ==
  /\ y.number = x.number /\ y.workflow = x.workflow /\ y.authority = x.authority
  /\ y.admitted = x.admitted /\ y.past = x.past
  /\ Prolongs(x.evidence, y.evidence)

\* One record more on the chain of an execution.
LEMMA NotedEvidence ==
  ASSUME NEW x \in Execution, NEW e \in EvidenceRecord, NEW u, u = Append(x.evidence, e)
  PROVE  u \in Seq(EvidenceRecord) /\ Prolongs(x.evidence, u)
<1>1. x.evidence \in Seq(EvidenceRecord) BY DEF Execution
<1>2. /\ u \in Seq(EvidenceRecord)
      /\ Len(u) = Len(x.evidence) + 1 /\ Len(x.evidence) \in Nat
      /\ \A i \in 1..Len(x.evidence) : u[i] = x.evidence[i]
  BY <1>1, Longer
<1>3. DOMAIN x.evidence = 1..Len(x.evidence) /\ DOMAIN u = 1..Len(u)
  BY <1>1, <1>2, LenProperties
<1> QED BY <1>2, <1>3 DEF Prolongs

\* What Recorded makes of an execution: a step result more, a record of the step.
LEMMA RecordedIs ==
  ASSUME NEW x \in Execution, Len(x.steps) < Len(x.workflow.steps),
         NEW o \in Outcomes, now \in 0..MaxTime, NEW y, y = Recorded(x, o)
  PROVE  /\ y \in Execution /\ Extends(x, y)
         /\ y.steps = Append(x.steps, StepResult(x, DecisionOf(o)))
         /\ \E n \in DOMAIN y.evidence : y.evidence[n].step_id = current(x).step_id
<1> DEFINE items == [i \in DOMAIN o.evidence |->
                       [producer |-> current(x).agent_id, kind |-> o.evidence[i],
                        at |-> now, step_id |-> "-"]]
           last == RuntimeRecord(StepKind[o.decision], now, current(x).step_id)
<1>1. /\ x.evidence \in Seq(EvidenceRecord)
      /\ x.steps \in Seq([step_id : StepIds, decision : Decisions])
  BY DEF Execution, StepResults
<1>2. /\ o.decision \in Decisions \cup {"EXCEPTION"}
      /\ o.evidence \in Seq(EvidenceKinds)
  BY OutcomesAssumption
<1>3. /\ StepKind[o.decision] \in EvidenceKinds
      /\ DecisionOf(o) \in Decisions
  BY <1>2 DEF StepKind, EvidenceKinds, DecisionOf, Decisions
<1>4. /\ current(x).step_id \in StepIds
      /\ current(x).agent_id \in {p.agent_id : p \in Steps}
  BY CurrentStep
<1>5. last \in EvidenceRecord BY <1>3, <1>4, RecordOfRuntime
<1>6. last.step_id = current(x).step_id BY DEF RuntimeRecord
<1>7. items \in Seq(EvidenceRecord)
  <2>1. Len(o.evidence) \in Nat /\ DOMAIN o.evidence = 1..Len(o.evidence)
    BY <1>2, LenProperties
  <2>2. ASSUME NEW i \in 1..Len(o.evidence) PROVE items[i] \in EvidenceRecord
    <3>1. o.evidence[i] \in EvidenceKinds BY <1>2, ElementOfSeq
    <3>2. items[i] = [producer |-> current(x).agent_id, kind |-> o.evidence[i],
                      at |-> now, step_id |-> "-"]
      BY <2>1
    <3> QED BY <1>4, <3>1, <3>2 DEF EvidenceRecord
  <2> HIDE DEF items
  <2>3. DOMAIN items = 1..Len(o.evidence) BY <2>1 DEF items
  <2>4. items \in [1..Len(o.evidence) -> EvidenceRecord] BY <2>2, <2>3 DEF items
  <2> QED BY <2>1, <2>4, SeqDef
<1>8. PICK u, k, t : /\ u = x.evidence \o Append(items, last)
                     /\ k = [step_id |-> current(x).step_id, decision |-> DecisionOf(o)]
                     /\ t = Append(x.steps, k)
  OBVIOUS
<1>9. y = [x EXCEPT !.evidence = u, !.steps = t] BY <1>8 DEF Recorded, StepResult
<1> HIDE DEF items, last
<1>10. u \in Seq(EvidenceRecord) /\ Prolongs(x.evidence, u)
       /\ Len(u) \in DOMAIN u /\ u[Len(u)] = last
  <2>1. PICK ev : ev = x.evidence OBVIOUS
  <2>2. ev \in Seq(EvidenceRecord) /\ u = ev \o Append(items, last) BY <1>1, <1>8, <2>1
  <2> HIDE <2>1
  <2>3. /\ u \in Seq(EvidenceRecord)
        /\ Len(u) = Len(ev) + Len(items) + 1
        /\ \A i \in 1..Len(ev) : u[i] = ev[i]
        /\ u[Len(u)] = last
    BY <1>5, <1>7, <2>2, Continued
  <2>4. /\ Len(ev) \in Nat /\ Len(items) \in Nat
        /\ DOMAIN u = 1..Len(u) /\ DOMAIN ev = 1..Len(ev)
    BY <1>7, <2>2, <2>3, LenProperties
  <2>5. Prolongs(ev, u) /\ Len(u) \in DOMAIN u BY <2>3, <2>4 DEF Prolongs
  <2> QED BY <2>1, <2>3, <2>5
<1>11. k \in [step_id : StepIds, decision : Decisions] BY <1>3, <1>4, <1>8
<1>12. t \in StepResults BY <1>1, <1>8, <1>11, Longer DEF StepResults
<1>13. y \in Execution BY <1>9, <1>10, <1>12 DEF Execution
<1>14. /\ y.number = x.number /\ y.workflow = x.workflow /\ y.authority = x.authority
       /\ y.admitted = x.admitted /\ y.past = x.past
       /\ y.evidence = u /\ y.steps = t
  BY <1>9 DEF Execution
<1>15. Len(u) \in DOMAIN u /\ u[Len(u)].step_id = current(x).step_id BY <1>6, <1>10
<1>16. y.steps = Append(x.steps, StepResult(x, DecisionOf(o)))
  BY <1>8, <1>14 DEF StepResult
<1>17. Extends(x, y) BY <1>10, <1>14 DEF Extends
<1> QED BY <1>13, <1>14, <1>15, <1>16, <1>17

-----------------------------------------------------------------------------
(***************************************************************************)
(* The invariant holds at first and every step preserves it                *)
(***************************************************************************)

LEMMA InitCInv == Init => CInv
<1> SUFFICES ASSUME Init PROVE CInv
  OBVIOUS
<1> USE BoundsAssumption DEF Init
<1>1. TypeOK BY EmptySeq DEF TypeOK
<1>2. \A n \in Numbers : \A i \in DOMAIN calls[n] : FALSE BY EmptySeq
<1> QED BY <1>1, <1>2 DEF CInv

\* An execution that a caller is in: its type, its number and what it owes.
LEMMA Running ==
  ASSUME CInv, NEW c \in Callers, execution[c].pc # "idle"
  PROVE  /\ execution[c] \in Execution /\ execution[c] # Idle
         /\ execution[c].number \in Numbers /\ execution[c].number \in 1..started
         /\ \A m \in execution[c].past :
              Over(started, execution, m) /\ m # execution[c].number
         /\ ExecutionOk(consumed, calls, execution[c])
         /\ calls[execution[c].number] \in Seq(HandlerCall)
<1>1. execution[c] # Idle BY DEF Idle
<1>2. execution[c] \in Execution BY <1>1 DEF CInv, TypeOK
<1>3. execution[c].number \in Numbers BY <1>2 DEF Execution
<1> QED BY <1>1, <1>2, <1>3 DEF CInv, TypeOK, Over

\* What was recorded of an execution stays in order when grants are only added.
LEMMA OldCalls ==
  ASSUME CInv, NEW n \in Numbers, consumed \subseteq consumed', calls' = calls
  PROVE  \A i \in DOMAIN calls'[n] :
           /\ \A m \in calls'[n][i].state.past : Over(started, execution, m)
           /\ CallOk(consumed', calls', n, i)
<1> SUFFICES ASSUME NEW i \in DOMAIN calls[n]
             PROVE  /\ \A m \in calls[n][i].state.past : Over(started, execution, m)
                    /\ CallOk(consumed', calls, n, i)
  OBVIOUS
<1>1. /\ \A m \in calls[n][i].state.past : Over(started, execution, m)
      /\ CallOk(consumed, calls, n, i)
  BY DEF CInv
<1>2. CallOk(consumed', calls, n, i) BY <1>1, CallKept
<1> QED BY <1>1, <1>2

\* A caller's execution goes on without a call.
LEMMA GoOn ==
  ASSUME CInv, NEW c \in Callers, execution[c].pc # "idle",
         NEW y \in Execution, Extends(execution[c], y),
         execution' = [execution EXCEPT ![c] = y],
         consumed \subseteq consumed', consumed' \subseteq {g.authorization_id : g \in Grants},
         ExecutionOk(consumed', calls, y),
         UNCHANGED <<now, started, calls, results>>
  PROVE  CInv'
<1>1. PICK x : x = execution[c] OBVIOUS
<1>2. /\ x \in Execution /\ x # Idle /\ x.number \in Numbers
      /\ \A m \in x.past : Over(started, execution, m)
  BY <1>1, Running
<1>3. y.number = x.number /\ y.past = x.past /\ y # Idle
  BY <1>1, <1>2 DEF Extends, Execution, Idle
<1>4. TypeOK' BY DEF CInv, TypeOK
<1>5. \A i \in DOMAIN calls'[x.number] :
        /\ \A m \in calls'[x.number][i].state.past : Over(started, execution, m)
        /\ CallOk(consumed', calls', x.number, i)
  BY <1>2, OldCalls
<1> QED BY <1>1, <1>2, <1>3, <1>4, <1>5, StepCInv

\* A caller's execution ends without a call.
LEMMA GoOut ==
  ASSUME CInv, NEW c \in Callers, execution[c].pc # "idle",
         NEW y \in Execution, Extends(execution[c], y),
         NEW decision \in Decisions, NEW used \in BOOLEAN,
         Terminal(c, y, decision, used),
         ResultOk(calls[y.number],
                  [number |-> y.number, decision |-> decision, steps |-> y.steps,
                   evidence |-> y.evidence, workflow |-> y.workflow,
                   authority |-> y.authority, authority_consumed |-> used]),
         UNCHANGED <<consumed, now, started, calls>>
  PROVE  CInv'
<1>1. PICK n : n = execution[c].number OBVIOUS
<1>2. n \in Numbers /\ execution[c] # Idle BY <1>1, Running
<1>3. y.number = n BY <1>1 DEF Extends
<1>4. PICK r : r = [number |-> y.number, decision |-> decision, steps |-> y.steps,
                    evidence |-> y.evidence, workflow |-> y.workflow,
                    authority |-> y.authority, authority_consumed |-> used]
  OBVIOUS
<1>5. r \in WorkflowResult /\ r.number = n BY <1>3, <1>4 DEF WorkflowResult, Execution
<1>6. /\ execution' = [execution EXCEPT ![c] = Idle]
      /\ results' = results \/ results' = results \cup {r}
  BY <1>4 DEF Terminal, Raises
<1>7. TypeOK' BY <1>5, <1>6 DEF CInv, TypeOK
<1>8. \A i \in DOMAIN calls'[n] :
        /\ \A m \in calls'[n][i].state.past : Over(started, execution, m)
        /\ CallOk(consumed', calls', n, i)
  BY <1>2, OldCalls
<1>9. ResultOk(calls'[n], r) BY <1>3, <1>4
<1> QED BY <1>1, <1>2, <1>5, <1>6, <1>7, <1>8, <1>9, StepCInv

\* A workflow has steps.
LEMMA SomeSteps ==
  ASSUME NEW w \in Workflows
  PROVE  Len(w.steps) \in Nat /\ Len(w.steps) > 0
<1>1. w.steps \in Seq(Steps) /\ w.steps # <<>> BY WorkflowsAssumption
<1> QED BY <1>1, EmptySeq, LenProperties

\* execute up to the registry check.
LEMMA ExecuteCInv ==
  ASSUME CInv, NEW c \in Callers,
         NEW w \in Workflows, NEW g \in Grants, NEW l \in InitialLedgers, Execute(c, w, g, l)
  PROVE  CInv'
<1> USE BoundsAssumption
<1>1. PICK n : n = started + 1 OBVIOUS
<1>2. PICK x : x = [pc |-> "consume", number |-> n, workflow |-> w, authority |-> g,
                    evidence |-> l, steps |-> <<>>, admitted |-> now, past |-> Past]
  OBVIOUS
<1>3. /\ execution[c] = Idle /\ started' = n /\ n \in Numbers
      /\ started \in Nat /\ UNCHANGED <<consumed, now, calls>>
  BY <1>1 DEF Execute, CInv, TypeOK, Numbers
<1>4. \/ WorkflowReasons(w, g, Subject, now) = {} /\ Goto(c, x, "consume")
      \/ Terminal(c, x, "BLOCKED", FALSE)
  BY <1>1, <1>2 DEF Execute
<1>5. Past \in SUBSET Numbers /\ \A m \in Past : Over(started, execution, m)
  BY <1>3 DEF Past, Over, Numbers, CInv, TypeOK
<1>6. x \in Execution
  <2>1. l \in Seq(EvidenceRecord) BY LedgersAssumption
  <2>2. <<>> \in StepResults BY EmptySeq DEF StepResults
  <2>3. now \in 0..MaxTime BY DEF CInv, TypeOK
  <2> QED BY <1>2, <1>3, <1>5, <2>1, <2>2, <2>3 DEF Execution
<1>7. calls[n] = <<>> /\ calls'[n] = <<>> BY <1>1, <1>3 DEF CInv
<1>8. /\ x.pc = "consume" /\ x.number = n /\ x.workflow = w /\ x.authority = g
      /\ x.steps = <<>> /\ x.admitted = now /\ x.past = Past /\ x.evidence = l
  BY <1>2
<1>9. \A i \in DOMAIN calls'[n] :
        /\ \A m \in calls'[n][i].state.past : Over(started, execution, m)
        /\ CallOk(consumed', calls', n, i)
  BY <1>7, EmptySeq
<1>10. CASE WorkflowReasons(w, g, Subject, now) = {} /\ Goto(c, x, "consume")
  <2>1. x = [x EXCEPT !.pc = "consume"] BY <1>6, <1>8 DEF Execution
  <2>2. execution' = [execution EXCEPT ![c] = x] /\ results' = results
    BY <1>10, <2>1 DEF Goto
  <2>3. TypeOK' BY <1>3, <1>6, <2>2 DEF CInv, TypeOK, Numbers
  <2>4. InOrder(x)
    <3> SUFFICES ASSUME OneThread, NEW m \in 1..(n - 1) PROVE m \in Past
      BY <1>8 DEF InOrder
    <3>1. \A d \in Callers : execution[d] = Idle BY <1>3 DEF OneThread
    <3> QED BY <1>1, <1>3, <3>1 DEF Past
  <2>5. Follows(calls'[n], x)
    <3>1. Len(w.steps) \in Nat BY SomeSteps
    <3> QED BY <1>7, <1>8, <3>1, EmptySeq DEF Follows
  <2>6. Len(x.steps) # Len(x.workflow.steps) BY <1>8, SomeSteps, EmptySeq
  <2>7. ExecutionOk(consumed', calls', x)
    BY <1>8, <1>10, <2>4, <2>5, <2>6 DEF ExecutionOk
  <2> QED BY <1>1, <1>3, <1>5, <1>6, <1>8, <1>9, <2>2, <2>3, <2>7, StepCInv
<1>11. CASE Terminal(c, x, "BLOCKED", FALSE)
  <2>1. PICK r : r = [number |-> x.number, decision |-> "BLOCKED", steps |-> x.steps,
                      evidence |-> x.evidence, workflow |-> x.workflow,
                      authority |-> x.authority, authority_consumed |-> FALSE]
    OBVIOUS
  <2>2. /\ execution' = [execution EXCEPT ![c] = Idle]
        /\ results' = results \/ results' = results \cup {r}
    BY <1>11, <2>1 DEF Terminal, Raises
  <2>3. r \in WorkflowResult /\ r.number = n
    BY <1>6, <1>8, <2>1 DEF WorkflowResult, Execution, Decisions
  <2>4. TypeOK' BY <1>3, <2>2, <2>3 DEF CInv, TypeOK, Numbers
  <2>5. ResultOk(calls'[n], r) BY <1>7, <1>8, <2>1, EmptySeq DEF ResultOk
  <2>6. PICK y \in {Idle} \cup Execution : y = Idle OBVIOUS
  <2>7. \A q \in results' :
          q \in results \/ (y = Idle /\ q.number = n /\ ResultOk(calls'[n], q))
    BY <2>2, <2>3, <2>5, <2>6
  <2>8. execution' = [execution EXCEPT ![c] = y] /\ consumed \subseteq consumed'
        /\ \A m \in Numbers : calls'[m] = calls[m]
    BY <1>3, <2>2, <2>6
  <2>9. /\ y \in {Idle} \cup Execution
        /\ y # Idle =>
             /\ y.number = n
             /\ \A m \in y.past : Over(started, execution, m)
             /\ ExecutionOk(consumed', calls', y)
    BY <2>6
  <2>10. execution[c] = Idle /\ n = started + 1 /\ started' = n BY <1>1, <1>3
  <2> HIDE <2>6
  <2> QED BY <1>3, <1>9, <2>4, <2>7, <2>8, <2>9, <2>10, StepCInv
<1> QED BY <1>4, <1>10, <1>11

\* What begins the steps of an execution: workflow.started on its chain.
LEMMA BegunIs ==
  ASSUME NEW x \in Execution, NEW y, y = [Begun(x) EXCEPT !.pc = "step"]
  PROVE  y \in Execution /\ Extends(x, y) /\ y.pc = "step" /\ y.steps = x.steps
<1>1. PICK e : e = RuntimeRecord("workflow.started", x.admitted, "-") OBVIOUS
<1>2. e \in EvidenceRecord
  <2>1. "workflow.started" \in EvidenceKinds /\ x.admitted \in 0..MaxTime
    BY DEF EvidenceKinds, Execution
  <2> QED BY <1>1, <2>1, RecordOfRuntime
<1>3. PICK z : z = Begun(x) OBVIOUS
<1>4. PICK u : u = Append(x.evidence, e) OBVIOUS
<1>5. u \in Seq(EvidenceRecord) /\ Prolongs(x.evidence, u)
  BY <1>2, <1>4, NotedEvidence
<1>6. z \in Execution /\ Extends(x, z) /\ z.steps = x.steps
  <2>1. z = [x EXCEPT !.evidence = u] BY <1>1, <1>3, <1>4 DEF Begun
  <2>2. z \in Execution BY <1>5, <2>1 DEF Execution
  <2>3. /\ z.number = x.number /\ z.workflow = x.workflow /\ z.authority = x.authority
        /\ z.admitted = x.admitted /\ z.past = x.past /\ z.evidence = u /\ z.steps = x.steps
    BY <2>1 DEF Execution
  <2> QED BY <1>5, <2>2, <2>3 DEF Extends
<1>7. y = [z EXCEPT !.pc = "step"] BY <1>3
<1>8. y \in Execution /\ y.pc = "step" BY <1>6, <1>7 DEF Execution
<1>9. /\ y.number = z.number /\ y.workflow = z.workflow /\ y.authority = z.authority
      /\ y.admitted = z.admitted /\ y.past = z.past /\ y.evidence = z.evidence
      /\ y.steps = z.steps
  BY <1>6, <1>7 DEF Execution
<1> QED BY <1>6, <1>8, <1>9 DEF Extends

\* An execution that begins its steps is in order when its grant is consumed and
\* was not used before.
LEMMA BegunOk ==
  ASSUME NEW used, NEW more, NEW x \in Execution, NEW y,
         y = [Begun(x) EXCEPT !.pc = "step"],
         ExecutionOk(used, calls, x), x.pc \in {"consume", "add"},
         Held(more, x), Apart(calls, x)
  PROVE  ExecutionOk(more, calls, y)
<1>1. Extends(x, y) /\ y.pc = "step" /\ y.steps = x.steps BY BegunIs
<1>2. x.steps = <<>> BY DEF ExecutionOk
<1>3. /\ y.number = x.number /\ y.workflow = x.workflow /\ y.authority = x.authority
      /\ y.admitted = x.admitted /\ y.past = x.past
  BY <1>1 DEF Extends
<1>4. Held(more, y) /\ Apart(calls, y) /\ (InOrder(x) => InOrder(y))
  BY <1>3 DEF Held, Apart, InOrder
<1>5. Follows(calls[x.number], x) => Follows(calls[y.number], y)
  BY <1>1, <1>2, <1>3, EmptySeq DEF Follows
<1>6. x.pc = "complete" <=> y.pc = "complete" BY <1>1
<1> QED BY <1>1, <1>3, <1>4, <1>5, <1>6 DEF ExecutionOk

\* consume, the test.
LEMMA ConsumeTestCInv ==
  ASSUME CInv, NEW c \in Callers, ConsumeTest(c)
  PROVE  CInv'
<1>1. PICK x : x = execution[c] OBVIOUS
<1>2. /\ x.pc = "consume" /\ execution[c].pc # "idle"
      /\ UNCHANGED <<consumed, now, started, calls>>
  BY <1>1 DEF ConsumeTest
<1>3. /\ x \in Execution /\ ExecutionOk(consumed, calls, x)
      /\ x.number \in Numbers /\ calls[x.number] \in Seq(HandlerCall)
  BY <1>1, <1>2, Running
<1>4. consumed \subseteq {g.authorization_id : g \in Grants} BY DEF CInv, TypeOK
<1>5. CASE ~x.authority.single_use /\ Goto(c, Begun(x), "step")
  <2>1. PICK y : y = [Begun(x) EXCEPT !.pc = "step"] OBVIOUS
  <2>2. y \in Execution /\ Extends(x, y) BY <1>3, <2>1, BegunIs
  <2>3. Apart(calls, x) BY <1>5 DEF Apart
  <2>4. ExecutionOk(consumed, calls, y)
    <3>1. Held(consumed, x) BY <1>5 DEF Held
    <3> QED BY <1>2, <1>3, <2>1, <2>3, <3>1, BegunOk
  <2>5. execution' = [execution EXCEPT ![c] = y] /\ UNCHANGED results
    BY <1>5, <2>1 DEF Goto
  <2> QED BY <1>1, <1>2, <1>4, <2>2, <2>4, <2>5, GoOn
<1>6. CASE Terminal(c, x, "BLOCKED", FALSE)
  <2>1. Extends(x, x) BY DEF Extends, Prolongs
  <2>2. PICK r : r = [number |-> x.number, decision |-> "BLOCKED", steps |-> x.steps,
                      evidence |-> x.evidence, workflow |-> x.workflow,
                      authority |-> x.authority, authority_consumed |-> FALSE]
    OBVIOUS
  <2>3. PICK mine \in Seq(HandlerCall) : mine = calls[x.number] BY <1>3
  <2>4. Len(mine) = 0 /\ Len(x.steps) = 0
    BY <1>2, <1>3, <2>3, EmptySeq DEF ExecutionOk, Follows
  <2>5. mine = <<>> BY <2>3, <2>4, EmptySeq
  <2>6. r.steps = x.steps /\ r.decision = "BLOCKED" BY <2>2
  <2>7. ResultOk(mine, r) BY <2>4, <2>5, <2>6, EmptySeq DEF ResultOk
  <2>8. "BLOCKED" \in Decisions /\ FALSE \in BOOLEAN BY DEF Decisions
  <2> QED BY <1>1, <1>2, <1>3, <1>6, <2>1, <2>2, <2>3, <2>7, <2>8, GoOut
<1>7. CASE x.authority.single_use /\ ~is_consumed(x.authority) /\ Goto(c, x, "add")
  <2>1. PICK y : y = [x EXCEPT !.pc = "add"] OBVIOUS
  <2>2. /\ y \in Execution
        /\ y.pc = "add" /\ y.number = x.number /\ y.workflow = x.workflow
        /\ y.authority = x.authority /\ y.evidence = x.evidence /\ y.steps = x.steps
        /\ y.admitted = x.admitted /\ y.past = x.past
    BY <1>3, <2>1 DEF Execution
  <2>3. Extends(x, y) BY <2>2 DEF Extends, Prolongs
  <2>4. Apart(calls, y)
    <3> SUFFICES ASSUME NEW m \in x.past, NEW i \in DOMAIN calls[m],
                        calls[m][i].state.authority.single_use
                 PROVE  calls[m][i].state.authority.authorization_id
                          # x.authority.authorization_id
      BY <2>2 DEF Apart
    <3>1. m \in Numbers BY <1>3 DEF Execution
    <3>2. CallOk(consumed, calls, m, i) BY <3>1 DEF CInv
    <3>3. calls[m][i].state.authority.authorization_id \in consumed BY <3>2 DEF CallOk, Held
    <3> QED BY <1>7, <3>3 DEF is_consumed
  <2>5. InOrder(y) /\ Follows(calls[y.number], y)
    BY <1>3, <2>2 DEF ExecutionOk, InOrder, Follows
  <2>6. ExecutionOk(consumed, calls, y)
    BY <1>2, <1>3, <1>7, <2>2, <2>4, <2>5 DEF ExecutionOk
  <2>7. execution' = [execution EXCEPT ![c] = y] /\ UNCHANGED results
    BY <1>7, <2>1 DEF Goto
  <2> QED BY <1>1, <1>2, <1>4, <2>2, <2>3, <2>6, <2>7, GoOn
<1> QED BY <1>1, <1>5, <1>6, <1>7 DEF ConsumeTest

\* consume, the insertion.
LEMMA ConsumeAddCInv ==
  ASSUME CInv, NEW c \in Callers, ConsumeAdd(c)
  PROVE  CInv'
<1>1. PICK x : x = execution[c] OBVIOUS
<1>2. /\ x.pc = "add" /\ execution[c].pc # "idle"
      /\ consumed' = consumed \cup {x.authority.authorization_id}
      /\ Goto(c, Begun(x), "step")
      /\ UNCHANGED <<now, started, calls>>
  BY <1>1 DEF ConsumeAdd
<1>3. x \in Execution /\ ExecutionOk(consumed, calls, x) BY <1>1, <1>2, Running
<1>4. consumed' \subseteq {g.authorization_id : g \in Grants}
  BY <1>2, <1>3 DEF CInv, TypeOK, Execution
<1>5. PICK y : y = [Begun(x) EXCEPT !.pc = "step"] OBVIOUS
<1>6. y \in Execution /\ Extends(x, y) BY <1>3, <1>5, BegunIs
<1>7. Apart(calls, x) BY <1>2, <1>3 DEF ExecutionOk
<1>8. ExecutionOk(consumed', calls, y)
  <2>1. Held(consumed', x) BY <1>2 DEF Held
  <2> QED BY <1>2, <1>3, <1>5, <1>7, <2>1, BegunOk
<1>9. execution' = [execution EXCEPT ![c] = y] /\ UNCHANGED results
  BY <1>2, <1>5 DEF Goto
<1> QED BY <1>1, <1>2, <1>4, <1>6, <1>8, <1>9, GoOn

\* An execution at a step, or with a handler to call, has a step to do.
LEMMA StepToDo ==
  ASSUME NEW used, NEW done, NEW x \in Execution, ExecutionOk(used, done, x),
         x.pc \in {"step", "handler"}
  PROVE  Len(x.steps) < Len(x.workflow.steps) /\ Len(x.steps) \in Nat
<1>1. Len(x.workflow.steps) \in Nat BY SomeSteps DEF Execution
<1>2. Len(x.steps) \in Nat BY LenProperties DEF Execution, StepResults
<1>3. Len(x.steps) <= Len(x.workflow.steps) /\ Len(x.steps) # Len(x.workflow.steps)
  BY DEF ExecutionOk, Follows
<1> QED BY <1>1, <1>2, <1>3

\* A result that ends the steps of an execution, whose calls all passed, is true:
\* with what was refused or with all steps done.
LEMMA EndOk ==
  ASSUME NEW mine \in Seq(HandlerCall), NEW x \in Execution, NEW y \in Execution,
         Follows(mine, x), Extends(x, y),
         NEW r, r.steps = y.steps, r.workflow = y.workflow, r.evidence = y.evidence,
         r.authority_consumed,
         Prolongs(x.steps, y.steps),
         \/ r.decision = "BLOCKED" /\ Len(y.steps) = Len(x.steps) + 1
         \/ r.decision = "PASS" /\ y.steps = x.steps /\ Len(x.steps) = Len(x.workflow.steps)
  PROVE  ResultOk(mine, r)
<1>1. /\ x.steps \in Seq([step_id : StepIds, decision : Decisions])
      /\ y.workflow = x.workflow
  BY DEF Execution, StepResults, Extends
<1>2. DOMAIN mine = 1..Len(mine) /\ DOMAIN x.steps = 1..Len(x.steps) /\ Len(mine) = Len(x.steps)
  BY <1>1, LenProperties DEF Follows
<1>3. ASSUME NEW i \in DOMAIN mine
      PROVE  /\ r.steps[i].step_id = mine[i].step_id
             /\ r.steps[i].decision = mine[i].decision
             /\ mine[i].decision = "PASS"
             /\ \E n \in DOMAIN r.evidence : r.evidence[n].step_id = mine[i].step_id
  <2>1. /\ mine[i].step_id = x.steps[i].step_id
        /\ mine[i].decision = "PASS"
        /\ x.steps[i].decision = "PASS"
        /\ \E n \in DOMAIN x.evidence : x.evidence[n].step_id = x.steps[i].step_id
    BY <1>2, <1>3 DEF Follows
  <2>2. r.steps[i] = x.steps[i] BY <1>2, <1>3 DEF Prolongs
  <2>3. \E n \in DOMAIN r.evidence : r.evidence[n].step_id = mine[i].step_id
    BY <2>1 DEF Extends, Prolongs
  <2> QED BY <2>1, <2>2, <2>3
<1>4. r.decision = "PASS" => Len(mine) = Len(r.workflow.steps) BY <1>1, <1>2
<1>5. \/ Len(r.steps) = Len(mine)
      \/ Len(r.steps) = Len(mine) + 1 /\ r.decision = "BLOCKED"
  BY <1>2
<1> QED BY <1>3, <1>4, <1>5 DEF ResultOk

\* The loop head.
LEMMA EvaluateStepCInv ==
  ASSUME CInv, NEW c \in Callers, EvaluateStep(c)
  PROVE  CInv'
<1>1. PICK x : x = execution[c] OBVIOUS
<1>2. /\ x.pc = "step" /\ execution[c].pc # "idle"
      /\ UNCHANGED <<consumed, now, started, calls>>
  BY <1>1 DEF EvaluateStep
<1>3. /\ x \in Execution /\ ExecutionOk(consumed, calls, x)
      /\ x.number \in Numbers /\ calls[x.number] \in Seq(HandlerCall)
  BY <1>1, <1>2, Running
<1>4. consumed \subseteq {g.authorization_id : g \in Grants} BY DEF CInv, TypeOK
<1>5. Len(x.steps) < Len(x.workflow.steps) /\ Len(x.steps) \in Nat
  BY <1>2, <1>3, StepToDo
<1>6. PICK e, k : /\ e = RuntimeRecord("step.blocked", now, current(x).step_id)
                  /\ k = StepResult(x, "BLOCKED")
  OBVIOUS
<1>7. PICK z : z = [x EXCEPT !.evidence = Append(@, e), !.steps = Append(@, k)]
  OBVIOUS
<1>8. CASE StepAllowed(x) /\ Goto(c, x, "handler")
  <2>1. PICK y : y = [x EXCEPT !.pc = "handler"] OBVIOUS
  <2>2. /\ y \in Execution
        /\ y.pc = "handler" /\ y.number = x.number /\ y.workflow = x.workflow
        /\ y.authority = x.authority /\ y.evidence = x.evidence /\ y.steps = x.steps
        /\ y.admitted = x.admitted /\ y.past = x.past
    BY <1>3, <2>1 DEF Execution
  <2>3. Extends(x, y) BY <2>2 DEF Extends, Prolongs
  <2>4. StepAllowed(y) BY <1>8, <2>2 DEF StepAllowed, current
  <2>5. /\ Apart(calls, x) => Apart(calls, y)
        /\ Held(consumed, x) => Held(consumed, y)
        /\ InOrder(x) => InOrder(y)
        /\ Follows(calls[x.number], x) => Follows(calls[y.number], y)
    BY <2>2 DEF Apart, Held, InOrder, Follows
  <2>6. ExecutionOk(consumed, calls, y)
    BY <1>2, <1>3, <2>2, <2>4, <2>5 DEF ExecutionOk
  <2>7. execution' = [execution EXCEPT ![c] = y] /\ UNCHANGED results
    BY <1>8, <2>1 DEF Goto
  <2> QED BY <1>1, <1>2, <1>4, <2>2, <2>3, <2>6, <2>7, GoOn
<1>9. CASE Terminal(c, z, "BLOCKED", TRUE)
  <2>1. /\ current(x).step_id \in StepIds
        /\ "step.blocked" \in EvidenceKinds /\ "BLOCKED" \in Decisions /\ now \in 0..MaxTime
    BY <1>3, <1>5, CurrentStep DEF EvidenceKinds, Decisions, CInv, TypeOK
  <2>2. e \in EvidenceRecord BY <1>6, <2>1, RecordOfRuntime
  <2>3. k \in [step_id : StepIds, decision : Decisions] BY <1>6, <2>1 DEF StepResult
  <2>4. PICK u, t : u = Append(x.evidence, e) /\ t = Append(x.steps, k) OBVIOUS
  <2>5. u \in Seq(EvidenceRecord) /\ Prolongs(x.evidence, u)
    BY <1>3, <2>2, <2>4, NotedEvidence
  <2>6. PICK st \in Seq([step_id : StepIds, decision : Decisions]) : st = x.steps
    BY <1>3 DEF Execution, StepResults
  <2>7. /\ t \in Seq([step_id : StepIds, decision : Decisions])
        /\ Len(t) = Len(st) + 1 /\ Len(st) \in Nat
        /\ \A i \in 1..Len(st) : t[i] = st[i]
    BY <2>3, <2>4, <2>6, Longer
  <2>8. DOMAIN st = 1..Len(st) /\ DOMAIN t = 1..Len(t) BY <2>7, LenProperties
  <2>9. Prolongs(x.steps, t) /\ Len(t) = Len(x.steps) + 1
    BY <2>6, <2>7, <2>8 DEF Prolongs
  <2>10. z = [x EXCEPT !.evidence = u, !.steps = t] BY <1>7, <2>4
  <2>11. z \in Execution BY <1>3, <2>5, <2>7, <2>10 DEF Execution, StepResults
  <2>12. /\ z.number = x.number /\ z.workflow = x.workflow /\ z.authority = x.authority
         /\ z.admitted = x.admitted /\ z.past = x.past /\ z.evidence = u /\ z.steps = t
    BY <1>3, <2>10 DEF Execution
  <2>13. Extends(x, z) BY <2>5, <2>12 DEF Extends
  <2>14. PICK r : r = [number |-> z.number, decision |-> "BLOCKED", steps |-> z.steps,
                       evidence |-> z.evidence, workflow |-> z.workflow,
                       authority |-> z.authority, authority_consumed |-> TRUE]
    OBVIOUS
  <2>15. /\ r.steps = z.steps /\ r.workflow = z.workflow /\ r.evidence = z.evidence
         /\ r.authority_consumed /\ r.decision = "BLOCKED"
    BY <2>14
  <2>16. Follows(calls[x.number], x) BY <1>3 DEF ExecutionOk
  <2>17. ResultOk(calls[x.number], r)
    BY <1>3, <2>9, <2>11, <2>12, <2>13, <2>15, <2>16, EndOk
  <2>18. TRUE \in BOOLEAN /\ ResultOk(calls[z.number], r) BY <2>12, <2>17
  <2> QED BY <1>1, <1>2, <1>9, <2>1, <2>11, <2>13, <2>14, <2>18, GoOut
<1> QED BY <1>1, <1>6, <1>7, <1>8, <1>9 DEF EvaluateStep

\* The end of the loop.
LEMMA CompleteCInv ==
  ASSUME CInv, NEW c \in Callers, Complete(c)
  PROVE  CInv'
<1>1. PICK x : x = execution[c] OBVIOUS
<1>2. /\ x.pc = "complete" /\ execution[c].pc # "idle"
      /\ UNCHANGED <<consumed, now, started, calls>>
  BY <1>1 DEF Complete
<1>3. /\ x \in Execution /\ ExecutionOk(consumed, calls, x)
      /\ calls[x.number] \in Seq(HandlerCall)
  BY <1>1, <1>2, Running
<1>4. PICK e : e = RuntimeRecord("workflow.completed", now, "-") OBVIOUS
<1>5. e \in EvidenceRecord
  <2>1. "workflow.completed" \in EvidenceKinds /\ now \in 0..MaxTime
    BY DEF EvidenceKinds, CInv, TypeOK
  <2> QED BY <1>4, <2>1, RecordOfRuntime
<1>6. PICK u : u = Append(x.evidence, e) OBVIOUS
<1>7. u \in Seq(EvidenceRecord) /\ Prolongs(x.evidence, u) BY <1>3, <1>5, <1>6, NotedEvidence
<1>8. PICK z : z = [x EXCEPT !.evidence = u] OBVIOUS
<1>9. Terminal(c, z, "PASS", TRUE) BY <1>1, <1>4, <1>6, <1>8 DEF Complete
<1>10. z \in Execution BY <1>3, <1>7, <1>8 DEF Execution
<1>11. /\ z.number = x.number /\ z.workflow = x.workflow /\ z.authority = x.authority
       /\ z.admitted = x.admitted /\ z.past = x.past /\ z.evidence = u /\ z.steps = x.steps
  BY <1>3, <1>8 DEF Execution
<1>12. Extends(x, z) BY <1>7, <1>11 DEF Extends
<1>13. PICK r : r = [number |-> z.number, decision |-> "PASS", steps |-> z.steps,
                     evidence |-> z.evidence, workflow |-> z.workflow,
                     authority |-> z.authority, authority_consumed |-> TRUE]
  OBVIOUS
<1>14. /\ r.steps = z.steps /\ r.workflow = z.workflow /\ r.evidence = z.evidence
       /\ r.authority_consumed /\ r.decision = "PASS"
  BY <1>13
<1>15. Follows(calls[x.number], x) /\ Len(x.steps) = Len(x.workflow.steps)
  BY <1>2, <1>3 DEF ExecutionOk
<1>16. Prolongs(x.steps, z.steps) BY <1>11 DEF Prolongs
<1>17. ResultOk(calls[x.number], r)
  BY <1>3, <1>10, <1>11, <1>12, <1>14, <1>15, <1>16, EndOk
<1>18. TRUE \in BOOLEAN /\ "PASS" \in Decisions /\ ResultOk(calls[z.number], r)
  BY <1>11, <1>17 DEF Decisions
<1> QED BY <1>1, <1>2, <1>9, <1>10, <1>12, <1>13, <1>18, GoOut

\* The calls of an execution, with the one its handler makes now: one more than
\* its step results, and each as it must be.
LEMMA CallMade ==
  ASSUME CInv, NEW c \in Callers, NEW x \in Execution, x = execution[c], x.pc = "handler",
         NEW n \in Numbers, x.number = n,
         NEW h \in HandlerCall, h.state = x, h.step_id = current(x).step_id,
         NEW t, t = Append(calls[n], h),
         NEW also, also[n] = t, \A m \in Numbers : m # n => also[m] = calls[m]
  PROVE  /\ t \in Seq(HandlerCall)
         /\ Len(t) = Len(x.steps) + 1 /\ t[Len(x.steps) + 1] = h
         /\ \A i \in 1..Len(x.steps) : t[i] = calls[n][i]
         /\ \A i \in DOMAIN t :
              /\ \A m \in t[i].state.past : Over(started, execution, m)
              /\ CallOk(consumed, also, n, i)
<1>1. PICK mine \in Seq(HandlerCall) : mine = calls[n] BY DEF CInv, TypeOK
<1>2. /\ ExecutionOk(consumed, calls, x)
      /\ \A m \in x.past : Over(started, execution, m)
  BY Running
<1>3. ASSUME NEW m, Over(started, execution, m) PROVE m # n
  <2>1. execution[c] # Idle BY DEF Idle
  <2> QED BY <1>3, <2>1 DEF Over
<1>4. /\ t \in Seq(HandlerCall)
      /\ Len(t) = Len(mine) + 1 /\ Len(mine) \in Nat
      /\ \A i \in 1..Len(mine) : t[i] = mine[i]
      /\ t[Len(mine) + 1] = h
  <2>1. t = Append(mine, h) BY <1>1
  <2> HIDE <1>1
  <2> QED BY <2>1, Longer
<1>5. Follows(mine, x) /\ Len(mine) = Len(x.steps)
  BY <1>1, <1>2 DEF ExecutionOk, Follows
<1>6. DOMAIN t = 1..(Len(mine) + 1) /\ DOMAIN mine = 1..Len(mine)
  BY <1>4, LenProperties
<1>7. ASSUME NEW i \in 1..Len(mine)
      PROVE  /\ \A m \in t[i].state.past : Over(started, execution, m)
             /\ CallOk(consumed, also, n, i)
  <2>1. PICK g : g = mine[i] OBVIOUS
  <2>2. /\ \A m \in g.state.past : Over(started, execution, m)
        /\ CallOk(consumed, calls, n, i)
    BY <1>1, <1>6, <2>1 DEF CInv
  <2>3. t[i] = g /\ also[n][i] = g BY <1>4, <2>1
  <2>4. g.state \in Execution
    <3>1. g \in HandlerCall BY <2>1, ElementOfSeq
    <3> QED BY <3>1 DEF HandlerCall
  <2>5. \A m \in g.state.past : also[m] = calls[m]
    BY <1>3, <2>2, <2>4 DEF Execution
  <2>6. g.decision = "PASS" BY <1>5, <2>1 DEF Follows
  <2>7. Apart(calls, g.state) BY <1>1, <2>1, <2>2 DEF CallOk
  <2>8. Apart(also, g.state) BY <2>5, <2>7 DEF Apart
  <2>9. CallOk(consumed, also, n, i) BY <1>1, <2>1, <2>2, <2>3, <2>6, <2>8 DEF CallOk
  <2> QED BY <2>2, <2>3, <2>9
<1>8. CallOk(consumed, also, n, Len(mine) + 1)
  <2>1. also[n][Len(mine) + 1] = h /\ Len(also[n]) = Len(mine) + 1 BY <1>4
  <2>2. \A m \in x.past : also[m] = calls[m] BY <1>2, <1>3 DEF Execution
  <2>3. Apart(calls, x) /\ Held(consumed, x) /\ StepAllowed(x) /\ InOrder(x)
        /\ WorkflowReasons(x.workflow, x.authority, Subject, x.admitted) = {}
    BY <1>2 DEF ExecutionOk
  <2>4. Apart(also, x) BY <2>2, <2>3 DEF Apart
  <2>5. h.step_id = x.workflow.steps[Len(mine) + 1].step_id BY <1>5 DEF current
  <2>6. h.state.number = n /\ Len(h.state.steps) + 1 = Len(mine) + 1 BY <1>5
  <2>7. ~(Len(mine) + 1 < Len(also[n])) BY <1>4, <2>1
  <2> QED BY <2>1, <2>3, <2>4, <2>5, <2>6, <2>7 DEF CallOk
<1>9. \A m \in t[Len(mine) + 1].state.past : Over(started, execution, m)
  BY <1>2, <1>4
<1>10. ASSUME NEW i \in DOMAIN t
       PROVE  /\ \A m \in t[i].state.past : Over(started, execution, m)
              /\ CallOk(consumed, also, n, i)
  <2>1. i \in 1..Len(mine) \/ i = Len(mine) + 1 BY <1>4, <1>6
  <2> QED BY <1>7, <1>8, <1>9, <2>1
<1> QED BY <1>1, <1>4, <1>5, <1>10

\* The handler runs and its outcome is recorded.
LEMMA RunHandlerCInv ==
  ASSUME CInv, NEW c \in Callers, NEW o \in Outcomes, RunHandler(c, o)
  PROVE  CInv'
<1>1. PICK x, n : x = execution[c] /\ n = execution[c].number OBVIOUS
<1>2. /\ x.pc = "handler" /\ execution[c].pc # "idle"
      /\ UNCHANGED <<consumed, now, started>>
  BY <1>1 DEF RunHandler
<1>3. /\ x \in Execution /\ ExecutionOk(consumed, calls, x) /\ execution[c] # Idle
      /\ n \in Numbers /\ calls[n] \in Seq(HandlerCall) /\ x.number = n
      /\ \A m \in x.past : Over(started, execution, m)
  BY <1>1, <1>2, Running
<1>4. Len(x.steps) < Len(x.workflow.steps) /\ Len(x.steps) \in Nat
  BY <1>2, <1>3, StepToDo
<1>5. PICK d \in Decisions : d = DecisionOf(o)
  BY OutcomesAssumption DEF DecisionOf, Decisions
<1>6. PICK h : h = [state |-> x, step_id |-> current(x).step_id, decision |-> d]
  OBVIOUS
<1>7. /\ h \in HandlerCall
      /\ h.state = x /\ h.step_id = current(x).step_id /\ h.decision = d
  BY <1>3, <1>4, <1>6, CurrentStep DEF HandlerCall
<1>8. PICK t : t = Append(calls[n], h) OBVIOUS
<1>9. calls \in [Numbers -> Seq(HandlerCall)] /\ calls' = [calls EXCEPT ![n] = t]
  BY <1>1, <1>5, <1>6, <1>8 DEF RunHandler, CInv, TypeOK
<1>10. calls'[n] = t /\ \A m \in Numbers : m # n => calls'[m] = calls[m]
  BY <1>3, <1>9
<1>11. /\ t \in Seq(HandlerCall)
       /\ Len(t) = Len(x.steps) + 1 /\ t[Len(x.steps) + 1] = h
       /\ \A i \in 1..Len(x.steps) : t[i] = calls[n][i]
       /\ \A i \in DOMAIN t :
            /\ \A m \in t[i].state.past : Over(started, execution, m)
            /\ CallOk(consumed, calls', n, i)
  <2>1. PICK also : also = calls' OBVIOUS
  <2>2. also[n] = t /\ \A m \in Numbers : m # n => also[m] = calls[m] BY <1>10, <2>1
  <2> HIDE <2>1
  <2>3. /\ t \in Seq(HandlerCall)
        /\ Len(t) = Len(x.steps) + 1 /\ t[Len(x.steps) + 1] = h
        /\ \A i \in 1..Len(x.steps) : t[i] = calls[n][i]
        /\ \A i \in DOMAIN t :
             /\ \A m \in t[i].state.past : Over(started, execution, m)
             /\ CallOk(consumed, also, n, i)
    BY <1>1, <1>2, <1>3, <1>7, <1>8, <2>2, CallMade, ZenonT(60)
  <2> QED BY <2>1, <2>3
<1>12. PICK y : y = Recorded(x, o) OBVIOUS
<1>13. PICK k : k = StepResult(x, d) OBVIOUS
<1>14. /\ y \in Execution /\ Extends(x, y)
       /\ y.steps = Append(x.steps, k)
       /\ \E j \in DOMAIN y.evidence : y.evidence[j].step_id = current(x).step_id
  <2>1. now \in 0..MaxTime BY DEF CInv, TypeOK
  <2> QED BY <1>3, <1>4, <1>5, <1>12, <1>13, <2>1, RecordedIs
<1>15. k \in [step_id : StepIds, decision : Decisions]
       /\ k.step_id = current(x).step_id /\ k.decision = d
  BY <1>3, <1>4, <1>13, CurrentStep DEF StepResult
<1>16. PICK st : st = y.steps OBVIOUS
<1>17. /\ st \in Seq([step_id : StepIds, decision : Decisions])
       /\ Len(st) = Len(x.steps) + 1
       /\ \A i \in 1..Len(x.steps) : st[i] = x.steps[i]
       /\ st[Len(x.steps) + 1] = k
  <2>1. x.steps \in Seq([step_id : StepIds, decision : Decisions])
    BY <1>3 DEF Execution, StepResults
  <2> QED BY <1>14, <1>15, <1>16, <2>1, Longer
<1>18. /\ y.number = n /\ y.workflow = x.workflow /\ y.authority = x.authority
       /\ y.admitted = x.admitted /\ y.past = x.past
  BY <1>3, <1>14 DEF Extends
<1>19. \A i \in 1..Len(st) :
         /\ t[i].step_id = st[i].step_id /\ t[i].decision = st[i].decision
         /\ st[i].step_id = y.workflow.steps[i].step_id
         /\ i <= Len(x.steps) => st[i].decision = "PASS"
         /\ \E j \in DOMAIN y.evidence : y.evidence[j].step_id = st[i].step_id
  <2>1. Follows(calls[n], x) BY <1>3 DEF ExecutionOk
  <2>2. ASSUME NEW i \in 1..Len(x.steps)
        PROVE  /\ t[i].step_id = st[i].step_id /\ t[i].decision = st[i].decision
               /\ st[i].step_id = y.workflow.steps[i].step_id
               /\ st[i].decision = "PASS"
               /\ \E j \in DOMAIN y.evidence : y.evidence[j].step_id = st[i].step_id
    <3>1. t[i] = calls[n][i] /\ st[i] = x.steps[i] BY <1>11, <1>17
    <3>2. \E j \in DOMAIN y.evidence : y.evidence[j].step_id = x.steps[i].step_id
      BY <1>14, <2>1 DEF Follows, Extends, Prolongs
    <3> QED BY <1>18, <2>1, <3>1, <3>2 DEF Follows
  <2>3. k.step_id = y.workflow.steps[Len(x.steps) + 1].step_id
    BY <1>15, <1>18 DEF current
  <2>4. \A i \in 1..Len(st) : i \in 1..Len(x.steps) \/ i = Len(x.steps) + 1
    BY <1>4, <1>17
  <2>5. ~(Len(x.steps) + 1 <= Len(x.steps)) BY <1>4
  <2> QED BY <1>7, <1>11, <1>14, <1>15, <1>17, <2>2, <2>3, <2>4, <2>5
<1>20. CASE execution' = [execution EXCEPT ![c] = Idle] /\ UNCHANGED results
  <2>1. TypeOK' BY <1>2, <1>9, <1>11, <1>20 DEF CInv, TypeOK
  <2> QED BY <1>1, <1>2, <1>3, <1>10, <1>11, <1>20, <2>1, StepCInv
<1>21. CASE Stops(o) /\ Terminal(c, y, d, TRUE)
  <2>1. PICK r : r = [number |-> y.number, decision |-> d, steps |-> y.steps,
                      evidence |-> y.evidence, workflow |-> y.workflow,
                      authority |-> y.authority, authority_consumed |-> TRUE]
    OBVIOUS
  <2>2. /\ execution' = [execution EXCEPT ![c] = Idle]
        /\ results' = results \/ results' = results \cup {r}
    BY <1>21, <2>1 DEF Terminal, Raises
  <2>3. r \in WorkflowResult /\ r.number = n
    BY <1>14, <1>18, <2>1 DEF WorkflowResult, Execution
  <2>4. TypeOK' BY <1>2, <1>9, <1>11, <2>2, <2>3 DEF CInv, TypeOK
  <2>5. d # "PASS" BY <1>5, <1>21 DEF Stops, DecisionOf
  <2>6. r.steps = st /\ r.evidence = y.evidence /\ r.decision = d /\ r.authority_consumed
    BY <1>16, <2>1
  <2>7. DOMAIN t = 1..Len(st) /\ Len(t) = Len(st) BY <1>11, <1>17, LenProperties
  <2>8. ResultOk(t, r) BY <1>19, <2>5, <2>6, <2>7 DEF ResultOk
  <2>9. ResultOk(calls'[n], r) BY <1>10, <2>8
  <2> QED BY <1>1, <1>2, <1>3, <1>10, <1>11, <2>2, <2>3, <2>4, <2>9, StepCInv
<1>22. CASE ~Stops(o) /\ Goto(c, y, IF AllStepsRan(y) THEN "complete" ELSE "step")
  <2>1. PICK z : z = [y EXCEPT !.pc = IF AllStepsRan(y) THEN "complete" ELSE "step"]
    OBVIOUS
  <2>2. /\ z \in Execution
        /\ z.pc \in {"step", "complete"} /\ (z.pc = "complete" <=> AllStepsRan(y))
        /\ z.number = n /\ z.workflow = x.workflow /\ z.authority = x.authority
        /\ z.admitted = x.admitted /\ z.past = x.past
        /\ z.steps = st /\ z.evidence = y.evidence
    BY <1>14, <1>16, <1>18, <2>1 DEF Execution
  <2>3. execution' = [execution EXCEPT ![c] = z] /\ UNCHANGED results
    BY <1>22, <2>1 DEF Goto
  <2>4. TypeOK' BY <1>2, <1>9, <1>11, <2>2, <2>3 DEF CInv, TypeOK
  <2>5. d = "PASS" BY <1>5, <1>22 DEF Stops, DecisionOf
  <2>6. Follows(t, z)
    <3>1. Len(st) <= Len(z.workflow.steps) /\ Len(t) = Len(st)
      <4>1. Len(x.workflow.steps) \in Nat BY <1>3, SomeSteps DEF Execution
      <4> QED BY <1>4, <1>11, <1>17, <2>2, <4>1
    <3>2. \A i \in 1..Len(st) : st[i].decision = "PASS"
      BY <1>4, <1>15, <1>17, <1>19, <2>5
    <3> QED BY <1>18, <1>19, <2>2, <3>1, <3>2 DEF Follows
  <2>7. /\ Apart(calls, x) => Apart(calls', z)
        /\ Held(consumed, x) => Held(consumed', z)
        /\ InOrder(x) => InOrder(z)
    <3>1. \A m \in x.past : calls'[m] = calls[m]
      BY <1>1, <1>3, <1>10 DEF Over, Execution
    <3> QED BY <1>2, <1>3, <2>2, <3>1 DEF Apart, Held, InOrder
  <2>8. z.pc = "complete" <=> Len(z.steps) = Len(z.workflow.steps)
    BY <1>16, <1>18, <2>2 DEF AllStepsRan
  <2>9. Follows(calls'[z.number], z) BY <1>10, <2>2, <2>6
  <2>10. ExecutionOk(consumed', calls', z)
    BY <1>2, <1>3, <2>2, <2>7, <2>8, <2>9 DEF ExecutionOk
  <2> QED BY <1>1, <1>2, <1>3, <1>10, <1>11, <2>2, <2>3, <2>4, <2>10, StepCInv
<1>23. \/ execution' = [execution EXCEPT ![c] = Idle] /\ UNCHANGED results
       \/ Stops(o) /\ Terminal(c, y, d, TRUE)
       \/ ~Stops(o) /\ Goto(c, y, IF AllStepsRan(y) THEN "complete" ELSE "step")
  BY <1>1, <1>5, <1>12 DEF RunHandler, Raises
<1> QED BY <1>20, <1>21, <1>22, <1>23

LEMMA TickCInv ==
  ASSUME CInv, Tick
  PROVE  CInv'
BY BoundsAssumption DEF CInv, TypeOK, Tick, Over, NoReplay

LEMMA NextCInv == CInv /\ [Next]_vars => CInv'
<1> SUFFICES ASSUME CInv, [Next]_vars PROVE CInv'
  OBVIOUS
<1>1. CASE UNCHANGED vars BY <1>1 DEF CInv, TypeOK, vars
<1>2. CASE Tick BY <1>2, TickCInv
<1>3. ASSUME NEW c \in Callers, NEW w \in Workflows, NEW g \in Grants,
             NEW l \in InitialLedgers, Execute(c, w, g, l)
      PROVE  CInv'
  BY <1>3, ExecuteCInv
<1>4. ASSUME NEW c \in Callers, ConsumeTest(c) PROVE CInv'
  BY <1>4, ConsumeTestCInv
<1>5. ASSUME NEW c \in Callers, ConsumeAdd(c) PROVE CInv'
  BY <1>5, ConsumeAddCInv
<1>6. ASSUME NEW c \in Callers, EvaluateStep(c) PROVE CInv'
  BY <1>6, EvaluateStepCInv
<1>7. ASSUME NEW c \in Callers, NEW o \in Outcomes, RunHandler(c, o) PROVE CInv'
  BY <1>7, RunHandlerCInv
<1>8. ASSUME NEW c \in Callers, Complete(c) PROVE CInv'
  BY <1>8, CompleteCInv
<1> QED BY <1>1, <1>2, <1>3, <1>4, <1>5, <1>6, <1>7, <1>8 DEF Next

-----------------------------------------------------------------------------
(***************************************************************************)
(* Theorems                                                                *)
(***************************************************************************)

\* The inductive invariant of GovernedRuntime.execute.
THEOREM SpecCInv == Spec => []CInv
BY InitCInv, NextCInv, PTL DEF Spec

\* execute keeps its state, its history and its results within their types.
THEOREM CoreTypeOK == Spec => []TypeOK
<1>1. CInv => TypeOK BY DEF CInv
<1> QED BY <1>1, SpecCInv, PTL

\* The calls of an execution stay within their types.
LEMMA CallTyped ==
  ASSUME CInv, NEW n \in Numbers, NEW i \in DOMAIN calls[n]
  PROVE  /\ calls[n] \in Seq(HandlerCall) /\ i \in 1..Len(calls[n])
         /\ calls[n][i].state \in Execution
         /\ CallOk(consumed, calls, n, i)
<1>1. calls[n] \in Seq(HandlerCall) BY DEF CInv, TypeOK
<1>2. i \in 1..Len(calls[n]) BY <1>1, LenProperties
<1>3. calls[n][i] \in HandlerCall BY <1>1, <1>2, ElementOfSeq
<1> QED BY <1>1, <1>2, <1>3 DEF CInv, HandlerCall

\* consume keeps a single-use grant from a later execution once one is over,
\* whatever the threads do.
THEOREM CoreNoSerialReplay == Spec => []NoSerialReplay
<1>1. CInv => NoSerialReplay
  <2> SUFFICES ASSUME CInv, NEW m \in Numbers, NEW n \in Numbers,
                      NEW i \in DOMAIN calls[m], NEW j \in DOMAIN calls[n],
                      OneGrant(m, i, n, j), m \in calls[n][j].state.past
               PROVE  FALSE
    BY DEF NoSerialReplay
  <2>1. Apart(calls, calls[n][j].state) BY CallTyped DEF CallOk
  <2> QED BY <2>1 DEF Apart, OneGrant
<1> QED BY <1>1, SpecCInv, PTL

\* A grant the policy accepts for a workflow is in force ...
LEMMA AcceptedInForce ==
  ASSUME NEW workflow, NEW grant, NEW at \in Int, grant.expires_at \in Int,
         WorkflowReasons(workflow, grant, Subject, at) = {}
  PROVE  InForce(grant, workflow, Subject, at)
<1>1. /\ grant.subject = Subject
      /\ grant.workflow_id = workflow.workflow_id
      /\ ~is_expired(grant, at)
  BY DEF WorkflowReasons
<1> QED BY <1>1 DEF is_expired, InForce

\* ... and a step it accepts may run.
LEMMA AcceptedEntitled ==
  ASSUME NEW x, StepAllowed(x)
  PROVE  Entitled(current(x), Registry[current(x).agent_id], x.authority, x.evidence)
<1>1. PICK step, descriptor : step = current(x) /\ descriptor = Registry[step.agent_id]
  OBVIOUS
<1>2. StepReasons(step, descriptor, x.authority, x.evidence) = {}
  BY <1>1 DEF StepAllowed
<1>3. /\ step.capability \in x.authority.capabilities
      /\ step.capability \in descriptor.capabilities
      /\ effect_capability(step.effect) \subseteq x.authority.capabilities
      /\ missing(step, x.evidence) = {}
  BY <1>2 DEF StepReasons
<1>4. /\ step.effect = "REVERSIBLE" => "effect:reversible" \in x.authority.capabilities
      /\ step.effect = "IRREVERSIBLE" => "effect:irreversible" \in x.authority.capabilities
  BY <1>3 DEF effect_capability
<1>5. \A kind \in step.requires : \E i \in DOMAIN x.evidence : x.evidence[i].kind = kind
  BY <1>3 DEF missing, kinds
<1> QED BY <1>1, <1>3, <1>4, <1>5 DEF Entitled

\* A handler runs only under a valid grant, consumed if single-use, and with its
\* step's capabilities and evidence in place.
THEOREM CoreCallsSatisfyPolicy == Spec => []CallsSatisfyPolicy
<1>1. CInv => CallsSatisfyPolicy
  <2> SUFFICES ASSUME CInv, NEW n \in Numbers, NEW i \in DOMAIN calls[n],
                      NEW x, x = calls[n][i].state
               PROVE  /\ InForce(x.authority, x.workflow, Subject, x.admitted)
                      /\ Entitled(current(x), Registry[current(x).agent_id], x.authority,
                                  x.evidence)
                      /\ x.authority.single_use => is_consumed(x.authority)
    BY DEF CallsSatisfyPolicy
  <2>1. CallOk(consumed, calls, n, i) BY CallTyped
  <2>2. /\ WorkflowReasons(x.workflow, x.authority, Subject, x.admitted) = {}
        /\ StepAllowed(x) /\ Held(consumed, x)
    BY <2>1 DEF CallOk
  <2>3. x \in Execution BY CallTyped
  <2>4. x.admitted \in Int /\ x.authority.expires_at \in Int
    BY <2>3, BoundsAssumption, GrantsAssumption DEF Execution
  <2>5. InForce(x.authority, x.workflow, Subject, x.admitted) BY <2>2, <2>4, AcceptedInForce
  <2> QED BY <2>2, <2>5, AcceptedEntitled DEF Held, is_consumed
<1> QED BY <1>1, SpecCInv, PTL

\* The handlers of an execution are called once each, in the workflow's order,
\* and none after one that did not pass.
THEOREM CoreCallsFollowTheWorkflow == Spec => []CallsFollowTheWorkflow
<1>1. CInv => CallsFollowTheWorkflow
  <2> SUFFICES ASSUME CInv, NEW n \in Numbers, NEW i \in DOMAIN calls[n]
               PROVE  /\ calls[n][i].step_id = calls[n][i].state.workflow.steps[i].step_id
                      /\ i < Len(calls[n]) => calls[n][i].decision = "PASS"
    BY DEF CallsFollowTheWorkflow
  <2> QED BY CallTyped DEF CallOk
<1> QED BY <1>1, SpecCInv, PTL

\* A WorkflowResult tells what happened.
THEOREM CoreResultsAreTrue == Spec => []ResultsAreTrue
<1>1. CInv => ResultsAreTrue
  <2> SUFFICES ASSUME CInv PROVE ResultsAreTrue
    OBVIOUS
  <2>1. \A r \in results : ResultOk(calls[r.number], r) BY DEF CInv
  <2> QED BY <2>1 DEF ResultsAreTrue, ResultOk
<1> QED BY <1>1, SpecCInv, PTL

\* With one thread the registry keeps the README's promise: a single-use grant
\* serves one execution.
THEOREM CoreNoReplay ==
  ASSUME OneThread
  PROVE  Spec => []NoReplay
<1>1. CInv => NoReplay
  <2> SUFFICES ASSUME CInv, NEW m \in Numbers, NEW n \in Numbers,
                      NEW i \in DOMAIN calls[m], NEW j \in DOMAIN calls[n],
                      OneGrant(m, i, n, j)
               PROVE  m = n
    BY DEF NoReplay
  <2>1. /\ CallOk(consumed, calls, m, i) /\ CallOk(consumed, calls, n, j)
        /\ calls[m][i].state.number = m /\ calls[n][j].state.number = n
    <3>1. CallOk(consumed, calls, m, i) BY CallTyped
    <3>2. CallOk(consumed, calls, n, j) BY CallTyped
    <3> QED BY <3>1, <3>2 DEF CallOk
  <2>2. m \notin calls[n][j].state.past BY <2>1 DEF CallOk, Apart, OneGrant
  <2>3. n \notin calls[m][i].state.past BY <2>1 DEF CallOk, Apart, OneGrant
  <2>4. InOrder(calls[m][i].state) /\ InOrder(calls[n][j].state) BY <2>1 DEF CallOk
  <2>5. m \in Nat \ {0} /\ n \in Nat \ {0} BY BoundsAssumption DEF Numbers
  <2>6. ~(m < n) BY <2>1, <2>2, <2>4, <2>5 DEF InOrder
  <2>7. ~(n < m) BY <2>1, <2>3, <2>4, <2>5 DEF InOrder
  <2> QED BY <2>5, <2>6, <2>7
<1> QED BY <1>1, SpecCInv, PTL
===============================================================================
