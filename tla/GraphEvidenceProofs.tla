-------------------------- MODULE GraphEvidenceProofs --------------------------
(***************************************************************************)
(* What a chain of evidence says: human records come from the reviewers,   *)
(* step.pass records from the steps that passed.                           *)
(*                                                                         *)
(* Both hold of the records the adapter writes; that nobody else writes in *)
(* their name is a hypothesis, for the adapter does not look: handlers and *)
(* callers choose the kinds of their evidence, and a caller its producers. *)
(***************************************************************************)
EXTENDS GovernedGraphProofs

\* No agent and no caller poses as the reviewers.
NoForgedReviews ==
  /\ \A p \in Steps : p.agent_id # "human-review"
  /\ \A l \in InitialLedgers : \A n \in DOMAIN l : l[n].producer # "human-review"

\* No handler, reviewer or caller writes step.pass records of its own.
NoForgedPasses ==
  /\ \A o \in Outcomes : \A n \in DOMAIN o.evidence : o.evidence[n] # "step.pass"
  /\ \A x \in Reviews : \A n \in DOMAIN x.kinds : x.kinds[n] # "step.pass"
  /\ \A l \in InitialLedgers : \A n \in DOMAIN l : l[n].kind # "step.pass"

-----------------------------------------------------------------------------
(***************************************************************************)
(* The inductive invariant                                                 *)
(***************************************************************************)

\* A response was given on its thread.
Given(answers, t, responses) ==
  \A n \in DOMAIN responses : <<t, responses[n]>> \in answers

\* The step was denied on its thread.
Denied(answers, t, workflow, step_id) ==
  \E x \in answers :
    /\ x[1] = t
    /\ x[2].workflow_id = workflow.workflow_id
    /\ x[2].step_id = step_id
    /\ ~x[2].approved

\* The record was given in an approval for a step that requires its kind.
Approved(answers, t, workflow, record) ==
  \E x \in answers, m \in DOMAIN workflow.steps :
    /\ x[1] = t
    /\ x[2].workflow_id = workflow.workflow_id
    /\ x[2].step_id = workflow.steps[m].step_id
    /\ x[2].approved
    /\ x[2].at = record.at
    /\ record.kind \in ToSet(x[2].kinds) \cap workflow.steps[m].requires

\* A record that is no human's, or that a human gave.
Human(answers, t, workflow, record) ==
  record.producer = "human-review" => Approved(answers, t, workflow, record)

Told(answers, t, v) ==
  /\ v.gated # NoRow /\ v.gated.verdict = "denied" =>
       Denied(answers, t, v.workflow, v.gated.step_id)
  /\ NoForgedReviews =>
       \A n \in DOMAIN v.evidence : Human(answers, t, v.workflow, v.evidence[n])
  /\ NoForgedPasses => PassesInOrder(v, v.current_step)

CallTold(answers, c) ==
  /\ c.pc = "resuming" => Given(answers, c.thread, c.response)
  /\ c.pc \notin {"idle", "resuming"} =>
       /\ Told(answers, c.thread, c.values)
       /\ Given(answers, c.thread, c.responses)
       /\ Given(answers, c.thread, c.response)

PointTold(answers, t, p) ==
  p # NoRow => Told(answers, t, p.values) /\ Given(answers, t, p.responses)

EInv ==
  /\ \A x \in reviewed : \E y \in Reviews : x[2].kinds = y.kinds
  /\ \A s \in Sessions : CallTold(reviewed, session[s])
  /\ \A t \in Threads : PointTold(reviewed, t, checkpoints[t])

-----------------------------------------------------------------------------
(***************************************************************************)
(* Chains that grow                                                        *)
(***************************************************************************)

\* The second chain extends the first.
Extends(first, second) ==
  /\ Len(first) <= Len(second)
  /\ \A n \in 1..Len(first) : second[n] = first[n]

\* A record that may be added at any time.
Fine(answers, t, workflow, record) ==
  /\ NoForgedReviews => Human(answers, t, workflow, record)
  /\ NoForgedPasses => record.kind # "step.pass"

\* What was told stays told when more answers are known.
LEMMA MoreAnswers ==
  ASSUME NEW answers, NEW more, answers \subseteq more, NEW t
  PROVE  /\ \A v : Told(answers, t, v) => Told(more, t, v)
         /\ \A responses : Given(answers, t, responses) => Given(more, t, responses)
<1>1. \A w, r : Human(answers, t, w, r) => Human(more, t, w, r)
  BY DEF Human, Approved
<1>2. \A w, i : Denied(answers, t, w, i) => Denied(more, t, w, i)
  BY DEF Denied
<1>3. \A v : Told(answers, t, v) => Told(more, t, v)
  BY <1>1, <1>2 DEF Told
<1>4. \A responses : Given(answers, t, responses) => Given(more, t, responses)
  BY DEF Given
<1> QED BY <1>3, <1>4

\* The passes of a chain that grows by records of other kinds.
LEMMA SamePasses ==
  ASSUME NEW v \in GraphState, NEW w \in GraphState, NEW k \in Nat,
         w.workflow = v.workflow,
         Extends(v.evidence, w.evidence),
         \A n \in 1..Len(w.evidence) :
           n > Len(v.evidence) => w.evidence[n].kind # "step.pass",
         PassesInOrder(v, k)
  PROVE  PassesInOrder(w, k)
<1>1. /\ DOMAIN v.evidence = 1..Len(v.evidence) /\ Len(v.evidence) \in Nat
      /\ DOMAIN w.evidence = 1..Len(w.evidence) /\ Len(w.evidence) \in Nat
  BY LenProperties DEF GraphState
<1>2. PICK at \in [1..k -> DOMAIN v.evidence] :
        /\ \A i, j \in 1..k : i < j => at[i] < at[j]
        /\ \A i \in 1..k : v.evidence[at[i]].step_id = v.workflow.steps[i].step_id
        /\ {n \in DOMAIN v.evidence : v.evidence[n].kind = "step.pass"} = {at[i] : i \in 1..k}
  BY DEF PassesInOrder
<1>3. DOMAIN v.evidence \subseteq DOMAIN w.evidence
  BY <1>1 DEF Extends
<1>4. at \in [1..k -> DOMAIN w.evidence]
  BY <1>2, <1>3
<1>5. \A n \in DOMAIN v.evidence : w.evidence[n] = v.evidence[n]
  BY <1>1 DEF Extends
<1>6. \A i \in 1..k : w.evidence[at[i]].step_id = w.workflow.steps[i].step_id
  BY <1>2, <1>5
<1>7. {n \in DOMAIN w.evidence : w.evidence[n].kind = "step.pass"} = {at[i] : i \in 1..k}
  <2>1. \A n \in DOMAIN w.evidence :
          w.evidence[n].kind = "step.pass" => n \in DOMAIN v.evidence
    BY <1>1
  <2>2. {n \in DOMAIN w.evidence : w.evidence[n].kind = "step.pass"}
          = {n \in DOMAIN v.evidence : v.evidence[n].kind = "step.pass"}
    BY <1>3, <1>5, <2>1
  <2> QED BY <1>2, <2>2
<1> QED BY <1>2, <1>4, <1>6, <1>7 DEF PassesInOrder

\* ... and of one that ends on the record of a step that passed.
LEMMA OneMorePass ==
  ASSUME NEW v \in GraphState, NEW w \in GraphState, NEW k \in Nat,
         w.workflow = v.workflow,
         Extends(v.evidence, w.evidence),
         Len(v.evidence) < Len(w.evidence),
         \A n \in 1..Len(w.evidence) :
           n > Len(v.evidence) /\ n < Len(w.evidence) => w.evidence[n].kind # "step.pass",
         w.evidence[Len(w.evidence)].kind = "step.pass",
         w.evidence[Len(w.evidence)].step_id = v.workflow.steps[k + 1].step_id,
         PassesInOrder(v, k)
  PROVE  PassesInOrder(w, k + 1)
<1>1. /\ DOMAIN v.evidence = 1..Len(v.evidence) /\ Len(v.evidence) \in Nat
      /\ DOMAIN w.evidence = 1..Len(w.evidence) /\ Len(w.evidence) \in Nat
  BY LenProperties DEF GraphState
<1> DEFINE last == Len(w.evidence)
<1>2. PICK at \in [1..k -> DOMAIN v.evidence] :
        /\ \A i, j \in 1..k : i < j => at[i] < at[j]
        /\ \A i \in 1..k : v.evidence[at[i]].step_id = v.workflow.steps[i].step_id
        /\ {n \in DOMAIN v.evidence : v.evidence[n].kind = "step.pass"} = {at[i] : i \in 1..k}
  BY DEF PassesInOrder
<1>3. PICK more : more = [i \in 1..(k + 1) |-> IF i = k + 1 THEN last ELSE at[i]]
  OBVIOUS
<1>4. /\ \A n \in DOMAIN v.evidence : /\ n \in DOMAIN w.evidence
                                      /\ n < last
                                      /\ w.evidence[n] = v.evidence[n]
      /\ last \in DOMAIN w.evidence
  BY <1>1 DEF Extends
<1>5. /\ \A i \in 1..k : i \in 1..(k + 1) /\ more[i] = at[i] /\ at[i] \in DOMAIN v.evidence
      /\ more[k + 1] = last
      /\ \A i \in 1..(k + 1) : i = k + 1 \/ i \in 1..k
  BY <1>2, <1>3
<1>6. more \in [1..(k + 1) -> DOMAIN w.evidence]
  BY <1>3, <1>4, <1>5
<1>7. \A i, j \in 1..(k + 1) : i < j => more[i] < more[j]
  <2> SUFFICES ASSUME NEW i \in 1..(k + 1), NEW j \in 1..(k + 1), i < j
               PROVE  more[i] < more[j]
    OBVIOUS
  <2>1. i \in 1..k
    BY <1>5
  <2>2. CASE j = k + 1
    BY <1>4, <1>5, <2>1, <2>2
  <2>3. CASE j \in 1..k
    BY <1>2, <1>5, <2>1, <2>3
  <2> QED BY <1>5, <2>2, <2>3
<1>8. \A i \in 1..(k + 1) : w.evidence[more[i]].step_id = w.workflow.steps[i].step_id
  <2> SUFFICES ASSUME NEW i \in 1..(k + 1)
               PROVE  w.evidence[more[i]].step_id = w.workflow.steps[i].step_id
    OBVIOUS
  <2>1. CASE i = k + 1
    BY <1>5, <2>1
  <2>2. CASE i \in 1..k
    BY <1>2, <1>4, <1>5, <2>2
  <2> QED BY <1>5, <2>1, <2>2
<1>9. {n \in DOMAIN w.evidence : w.evidence[n].kind = "step.pass"}
        = {more[i] : i \in 1..(k + 1)}
  <2>1. \A n \in DOMAIN w.evidence : w.evidence[n].kind = "step.pass" =>
          n = last \/ (n \in DOMAIN v.evidence /\ v.evidence[n].kind = "step.pass")
    BY <1>1, <1>4
  <2>2. \A n \in DOMAIN v.evidence : v.evidence[n].kind = "step.pass" =>
          \E i \in 1..(k + 1) : more[i] = n
    <3> SUFFICES ASSUME NEW n \in DOMAIN v.evidence, v.evidence[n].kind = "step.pass"
                 PROVE  \E i \in 1..(k + 1) : more[i] = n
      OBVIOUS
    <3>1. n \in {at[i] : i \in 1..k}
      BY <1>2
    <3>2. PICK i \in 1..k : at[i] = n
      BY <3>1
    <3> QED BY <1>5, <3>2
  <2>3. \E i \in 1..(k + 1) : more[i] = last
    BY <1>5
  <2>4. \A i \in 1..k : v.evidence[at[i]].kind = "step.pass"
    BY <1>2
  <2>5. \A i \in 1..(k + 1) : more[i] \in DOMAIN w.evidence
                               /\ w.evidence[more[i]].kind = "step.pass"
    BY <1>4, <1>5, <2>4, SMTT(20)
  <2>6. \A n \in DOMAIN w.evidence : w.evidence[n].kind = "step.pass" =>
          n \in {more[i] : i \in 1..(k + 1)}
    <3> SUFFICES ASSUME NEW n \in DOMAIN w.evidence, w.evidence[n].kind = "step.pass"
                 PROVE  n \in {more[i] : i \in 1..(k + 1)}
      OBVIOUS
    <3>1. PICK i \in 1..(k + 1) : more[i] = n
      <4>1. CASE n = last
        BY <2>3, <4>1
      <4>2. CASE n \in DOMAIN v.evidence /\ v.evidence[n].kind = "step.pass"
        BY <2>2, <4>2
      <4> QED BY <2>1, <4>1, <4>2
    <3> QED BY <3>1
  <2> QED BY <2>5, <2>6
<1> QED BY <1>6, <1>7, <1>8, <1>9 DEF PassesInOrder

\* A state whose chain grows by records that are fine, and that is not denied
\* without a denial, tells the truth.
LEMMA GrownTold ==
  ASSUME NEW answers, NEW t, NEW v \in GraphState, NEW w \in GraphState,
         Told(answers, t, v),
         w.workflow = v.workflow,
         w.current_step = v.current_step,
         w.gated # NoRow /\ w.gated.verdict = "denied" =>
           w.gated = v.gated \/ Denied(answers, t, w.workflow, w.gated.step_id),
         Extends(v.evidence, w.evidence),
         \A n \in 1..Len(w.evidence) :
           n > Len(v.evidence) => Fine(answers, t, v.workflow, w.evidence[n])
  PROVE  Told(answers, t, w)
<1>1. /\ DOMAIN v.evidence = 1..Len(v.evidence) /\ Len(v.evidence) \in Nat
      /\ DOMAIN w.evidence = 1..Len(w.evidence) /\ Len(w.evidence) \in Nat
      /\ v.current_step \in Nat
  BY LenProperties DEF GraphState
<1>2. NoForgedReviews =>
        \A n \in DOMAIN w.evidence : Human(answers, t, w.workflow, w.evidence[n])
  BY <1>1 DEF Told, Extends, Fine
<1>3. NoForgedPasses => PassesInOrder(w, w.current_step)
  BY <1>1, SamePasses DEF Told, Fine
<1>4. w.gated # NoRow /\ w.gated.verdict = "denied" =>
        Denied(answers, t, w.workflow, w.gated.step_id)
  BY DEF Told
<1> QED BY <1>2, <1>3, <1>4 DEF Told

LEMMA SameChain ==
  ASSUME NEW ledger \in Seq(EvidenceRecord)
  PROVE  Extends(ledger, ledger)
  BY LenProperties DEF Extends

\* A record of the adapter at the end of a chain.
LEMMA OneRecord ==
  ASSUME NEW ledger \in Seq(EvidenceRecord), NEW record \in EvidenceRecord
  PROVE  /\ Append(ledger, record) \in Seq(EvidenceRecord)
         /\ Extends(ledger, Append(ledger, record))
         /\ \A n \in 1..Len(Append(ledger, record)) :
              n > Len(ledger) => Append(ledger, record)[n] = record
<1>1. Len(ledger) \in Nat
  BY LenProperties
<1> QED BY <1>1, AppendProperties DEF Extends

\* A chain put at the end of another, and a record at the end of a chain.
Joined(a, b) == a \o b
Closed(a, record) == Append(a, record)

LEMMA OnTheEnd ==
  ASSUME NEW a \in Seq(EvidenceRecord), NEW b \in Seq(EvidenceRecord),
         NEW c, c = Joined(a, b)
  PROVE  /\ c \in Seq(EvidenceRecord)
         /\ Len(c) = Len(a) + Len(b)
         /\ Extends(a, c)
         /\ \A n \in 1..Len(c) :
              n > Len(a) => n - Len(a) \in 1..Len(b) /\ c[n] = b[n - Len(a)]
<1>1. Len(a) \in Nat /\ Len(b) \in Nat
  BY LenProperties
<1>2. /\ c \in Seq(EvidenceRecord)
      /\ Len(c) = Len(a) + Len(b)
      /\ \A i \in 1..(Len(a) + Len(b)) : c[i] = IF i <= Len(a) THEN a[i] ELSE b[i - Len(a)]
  BY ConcatProperties DEF Joined
<1>3. \A n \in 1..Len(c) : n > Len(a) => n - Len(a) \in 1..Len(b) /\ c[n] = b[n - Len(a)]
  BY <1>1, <1>2
<1>4. Extends(a, c)
  BY <1>1, <1>2 DEF Extends
<1> QED BY <1>2, <1>3, <1>4

\* A step's evidence and its completion record, put at the end of a chain.
Reports(a, items, last, c) ==
  /\ c \in Seq(EvidenceRecord)
  /\ Extends(a, c)
  /\ Len(a) < Len(c)
  /\ c[Len(c)] = last
  /\ \A n \in 1..Len(c) : n > Len(a) /\ n < Len(c) =>
       \E i \in 1..Len(items) : c[n] = items[i]

LEMMA ReportedChain ==
  ASSUME NEW a \in Seq(EvidenceRecord), NEW items \in Seq(EvidenceRecord),
         NEW last \in EvidenceRecord
  PROVE  Reports(a, items, last, Joined(a, Closed(items, last)))
<1>c. PICK c : c = Joined(a, Closed(items, last))
  OBVIOUS
<1>1. PICK b : b = Closed(items, last)
  OBVIOUS
<1>2. PICK k \in Nat, m \in Nat : k = Len(a) /\ m = Len(items)
  BY LenProperties
<1>3. /\ b \in Seq(EvidenceRecord)
      /\ Len(b) = m + 1
      /\ \A i \in 1..m : b[i] = items[i]
      /\ b[m + 1] = last
  BY <1>1, <1>2, AppendProperties DEF Closed
<1>4. c = Joined(a, b)
  BY <1>c, <1>1
<1>5. /\ c \in Seq(EvidenceRecord)
      /\ Len(c) = k + (m + 1)
      /\ Extends(a, c)
      /\ \A n \in 1..(k + (m + 1)) :
           n > k => n - k \in 1..(m + 1) /\ c[n] = b[n - k]
  <2>1. /\ c \in Seq(EvidenceRecord)
        /\ Len(c) = Len(a) + Len(b)
        /\ Extends(a, c)
        /\ \A n \in 1..Len(c) :
             n > Len(a) => n - Len(a) \in 1..Len(b) /\ c[n] = b[n - Len(a)]
    BY <1>3, <1>4, OnTheEnd
  <2> QED BY <1>2, <1>3, <2>1
<1>6. c[Len(c)] = last
  <2>1. k + (m + 1) \in 1..(k + (m + 1)) /\ k + (m + 1) > k /\ k + (m + 1) - k = m + 1
    BY <1>2
  <2> QED BY <1>3, <1>5, <2>1
<1>7. ASSUME NEW n \in 1..(k + (m + 1)), n > k, n < k + (m + 1)
      PROVE  n - k \in 1..m /\ c[n] = items[n - k]
  <2>1. n - k \in 1..m
    BY <1>2, <1>7
  <2> QED BY <1>3, <1>5, <1>7, <2>1
<1> QED BY <1>c, <1>2, <1>5, <1>6, <1>7 DEF Reports

LEMMA ExtendsTwice ==
  ASSUME NEW a \in Seq(EvidenceRecord), NEW b \in Seq(EvidenceRecord),
         NEW c \in Seq(EvidenceRecord), Extends(a, b), Extends(b, c)
  PROVE  Extends(a, c)
<1>1. Len(a) \in Nat /\ Len(b) \in Nat /\ Len(c) \in Nat
  BY LenProperties
<1> QED BY <1>1 DEF Extends

\* The adapter's own records, but step.pass, are fine.
LEMMA OwnRecords ==
  ASSUME NEW answers, NEW t, NEW workflow, NEW step, NEW replay, NEW at, NEW kind,
         kind # "step.pass"
  PROVE  Fine(answers, t, workflow, Record("langgraph-adapter", kind, at, step, replay))
  BY DEF Fine, Human, Record

-----------------------------------------------------------------------------
(***************************************************************************)
(* What the nodes make of a chain                                          *)
(***************************************************************************)

\* A chain that grows by one of the adapter's records, but step.pass.
LEMMA AdapterTold ==
  ASSUME NEW answers, NEW t, NEW v \in GraphState, NEW w \in GraphState,
         NEW ledger \in Seq(EvidenceRecord), NEW kind \in Kinds,
         NEW step \in StepIds \cup {NoRow},
         now \in 0..MaxTime,
         kind # "step.pass",
         Told(answers, t, v),
         Extends(v.evidence, ledger),
         \A n \in 1..Len(ledger) :
           n > Len(v.evidence) => Fine(answers, t, v.workflow, ledger[n]),
         w.workflow = v.workflow,
         w.current_step = v.current_step,
         w.gated = v.gated,
         w.evidence = Append(ledger, AdapterRecord(kind, step))
  PROVE  Told(answers, t, w)
<1>1. PICK record \in EvidenceRecord : record = AdapterRecord(kind, step)
  BY RecordIn
<1>2. /\ w.evidence \in Seq(EvidenceRecord)
      /\ Extends(ledger, w.evidence)
      /\ \A n \in 1..Len(w.evidence) : n > Len(ledger) => w.evidence[n] = record
  BY <1>1, OneRecord
<1>3. Fine(answers, t, v.workflow, record)
  BY <1>1, OwnRecords DEF AdapterRecord
<1>4. v.evidence \in Seq(EvidenceRecord) /\ Len(v.evidence) \in Nat /\ Len(ledger) \in Nat
  BY LenProperties DEF GraphState
<1>5. Extends(v.evidence, w.evidence)
  BY <1>2, <1>4, ExtendsTwice
<1>6. ASSUME NEW n \in 1..Len(w.evidence), n > Len(v.evidence)
      PROVE  Fine(answers, t, v.workflow, w.evidence[n])
  <2>1. CASE n > Len(ledger)
    BY <1>2, <1>3, <2>1
  <2>2. CASE n \in 1..Len(ledger)
    BY <1>2, <1>6, <2>2 DEF Extends
  <2> QED BY <1>4, <2>1, <2>2
<1> QED BY <1>5, <1>6, GrownTold

\* A step that ended, called or replayed.
LEMMA CompletedTold ==
  ASSUME NEW answers, NEW t, NEW v \in GraphState, NEW o \in Outcomes,
         NEW replay \in BOOLEAN, NEW w \in GraphState,
         now \in 0..MaxTime,
         v.current_step < Len(v.workflow.steps),
         Told(answers, t, v),
         w = Completed(v, o, replay)
  PROVE  Told(answers, t, w)
<1> DEFINE items == [i \in DOMAIN o.evidence |->
                      Record(current(v).agent_id, o.evidence[i], now, NoRow, FALSE)]
           last  == Record("langgraph-adapter", StepRecordKind(o.decision), now,
                           current(v).step_id, replay)
           size  == Len(o.evidence)
<1>1. /\ o.evidence \in Seq(Kinds) /\ o.decision \in Decisions
      /\ current(v) \in Steps
      /\ v.evidence \in Seq(EvidenceRecord)
      /\ v.current_step \in Nat
  BY CurrentStep, OutcomesAssumption DEF GraphState
<1>2. size \in Nat /\ DOMAIN o.evidence = 1..size /\ Len(v.evidence) \in Nat
  BY <1>1, LenProperties
<1>3. /\ items \in Seq(EvidenceRecord) /\ Len(items) = size
      /\ last \in EvidenceRecord
  <2>1. \A i \in 1..size : items[i] \in EvidenceRecord
    <3> SUFFICES ASSUME NEW i \in 1..size PROVE items[i] \in EvidenceRecord
      OBVIOUS
    <3>1. o.evidence[i] \in Kinds
      BY <1>1, ElementOfSeq
    <3> QED BY <3>1, <1>1, <1>2, RecordIn
  <2>2. items \in [1..size -> EvidenceRecord]
    BY <1>2, <2>1
  <2>3. last \in EvidenceRecord
    BY <1>1, CurrentStep, RecordIn, OwnKinds
  <2> HIDE DEF items, size
  <2> QED BY <1>2, <2>2, <2>3, SeqDef, LenProperties
<1>4. \A i \in 1..size : Fine(answers, t, v.workflow, items[i])
  <2> SUFFICES ASSUME NEW i \in 1..size PROVE Fine(answers, t, v.workflow, items[i])
    OBVIOUS
  <2>1. items[i].producer = current(v).agent_id /\ items[i].kind = o.evidence[i]
    BY <1>2 DEF Record
  <2>2. NoForgedReviews => items[i].producer # "human-review"
    BY <1>1, <2>1 DEF NoForgedReviews
  <2>3. NoForgedPasses => items[i].kind # "step.pass"
    BY <1>2, <2>1 DEF NoForgedPasses
  <2> QED BY <2>2, <2>3 DEF Fine, Human
<1>5. /\ last.kind = StepRecordKind(o.decision)
      /\ last.step_id = current(v).step_id
      /\ last.producer = "langgraph-adapter"
  BY DEF Record
<1>6. /\ w.evidence = Joined(v.evidence, Closed(items, last))
      /\ w.workflow = v.workflow /\ w.gated = v.gated
      /\ w.current_step = IF o.decision = "PASS" THEN v.current_step + 1 ELSE v.current_step
  BY DEF Completed, Reported, Joined, Closed, GraphState
<1> HIDE DEF items, last, size
<1>7. PICK chain : chain = w.evidence
  OBVIOUS
<1>8. /\ chain \in Seq(EvidenceRecord)
      /\ Extends(v.evidence, chain)
      /\ Len(v.evidence) < Len(chain)
      /\ chain[Len(chain)] = last
      /\ \A n \in 1..Len(chain) : n > Len(v.evidence) /\ n < Len(chain) =>
           \E i \in 1..Len(items) : chain[n] = items[i]
  <2>1. PICK a \in Seq(EvidenceRecord), b \in Seq(EvidenceRecord), record \in EvidenceRecord :
          a = v.evidence /\ b = items /\ record = last
    BY <1>1, <1>3
  <2>2. chain = Joined(a, Closed(b, record))
    BY <1>6, <1>7, <2>1
  <2>3. Reports(a, b, record, chain)
    BY <2>2, ReportedChain
  <2> QED BY <2>1, <2>3 DEF Reports
<1>9. Extends(v.evidence, w.evidence)
  BY <1>7, <1>8
<1>10. \A n \in 1..Len(w.evidence) :
         n > Len(v.evidence) /\ n < Len(w.evidence) => Fine(answers, t, v.workflow, w.evidence[n])
  BY <1>3, <1>4, <1>7, <1>8
<1>11. w.evidence[Len(w.evidence)] = last /\ Len(v.evidence) < Len(w.evidence)
  BY <1>7, <1>8
<1>12. CASE o.decision = "PASS"
  <2>1. last.kind = "step.pass" /\ w.current_step = v.current_step + 1
    BY <1>5, <1>6, <1>12 DEF StepRecordKind
  <2>2. NoForgedPasses => PassesInOrder(w, w.current_step)
    BY <1>1, <1>5, <1>6, <1>9, <1>10, <1>11, <2>1, OneMorePass DEF Told, Fine, current
  <2>3. NoForgedReviews =>
          \A n \in DOMAIN w.evidence : Human(answers, t, w.workflow, w.evidence[n])
    <3> SUFFICES ASSUME NoForgedReviews, NEW n \in DOMAIN w.evidence
                 PROVE  Human(answers, t, w.workflow, w.evidence[n])
      OBVIOUS
    <3>1. /\ n \in 1..Len(w.evidence) /\ Len(w.evidence) \in Nat
          /\ DOMAIN v.evidence = 1..Len(v.evidence)
      BY LenProperties DEF GraphState
    <3>2. CASE n \in 1..Len(v.evidence)
      BY <1>6, <1>9, <3>1, <3>2 DEF Told, Extends
    <3>3. CASE n > Len(v.evidence) /\ n < Len(w.evidence)
      BY <1>6, <1>10, <3>1, <3>3 DEF Fine
    <3>4. CASE n = Len(w.evidence)
      BY <1>5, <1>11, <3>4 DEF Human
    <3> QED BY <1>2, <3>1, <3>2, <3>3, <3>4
  <2>4. w.gated # NoRow /\ w.gated.verdict = "denied" =>
          Denied(answers, t, w.workflow, w.gated.step_id)
    BY <1>6 DEF Told
  <2> QED BY <2>2, <2>3, <2>4 DEF Told
<1>13. CASE o.decision # "PASS"
  <2>1. last.kind # "step.pass" /\ w.current_step = v.current_step
    BY <1>1, <1>5, <1>6, <1>13 DEF StepRecordKind, Decisions
  <2>2. Fine(answers, t, v.workflow, last)
    BY <1>5, <2>1 DEF Fine, Human
  <2>3. \A n \in 1..Len(w.evidence) :
          n > Len(v.evidence) => Fine(answers, t, v.workflow, w.evidence[n])
    <3> SUFFICES ASSUME NEW n \in 1..Len(w.evidence), n > Len(v.evidence)
                 PROVE  Fine(answers, t, v.workflow, w.evidence[n])
      OBVIOUS
    <3>1. CASE n < Len(w.evidence)
      BY <1>10, <3>1
    <3>2. CASE n = Len(w.evidence)
      BY <1>11, <2>2, <3>2
    <3>3. Len(w.evidence) \in Nat
      BY <1>7, <1>8, LenProperties
    <3> QED BY <3>1, <3>2, <3>3
  <2> QED BY <1>6, <1>9, <2>1, <2>3, GrownTold
<1> QED BY <1>12, <1>13

\* What the loop over the responses adds is fine, and it is denied by a denial.
Heard(answers, t, v) ==
  {acc \in Loop :
     /\ Extends(v.evidence, acc.ledger)
     /\ \A n \in 1..Len(acc.ledger) :
          n > Len(v.evidence) => Fine(answers, t, v.workflow, acc.ledger[n])
     /\ acc.status = "denied" => Denied(answers, t, v.workflow, current(v).step_id)}

LEMMA TurnHeard ==
  ASSUME NEW answers, NEW t, NEW v \in GraphState, NEW descriptor,
         NEW acc \in Heard(answers, t, v), NEW response \in Response,
         \A x \in answers : \E y \in Reviews : x[2].kinds = y.kinds,
         <<t, response>> \in answers,
         v.current_step < Len(v.workflow.steps)
  PROVE  Turn(v, descriptor, acc, response) \in Heard(answers, t, v)
<1>1. PICK next \in Loop : next = Turn(v, descriptor, acc, response)
  BY TurnType DEF Heard
<1>2. CASE next = acc
  BY <1>1, <1>2
<1>3. CASE /\ Addresses(response, v)
           /\ ~response.approved
           /\ next = [status |-> "denied", ledger |-> acc.ledger]
  <2>1. Denied(answers, t, v.workflow, current(v).step_id)
    BY <1>3 DEF Denied, Addresses
  <2> QED BY <1>1, <1>3, <2>1 DEF Heard
<1>4. CASE next = [status |-> "raised", ledger |-> acc.ledger]
  BY <1>1, <1>4 DEF Heard
<1>5. CASE /\ Addresses(response, v)
           /\ response.approved
           /\ ToSet(response.kinds) \subseteq missing(current(v), acc.ledger)
           /\ next = [status |-> "open",
                      ledger |-> acc.ledger \o [i \in DOMAIN response.kinds |->
                        Record("human-review", response.kinds[i], response.at, NoRow, FALSE)]]
  <2> DEFINE added == [i \in DOMAIN response.kinds |->
                        Record("human-review", response.kinds[i], response.at, NoRow, FALSE)]
  <2>1. /\ acc.ledger \in Seq(EvidenceRecord) /\ v.evidence \in Seq(EvidenceRecord)
        /\ response.kinds \in Seq(Kinds)
        /\ v.current_step \in Nat
    BY DEF Heard, Loop, GraphState, Response
  <2>2. /\ Len(acc.ledger) \in Nat /\ Len(v.evidence) \in Nat
        /\ DOMAIN response.kinds = 1..Len(response.kinds) /\ Len(response.kinds) \in Nat
        /\ DOMAIN v.workflow.steps = 1..Len(v.workflow.steps)
        /\ Len(v.workflow.steps) \in Nat
    BY <2>1, LenProperties, CurrentStep
  <2>3. \A i \in 1..Len(response.kinds) : Fine(answers, t, v.workflow, added[i])
    <3> SUFFICES ASSUME NEW i \in 1..Len(response.kinds)
                 PROVE  Fine(answers, t, v.workflow, added[i])
      OBVIOUS
    <3>1. added[i].kind = response.kinds[i] /\ added[i].at = response.at
      BY <2>2 DEF Record
    <3>2. response.kinds[i] \in ToSet(response.kinds)
      BY <2>2 DEF ToSet
    <3>3. response.kinds[i] \in current(v).requires
      BY <1>5, <3>2 DEF missing
    <3>4. v.current_step + 1 \in DOMAIN v.workflow.steps
      BY <2>1, <2>2
    <3>5. Approved(answers, t, v.workflow, added[i])
      BY <1>5, <3>1, <3>2, <3>3, <3>4 DEF Approved, Addresses, current
    <3>6. NoForgedPasses => added[i].kind # "step.pass"
      <4>1. PICK y \in Reviews : response.kinds = y.kinds
        OBVIOUS
      <4> QED BY <2>2, <3>1, <4>1 DEF NoForgedPasses
    <3> QED BY <3>5, <3>6 DEF Fine, Human
  <2>4. added \in Seq(EvidenceRecord) /\ Len(added) = Len(response.kinds)
    BY <2>1, AnswerLedger
  <2> HIDE DEF added
  <2>5. /\ Len(next.ledger) = Len(acc.ledger) + Len(response.kinds)
        /\ Extends(acc.ledger, next.ledger)
        /\ \A n \in 1..Len(next.ledger) :
             n > Len(acc.ledger) => /\ n - Len(acc.ledger) \in 1..Len(response.kinds)
                                    /\ next.ledger[n] = added[n - Len(acc.ledger)]
    <3>1. next.ledger = acc.ledger \o added
      BY <1>5 DEF added
    <3>2. PICK chain : chain = next.ledger
      OBVIOUS
    <3>3. PICK a \in Seq(EvidenceRecord), b \in Seq(EvidenceRecord) :
            a = acc.ledger /\ b = added
      BY <2>1, <2>4
    <3>4. chain = Joined(a, b)
      BY <3>1, <3>2, <3>3 DEF Joined
    <3>5. /\ Len(chain) = Len(a) + Len(b)
          /\ Extends(a, chain)
          /\ \A n \in 1..Len(chain) :
               n > Len(a) => n - Len(a) \in 1..Len(b) /\ chain[n] = b[n - Len(a)]
      BY <3>4, OnTheEnd
    <3> QED BY <2>4, <3>2, <3>3, <3>5
  <2>6. Extends(v.evidence, next.ledger)
    <3>1. Extends(acc.ledger, next.ledger)
      BY <2>5
    <3>2. next.ledger \in Seq(EvidenceRecord)
      BY DEF Loop
    <3>3. Extends(v.evidence, acc.ledger)
      BY DEF Heard
    <3> QED BY <2>1, <3>1, <3>2, <3>3, ExtendsTwice
  <2>7. ASSUME NEW n \in 1..Len(next.ledger), n > Len(v.evidence)
        PROVE  Fine(answers, t, v.workflow, next.ledger[n])
    <3>1. CASE n \in 1..Len(acc.ledger)
      BY <2>5, <2>7, <3>1 DEF Heard, Extends
    <3>2. CASE n > Len(acc.ledger)
      BY <2>3, <2>5, <3>2
    <3> QED BY <2>2, <3>1, <3>2
  <2>8. next.status = "open"
    BY <1>5
  <2> QED BY <1>1, <2>6, <2>7, <2>8 DEF Heard
<1> QED BY <1>1, <1>2, <1>3, <1>4, <1>5 DEF Turn, Answer

\* A review's ledger extends the checkpoint's by what reviewers gave for the
\* step, and its denial is one of theirs.
LEMMA ReviewHeard ==
  ASSUME NEW answers, NEW t, NEW v \in GraphState, NEW descriptor,
         NEW responses \in Seq(Response),
         \A x \in answers : \E y \in Reviews : x[2].kinds = y.kinds,
         Given(answers, t, responses),
         v.current_step < Len(v.workflow.steps)
  PROVE  LET review == Review(v, descriptor, responses)
         IN  /\ Extends(v.evidence, review.ledger)
             /\ \A n \in 1..Len(review.ledger) :
                  n > Len(v.evidence) => Fine(answers, t, v.workflow, review.ledger[n])
             /\ review.verdict = "denied" => Denied(answers, t, v.workflow, current(v).step_id)
<1>1. /\ v.evidence \in Seq(EvidenceRecord) /\ Len(v.evidence) \in Nat
      /\ DOMAIN responses = 1..Len(responses)
  BY LenProperties DEF GraphState
<1>2. [status |-> "open", ledger |-> v.evidence] \in Heard(answers, t, v)
  BY <1>1, SameChain DEF Heard, Loop
<1>3. \A acc \in Heard(answers, t, v), n \in 1..Len(responses) :
        Turn(v, descriptor, acc, responses[n]) \in Heard(answers, t, v)
  BY <1>1, ElementOfSeq, TurnHeard DEF Given
<1>4. Turns(v, descriptor, responses) \in Heard(answers, t, v)
  BY <1>2, <1>3, TurnsKeep
<1> QED BY <1>4 DEF Review, Heard

-----------------------------------------------------------------------------
(***************************************************************************)
(* One lemma per action                                                    *)
(***************************************************************************)

\* Checkpoints that changed tell the truth.
PointsTold(answers, points, points2) ==
  \A t \in Threads : points2[t] = points[t] \/ PointTold(answers, t, points2[t])

\* A step after which one call and the changed checkpoints tell the truth.
LEMMA ToldStep ==
  ASSUME GInv, EInv, NEW s \in Sessions, NEW c,
         session' = [session EXCEPT ![s] = c],
         reviewed \subseteq reviewed',
         \A x \in reviewed' : \E y \in Reviews : x[2].kinds = y.kinds,
         CallTold(reviewed', c),
         PointsTold(reviewed', checkpoints, checkpoints')
  PROVE  EInv'
<1>1. ASSUME NEW r \in Sessions PROVE CallTold(reviewed', session'[r])
  <2>1. CASE r = s
    BY <2>1 DEF GInv
  <2>2. CASE r # s
    <3>1. session'[r] = session[r] /\ CallTold(reviewed, session[r])
      BY <2>2 DEF GInv, EInv
    <3> QED BY <3>1, MoreAnswers DEF CallTold
  <2> QED BY <2>1, <2>2
<1>2. ASSUME NEW t \in Threads PROVE PointTold(reviewed', t, checkpoints'[t])
  <2>1. CASE checkpoints'[t] = checkpoints[t]
    <3>1. PointTold(reviewed, t, checkpoints[t])
      BY DEF EInv
    <3> QED BY <2>1, <3>1, MoreAnswers DEF PointTold
  <2> QED BY <2>1 DEF PointsTold
<1> QED BY <1>1, <1>2 DEF EInv

\* What a call in the graph tells, and what it stores.
LEMMA CallTells ==
  ASSUME GInv, EInv, NEW s \in Sessions, session[s].pc \notin {"idle", "resuming"}
  PROVE  /\ Told(reviewed, session[s].thread, session[s].values)
         /\ Given(reviewed, session[s].thread, session[s].responses)
         /\ Given(reviewed, session[s].thread, session[s].response)
         /\ PointsTold(reviewed, checkpoints, Stored(s))
<1>1. /\ Told(reviewed, session[s].thread, session[s].values)
      /\ Given(reviewed, session[s].thread, session[s].responses)
      /\ Given(reviewed, session[s].thread, session[s].response)
  BY DEF EInv, CallTold
<1>2. PointTold(reviewed, session[s].thread, Image(s))
  BY <1>1 DEF PointTold, Image
<1> QED BY <1>1, <1>2 DEF PointsTold, Stored, GInv, Points

\* Responses kept one after the other.
LEMMA GivenBoth ==
  ASSUME NEW answers, NEW t, NEW a \in Seq(Response), NEW b \in Seq(Response),
         Given(answers, t, a), Given(answers, t, b)
  PROVE  Given(answers, t, a \o b)
<1>1. PICK c : c = a \o b
  OBVIOUS
<1>2. PICK k \in Nat, m \in Nat : k = Len(a) /\ m = Len(b)
  BY LenProperties
<1>3. /\ DOMAIN a = 1..k /\ DOMAIN b = 1..m
      /\ DOMAIN c = 1..(k + m)
      /\ \A n \in 1..(k + m) : c[n] = IF n <= k THEN a[n] ELSE b[n - k]
  BY <1>1, <1>2, LenProperties, ConcatProperties
<1>4. ASSUME NEW n \in 1..(k + m) PROVE <<t, c[n]>> \in answers
  <2>1. CASE n <= k
    BY <1>2, <1>3, <2>1 DEF Given
  <2>2. CASE n > k
    <3>n. n - k \in 1..m
      BY <1>2, <2>2
    <3>1. PICK i \in 1..m : i = n - k
      BY <3>n
    <3>2. c[n] = b[i]
      BY <1>2, <1>3, <2>2, <3>1
    <3>3. <<t, b[i]>> \in answers
      BY <1>3 DEF Given
    <3> QED BY <3>2, <3>3
  <2> QED BY <1>2, <2>1, <2>2
<1> QED BY <1>1, <1>3, <1>4 DEF Given

\* A response that is kept was given.
LEMMA KeptTells ==
  ASSUME GInv, EInv, NEW s \in Sessions, session[s].pc \notin {"idle", "resuming"},
         MayKeepResponse(s)
  PROVE  PointsTold(reviewed, checkpoints, checkpoints')
<1>1. CASE UNCHANGED checkpoints
  BY <1>1 DEF PointsTold
<1>2. CASE checkpoints[session[s].thread] = Image(s) /\ checkpoints' = Kept(s)
  <2>1. PICK t \in Threads, p \in Checkpoint : t = session[s].thread /\ p = Image(s)
    BY CallFacts
  <2>2. PICK a \in Seq(Response), b \in Seq(Response) :
          a = p.responses /\ b = session[s].response
    BY CallFacts DEF Call, Checkpoint
  <2>3. Given(reviewed, t, a) /\ Given(reviewed, t, b) /\ Told(reviewed, t, p.values)
    BY <2>1, <2>2, CallTells DEF Image
  <2>4. PICK kept : kept = a \o b
    OBVIOUS
  <2>5. Given(reviewed, t, kept)
    BY <2>3, <2>4, GivenBoth
  <2>6. PICK q : q = [p EXCEPT !.responses = kept]
    OBVIOUS
  <2>7. PointTold(reviewed, t, q)
    BY <2>3, <2>5, <2>6 DEF PointTold, Checkpoint
  <2>8. checkpoints' = [checkpoints EXCEPT ![t] = q]
    BY <1>2, <2>1, <2>2, <2>4, <2>6 DEF Kept, GInv, Points
  <2> QED BY <2>7, <2>8 DEF PointsTold, GInv, Points
<1> QED BY <1>1, <1>2 DEF MayKeepResponse

\* A step that ends a call.
LEMMA IdleTold ==
  ASSUME GInv, EInv, NEW s \in Sessions,
         session' = [session EXCEPT ![s] = Idle],
         reviewed' = reviewed,
         PointsTold(reviewed, checkpoints, checkpoints')
  PROVE  EInv'
<1>1. CallTold(reviewed', Idle)
  BY DEF CallTold, Idle
<1> QED BY <1>1, ToldStep DEF EInv

\* A step that leads a call to the next node with a state that tells the truth.
LEMMA GoToTold ==
  ASSUME GInv, GInv', EInv, NEW s \in Sessions, session[s].pc \notin {"idle", "resuming"},
         NEW w, NEW node \in {"gate", "claim", "finalize", "end"},
         GoTo(s, w, node),
         reviewed' = reviewed,
         PointsTold(reviewed, checkpoints, checkpoints'),
         w \in GraphState => Told(reviewed, session[s].thread, w)
  PROVE  EInv'
<1>1. PICK c : c = [session[s] EXCEPT !.values = w, !.pc = node, !.interrupt = NoRow,
                                      !.responses = <<>>, !.response = <<>>]
  OBVIOUS
<1>2. session' = [session EXCEPT ![s] = c] /\ session'[s] = c
  BY <1>1 DEF GoTo, GInv
<1>3. /\ c.pc = node /\ c.values = w /\ c.thread = session[s].thread
      /\ c.responses = <<>> /\ c.response = <<>>
  BY <1>1, CallFacts DEF Call
<1>4. c \in Session
  BY <1>2 DEF GInv
<1>5. w \in GraphState
  BY <1>3, <1>4 DEF Session, Idle, Resuming, Call
<1>6. CallTold(reviewed', c)
  BY <1>3, <1>5 DEF CallTold, Given
<1> QED BY <1>2, <1>6, ToldStep DEF EInv

\* A blocked state tells what its chain told.
LEMMA BlockedTold ==
  ASSUME NEW answers, NEW t, NEW v \in GraphState,
         NEW ledger \in Seq(EvidenceRecord),
         NEW kind \in {"workflow.blocked", "step.blocked", "step.in_doubt"},
         NEW step \in StepIds \cup {NoRow},
         now \in 0..MaxTime,
         Told(answers, t, v),
         Extends(v.evidence, ledger),
         \A n \in 1..Len(ledger) :
           n > Len(v.evidence) => Fine(answers, t, v.workflow, ledger[n]),
         NEW w \in GraphState, w = Blocked(v, ledger, step, kind)
  PROVE  Told(answers, t, w)
<1>1. kind \in Kinds /\ kind # "step.pass"
  BY OwnKinds
<1>2. /\ w.workflow = v.workflow /\ w.current_step = v.current_step /\ w.gated = v.gated
      /\ w.evidence = Append(ledger, AdapterRecord(kind, step))
  BY DEF Blocked, GraphState
<1> QED BY <1>1, <1>2, AdapterTold

\* ... on its own chain.
LEMMA BlockedHereTold ==
  ASSUME NEW answers, NEW t, NEW v \in GraphState,
         NEW kind \in {"workflow.blocked", "step.blocked", "step.in_doubt"},
         NEW step \in StepIds \cup {NoRow},
         now \in 0..MaxTime,
         Told(answers, t, v),
         NEW w \in GraphState, w = Blocked(v, v.evidence, step, kind)
  PROVE  Told(answers, t, w)
<1>1. v.evidence \in Seq(EvidenceRecord) /\ Len(v.evidence) \in Nat
  BY LenProperties DEF GraphState
<1>2. Extends(v.evidence, v.evidence)
  BY <1>1, SameChain
<1>3. \A n \in 1..Len(v.evidence) :
        n > Len(v.evidence) => Fine(answers, t, v.workflow, v.evidence[n])
  BY <1>1
<1> QED BY <1>1, <1>2, <1>3, BlockedTold

\* start: the caller's ledger.
LEMMA StartTold ==
  ASSUME GInv, EInv, NEW s \in Sessions, NEW t \in Threads, NEW w \in Workflows,
         NEW g \in Grants, NEW l \in InitialLedgers, NEW r \in Registries,
         Start(s, t, w, g, l, r)
  PROVE  EInv'
<1>1. PICK v : v = InitialState(w, g, l)
  OBVIOUS
<1>2. v.gated = NoRow /\ v.evidence = l /\ v.current_step = 0 /\ v.workflow = w
  BY <1>1 DEF InitialState
<1>3. NoForgedReviews =>
        \A n \in DOMAIN v.evidence : Human(reviewed, t, v.workflow, v.evidence[n])
  BY <1>2 DEF NoForgedReviews, Human
<1>4. ASSUME NoForgedPasses PROVE PassesInOrder(v, 0)
  <2>1. PICK at : at = [i \in 1..0 |-> 0]
    OBVIOUS
  <2>2. at \in [1..0 -> DOMAIN v.evidence]
    BY <2>1
  <2>3. {n \in DOMAIN v.evidence : v.evidence[n].kind = "step.pass"} = {}
    BY <1>2, <1>4 DEF NoForgedPasses
  <2>4. {at[i] : i \in 1..0} = {}
    OBVIOUS
  <2> QED BY <2>2, <2>3, <2>4 DEF PassesInOrder
<1>5. Told(reviewed, t, v)
  BY <1>2, <1>3, <1>4 DEF Told
<1>6. PICK c : c = [pc        |-> "authorize",
                    thread    |-> t,
                    values    |-> v,
                    interrupt |-> NoRow,
                    responses |-> <<>>,
                    response  |-> <<>>,
                    outcome   |-> NoRow,
                    registry  |-> r]
  OBVIOUS
<1>7. session' = [session EXCEPT ![s] = c]
  BY <1>1, <1>6 DEF Start
<1>8. CallTold(reviewed, c)
  BY <1>5, <1>6 DEF CallTold, Given
<1>9. reviewed' = reviewed /\ checkpoints' = checkpoints
  BY DEF Start, history, durable
<1> QED BY <1>7, <1>8, <1>9, ToldStep DEF EInv, PointsTold

\* resume: a response that is given.
LEMMA ResumeTold ==
  ASSUME GInv, EInv, NEW s \in Sessions, NEW t \in Threads, NEW x \in Reviews,
         NEW r \in Registries, Resume(s, t, x, r)
  PROVE  EInv'
<1>1. PICK response : response = [workflow_id |-> checkpoints[t].interrupt.workflow_id,
                                  step_id     |-> checkpoints[t].interrupt.step_id,
                                  approved    |-> x.approved,
                                  kinds       |-> x.kinds,
                                  at          |-> now]
  OBVIOUS
<1>2. PICK c : c = [pc |-> "resuming", thread |-> t, response |-> <<response>>, registry |-> r]
  OBVIOUS
<1>3. /\ session' = [session EXCEPT ![s] = c]
      /\ reviewed' = reviewed \cup {<<t, response>>}
      /\ checkpoints' = checkpoints
  BY <1>1, <1>2 DEF Resume, durable
<1>4. CallTold(reviewed', c)
  BY <1>2, <1>3 DEF CallTold, Given
<1>5. \A y \in reviewed' : \E z \in Reviews : y[2].kinds = z.kinds
  BY <1>1, <1>3 DEF EInv
<1> QED BY <1>3, <1>4, <1>5, ToldStep DEF PointsTold

\* invoke(Command(resume=...)): the checkpoint as it is now.
LEMMA EnterTold ==
  ASSUME GInv, EInv, NEW s \in Sessions, Enter(s)
  PROVE  EInv'
<1>1. /\ session[s].pc = "resuming"
      /\ session[s] \in Resuming
      /\ session[s].thread \in Threads
      /\ CallOk(authority_uses, step_executions, checkpoints, handled, session[s])
  <2>1. session[s].pc = "resuming" /\ session[s] \in Session
    BY DEF Enter, AtNode, GInv
  <2>2. session[s] \in Resuming
    BY <2>1 DEF Session, Idle, Call
  <2> QED BY <2>1, <2>2 DEF Resuming, GInv
<1>2. PICK t \in Threads, p \in Checkpoint :
        t = session[s].thread /\ p = checkpoints[t]
  BY <1>1 DEF CallOk, GInv, Points
<1>3. /\ Given(reviewed, t, session[s].response)
      /\ Told(reviewed, t, p.values)
      /\ Given(reviewed, t, p.responses)
  BY <1>1, <1>2, NoRowIsNone DEF EInv, CallTold, PointTold
<1>4. reviewed' = reviewed /\ checkpoints' = checkpoints
  BY DEF Enter, history, durable
<1>5. CASE p.next = "end"
  BY <1>2, <1>4, <1>5, IdleTold DEF Enter, PointsTold
<1>6. CASE p.next # "end"
  <2>1. PICK c : c = [pc        |-> IF p.next = "execute" THEN "claim" ELSE p.next,
                      thread    |-> t,
                      values    |-> p.values,
                      interrupt |-> p.interrupt,
                      responses |-> p.responses,
                      response  |-> session[s].response,
                      outcome   |-> NoRow,
                      registry  |-> session[s].registry]
    OBVIOUS
  <2>2. session' = [session EXCEPT ![s] = c]
    BY <1>2, <1>6, <2>1 DEF Enter
  <2>3. p.next \notin {"idle", "resuming"}
    BY DEF Checkpoint
  <2>4. CallTold(reviewed, c)
    BY <1>3, <2>1, <2>3 DEF CallTold
  <2> QED BY <1>4, <2>2, <2>4, ToldStep DEF EInv, PointsTold
<1> QED BY <1>5, <1>6

\* authorize.
LEMMA AuthorizeTold ==
  ASSUME GInv, GInv', EInv, NEW s \in Sessions, AuthorizeNode(s)
  PROVE  EInv'
<1>1. session[s].pc = "authorize"
  BY DEF AuthorizeNode, AtNode
<1>2. PICK v \in GraphState, t \in Threads : v = session[s].values /\ t = session[s].thread
  BY <1>1, CallFacts
<1>3. /\ Told(reviewed, t, v)
      /\ now \in 0..MaxTime
      /\ reviewed' = reviewed
  BY <1>1, <1>2, CallTells DEF AuthorizeNode, history, GInv
<1>4. CASE GoTo(s, Blocked(v, v.evidence, NoRow, "workflow.blocked"), "end")
           /\ UNCHANGED checkpoints
  <2>1. PICK w : w = Blocked(v, v.evidence, NoRow, "workflow.blocked")
    OBVIOUS
  <2>2. w \in GraphState => Told(reviewed, t, w)
    BY <1>3, <2>1, BlockedHereTold
  <2> QED BY <1>1, <1>2, <1>3, <1>4, <2>1, <2>2, GoToTold DEF PointsTold
<1>5. CASE Raise(s)
  BY <1>1, <1>3, <1>5, CallTells, IdleTold DEF Raise
<1>6. CASE GoTo(s, Started(v), "gate") /\ UNCHANGED checkpoints
  <2>1. PICK w : w = Started(v)
    OBVIOUS
  <2>2. ASSUME w \in GraphState PROVE Told(reviewed, t, w)
    <3>1. /\ w.workflow = v.workflow /\ w.current_step = v.current_step /\ w.gated = v.gated
          /\ w.evidence = Append(v.evidence, AdapterRecord("workflow.started", NoRow))
      BY <2>1 DEF Started, GraphState
    <3>2. v.evidence \in Seq(EvidenceRecord) /\ Len(v.evidence) \in Nat
      BY LenProperties DEF GraphState
    <3>3. Extends(v.evidence, v.evidence)
      BY <3>2, SameChain
    <3>4. \A n \in 1..Len(v.evidence) :
            n > Len(v.evidence) => Fine(reviewed, t, v.workflow, v.evidence[n])
      BY <3>2
    <3> QED BY <1>3, <2>2, <3>1, <3>2, <3>3, <3>4, AdapterTold, OwnKinds
  <2> QED BY <1>1, <1>2, <1>3, <1>6, <2>1, <2>2, GoToTold DEF PointsTold
<1> QED BY <1>2, <1>4, <1>5, <1>6 DEF AuthorizeNode

\* The gate, when the grant holds no longer.
LEMMA GateRecheckTold ==
  ASSUME GInv, GInv', EInv, NEW s \in Sessions, GateRecheck(s)
  PROVE  EInv'
<1>1. session[s].pc = "gate"
  BY DEF GateRecheck, AtNode
<1>2. PICK v \in GraphState, t \in Threads : v = session[s].values /\ t = session[s].thread
  BY <1>1, CallFacts
<1>3. /\ Told(reviewed, t, v)
      /\ now \in 0..MaxTime
      /\ reviewed' = reviewed
  BY <1>1, <1>2, CallTells DEF GateRecheck, history, GInv
<1>4. CASE GoTo(s, Blocked(v, v.evidence, NoRow, "workflow.blocked"), "end")
           /\ UNCHANGED checkpoints
  <2>1. PICK w : w = Blocked(v, v.evidence, NoRow, "workflow.blocked")
    OBVIOUS
  <2>2. w \in GraphState => Told(reviewed, t, w)
    BY <1>3, <2>1, BlockedHereTold
  <2> QED BY <1>1, <1>2, <1>3, <1>4, <2>1, <2>2, GoToTold DEF PointsTold
<1>5. CASE Raise(s)
  BY <1>1, <1>3, <1>5, CallTells, IdleTold DEF Raise
<1> QED BY <1>2, <1>4, <1>5 DEF GateRecheck

\* finalize.
LEMMA FinalizeTold ==
  ASSUME GInv, GInv', EInv, NEW s \in Sessions, FinalizeNode(s)
  PROVE  EInv'
<1>1. session[s].pc = "finalize"
  BY DEF FinalizeNode, AtNode
<1>2. PICK v \in GraphState, t \in Threads : v = session[s].values /\ t = session[s].thread
  BY <1>1, CallFacts
<1>3. /\ Told(reviewed, t, v)
      /\ now \in 0..MaxTime
      /\ reviewed' = reviewed /\ checkpoints' = checkpoints
  BY <1>1, <1>2, CallTells DEF FinalizeNode, durable, history, GInv
<1>4. PICK w : w = Finalized(v)
  OBVIOUS
<1>5. ASSUME w \in GraphState PROVE Told(reviewed, t, w)
  <2>1. /\ w.workflow = v.workflow /\ w.current_step = v.current_step /\ w.gated = v.gated
        /\ w.evidence = Append(v.evidence, AdapterRecord("workflow.completed", NoRow))
    BY <1>4 DEF Finalized, GraphState
  <2>2. v.evidence \in Seq(EvidenceRecord) /\ Len(v.evidence) \in Nat
    BY LenProperties DEF GraphState
  <2>3. Extends(v.evidence, v.evidence)
    BY <2>2, SameChain
  <2>4. \A n \in 1..Len(v.evidence) :
          n > Len(v.evidence) => Fine(reviewed, t, v.workflow, v.evidence[n])
    BY <2>2
  <2> QED BY <1>3, <1>5, <2>1, <2>2, <2>3, <2>4, AdapterTold, OwnKinds
<1>6. GoTo(s, w, "end")
  BY <1>2, <1>4 DEF FinalizeNode
<1> QED BY <1>1, <1>2, <1>3, <1>5, <1>6, GoToTold DEF PointsTold

\* The gate: what the reviewers gave, and whom they denied.
LEMMA GateTold ==
  ASSUME GInv, GInv', EInv, NEW s \in Sessions, GateStep(s)
  PROVE  EInv'
<1>1. session[s].pc = "gate" /\ NodeOf(session[s].pc) = "gate"
  BY DEF GateStep, AtNode, NodeOf
<1>2. PICK v \in GraphState, t \in Threads, r \in Registries,
           a \in Seq(Response), b \in Seq(Response) :
        /\ v = session[s].values
        /\ t = session[s].thread
        /\ r = session[s].registry
        /\ a = session[s].responses
        /\ b = session[s].response
  BY <1>1, CallFacts DEF Call
<1>3. PICK answered \in Seq(Response) : answered = a \o b
  BY ConcatProperties
<1>4. /\ Told(reviewed, t, v)
      /\ Given(reviewed, t, a)
      /\ Given(reviewed, t, b)
      /\ now \in 0..MaxTime
      /\ reviewed' = reviewed
      /\ \A x \in reviewed : \E y \in Reviews : x[2].kinds = y.kinds
  BY <1>1, <1>2, CallTells DEF GateStep, history, GInv, EInv
<1>5. Given(reviewed, t, answered)
  BY <1>3, <1>4, GivenBoth
<1>6. /\ v.current_step < Len(v.workflow.steps)
      /\ current(v).step_id \in StepIds
  BY <1>1, <1>2, CallFacts, CurrentStep DEF Sound, Placed
<1>7. MayKeepResponse(s) => PointsTold(reviewed, checkpoints, checkpoints')
  BY <1>1, KeptTells
<1> DEFINE agent == current(v).agent_id
<1>8. CASE /\ GoTo(s, Blocked(v, v.evidence, current(v).step_id, "step.blocked"), "end")
           /\ MayKeepResponse(s)
  <2>1. PICK w : w = Blocked(v, v.evidence, current(v).step_id, "step.blocked")
    OBVIOUS
  <2>2. w \in GraphState => Told(reviewed, t, w)
    BY <1>4, <1>6, <2>1, BlockedHereTold
  <2> QED BY <1>1, <1>2, <1>4, <1>7, <1>8, <2>1, <2>2, GoToTold
<1>9. CASE agent \in DOMAIN r
  <2>1. PICK review : review = Review(v, r[agent], answered)
    OBVIOUS
  <2>2. PICK ledger \in Seq(EvidenceRecord) : ledger = review.ledger
    BY <2>1, ReviewType
  <2>3. /\ Extends(v.evidence, ledger)
        /\ \A n \in 1..Len(ledger) :
             n > Len(v.evidence) => Fine(reviewed, t, v.workflow, ledger[n])
        /\ review.verdict = "denied" => Denied(reviewed, t, v.workflow, current(v).step_id)
        /\ review.verdict \in {"ready", "refused", "denied", "raised", "interrupt"}
    BY <1>4, <1>5, <1>6, <2>1, <2>2, ReviewHeard, ReviewType
  <2>4. PICK judged : judged = [v EXCEPT !.gated =
          [step_id |-> current(v).step_id, at |-> now, verdict |-> review.verdict]]
    OBVIOUS
  <2>5. /\ judged \in GraphState
        /\ judged.gated.step_id = current(v).step_id
        /\ judged.gated.verdict = review.verdict
        /\ judged.workflow = v.workflow /\ judged.current_step = v.current_step
        /\ judged.evidence = v.evidence
    BY <1>4, <1>6, <2>3, <2>4 DEF GraphState, Verdict
  <2>6. Told(reviewed, t, judged)
    <3>1. v.evidence \in Seq(EvidenceRecord) /\ Len(v.evidence) \in Nat
      BY LenProperties DEF GraphState
    <3>2. Extends(v.evidence, judged.evidence)
      BY <2>5, <3>1, SameChain
    <3>3. \A n \in 1..Len(judged.evidence) :
            n > Len(v.evidence) => Fine(reviewed, t, v.workflow, judged.evidence[n])
      BY <2>5, <3>1
    <3> QED BY <1>4, <2>3, <2>5, <3>2, <3>3, GrownTold
  <2>7. CASE /\ GoTo(s, [judged EXCEPT !.evidence = ledger], "claim")
             /\ MayKeepResponse(s)
    <3>1. PICK w : w = [judged EXCEPT !.evidence = ledger]
      OBVIOUS
    <3>2. /\ w \in GraphState
          /\ w.workflow = judged.workflow /\ w.current_step = judged.current_step
          /\ w.gated = judged.gated /\ w.evidence = ledger
      BY <2>5, <3>1 DEF GraphState
    <3>3. Told(reviewed, t, w)
      BY <2>3, <2>5, <2>6, <3>2, GrownTold
    <3> QED BY <1>1, <1>2, <1>4, <1>7, <2>7, <3>1, <3>3, GoToTold
  <2>8. CASE /\ GoTo(s, Blocked(judged, ledger, current(v).step_id, "step.blocked"), "end")
             /\ MayKeepResponse(s)
    <3>1. PICK w : w = Blocked(judged, ledger, current(v).step_id, "step.blocked")
      OBVIOUS
    <3>2. w \in GraphState => Told(reviewed, t, w)
      BY <1>4, <1>6, <2>3, <2>5, <2>6, <3>1, BlockedTold
    <3> QED BY <1>1, <1>2, <1>4, <1>7, <2>8, <3>1, <3>2, GoToTold
  <2>9. CASE /\ session' = [session EXCEPT ![s] = Idle]
             /\ MayKeepResponse(s)
    BY <1>4, <1>7, <2>9, IdleTold
  <2>10. CASE /\ session' = [session EXCEPT
                   ![s].pc = "interrupted",
                   ![s].interrupt = [workflow_id |-> v.workflow.workflow_id,
                                     step_id |-> current(v).step_id],
                   ![s].responses = answered,
                   ![s].response = <<>>]
              /\ UNCHANGED checkpoints
    <3>1. PICK c : c = [session[s] EXCEPT
                          !.pc = "interrupted",
                          !.interrupt = [workflow_id |-> v.workflow.workflow_id,
                                         step_id |-> current(v).step_id],
                          !.responses = answered,
                          !.response = <<>>]
      OBVIOUS
    <3>2. /\ c.pc = "interrupted" /\ c.thread = t /\ c.values = v
          /\ c.responses = answered /\ c.response = <<>>
      BY <1>1, <1>2, <3>1, CallFacts DEF Call
    <3>3. session' = [session EXCEPT ![s] = c]
      BY <2>10, <3>1 DEF GInv
    <3>4. CallTold(reviewed', c)
      BY <1>4, <1>5, <3>2 DEF CallTold, Given
    <3> QED BY <1>4, <2>10, <3>3, <3>4, ToldStep DEF EInv, PointsTold
  <2> QED BY <1>2, <1>3, <1>8, <1>9, <2>1, <2>2, <2>4, <2>7, <2>8, <2>9, <2>10 DEF GateStep
<1> QED BY <1>2, <1>8, <1>9 DEF GateStep

\* execute, up to the journal's answer.
LEMMA ClaimNodeTold ==
  ASSUME GInv, GInv', EInv, NEW s \in Sessions, ClaimNode(s)
  PROVE  EInv'
<1>1. session[s].pc = "claim" /\ NodeOf(session[s].pc) = "execute"
  BY DEF ClaimNode, AtNode, NodeOf
<1>2. PICK v \in GraphState, t \in Threads, k \in Keys :
        /\ v = session[s].values
        /\ t = session[s].thread
        /\ k = KeyOf(t, v)
        /\ v.current_step < Len(v.workflow.steps)
  <2>1. /\ session[s].values \in GraphState
        /\ session[s].thread \in Threads
        /\ session[s].values.current_step < Len(session[s].values.workflow.steps)
    BY <1>1, CallFacts DEF Sound, Placed
  <2> QED BY <2>1, KeyIn
<1>3. /\ Told(reviewed, t, v)
      /\ Given(reviewed, t, session[s].responses)
      /\ Given(reviewed, t, session[s].response)
      /\ now \in 0..MaxTime
      /\ reviewed' = reviewed
      /\ current(v).step_id \in StepIds
  BY <1>1, <1>2, CallTells, CurrentStep DEF ClaimNode, history, GInv
<1>4. ASSUME NEW kind \in {"step.blocked", "step.in_doubt"},
             GoTo(s, Blocked(v, v.evidence, current(v).step_id, kind), "end"),
             UNCHANGED checkpoints
      PROVE  EInv'
  <2>1. PICK w : w = Blocked(v, v.evidence, current(v).step_id, kind)
    OBVIOUS
  <2>2. w \in GraphState => Told(reviewed, t, w)
    BY <1>3, <2>1, BlockedHereTold
  <2> QED BY <1>1, <1>2, <1>3, <1>4, <2>1, <2>2, GoToTold DEF PointsTold
<1>5. CASE GoTo(s, Blocked(v, v.evidence, current(v).step_id, "step.blocked"), "end")
           /\ UNCHANGED checkpoints
  BY <1>4, <1>5
<1>6. CASE GoTo(s, Blocked(v, v.evidence, current(v).step_id, "step.in_doubt"), "end")
           /\ UNCHANGED checkpoints
  BY <1>4, <1>6
<1>7. CASE Raise(s)
  BY <1>1, <1>3, <1>7, CallTells, IdleTold DEF Raise
<1>8. CASE session' = [session EXCEPT ![s].pc = "handler"] /\ UNCHANGED checkpoints
  <2>1. PICK c : c = [session[s] EXCEPT !.pc = "handler"]
    OBVIOUS
  <2>2. /\ c.pc = "handler" /\ c.thread = t /\ c.values = v
        /\ c.responses = session[s].responses /\ c.response = session[s].response
    BY <1>1, <1>2, <2>1, CallFacts DEF Call
  <2>3. session' = [session EXCEPT ![s] = c]
    BY <1>8, <2>1 DEF GInv
  <2>4. CallTold(reviewed', c)
    BY <1>3, <2>2 DEF CallTold
  <2> QED BY <1>3, <1>8, <2>3, <2>4, ToldStep DEF EInv, PointsTold
<1>9. CASE /\ StepTerminal(step_executions, k, request_digest(t, v))
           /\ GoTo(s, Completed(v, step_executions[k].outcome, TRUE),
                   AfterStep(Completed(v, step_executions[k].outcome, TRUE)))
           /\ UNCHANGED checkpoints
  <2>1. PICK o \in Outcomes : o = step_executions[k].outcome
    BY <1>9 DEF GInv, RowOk, StepTerminal
  <2>2. PICK w : w = Completed(v, o, TRUE)
    OBVIOUS
  <2>3. w \in GraphState => Told(reviewed, t, w)
    BY <1>2, <1>3, <2>2, CompletedTold
  <2>4. AfterStep(w) \in {"gate", "claim", "finalize", "end"}
    BY DEF AfterStep
  <2>5. GoTo(s, w, AfterStep(w))
    BY <1>9, <2>1, <2>2
  <2> QED BY <1>1, <1>2, <1>3, <1>9, <2>3, <2>4, <2>5, GoToTold DEF PointsTold
<1> QED BY <1>2, <1>5, <1>6, <1>7, <1>8, <1>9 DEF ClaimNode

\* execute, the call of the handler.
LEMMA HandlerTold ==
  ASSUME GInv, EInv, NEW s \in Sessions, NEW o \in Outcomes, HandlerNode(s, o)
  PROVE  EInv'
<1>1. session[s].pc = "handler"
  BY DEF HandlerNode, AtNode
<1>2. reviewed' = reviewed
  BY DEF HandlerNode
<1>3. CASE session' = [session EXCEPT ![s].pc = "seal", ![s].outcome = o] /\ UNCHANGED checkpoints
  <2>1. PICK c : c = [session[s] EXCEPT !.pc = "seal", !.outcome = o]
    OBVIOUS
  <2>2. /\ c.pc = "seal" /\ c.thread = session[s].thread /\ c.values = session[s].values
        /\ c.responses = session[s].responses /\ c.response = session[s].response
    BY <1>1, <2>1, CallFacts DEF Call
  <2>3. session' = [session EXCEPT ![s] = c]
    BY <1>3, <2>1 DEF GInv
  <2>4. CallTold(reviewed', c)
    BY <1>1, <1>2, <2>2, CallTells DEF CallTold
  <2> QED BY <1>2, <1>3, <2>3, <2>4, ToldStep DEF EInv, PointsTold
<1>4. CASE Raise(s)
  BY <1>1, <1>2, <1>4, CallTells, IdleTold DEF Raise
<1> QED BY <1>3, <1>4 DEF HandlerNode

\* execute, the seal and what follows it.
LEMMA SealTold ==
  ASSUME GInv, GInv', EInv, NEW s \in Sessions, SealNode(s)
  PROVE  EInv'
<1>1. session[s].pc = "seal" /\ NodeOf(session[s].pc) = "execute" /\ InHandler(session[s])
  BY DEF SealNode, AtNode, NodeOf, InHandler
<1>2. PICK v \in GraphState, t \in Threads :
        /\ v = session[s].values
        /\ t = session[s].thread
        /\ v.current_step < Len(v.workflow.steps)
  BY <1>1, CallFacts DEF Sound, Placed
<1>3. PICK o \in Outcomes : o = session[s].outcome
  BY <1>1 DEF GInv, CallOk, Holds
<1>4. Told(reviewed, t, v) /\ now \in 0..MaxTime /\ reviewed' = reviewed
  BY <1>1, <1>2, CallTells DEF SealNode, history, GInv
<1>5. PICK w : w = Completed(v, o, FALSE)
  OBVIOUS
<1>6. CASE GoTo(s, w, AfterStep(w)) /\ UNCHANGED checkpoints
  <2>1. w \in GraphState => Told(reviewed, t, w)
    BY <1>2, <1>4, <1>5, CompletedTold
  <2>2. AfterStep(w) \in {"gate", "claim", "finalize", "end"}
    BY DEF AfterStep
  <2> QED BY <1>1, <1>2, <1>4, <1>6, <2>1, <2>2, GoToTold DEF PointsTold
<1>7. CASE Raise(s)
  BY <1>1, <1>4, <1>7, CallTells, IdleTold DEF Raise
<1> QED BY <1>2, <1>3, <1>5, <1>6, <1>7 DEF SealNode

\* The background writer.
LEMMA PersistTold ==
  ASSUME GInv, EInv, NEW s \in Sessions, Persist(s)
  PROVE  EInv'
<1>1. session[s].pc \notin {"idle", "resuming"}
  BY DEF Persist
<1>2. /\ session' = [session EXCEPT ![s] = session[s]]
      /\ reviewed' = reviewed
      /\ checkpoints' = Stored(s)
  BY DEF Persist, history, GInv
<1>3. PointsTold(reviewed, checkpoints, Stored(s))
  BY <1>1, CallTells
<1> QED BY <1>2, <1>3, ToldStep DEF EInv

\* invoke returns.
LEMMA ReturnTold ==
  ASSUME GInv, EInv, NEW s \in Sessions, Return(s)
  PROVE  EInv'
<1>1. session[s].pc \notin {"idle", "resuming"}
  BY DEF Return, Returns, AtNode
<1>2. PointsTold(reviewed, checkpoints, Stored(s))
  BY <1>1, CallTells
<1> QED BY <1>2, IdleTold DEF Return

\* A process dies.
LEMMA CrashTold ==
  ASSUME GInv, EInv, NEW s \in Sessions, Crash(s)
  PROVE  EInv'
  BY IdleTold DEF Crash, durable, history, PointsTold

-----------------------------------------------------------------------------
(***************************************************************************)
(* The invariant, and what follows from it                                 *)
(***************************************************************************)

\* At the start nothing is told.
LEMMA InitEInv == Init => EInv
  BY DEF Init, EInv, CallTold, PointTold, Idle

\* Every step keeps the invariant.
LEMMA NextEInv == GInv /\ EInv /\ [Next]_vars => EInv'
<1> SUFFICES ASSUME GInv, EInv, [Next]_vars PROVE EInv'
  OBVIOUS
<1>1. GInv'
  BY NextGInv
<1>2. ASSUME NEW s \in Sessions, Work(s) PROVE EInv'
  BY <1>1, <1>2, EnterTold, AuthorizeTold, GateRecheckTold, GateTold, ClaimNodeTold,
     HandlerTold, SealTold, FinalizeTold, ReturnTold DEF Work
<1>3. ASSUME Tick PROVE EInv'
  BY <1>3 DEF Tick, durable, history, EInv
<1>4. ASSUME Calm PROVE EInv'
  BY <1>2, <1>3, <1>4, PersistTold, StartTold, ResumeTold DEF Calm
<1>5. CASE UNCHANGED vars
  BY <1>5 DEF vars, EInv
<1> QED BY <1>4, <1>5, CrashTold DEF Next

\* Every chain of every reachable state tells the truth, under its hypotheses.
THEOREM SpecEInv == Spec => []EInv
<1>1. Init => GInv /\ EInv
  BY InitGInv, InitEInv
<1>2. GInv /\ EInv /\ [Next]_vars => (GInv /\ EInv)'
  BY NextGInv, NextEInv
<1> QED BY <1>1, <1>2, PTL DEF Spec

\* The states that exist tell the truth.
LEMMA StatesTold ==
  ASSUME GInv, EInv, NEW t \in Threads, NEW v \in StatesOf(t)
  PROVE  Told(reviewed, t, v)
<1>1. CASE checkpoints[t] # NoRow /\ v = checkpoints[t].values
  BY <1>1 DEF EInv, PointTold
<1>2. CASE \E s \in Sessions : Running(s) /\ session[s].thread = t /\ v = session[s].values
  BY <1>2 DEF EInv, CallTold, Running
<1> QED BY <1>1, <1>2 DEF StatesOf

\* A denial blocks the step it was given for, and human evidence on a chain
\* comes from an approval for a step of that workflow that requires the kind,
\* whatever resumes race; if nobody else writes in the reviewers' name.
THEOREM GraphResponsesKeepTheirStep ==
  ASSUME NoForgedReviews
  PROVE  Spec => []ResponsesKeepTheirStep
<1>1. ASSUME GInv, EInv PROVE ResponsesKeepTheirStep
  <2>1. ASSUME NEW t \in Threads, NEW v \in StatesOf(t)
        PROVE  /\ v.gated # NoRow /\ v.gated.verdict = "denied" =>
                    Denied(reviewed, t, v.workflow, v.gated.step_id)
               /\ \A n \in DOMAIN v.evidence : Human(reviewed, t, v.workflow, v.evidence[n])
    BY <1>1, StatesTold DEF Told
  <2> QED BY <2>1 DEF ResponsesKeepTheirStep, Denied, Human, Approved
<1> QED BY <1>1, SpecGInv, SpecEInv, PTL

\* A workflow reported as PASS had every handler called, and its chain holds
\* one step.pass record per step, in order; if nobody else writes such records.
THEOREM GraphPassMeansAllRan ==
  ASSUME NoForgedPasses
  PROVE  Spec => []PassMeansAllRan
<1>1. ASSUME GInv, EInv PROVE PassMeansAllRan
  <2> SUFFICES ASSUME NEW t \in Threads, NEW v \in StatesOf(t), v.decision = "PASS"
               PROVE  /\ \A m \in DOMAIN v.workflow.steps : \E i \in DOMAIN handled :
                           handled[i].key = <<t, v.workflow.workflow_id,
                                              v.workflow.steps[m].step_id>>
                      /\ PassesInOrder(v, Len(v.workflow.steps))
    BY DEF PassMeansAllRan
  <2>1. /\ v \in GraphState
        /\ \E node : Sound(authority_uses, step_executions, t, v, node)
    BY <1>1, StatesFacts
  <2>3. /\ v.current_step = Len(v.workflow.steps)
        /\ DOMAIN v.workflow.steps = 1..Len(v.workflow.steps)
    <3>1. /\ v.current_step \in Nat
          /\ Len(v.workflow.steps) \in Nat
          /\ DOMAIN v.workflow.steps = 1..Len(v.workflow.steps)
      BY <2>1, CurrentStep, LenProperties, WorkflowsAssumption DEF GraphState
    <3>2. v.current_step <= Len(v.workflow.steps) /\ v.current_step >= Len(v.workflow.steps)
      BY <2>1 DEF Sound, Placed, finished
    <3> QED BY <3>1, <3>2
  <2>4. ASSUME NEW m \in DOMAIN v.workflow.steps
        PROVE  \E i \in DOMAIN handled :
                 handled[i].key = <<t, v.workflow.workflow_id, v.workflow.steps[m].step_id>>
    <3>1. PICK k \in Keys : k = <<t, v.workflow.workflow_id, v.workflow.steps[m].step_id>>
      BY <2>1, <2>3, KeyIn
    <3>2. step_executions[k] # NoRow /\ step_executions[k].status = "COMPLETED"
      BY <2>1, <2>3, <3>1 DEF Sound, Passed, RowIn
    <3>3. \E i \in DOMAIN handled : handled[i].key = k
      BY <1>1, <3>2 DEF GInv, RowOk
    <3> QED BY <3>1, <3>3
  <2>5. PassesInOrder(v, v.current_step)
    BY <1>1, StatesTold DEF Told
  <2> QED BY <2>3, <2>4, <2>5
<1> QED BY <1>1, SpecGInv, SpecEInv, PTL
===============================================================================
