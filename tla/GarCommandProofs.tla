--------------------------- MODULE GarCommandProofs ---------------------------
(***************************************************************************)
(* What the gar command promises, for any files and options, any bounds of *)
(* the clock: contracts that were read survive a checkpoint, and the exit  *)
(* code tells what was called.                                             *)
(*                                                                         *)
(* The first half is about Contracts as functions: what is read is well    *)
(* formed, and what is well formed comes back from its JSON as it was.  The *)
(* second half is the invariant GarInv of the one execution of the         *)
(* process, whose contracts are those that were read.                      *)
(***************************************************************************)
EXTENDS GarCommand, NumberInduction, FiniteSetTheorems, SequenceTheorems, TLAPS

-----------------------------------------------------------------------------
(***************************************************************************)
(* Sequences                                                               *)
(***************************************************************************)

IsSequence(s) == s \in Seq(ToSet(s))

\* A function on 1..n is a sequence of its values.
LEMMA FunctionIsSequence ==
  ASSUME NEW n \in Nat, NEW s, s = [i \in 1..n |-> s[i]]
  PROVE  IsSequence(s) /\ Len(s) = n /\ DOMAIN s = 1..n
<1>1. s \in [1..n -> ToSet(s)]
  BY DEF ToSet
<1>2. s \in Seq(ToSet(s))
  BY <1>1, SeqDef
<1> QED BY <1>1, <1>2, LenProperties DEF IsSequence

\* What a sequence is.
LEMMA SequenceFacts ==
  ASSUME NEW s, IsSequence(s)
  PROVE  /\ Len(s) \in Nat
         /\ DOMAIN s = 1..Len(s)
         /\ s = [i \in 1..Len(s) |-> s[i]]
         /\ s # <<>> <=> Len(s) > 0
         /\ IsFiniteSet(ToSet(s))
<1>1. s \in Seq(ToSet(s))
  BY DEF IsSequence
<1>2. Len(s) \in Nat /\ DOMAIN s = 1..Len(s) /\ s \in [1..Len(s) -> ToSet(s)]
  BY <1>1, LenProperties
<1>3. s # <<>> <=> Len(s) > 0
  BY <1>1, <1>2, EmptySeq
<1>4. s \in Surjection(1..Len(s), ToSet(s))
  BY <1>2 DEF ToSet, Surjection
<1>5. IsFiniteSet(ToSet(s))
  <2>1. IsFiniteSet(1..Len(s))
    BY <1>2, FS_Interval
  <2> QED BY <1>4, <2>1, FS_Surjection
<1> QED BY <1>2, <1>3, <1>5

\* What a sequence becomes with one more element.
LEMMA AppendFacts ==
  ASSUME NEW s, IsSequence(s), NEW e
  PROVE  /\ IsSequence(Append(s, e))
         /\ Len(Append(s, e)) = Len(s) + 1
         /\ \A i \in 1..Len(s) : Append(s, e)[i] = s[i]
         /\ Append(s, e)[Len(s) + 1] = e
<1>1. PICK S : S = ToSet(s) \cup {e}
  OBVIOUS
<1>2. s \in Seq(S) /\ e \in S
  BY <1>1, SequenceFacts, SeqDef DEF IsSequence
<1>3. Append(s, e) \in Seq(S)
  BY <1>2, AppendProperties
<1>4. PICK a : a = Append(s, e)
  OBVIOUS
<1>5. /\ a \in Seq(S) /\ Len(a) = Len(s) + 1
      /\ \A i \in 1..Len(s) : a[i] = s[i]
      /\ a[Len(s) + 1] = e
  BY <1>2, <1>3, <1>4, AppendProperties
<1>6. a \in [1..Len(a) -> S] /\ Len(a) \in Nat
  BY <1>5, LenProperties
<1>7. IsSequence(a)
  BY <1>6, FunctionIsSequence
<1> QED BY <1>4, <1>5, <1>7

-----------------------------------------------------------------------------
(***************************************************************************)
(* The inductive invariant                                                 *)
(***************************************************************************)

\* A step, a workflow and a grant that models.py accepts.
StepOk(p) ==
  /\ p = [step_id    |-> p.step_id,
          agent_id   |-> p.agent_id,
          action     |-> p.action,
          capability |-> p.capability,
          effect     |-> p.effect,
          requires   |-> p.requires,
          input_data |-> p.input_data]
  /\ Blank \notin {p.step_id, p.agent_id, p.action, p.capability}
  /\ p.effect \in EffectClass
  /\ IsFiniteSet(p.requires) /\ Blank \notin p.requires

StepIdsOf(workflow) == [i \in DOMAIN workflow.steps |-> workflow.steps[i].step_id]

WorkflowOk(w) ==
  /\ w = [workflow_id |-> w.workflow_id, correlation_id |-> w.correlation_id, steps |-> w.steps]
  /\ Blank \notin {w.workflow_id, w.correlation_id}
  /\ IsSequence(w.steps) /\ w.steps # <<>>
  /\ \A i \in DOMAIN w.steps : StepOk(w.steps[i])
  /\ Unique(StepIdsOf(w))

GrantOk(g) ==
  /\ g = [authorization_id |-> g.authorization_id,
          subject          |-> g.subject,
          workflow_id      |-> g.workflow_id,
          capabilities     |-> g.capabilities,
          issued_at        |-> g.issued_at,
          expires_at       |-> g.expires_at,
          single_use       |-> g.single_use]
  /\ Blank \notin {g.authorization_id, g.subject, g.workflow_id}
  /\ IsFiniteSet(g.capabilities) /\ g.capabilities # {} /\ Blank \notin g.capabilities
  /\ g.issued_at \in Int /\ g.expires_at \in Int /\ g.issued_at < g.expires_at
  /\ g.single_use \in BOOLEAN

\* The command has its fields, and contracts that were read.
CommandOk(c) ==
  /\ c \in [pc : {"start", "execute", "running", "write", "exit"}, call : Invocations,
            workflow : {c.workflow}, grant : {c.grant},
            printed : BOOLEAN, written : BOOLEAN, exit : 0..4]
  /\ c.workflow # <<>> => WorkflowOk(c.workflow) /\ GrantOk(c.grant)
  /\ c.pc \in {"execute", "running", "write"} =>
       /\ c.call.name # "semantics"
       /\ WorkflowOk(c.workflow)
       /\ StepIdsOf(c.workflow) = StepsAskedFor

\* The handler calls made for a workflow are of its first steps, in order.
Followed(made, workflow) ==
  /\ IsSequence(made)
  /\ Len(made) <= Len(workflow.steps)
  /\ \A i \in 1..Len(made) : made[i].step_id = workflow.steps[i].step_id

\* The execution is one of the command's workflow, all its calls so far passed,
\* and it has a step left unless it is to be completed.
ExecutionOk(x, workflow, made) ==
  /\ x \in [pc : {"consume", "add", "step", "handler", "complete"}, number : {1},
            workflow : {workflow}, authority : {x.authority}, evidence : {x.evidence},
            steps : {x.steps}, admitted : {x.admitted}, past : {x.past}]
  /\ AllRegistered(workflow)
  /\ IsSequence(x.steps) /\ Len(x.steps) = Len(made)
  /\ Followed(made, workflow)
  /\ \A i \in DOMAIN made : made[i].decision = "PASS"
  /\ IF x.pc = "complete" THEN Len(made) = Len(workflow.steps)
     ELSE Len(made) < Len(workflow.steps)

\* What a decision says of the calls that were made.
Decides(decision, workflow, made) ==
  /\ decision \in Decisions
  /\ Followed(made, workflow)
  /\ decision = "PASS" => /\ Len(made) = Len(workflow.steps)
                          /\ \A i \in DOMAIN made : made[i].decision = "PASS"
  /\ decision = "BLOCKED" => IF \A i \in DOMAIN made : made[i].decision = "PASS"
                             THEN Len(made) < Len(workflow.steps)
                             ELSE made[Len(made)].decision = "BLOCKED"
  /\ decision = "FAIL" => made[Len(made)].decision = "FAIL"

Decided == \E r \in results : results = {r} /\ Decides(r.decision, command.workflow, Made)

GarInv ==
  /\ CommandOk(command)
  /\ now \in Nat
  /\ calls = [n \in Numbers |-> calls[n]]
  /\ execution = [c \in Callers |-> execution[c]]
  /\ command.pc \in {"start", "execute"} =>
       /\ execution[gar] = Idle /\ started = 0 /\ results = {} /\ Made = <<>>
  /\ command.pc \in {"start", "execute", "running"} => ~command.printed
  /\ command.pc = "running" =>
       \/ execution[gar] = Idle /\ (results = {} \/ Decided)
       \/ ExecutionOk(execution[gar], command.workflow, Made) /\ results = {}
  /\ command.pc = "write" => command.printed /\ Decided
  /\ ExitTellsTheTruth

-----------------------------------------------------------------------------
(***************************************************************************)
(* From contracts to JSON and back                                         *)
(***************************************************************************)

\* A finite set is listed without repetition.
LEMMA Listed ==
  ASSUME NEW S, IsFiniteSet(S)
  PROVE  /\ Cardinality(S) \in Nat
         /\ SetToSeq(S) \in [1..Cardinality(S) -> S]
         /\ \A x \in S : \E i \in 1..Cardinality(S) : SetToSeq(S)[i] = x
<1>1. PICK n \in Nat : n = Cardinality(S)
  BY FS_CardinalityType
<1>2. PICK f : f \in Bijection(1..n, S)
  BY <1>1, FS_CardinalityType DEF ExistsBijection
<1>3. f \in [1..n -> S] /\ \A a, b \in 1..n : f[a] = f[b] => a = b
  BY <1>2 DEF Bijection, Injection, IsInjective
<1>4. f \in [1..n -> S] /\ IsInjective(f)
  BY <1>3 DEF IsInjective
<1>5. PICK g : g = SetToSeq(S)
  OBVIOUS
<1>6. g \in [1..n -> S] /\ IsInjective(g)
  BY <1>1, <1>4, <1>5 DEF SetToSeq
<1>7. g \in Injection(1..n, S)
  BY <1>6 DEF Injection, IsInjective
<1>8. g \in Surjection(1..n, S)
  <2>1. Cardinality(1..n) = n
    BY FS_Interval
  <2> QED BY <1>1, <1>7, <2>1, FS_Injection
<1>9. \A x \in S : \E i \in 1..n : g[i] = x
  BY <1>6, <1>8 DEF Surjection
<1> QED BY <1>1, <1>5, <1>6, <1>9

\* A set of texts comes back from its array.
LEMMA StringsBack ==
  ASSUME NEW S, IsFiniteSet(S), Blank \notin S
  PROVE  /\ Strings(S) # Absent
         /\ IsTexts(Strings(S))
         /\ ToSet(texts(Strings(S))) = S
         /\ Unique(texts(Strings(S)))
         /\ S # {} => Strings(S).items # <<>>
<1>1. PICK n \in Nat : n = Cardinality(S)
  BY Listed
<1>2. PICK f : /\ f = SetToSeq(S)
               /\ f \in [1..n -> S]
               /\ \A x \in S : \E i \in 1..n : f[i] = x
  BY <1>1, Listed
<1>3. PICK items : items = [i \in 1..n |-> String(f[i])]
  OBVIOUS
<1>4. Strings(S) = [type |-> "array", items |-> items]
  BY <1>1, <1>2, <1>3 DEF Strings, Array
<1>5. Strings(S) # Absent
  BY <1>4 DEF Absent
<1>6. \A i \in 1..n : items[i].type = "string" /\ items[i].text = f[i] /\ f[i] # Blank
  BY <1>1, <1>2, <1>3 DEF String
<1>7. IsTexts(Strings(S))
  BY <1>3, <1>4, <1>6 DEF IsTexts, IsText
<1>8. texts(Strings(S)) = [i \in 1..n |-> f[i]]
  BY <1>3, <1>4, <1>5, <1>6 DEF texts
<1>9. PICK s : s = texts(Strings(S))
  OBVIOUS
<1>10. s = [i \in 1..n |-> s[i]] /\ \A i \in 1..n : s[i] = f[i]
  BY <1>8, <1>9
<1>11. Len(s) = n /\ ToSet(s) = S
  BY <1>1, <1>2, <1>10, FunctionIsSequence DEF ToSet
<1>12. Unique(s)
  BY <1>1, <1>2, <1>11 DEF Unique
<1>13. S # {} => items # <<>>
  BY <1>1, <1>2, <1>3
<1> QED BY <1>4, <1>5, <1>7, <1>9, <1>11, <1>12, <1>13

\* The JSON of a step, as workflow_to_mapping writes it.
StepObject(step) ==
  Object([step_id    |-> String(step.step_id),
          agent_id   |-> String(step.agent_id),
          action     |-> String(step.action),
          capability |-> String(step.capability),
          effect     |-> String(step.effect),
          requires_evidence_kinds |-> Strings(step.requires),
          input_data |-> Object(step.input_data)])

LEMMA TextBack ==
  ASSUME NEW x, x # Blank
  PROVE  IsText(String(x)) /\ String(x).text = x /\ String(x) # Absent
BY DEF IsText, String, Absent

\* A step comes back as it was.
LEMMA StepBack ==
  ASSUME NEW p, StepOk(p)
  PROVE  /\ StepError(StepObject(p)) = "none"
         /\ StepSpec(StepObject(p)) = p
         /\ StepObject(p).fields["step_id"].text = p.step_id
<1>1. PICK listed : listed = Strings(p.requires)
  OBVIOUS
<1>2. /\ listed # Absent /\ IsTexts(listed)
      /\ ToSet(texts(listed)) = p.requires
      /\ Unique(texts(listed))
  BY <1>1, StringsBack DEF StepOk
<1>3. PICK f : f = [step_id    |-> String(p.step_id),
                    agent_id   |-> String(p.agent_id),
                    action     |-> String(p.action),
                    capability |-> String(p.capability),
                    effect     |-> String(p.effect),
                    requires_evidence_kinds |-> listed,
                    input_data |-> Object(p.input_data)]
  OBVIOUS
<1>4. PICK v : v = StepObject(p)
  OBVIOUS
<1>5. v.type = "object" /\ v.fields = f
  BY <1>1, <1>3, <1>4 DEF StepObject, Object
<1>6. /\ get(f, "step_id") = String(p.step_id)
      /\ get(f, "agent_id") = String(p.agent_id)
      /\ get(f, "action") = String(p.action)
      /\ get(f, "capability") = String(p.capability)
      /\ get(f, "effect") = String(p.effect)
      /\ get(f, "requires_evidence_kinds") = listed
      /\ get(f, "input_data") = Object(p.input_data)
  BY <1>3 DEF get
<1>7. Texts(f, {"step_id", "agent_id", "action", "capability"})
  <2>1. Blank \notin {p.step_id, p.agent_id, p.action, p.capability}
    BY DEF StepOk
  <2> QED BY <1>6, <2>1, TextBack DEF Texts
<1>8. IsEffect(get(f, "effect")) /\ get(f, "effect") # Absent
  BY <1>6 DEF IsEffect, String, StepOk, Absent
<1>9. get(f, "input_data").type = "object" /\ get(f, "input_data") # Absent
  BY <1>6 DEF Object, Absent
<1>10. StepFields(v)
  BY <1>2, <1>5, <1>6, <1>7, <1>8, <1>9 DEF StepFields
<1>11. StepError(v) = "none"
  BY <1>2, <1>5, <1>6, <1>10 DEF StepError
<1>12. StepSpec(v) = [step_id    |-> p.step_id,
                      agent_id   |-> p.agent_id,
                      action     |-> p.action,
                      capability |-> p.capability,
                      effect     |-> p.effect,
                      requires   |-> p.requires,
                      input_data |-> p.input_data]
  BY <1>2, <1>3, <1>5, <1>6, <1>8, <1>9 DEF StepSpec, effect, String, Object
<1>13. v.fields["step_id"].text = p.step_id
  BY <1>3, <1>5 DEF String
<1> QED BY <1>4, <1>11, <1>12, <1>13 DEF StepOk

\* A workflow comes back as it was.
LEMMA WorkflowBack ==
  ASSUME NEW w, WorkflowOk(w)
  PROVE  /\ workflow_error(workflow_to_mapping(w)) = "none"
         /\ workflow_from_mapping(workflow_to_mapping(w)) = w
<1>1. PICK n \in Nat : /\ n = Len(w.steps) /\ DOMAIN w.steps = 1..n /\ n > 0
                       /\ w.steps = [i \in 1..n |-> w.steps[i]]
  BY SequenceFacts DEF WorkflowOk
<1>2. PICK items : items = [i \in 1..n |-> StepObject(w.steps[i])]
  OBVIOUS
<1>3. PICK f : f = workflow_to_mapping(w)
  OBVIOUS
<1>4. f = [workflow_id    |-> String(w.workflow_id),
           correlation_id |-> String(w.correlation_id),
           steps          |-> Array(items)]
  BY <1>1, <1>2, <1>3 DEF workflow_to_mapping, StepObject
<1>5. /\ get(f, "workflow_id") = String(w.workflow_id)
      /\ get(f, "correlation_id") = String(w.correlation_id)
      /\ get(f, "steps") = Array(items)
      /\ f["workflow_id"].text = w.workflow_id
      /\ f["correlation_id"].text = w.correlation_id
      /\ f["steps"].items = items
      /\ Array(items).type = "array" /\ Array(items).items = items
  BY <1>4 DEF get, String, Array
<1>6. \A i \in 1..n : /\ StepError(items[i]) = "none"
                      /\ StepSpec(items[i]) = w.steps[i]
                      /\ items[i].fields["step_id"].text = w.steps[i].step_id
  BY <1>1, <1>2, StepBack DEF WorkflowOk
<1>7. Texts(f, {"workflow_id", "correlation_id"})
  BY <1>5, TextBack DEF Texts, WorkflowOk
<1>8. DOMAIN items = 1..n
  BY <1>2
<1>9. StepIdsOf(w) # <<>> /\ Unique(StepIdsOf(w))
  <2>1. DOMAIN StepIdsOf(w) = 1..n
    BY <1>1 DEF StepIdsOf
  <2>2. StepIdsOf(w) # <<>>
    BY <1>1, <2>1
  <2> QED BY <2>2 DEF WorkflowOk
<1>10. workflow_error(f) = "none"
  <2> DEFINE steps == get(f, "steps")
             bad   == {i \in DOMAIN steps.items : StepError(steps.items[i]) # "none"}
             ids   == [i \in DOMAIN steps.items |-> steps.items[i].fields["step_id"].text]
  <2>1. steps.type = "array" /\ steps.items = items
    BY <1>5
  <2>2. bad = {}
    BY <1>6, <1>8, <2>1
  <2>3. ids = StepIdsOf(w)
    BY <1>1, <1>6, <1>8, <2>1 DEF StepIdsOf
  <2>4. workflow_error(f) =
          IF steps.type # "array" THEN "ContractError"
          ELSE IF bad # {} THEN StepError(steps.items[Min(bad)])
          ELSE IF Texts(f, {"workflow_id", "correlation_id"}) /\ ids # <<>> /\ Unique(ids)
          THEN "none" ELSE "ContractError"
    BY DEF workflow_error
  <2> HIDE DEF steps, bad, ids
  <2> QED BY <1>7, <1>9, <2>1, <2>2, <2>3, <2>4
<1>11. [i \in DOMAIN items |-> StepSpec(items[i])] = w.steps
  BY <1>1, <1>6, <1>8
<1>12. workflow_from_mapping(f) = w
  BY <1>5, <1>11 DEF workflow_from_mapping, WorkflowOk
<1> QED BY <1>3, <1>10, <1>12

\* A grant comes back as it was.
LEMMA GrantBack ==
  ASSUME NEW g, GrantOk(g)
  PROVE  /\ authority_error(authority_to_mapping(g)) = "none"
         /\ authority_from_mapping(authority_to_mapping(g)) = g
<1>1. PICK caps : caps = Strings(g.capabilities)
  OBVIOUS
<1>2. /\ IsTexts(caps) /\ caps # Absent /\ caps.items # <<>>
      /\ ToSet(texts(caps)) = g.capabilities
  BY <1>1, StringsBack DEF GrantOk
<1>3. PICK f : f = authority_to_mapping(g)
  OBVIOUS
<1>4. f = [authorization_id |-> String(g.authorization_id),
           subject          |-> String(g.subject),
           workflow_id      |-> String(g.workflow_id),
           capabilities     |-> caps,
           issued_at        |-> utc_text(g.issued_at),
           expires_at       |-> utc_text(g.expires_at),
           single_use       |-> [type |-> "boolean", value |-> g.single_use]]
  BY <1>1, <1>3 DEF authority_to_mapping
<1>5. /\ get(f, "authorization_id") = String(g.authorization_id)
      /\ get(f, "subject") = String(g.subject)
      /\ get(f, "workflow_id") = String(g.workflow_id)
      /\ get(f, "capabilities") = caps
      /\ get(f, "issued_at") = utc_text(g.issued_at)
      /\ get(f, "expires_at") = utc_text(g.expires_at)
      /\ get(f, "single_use") = [type |-> "boolean", value |-> g.single_use]
  BY <1>4 DEF get
<1>6. \A i \in Int : IsDate(utc_text(i)) /\ Instant(utc_text(i)) = i
  BY DEF IsDate, utc_text, Instant
<1>7. Texts(f, {"authorization_id", "subject", "workflow_id"})
  BY <1>5, TextBack DEF Texts, GrantOk
<1>8. authority_error(f) = "none"
  BY <1>2, <1>4, <1>5, <1>6, <1>7 DEF authority_error, GrantOk
<1>9. get(f, "single_use") # Absent
  BY <1>5 DEF Absent
<1>10. authority_from_mapping(f) =
         [authorization_id |-> g.authorization_id,
          subject          |-> g.subject,
          workflow_id      |-> g.workflow_id,
          capabilities     |-> g.capabilities,
          issued_at        |-> g.issued_at,
          expires_at       |-> g.expires_at,
          single_use       |-> g.single_use]
  BY <1>2, <1>4, <1>6, <1>9 DEF authority_from_mapping, String, GrantOk
<1> QED BY <1>3, <1>8, <1>10 DEF GrantOk

-----------------------------------------------------------------------------
(***************************************************************************)
(* What is read from files                                                 *)
(***************************************************************************)

\* The texts of an array are a finite set of texts.
LEMMA TextsRead ==
  ASSUME NEW v, JsonValue(v), v # Absent => IsTexts(v)
  PROVE  /\ IsFiniteSet(ToSet(texts(v)))
         /\ Blank \notin ToSet(texts(v))
         /\ v # Absent /\ v.items # <<>> => ToSet(texts(v)) # {}
<1>1. CASE v = Absent
  <2>1. texts(v) = <<>>
    BY <1>1 DEF texts
  <2>2. ToSet(texts(v)) = {}
    BY <2>1 DEF ToSet
  <2> QED BY <1>1, <2>2, FS_EmptySet
<1>2. CASE v # Absent
  <2>1. IsSequence(v.items)
    BY <1>2 DEF JsonValue, IsTexts, IsSequence
  <2>2. PICK n \in Nat : /\ n = Len(v.items) /\ DOMAIN v.items = 1..n
                         /\ v.items # <<>> <=> n > 0
    BY <2>1, SequenceFacts
  <2>3. PICK s : s = texts(v)
    OBVIOUS
  <2>4. s = [i \in 1..n |-> v.items[i].text]
    BY <1>2, <2>2, <2>3 DEF texts
  <2>5. s = [i \in 1..n |-> s[i]] /\ \A i \in 1..n : s[i] # Blank
    BY <1>2, <2>2, <2>4 DEF IsTexts, IsText
  <2>6. IsSequence(s) /\ DOMAIN s = 1..n
    BY <2>5, FunctionIsSequence
  <2>7. IsFiniteSet(ToSet(s))
    BY <2>6, SequenceFacts
  <2>8. Blank \notin ToSet(s) /\ (n > 0 => ToSet(s) # {})
    BY <2>5, <2>6 DEF ToSet
  <2> QED BY <2>2, <2>3, <2>7, <2>8
<1> QED BY <1>1, <1>2

\* A step that is read is well formed.
LEMMA StepRead ==
  ASSUME NEW v, JsonObject(v), StepError(v) = "none"
  PROVE  StepOk(StepSpec(v)) /\ StepSpec(v).step_id = v.fields["step_id"].text
<1>1. StepFields(v)
  BY DEF StepError
<1>2. PICK listed : listed = get(v.fields, "requires_evidence_kinds")
  OBVIOUS
<1>3. JsonValue(listed) /\ (listed # Absent => IsTexts(listed))
  BY <1>1, <1>2 DEF StepFields, JsonObject, JsonValue, get, Absent
<1>4. PICK requires : requires = ToSet(texts(listed))
  OBVIOUS
<1>5. IsFiniteSet(requires) /\ Blank \notin requires
  BY <1>3, <1>4, TextsRead
<1>6. PICK e : e = effect(v.fields)
  OBVIOUS
<1>7. e \in EffectClass
  BY <1>1, <1>6 DEF StepFields, IsEffect, effect, EffectClass, get
<1>8. Blank \notin {v.fields["step_id"].text, v.fields["agent_id"].text,
                    v.fields["action"].text, v.fields["capability"].text}
  BY <1>1 DEF StepFields, Texts, IsText, get, Absent
<1>9. PICK p : p = StepSpec(v)
  OBVIOUS
<1>10. PICK data : data = IF get(v.fields, "input_data") = Absent THEN <<>>
                          ELSE v.fields["input_data"].fields
  OBVIOUS
<1>11. p = [step_id    |-> v.fields["step_id"].text,
            agent_id   |-> v.fields["agent_id"].text,
            action     |-> v.fields["action"].text,
            capability |-> v.fields["capability"].text,
            effect     |-> e,
            requires   |-> requires,
            input_data |-> data]
  BY <1>2, <1>4, <1>6, <1>9, <1>10 DEF StepSpec
<1> QED BY <1>5, <1>7, <1>8, <1>9, <1>11 DEF StepOk

\* A workflow that is read from a file is well formed, with the file's steps.
LEMMA WorkflowRead ==
  ASSUME NEW file \in WorkflowFiles, WorkflowFileError(file) = "none"
  PROVE  LET w     == workflow_from_mapping(file.fields)
             items == file.fields["steps"].items
         IN  /\ WorkflowOk(w)
             /\ StepIdsOf(w) = [i \in DOMAIN items |-> items[i].fields["step_id"].text]
<1>1. PICK f, v, items : f = file.fields /\ v = get(f, "steps") /\ items = v.items
  OBVIOUS
<1>2. file.type = "object" /\ workflow_error(f) = "none"
  BY <1>1 DEF WorkflowFileError, read_error
<1> DEFINE bad == {i \in DOMAIN items : StepError(items[i]) # "none"}
           ids == [i \in DOMAIN items |-> items[i].fields["step_id"].text]
<1>3. workflow_error(f) =
        IF v.type # "array" THEN "ContractError"
        ELSE IF bad # {} THEN StepError(items[Min(bad)])
        ELSE IF Texts(f, {"workflow_id", "correlation_id"}) /\ ids # <<>> /\ Unique(ids)
        THEN "none" ELSE "ContractError"
  BY <1>1 DEF workflow_error
<1> HIDE DEF ids
<1>4. v.type = "array" /\ v # Absent /\ "steps" \in DOMAIN f /\ v = f["steps"]
  BY <1>1, <1>2, <1>3 DEF get, Absent
<1>5. /\ JsonValue(v)
      /\ \A i \in DOMAIN items : JsonObject(items[i])
  BY <1>1, <1>2, <1>4, FilesAssumption DEF JsonObject
<1>6. PICK n \in Nat : n = Len(items) /\ DOMAIN items = 1..n
  <2>1. IsSequence(items)
    BY <1>1, <1>4, <1>5 DEF JsonValue, IsSequence
  <2> QED BY <2>1, SequenceFacts
<1>7. \A i \in 1..n : StepError(items[i]) = "none"
  <2> SUFFICES ASSUME bad # {} PROVE FALSE
    BY <1>6
  <2>1. PICK S : S = bad
    OBVIOUS
  <2>2. S \subseteq Nat /\ S # {}
    BY <1>6, <2>1
  <2>3. \E i \in S : \A j \in S : i <= j
    BY <2>2, LeastNumber
  <2>4. Min(S) \in S
    BY <2>3 DEF Min
  <2> QED BY <1>2, <1>3, <1>4, <2>1, <2>4
<1>8. bad = {}
  BY <1>6, <1>7
<1> HIDE DEF bad
<1>9. Texts(f, {"workflow_id", "correlation_id"}) /\ ids # <<>> /\ Unique(ids)
  BY <1>2, <1>3, <1>4, <1>8
<1>10. PICK w : w = workflow_from_mapping(f)
  OBVIOUS
<1>11. PICK steps : steps = [i \in 1..n |-> StepSpec(items[i])]
  OBVIOUS
<1>12. w = [workflow_id    |-> f["workflow_id"].text,
            correlation_id |-> f["correlation_id"].text,
            steps          |-> steps]
  BY <1>1, <1>4, <1>6, <1>10, <1>11 DEF workflow_from_mapping
<1>13. Blank \notin {f["workflow_id"].text, f["correlation_id"].text}
  BY <1>9 DEF Texts, IsText, get, Absent
<1>14. /\ IsSequence(steps) /\ Len(steps) = n /\ DOMAIN steps = 1..n
  <2>1. steps = [i \in 1..n |-> steps[i]]
    BY <1>11
  <2> QED BY <2>1, FunctionIsSequence
<1>15. \A i \in 1..n : /\ StepOk(steps[i])
                       /\ steps[i].step_id = items[i].fields["step_id"].text
  BY <1>5, <1>6, <1>7, <1>11, StepRead
<1>16. StepIdsOf(w) = ids
  BY <1>6, <1>12, <1>14, <1>15 DEF StepIdsOf, ids
<1>17. n > 0
  <2>1. DOMAIN ids = 1..n
    BY <1>6 DEF ids
  <2>2. n # 0
    BY <1>9, <2>1
  <2> QED BY <2>2
<1>18. steps # <<>>
  BY <1>14, <1>17, SequenceFacts
<1>19. WorkflowOk(w)
  BY <1>9, <1>12, <1>13, <1>14, <1>15, <1>16, <1>18 DEF WorkflowOk
<1> QED BY <1>1, <1>4, <1>10, <1>16, <1>19 DEF ids

\* A grant that is read from a file is well formed.
LEMMA GrantRead ==
  ASSUME NEW file \in AuthorityFiles, AuthorityFileError(file) = "none"
  PROVE  GrantOk(authority_from_mapping(file.fields))
<1>1. PICK f : f = file.fields
  OBVIOUS
<1>2. file.type = "object" /\ authority_error(f) = "none"
  BY <1>1 DEF AuthorityFileError, read_error
<1>3. /\ get(f, "single_use").type \in {"absent", "boolean"}
      /\ Texts(f, {"authorization_id", "subject", "workflow_id"})
      /\ IsTexts(get(f, "capabilities"))
      /\ f["capabilities"].items # <<>>
      /\ IsDate(get(f, "issued_at"))
      /\ IsDate(get(f, "expires_at"))
      /\ Instant(f["issued_at"]) < Instant(f["expires_at"])
  BY <1>2 DEF authority_error
<1>4. \A k \in DOMAIN f : JsonValue(f[k])
  BY <1>1, <1>2, FilesAssumption DEF JsonObject
<1>5. PICK caps, from, to : /\ caps = f["capabilities"]
                            /\ from = f["issued_at"]
                            /\ to = f["expires_at"]
  OBVIOUS
<1>6. /\ caps = get(f, "capabilities") /\ from = get(f, "issued_at") /\ to = get(f, "expires_at")
      /\ caps # Absent
      /\ JsonValue(caps) /\ JsonValue(from) /\ JsonValue(to)
  BY <1>3, <1>4, <1>5 DEF get, Absent, IsTexts, IsDate
<1>7. PICK capabilities : capabilities = ToSet(texts(caps))
  OBVIOUS
<1>8. IsFiniteSet(capabilities) /\ capabilities # {} /\ Blank \notin capabilities
  BY <1>3, <1>5, <1>6, <1>7, TextsRead
<1>9. Instant(from) \in Int /\ Instant(to) \in Int /\ Instant(from) < Instant(to)
  BY <1>3, <1>5, <1>6 DEF JsonValue, IsDate, Instant
<1>10. PICK single : single = (get(f, "single_use") = Absent \/ f["single_use"].value)
  OBVIOUS
<1>11. single \in BOOLEAN
  BY <1>10
<1>12. Blank \notin {f["authorization_id"].text, f["subject"].text, f["workflow_id"].text}
  BY <1>3 DEF Texts, IsText, get, Absent
<1>13. PICK g : g = authority_from_mapping(f)
  OBVIOUS
<1>14. g = [authorization_id |-> f["authorization_id"].text,
            subject          |-> f["subject"].text,
            workflow_id      |-> f["workflow_id"].text,
            capabilities     |-> capabilities,
            issued_at        |-> Instant(from),
            expires_at       |-> Instant(to),
            single_use       |-> single]
  BY <1>5, <1>7, <1>10, <1>13 DEF authority_from_mapping
<1> QED BY <1>1, <1>8, <1>9, <1>11, <1>12, <1>13, <1>14 DEF GrantOk

-----------------------------------------------------------------------------
(***************************************************************************)
(* The start, and the reading of contracts                                 *)
(***************************************************************************)

LEMMA OneIsANumber == 1 \in Numbers
BY ExecutionAssumption, BoundsAssumption DEF Numbers

LEMMA InitGarInv ==
  ASSUME GarInit
  PROVE  GarInv
<1>1. Made = <<>> /\ calls = [n \in Numbers |-> calls[n]]
  BY OneIsANumber DEF GarInit, Init, Made
<1>2. execution[gar] = Idle /\ execution = [c \in Callers |-> execution[c]]
  BY CallersAssumption DEF GarInit, Init
<1>3. command.pc = "start" /\ command.workflow = <<>> /\ ~command.printed
  BY DEF GarInit
<1>4. CommandOk(command)
  <2>1. PICK call, none :
          /\ call \in Invocations
          /\ command = [pc |-> "start", call |-> call, workflow |-> none, grant |-> none,
                        printed |-> FALSE, written |-> FALSE, exit |-> 1]
    BY DEF GarInit
  <2>2. command \in [pc : {"start", "execute", "running", "write", "exit"}, call : Invocations,
                     workflow : {command.workflow}, grant : {command.grant},
                     printed : BOOLEAN, written : BOOLEAN, exit : 0..4]
    BY <2>1
  <2> QED BY <1>3, <2>2 DEF CommandOk
<1>5. ExitTellsTheTruth
  BY <1>3 DEF ExitTellsTheTruth, At
<1>6. now \in Nat /\ started = 0 /\ results = {}
  BY DEF GarInit, Init
<1> QED BY <1>1, <1>2, <1>3, <1>4, <1>5, <1>6 DEF GarInv

\* Reading fails with one of two errors.
LEMMA Errors ==
  /\ \A file : WorkflowFileError(file) \in {"none", "ContractError", "ValueError"}
  /\ \A file : AuthorityFileError(file) \in {"none", "ContractError", "ValueError"}
<1>1. \A v : StepError(v) \in {"none", "ContractError", "ValueError"}
  BY DEF StepError
<1>2. \A f : workflow_error(f) \in {"none", "ContractError", "ValueError"}
  BY <1>1 DEF workflow_error
<1>3. \A f : authority_error(f) \in {"none", "ContractError"}
  BY DEF authority_error
<1>4. \A file : read_error(file) \in {"none", "ContractError", "ValueError"}
  BY DEF read_error
<1> QED BY <1>2, <1>3, <1>4 DEF WorkflowFileError, AuthorityFileError

\* The command ends.
LEMMA ExitFacts ==
  ASSUME CommandOk(command), NEW code \in 0..4, Exit(code)
  PROVE  /\ CommandOk(command)'
         /\ command'.pc = "exit" /\ command'.exit = code
         /\ command'.call = command.call /\ command'.workflow = command.workflow
         /\ command'.printed = command.printed /\ command'.written = command.written
<1>1. /\ command'.pc = "exit" /\ command'.exit = code
      /\ command'.call = command.call /\ command'.workflow = command.workflow
      /\ command'.grant = command.grant
      /\ command'.printed = command.printed /\ command'.written = command.written
  BY DEF Exit, CommandOk
<1>2. command' \in [pc : {"start", "execute", "running", "write", "exit"}, call : Invocations,
                    workflow : {command'.workflow}, grant : {command'.grant},
                    printed : BOOLEAN, written : BOOLEAN, exit : 0..4]
  BY <1>1 DEF Exit, CommandOk
<1>3. command'.workflow # <<>> => WorkflowOk(command'.workflow) /\ GrantOk(command'.grant)
  BY <1>1 DEF CommandOk
<1>4. CommandOk(command)'
  BY <1>1, <1>2, <1>3 DEF CommandOk
<1> QED BY <1>1, <1>4

LEMMA ReadContractsInv ==
  ASSUME GarInv, ReadContracts
  PROVE  GarInv'
<1>1. PICK w, a, e, f : /\ w = command.call.workflow
                        /\ a = command.call.authority
                        /\ e = WorkflowFileError(w)
                        /\ f = AuthorityFileError(a)
  OBVIOUS
<1>2. command.pc = "start" /\ command.call.name = "run" /\ UNCHANGED vars
  BY DEF ReadContracts, At
<1>3. /\ CommandOk(command)
      /\ now \in Nat
      /\ calls = [n \in Numbers |-> calls[n]]
      /\ execution = [c \in Callers |-> execution[c]]
      /\ execution[gar] = Idle /\ started = 0 /\ results = {} /\ Made = <<>>
      /\ ~command.printed
  BY <1>2 DEF GarInv
<1>4. command.call \in Invocations /\ w \in WorkflowFiles /\ a \in AuthorityFiles
  BY <1>1, <1>2, <1>3 DEF CommandOk, Invocations
<1>5. /\ now' \in Nat
      /\ calls' = [n \in Numbers |-> calls'[n]]
      /\ execution' = [c \in Callers |-> execution'[c]]
      /\ execution'[gar] = Idle /\ started' = 0 /\ results' = {} /\ Made' = <<>>
  BY <1>2, <1>3 DEF vars, Made
<1>6. CASE first(e, f) # "none"
  <2>1. first(e, f) \in {"ContractError", "ValueError"}
    BY <1>1, <1>6, Errors DEF first
  <2>2. PICK code : code = ExitOf[first(e, f)]
    OBVIOUS
  <2>3. code \in {1, 2}
    BY <2>1, <2>2 DEF ExitOf
  <2>4. Exit(code)
    BY <1>1, <1>6, <2>2 DEF ReadContracts
  <2>5. /\ CommandOk(command)'
        /\ command'.pc = "exit" /\ command'.exit = code /\ ~command'.printed
    BY <1>3, <2>3, <2>4, ExitFacts
  <2>6. ExitTellsTheTruth'
    <3>1. Len(Made') = 0
      BY <1>5
    <3>2. CASE code = 1
      BY <2>5, <3>2 DEF ExitTellsTheTruth
    <3>3. CASE code = 2
      BY <2>5, <3>1, <3>3 DEF ExitTellsTheTruth
    <3> QED BY <2>3, <3>2, <3>3
  <2> QED BY <1>5, <2>5, <2>6 DEF GarInv
<1>7. CASE first(e, f) = "none"
  <2>1. e = "none" /\ f = "none"
    BY <1>7 DEF first
  <2>2. PICK wf, g : wf = workflow_from_mapping(w.fields) /\ g = authority_from_mapping(a.fields)
    OBVIOUS
  <2>3. command' = [command EXCEPT !.pc = "execute", !.workflow = wf, !.grant = g]
    BY <1>1, <1>7, <2>2 DEF ReadContracts
  <2>4. /\ WorkflowOk(wf) /\ GrantOk(g)
        /\ StepIdsOf(wf) = [i \in DOMAIN w.fields["steps"].items |->
                              w.fields["steps"].items[i].fields["step_id"].text]
    BY <1>1, <1>4, <2>1, <2>2, WorkflowRead, GrantRead
  <2>5. /\ command'.pc = "execute" /\ command'.workflow = wf /\ command'.grant = g
        /\ command'.call = command.call /\ ~command'.printed
    BY <1>3, <2>3 DEF CommandOk
  <2>6. StepsAskedFor' = StepIdsOf(wf)
    BY <1>1, <1>2, <2>4, <2>5 DEF StepsAskedFor
  <2>7. CommandOk(command)'
    BY <1>2, <1>3, <2>3, <2>4, <2>5, <2>6 DEF CommandOk
  <2>8. ExitTellsTheTruth'
    BY <2>5 DEF ExitTellsTheTruth, At
  <2> QED BY <1>5, <2>5, <2>7, <2>8 DEF GarInv
<1> QED BY <1>6, <1>7

\* The literals of a demo are no blank texts.
LEMMA DemoTexts ==
  Blank \notin {"step-1", "demo", "builtin.echo", "builtin.block", "builtin.fail",
                "agent:echo", "agent:block", "agent:fail", "governed-runtime", "READ_ONLY"}
BY DEF Blank

LEMMA DemoContractsInv ==
  ASSUME GarInv, DemoContracts
  PROVE  GarInv'
<1>1. command.pc = "start" /\ command.call.name = "demo" /\ UNCHANGED vars
  BY DEF DemoContracts, At
<1>2. /\ CommandOk(command)
      /\ now \in Nat
      /\ calls = [n \in Numbers |-> calls[n]]
      /\ execution = [c \in Callers |-> execution[c]]
      /\ execution[gar] = Idle /\ started = 0 /\ results = {} /\ Made = <<>>
      /\ ~command.printed
  BY <1>1 DEF GarInv
<1>3. PICK s \in {"pass", "blocked", "fail"} : s = command.call.scenario
  BY <1>1, <1>2 DEF CommandOk, Invocations
<1>4. PICK agent, capability :
        /\ agent = [pass |-> "builtin.echo", blocked |-> "builtin.block",
                    fail |-> "builtin.fail"][s]
        /\ capability = [pass |-> "agent:echo", blocked |-> "agent:block",
                         fail |-> "agent:fail"][s]
  OBVIOUS
<1>5. Blank \notin {agent, capability, "step-1", "demo", Subject}
  BY <1>4, DemoTexts, SubjectAssumption
<1>6. PICK step : step = [step_id |-> "step-1", agent_id |-> agent,
                          action |-> "demo", capability |-> capability,
                          effect |-> "READ_ONLY", requires |-> {},
                          input_data |-> [scenario |-> String("demo")]]
  OBVIOUS
<1>7. StepOk(step) /\ step.step_id = "step-1" /\ step.capability = capability
  BY <1>5, <1>6, FS_EmptySet DEF StepOk, EffectClass
<1>8. PICK w, g :
        /\ w = [workflow_id |-> "demo", correlation_id |-> "demo", steps |-> <<step>>]
        /\ g = [authorization_id |-> "demo", subject |-> Subject, workflow_id |-> "demo",
                capabilities |-> {capability}, issued_at |-> now - 1,
                expires_at |-> now + 10, single_use |-> TRUE]
  OBVIOUS
<1>9. command' = [command EXCEPT !.pc = "execute", !.workflow = w, !.grant = g]
  BY <1>3, <1>4, <1>6, <1>7, <1>8 DEF DemoContracts
<1>10. GrantOk(g)
  <2>1. now - 1 \in Int /\ now + 10 \in Int /\ now - 1 < now + 10
    BY <1>2
  <2>2. IsFiniteSet({capability}) /\ {capability} # {} /\ Blank \notin {capability}
    BY <1>5, FS_Singleton
  <2> QED BY <1>5, <1>8, <2>1, <2>2 DEF GrantOk
<1>11. StepIdsOf(w) = <<"step-1">> /\ WorkflowOk(w)
  <2>1. PICK t : t = <<step>>
    OBVIOUS
  <2>2. IsSequence(t) /\ DOMAIN t = 1..1 /\ t[1] = step /\ t # <<>>
    <3>1. t = [i \in 1..1 |-> t[i]]
      BY <2>1
    <3> QED BY <2>1, <3>1, FunctionIsSequence
  <2>3. StepIdsOf(w) = <<"step-1">>
    BY <1>7, <1>8, <2>1, <2>2 DEF StepIdsOf
  <2>4. Unique(<<"step-1">>)
    <3>1. ToSet(<<"step-1">>) = {"step-1"}
      BY DEF ToSet
    <3> QED BY <3>1, FS_Singleton DEF Unique
  <2> QED BY <1>5, <1>7, <1>8, <2>1, <2>2, <2>3, <2>4 DEF WorkflowOk
<1>12. /\ command'.pc = "execute" /\ command'.workflow = w /\ command'.grant = g
       /\ command'.call = command.call /\ ~command'.printed
  BY <1>2, <1>9 DEF CommandOk
<1>13. StepsAskedFor' = StepIdsOf(w)
  BY <1>1, <1>11, <1>12 DEF StepsAskedFor
<1>14. CommandOk(command)'
  BY <1>1, <1>2, <1>9, <1>10, <1>11, <1>12, <1>13 DEF CommandOk
<1>15. ExitTellsTheTruth'
  BY <1>12 DEF ExitTellsTheTruth, At
<1>16. /\ now' \in Nat
       /\ calls' = [n \in Numbers |-> calls'[n]]
       /\ execution' = [c \in Callers |-> execution'[c]]
       /\ execution'[gar] = Idle /\ started' = 0 /\ results' = {} /\ Made' = <<>>
  BY <1>1, <1>2 DEF vars, Made
<1> QED BY <1>12, <1>14, <1>15, <1>16 DEF GarInv

LEMMA SemanticsInv ==
  ASSUME GarInv, Semantics
  PROVE  GarInv'
<1>1. /\ command.pc = "start" /\ command.call.name = "semantics" /\ UNCHANGED vars
      /\ Exit(0)
  BY DEF Semantics, At
<1>2. CommandOk(command)
  BY DEF GarInv
<1>3. CommandOk(command)' /\ command'.pc = "exit" /\ command'.call.name = "semantics"
  BY <1>1, <1>2, ExitFacts
<1>4. now' \in Nat /\ calls' = [n \in Numbers |-> calls'[n]]
      /\ execution' = [c \in Callers |-> execution'[c]]
  BY <1>1 DEF GarInv, vars
<1>5. ExitTellsTheTruth'
  BY <1>3 DEF ExitTellsTheTruth
<1> QED BY <1>1, <1>3, <1>4, <1>5 DEF GarInv, vars

-----------------------------------------------------------------------------
(***************************************************************************)
(* The execution                                                           *)
(***************************************************************************)

\* The command waits to execute, and has its contracts.
LEMMA ExecuteContractsInv ==
  ASSUME GarInv, ExecuteContracts
  PROVE  GarInv'
<1>1. PICK w, g : w = command.workflow /\ g = command.grant
  OBVIOUS
<1>2. /\ command.pc = "execute" /\ command' = [command EXCEPT !.pc = "running"]
      /\ Execute(gar, w, g, <<>>)
  BY <1>1 DEF ExecuteContracts, At
<1>3. /\ CommandOk(command)
      /\ now \in Nat
      /\ calls = [n \in Numbers |-> calls[n]]
      /\ execution = [c \in Callers |-> execution[c]]
      /\ started = 0 /\ results = {} /\ Made = <<>>
      /\ ~command.printed
  BY <1>2 DEF GarInv
<1>4. /\ command'.pc = "running" /\ command'.workflow = w
      /\ command'.call = command.call /\ ~command'.printed
  BY <1>1, <1>2, <1>3 DEF CommandOk
<1>5. StepsAskedFor' = StepsAskedFor
  BY <1>4 DEF StepsAskedFor
<1>6. WorkflowOk(w) /\ StepIdsOf(w) = StepsAskedFor
  BY <1>1, <1>2, <1>3 DEF CommandOk
<1>7. CommandOk(command)'
  BY <1>1, <1>2, <1>3, <1>4, <1>5, <1>6 DEF CommandOk
<1>8. ExitTellsTheTruth'
  BY <1>4 DEF ExitTellsTheTruth, At
<1>9. now' \in Nat /\ calls' = [n \in Numbers |-> calls'[n]] /\ Made' = <<>>
  BY <1>2, <1>3 DEF Execute, Made
<1>10. Followed(<<>>, w) /\ 0 < Len(w.steps)
  <2>1. IsSequence(w.steps) /\ w.steps # <<>>
    BY <1>6 DEF WorkflowOk
  <2>2. IsSequence(<<>>) /\ Len(<<>>) = 0
    BY DEF IsSequence
  <2> QED BY <2>1, <2>2, SequenceFacts DEF Followed
<1>11. PICK x : x = [pc        |-> "consume",
                     number    |-> started + 1,
                     workflow  |-> w,
                     authority |-> g,
                     evidence  |-> <<>>,
                     steps     |-> <<>>,
                     admitted  |-> now,
                     past      |-> Past]
  OBVIOUS
<1>12. \/ AllRegistered(w) /\ Goto(gar, x, "consume")
       \/ Terminal(gar, x, "BLOCKED", FALSE)
  BY <1>2, <1>11 DEF Execute
<1>13. CASE AllRegistered(w) /\ Goto(gar, x, "consume")
  <2>1. execution' = [execution EXCEPT ![gar] = x] /\ results' = {}
    <3>1. [x EXCEPT !.pc = "consume"] = x
      BY <1>11
    <3> QED BY <1>3, <1>13, <3>1 DEF Goto
  <2>2. execution'[gar] = x /\ execution' = [c \in Callers |-> execution'[c]]
    BY <1>3, <2>1, CallersAssumption
  <2>3. ExecutionOk(x, w, <<>>)
    <3>1. IsSequence(<<>>) /\ Len(<<>>) = 0 /\ DOMAIN <<>> = {}
      BY DEF IsSequence
    <3> QED BY <1>3, <1>10, <1>11, <1>13, <3>1 DEF ExecutionOk
  <2> QED BY <1>4, <1>7, <1>8, <1>9, <2>1, <2>2, <2>3 DEF GarInv
<1>14. CASE Terminal(gar, x, "BLOCKED", FALSE)
  <2>1. PICK r : /\ results' = {r} /\ r.decision = "BLOCKED"
                 /\ execution' = [execution EXCEPT ![gar] = Idle]
    BY <1>3, <1>14, SharedAssumption DEF Terminal, MayBeAltered
  <2>2. execution'[gar] = Idle /\ execution' = [c \in Callers |-> execution'[c]]
    BY <1>3, <2>1, CallersAssumption
  <2>3. Decides("BLOCKED", w, <<>>)
    <3>1. Len(<<>>) = 0 /\ DOMAIN <<>> = {}
      OBVIOUS
    <3> QED BY <1>10, <3>1 DEF Decides, Decisions
  <2>4. Decided'
    BY <1>4, <1>9, <2>1, <2>3 DEF Decided
  <2> QED BY <1>4, <1>7, <1>8, <1>9, <2>2, <2>4 DEF GarInv
<1> QED BY <1>12, <1>13, <1>14

\* While it runs, the command only waits: the invariant is about the execution.
LEMMA RunningFrame ==
  ASSUME GarInv, command.pc = "running", UNCHANGED command,
         now' \in Nat, calls' = [n \in Numbers |-> calls'[n]],
         execution' = [c \in Callers |-> execution'[c]],
         \/ execution'[gar] = Idle /\ (results' = {} \/ Decided')
         \/ ExecutionOk(execution'[gar], command.workflow, Made') /\ results' = {}
  PROVE  GarInv'
<1>1. /\ CommandOk(command) /\ ~command.printed
  BY DEF GarInv
<1>2. StepsAskedFor' = StepsAskedFor
  BY DEF StepsAskedFor
<1>3. CommandOk(command)'
  BY <1>1, <1>2 DEF CommandOk
<1>4. ExitTellsTheTruth'
  BY DEF ExitTellsTheTruth, At
<1> QED BY <1>1, <1>3, <1>4 DEF GarInv

\* The execution that runs.
LEMMA RunningFacts ==
  ASSUME GarInv, command.pc = "running", execution[gar].pc # "idle"
  PROVE  /\ ExecutionOk(execution[gar], command.workflow, Made) /\ results = {}
         /\ WorkflowOk(command.workflow)
         /\ now \in Nat /\ calls = [n \in Numbers |-> calls[n]]
         /\ execution = [c \in Callers |-> execution[c]]
BY DEF GarInv, Idle, CommandOk

\* An execution that goes on: its new state is a good one.
LEMMA GoesOn ==
  ASSUME GarInv, command.pc = "running", UNCHANGED <<command, now>>, execution[gar].pc # "idle",
         calls' = [n \in Numbers |-> calls'[n]],
         NEW x, NEW pc, Goto(gar, x, pc), ExecutionOk([x EXCEPT !.pc = pc], command.workflow, Made')
  PROVE  GarInv'
<1>1. PICK y : y = [x EXCEPT !.pc = pc]
  OBVIOUS
<1>2. execution' = [execution EXCEPT ![gar] = y] /\ results' = results
  BY <1>1 DEF Goto
<1>3. execution'[gar] = y /\ execution' = [c \in Callers |-> execution'[c]]
  BY <1>2, RunningFacts, CallersAssumption
<1> QED BY <1>1, <1>2, <1>3, RunningFacts, RunningFrame

\* An execution that ends: its decision is about the calls made.
LEMMA Ends ==
  ASSUME GarInv, command.pc = "running", UNCHANGED <<command, now>>, execution[gar].pc # "idle",
         calls' = [n \in Numbers |-> calls'[n]],
         NEW x, NEW decision, NEW used, Terminal(gar, x, decision, used),
         Decides(decision, command.workflow, Made')
  PROVE  GarInv'
<1>1. PICK r : /\ results' = {r} /\ r.decision = decision
               /\ execution' = [execution EXCEPT ![gar] = Idle]
  BY RunningFacts, SharedAssumption DEF Terminal, MayBeAltered
<1>2. execution'[gar] = Idle /\ execution' = [c \in Callers |-> execution'[c]]
  BY <1>1, RunningFacts, CallersAssumption
<1>3. Decided'
  BY <1>1 DEF Decided
<1> QED BY <1>2, <1>3, RunningFacts, RunningFrame

\* Before a step is decided, all calls have passed and one is left.
LEMMA BlockedBefore ==
  ASSUME NEW x, NEW w, NEW made, ExecutionOk(x, w, made), x.pc # "complete"
  PROVE  Decides("BLOCKED", w, made)
BY DEF ExecutionOk, Decides, Decisions

LEMMA BegunOk ==
  ASSUME NEW x, NEW w, NEW made, ExecutionOk(x, w, made), x.pc # "complete"
  PROVE  ExecutionOk([Begun(x) EXCEPT !.pc = "step"], w, made)
<1>1. PICK y : y = [Begun(x) EXCEPT !.pc = "step"]
  OBVIOUS
<1>2. PICK e : e = Append(x.evidence, RuntimeRecord("workflow.started", x.admitted, "-"))
  OBVIOUS
<1>3. y = [x EXCEPT !.evidence = e, !.pc = "step"]
  BY <1>1, <1>2 DEF Begun, ExecutionOk
<1>4. ExecutionOk(y, w, made)
  BY <1>3 DEF ExecutionOk
<1> QED BY <1>1, <1>4

LEMMA ConsumeTestInv ==
  ASSUME GarInv, command.pc = "running", ConsumeTest(gar), UNCHANGED command
  PROVE  GarInv'
<1>1. PICK x : x = execution[gar]
  OBVIOUS
<1>2. /\ x.pc = "consume" /\ x.pc # "idle" /\ calls' = calls /\ UNCHANGED <<command, now>>
      /\ \/ Goto(gar, Begun(x), "step")
         \/ Terminal(gar, x, "BLOCKED", FALSE)
         \/ Goto(gar, x, "add")
  BY <1>1 DEF ConsumeTest
<1>3. ExecutionOk(x, command.workflow, Made') /\ calls' = [n \in Numbers |-> calls'[n]]
  BY <1>1, <1>2, RunningFacts DEF Made
<1>4. ExecutionOk([x EXCEPT !.pc = "add"], command.workflow, Made')
  BY <1>2, <1>3 DEF ExecutionOk
<1>5. ExecutionOk([Begun(x) EXCEPT !.pc = "step"], command.workflow, Made')
  BY <1>2, <1>3, BegunOk
<1>6. Decides("BLOCKED", command.workflow, Made')
  BY <1>2, <1>3, BlockedBefore
<1> QED BY <1>1, <1>2, <1>3, <1>4, <1>5, <1>6, GoesOn, Ends

LEMMA ConsumeAddInv ==
  ASSUME GarInv, command.pc = "running", ConsumeAdd(gar), UNCHANGED command
  PROVE  GarInv'
<1>1. PICK x : x = execution[gar]
  OBVIOUS
<1>2. /\ x.pc = "add" /\ x.pc # "idle" /\ calls' = calls /\ UNCHANGED <<command, now>>
      /\ Goto(gar, Begun(x), "step")
  BY <1>1 DEF ConsumeAdd
<1>3. ExecutionOk(x, command.workflow, Made') /\ calls' = [n \in Numbers |-> calls'[n]]
  BY <1>1, <1>2, RunningFacts DEF Made
<1>4. ExecutionOk([Begun(x) EXCEPT !.pc = "step"], command.workflow, Made')
  BY <1>2, <1>3, BegunOk
<1> QED BY <1>1, <1>2, <1>3, <1>4, GoesOn

LEMMA EvaluateStepInv ==
  ASSUME GarInv, command.pc = "running", EvaluateStep(gar), UNCHANGED command
  PROVE  GarInv'
<1>1. PICK x : x = execution[gar]
  OBVIOUS
<1>2. /\ x.pc = "step" /\ x.pc # "idle" /\ calls' = calls /\ UNCHANGED <<command, now>>
      /\ \/ Goto(gar, x, "handler")
         \/ \E y : Terminal(gar, y, "BLOCKED", TRUE)
  BY <1>1 DEF EvaluateStep
<1>3. ExecutionOk(x, command.workflow, Made') /\ calls' = [n \in Numbers |-> calls'[n]]
  BY <1>1, <1>2, RunningFacts DEF Made
<1>4. ExecutionOk([x EXCEPT !.pc = "handler"], command.workflow, Made')
  BY <1>2, <1>3 DEF ExecutionOk
<1>5. Decides("BLOCKED", command.workflow, Made')
  BY <1>2, <1>3, BlockedBefore
<1> QED BY <1>1, <1>2, <1>3, <1>4, <1>5, GoesOn, Ends

\* What a built-in agent decides.
LEMMA HandlerDecides ==
  ASSUME NEW step, step.agent_id \in DOMAIN Registry
  PROVE  /\ handler(step).decision \in {"PASS", "BLOCKED", "EXCEPTION"}
         /\ DecisionOf(handler(step)) \in Decisions
         /\ DecisionOf(handler(step)) = "PASS" <=> ~Stops(handler(step))
<1>1. step.agent_id \in {"builtin.echo", "builtin.block", "builtin.fail"}
  BY RegistryAssumption DEF BuiltinRegistry
<1>2. handler(step).decision \in {"PASS", "BLOCKED", "EXCEPTION"}
  <2>1. CASE step.agent_id = "builtin.echo"
    BY <2>1 DEF handler, Outcome, Raised
  <2>2. CASE step.agent_id = "builtin.block"
    BY <2>2 DEF handler, Outcome, Raised
  <2>3. CASE step.agent_id = "builtin.fail"
    BY <2>3 DEF handler, Outcome, Raised
  <2> QED BY <1>1, <2>1, <2>2, <2>3
<1> QED BY <1>2 DEF DecisionOf, Decisions, Stops

LEMMA RunHandlerInv ==
  ASSUME GarInv, command.pc = "running", UNCHANGED command,
         RunHandler(gar, handler(current(execution[gar])))
  PROVE  GarInv'
<1>1. PICK x, outcome, made, w, step, d :
        /\ x = execution[gar] /\ step = current(x) /\ outcome = handler(step)
        /\ made = Made /\ w = command.workflow /\ d = DecisionOf(outcome)
  OBVIOUS
<1>2. PICK y, call : /\ y = Recorded(x, outcome)
                     /\ call = [state |-> x, step_id |-> step.step_id, decision |-> d]
  OBVIOUS
<1>3. /\ x.pc = "handler" /\ x.pc # "idle" /\ UNCHANGED <<command, now>>
      /\ calls' = [calls EXCEPT ![x.number] = Append(@, call)]
      /\ \/ execution' = [execution EXCEPT ![gar] = Idle] /\ results' = results
         \/ Stops(outcome) /\ Terminal(gar, y, d, TRUE)
         \/ ~Stops(outcome) /\ Goto(gar, y, IF AllStepsRan(y) THEN "complete" ELSE "step")
  BY <1>1, <1>2 DEF RunHandler, Raises
<1>4. /\ ExecutionOk(x, w, made) /\ results = {} /\ WorkflowOk(w)
      /\ calls = [n \in Numbers |-> calls[n]]
      /\ execution = [c \in Callers |-> execution[c]] /\ now \in Nat
  BY <1>1, <1>3, RunningFacts
<1>5. /\ x.number = 1 /\ x.workflow = w /\ Len(x.steps) = Len(made)
      /\ IsSequence(made) /\ IsSequence(x.steps)
      /\ Len(made) < Len(w.steps)
      /\ \A i \in DOMAIN made : made[i].decision = "PASS"
      /\ \A i \in 1..Len(made) : made[i].step_id = w.steps[i].step_id
  BY <1>3, <1>4 DEF ExecutionOk, Followed
<1>6. PICK m : m = Append(made, call)
  OBVIOUS
<1>7. Made' = m /\ calls' = [n \in Numbers |-> calls'[n]]
  <2>1. calls' = [calls EXCEPT ![1] = Append(@, call)]
    BY <1>3, <1>5
  <2> QED BY <1>1, <1>4, <1>6, <2>1, OneIsANumber DEF Made
<1>8. /\ IsSequence(m) /\ Len(m) = Len(made) + 1 /\ Len(made) \in Nat /\ Len(w.steps) \in Nat
      /\ \A i \in 1..Len(made) : m[i] = made[i]
      /\ m[Len(m)] = call
      /\ DOMAIN made = 1..Len(made) /\ DOMAIN m = 1..Len(m) /\ DOMAIN w.steps = 1..Len(w.steps)
  BY <1>4, <1>5, <1>6, AppendFacts, SequenceFacts DEF WorkflowOk
<1>9. step = w.steps[Len(m)]
  BY <1>1, <1>5, <1>8 DEF current
<1>10. Followed(m, w)
  <2>1. call.step_id = step.step_id
    BY <1>2
  <2> QED BY <1>5, <1>8, <1>9, <2>1 DEF Followed
<1>11. d \in Decisions /\ (d = "PASS" <=> ~Stops(outcome))
  <2>1. step.agent_id \in DOMAIN Registry
    BY <1>4, <1>5, <1>8, <1>9 DEF ExecutionOk, AllRegistered
  <2> QED BY <1>1, <2>1, HandlerDecides
<1>12. CASE execution' = [execution EXCEPT ![gar] = Idle] /\ results' = results
  <2>1. execution'[gar] = Idle /\ execution' = [c \in Callers |-> execution'[c]]
    BY <1>4, <1>12, CallersAssumption
  <2> QED BY <1>3, <1>4, <1>7, <1>12, <2>1, RunningFrame
<1>13. CASE Stops(outcome) /\ Terminal(gar, y, d, TRUE)
  <2>1. m[Len(m)].decision = d /\ d \in {"BLOCKED", "FAIL"}
    BY <1>2, <1>8, <1>11, <1>13 DEF Decisions
  <2>2. Len(m) \in DOMAIN m
    BY <1>8
  <2>3. Decides(d, w, m)
    BY <1>10, <2>1, <2>2 DEF Decides, Decisions
  <2> QED BY <1>1, <1>3, <1>7, <1>13, <2>3, Ends
<1>14. CASE ~Stops(outcome) /\ Goto(gar, y, IF AllStepsRan(y) THEN "complete" ELSE "step")
  <2>1. PICK steps, evidence : /\ steps = Append(x.steps, StepResult(x, d))
                               /\ y = [x EXCEPT !.evidence = evidence, !.steps = steps]
    BY <1>1, <1>2 DEF Recorded
  <2>2. IsSequence(steps) /\ Len(steps) = Len(m)
    BY <1>5, <1>8, <2>1, AppendFacts
  <2>3. PICK pc : pc = IF AllStepsRan(y) THEN "complete" ELSE "step"
    OBVIOUS
  <2>4. PICK z : z = [y EXCEPT !.pc = pc]
    OBVIOUS
  <2>5. y.steps = steps /\ y.workflow = w
    BY <1>4, <1>5, <2>1 DEF ExecutionOk
  <2>6. IF pc = "complete" THEN Len(m) = Len(w.steps) ELSE Len(m) < Len(w.steps)
    BY <1>5, <1>8, <2>2, <2>3, <2>5 DEF AllStepsRan
  <2>7. pc \in {"step", "complete"}
    BY <2>3
  <2>8. z = [x EXCEPT !.evidence = evidence, !.steps = steps, !.pc = pc]
    BY <1>4, <2>1, <2>4 DEF ExecutionOk
  <2>9. \A i \in DOMAIN m : m[i].decision = "PASS"
    <3>1. call.decision = "PASS"
      BY <1>2, <1>11, <1>14
    <3> QED BY <1>5, <1>8, <3>1
  <2>10. /\ z.pc = pc /\ z.steps = steps /\ AllRegistered(w)
         /\ z \in [pc : {"consume", "add", "step", "handler", "complete"}, number : {1},
                   workflow : {w}, authority : {z.authority}, evidence : {z.evidence},
                   steps : {z.steps}, admitted : {z.admitted}, past : {z.past}]
    BY <1>4, <2>7, <2>8 DEF ExecutionOk
  <2>11. ExecutionOk(z, w, m)
    BY <1>10, <2>2, <2>6, <2>9, <2>10 DEF ExecutionOk
  <2> QED BY <1>1, <1>3, <1>7, <1>14, <2>3, <2>4, <2>11, GoesOn
<1> QED BY <1>3, <1>12, <1>13, <1>14

LEMMA CompleteInv ==
  ASSUME GarInv, command.pc = "running", Complete(gar), UNCHANGED command
  PROVE  GarInv'
<1>1. PICK x : x = execution[gar]
  OBVIOUS
<1>2. /\ x.pc = "complete" /\ x.pc # "idle" /\ calls' = calls /\ UNCHANGED <<command, now>>
      /\ \E y : Terminal(gar, y, "PASS", TRUE)
  BY <1>1 DEF Complete
<1>3. ExecutionOk(x, command.workflow, Made') /\ calls' = [n \in Numbers |-> calls'[n]]
  BY <1>1, <1>2, RunningFacts DEF Made
<1>4. Decides("PASS", command.workflow, Made')
  BY <1>2, <1>3 DEF ExecutionOk, Decides, Decisions
<1> QED BY <1>1, <1>2, <1>3, <1>4, Ends

LEMMA RunningInv ==
  ASSUME GarInv, Running
  PROVE  GarInv'
<1>1. command.pc = "running" /\ UNCHANGED command
  BY DEF Running, At
<1>2. \/ ConsumeTest(gar)
      \/ ConsumeAdd(gar)
      \/ EvaluateStep(gar)
      \/ RunHandler(gar, handler(current(execution[gar])))
      \/ Complete(gar)
  BY DEF Running
<1> QED BY <1>1, <1>2, ConsumeTestInv, ConsumeAddInv, EvaluateStepInv, RunHandlerInv, CompleteInv

-----------------------------------------------------------------------------
(***************************************************************************)
(* The end of the command                                                  *)
(***************************************************************************)

\* execute has returned or raised.
LEMMA ReturnedFacts ==
  ASSUME GarInv, Returned
  PROVE  /\ command.pc = "running" /\ ~command.printed
         /\ results = {} \/ Decided
<1>1. command.pc = "running" /\ execution[gar] = Idle
  BY DEF Returned, At
<1>2. ~ExecutionOk(execution[gar], command.workflow, Made)
  BY <1>1 DEF ExecutionOk, Idle
<1> QED BY <1>1, <1>2 DEF GarInv

LEMMA UncaughtInv ==
  ASSUME GarInv, Uncaught
  PROVE  GarInv'
<1>1. Exit(1) /\ UNCHANGED vars /\ ~command.printed
  BY ReturnedFacts DEF Uncaught
<1>2. /\ CommandOk(command)' /\ command'.pc = "exit" /\ command'.exit = 1
      /\ ~command'.printed
  BY <1>1, ExitFacts DEF GarInv
<1>3. ExitTellsTheTruth'
  BY <1>2 DEF ExitTellsTheTruth
<1>4. now' \in Nat /\ calls' = [n \in Numbers |-> calls'[n]]
      /\ execution' = [c \in Callers |-> execution'[c]]
  BY <1>1 DEF GarInv, vars
<1> QED BY <1>2, <1>3, <1>4 DEF GarInv

\* The output is lost: of the result, after the calls, or of semantics.
LEMMA PrintFailsInv ==
  ASSUME GarInv, PrintFails
  PROVE  GarInv'
<1>1. /\ Exit(1) /\ UNCHANGED vars /\ ~command.printed
      /\ Returned \/ (command.pc = "start" /\ command.call.name = "semantics")
  BY ReturnedFacts DEF PrintFails, At, GarInv
<1>2. /\ CommandOk(command)' /\ command'.pc = "exit" /\ command'.exit = 1
      /\ ~command'.printed
  BY <1>1, ExitFacts DEF GarInv
<1>3. ExitTellsTheTruth'
  BY <1>2 DEF ExitTellsTheTruth
<1>4. now' \in Nat /\ calls' = [n \in Numbers |-> calls'[n]]
      /\ execution' = [c \in Callers |-> execution'[c]]
  BY <1>1 DEF GarInv, vars
<1> QED BY <1>2, <1>3, <1>4 DEF GarInv

LEMMA PrintResultInv ==
  ASSUME GarInv, PrintResult
  PROVE  GarInv'
<1>1. /\ command' = [command EXCEPT !.pc = "write", !.printed = TRUE]
      /\ UNCHANGED vars /\ command.pc = "running" /\ Decided
  BY ReturnedFacts DEF PrintResult
<1>2. CommandOk(command)
  BY DEF GarInv
<1>3. /\ command'.pc = "write" /\ command'.printed
      /\ command'.workflow = command.workflow /\ command'.call = command.call
      /\ command'.grant = command.grant
  BY <1>1, <1>2 DEF CommandOk
<1>4. StepsAskedFor' = StepsAskedFor
  BY <1>3 DEF StepsAskedFor
<1>5. CommandOk(command)'
  BY <1>1, <1>2, <1>3, <1>4 DEF CommandOk
<1>6. Decided'
  BY <1>1, <1>3 DEF Decided, vars, Made
<1>7. ExitTellsTheTruth'
  BY <1>3 DEF ExitTellsTheTruth, At
<1>8. now' \in Nat /\ calls' = [n \in Numbers |-> calls'[n]]
      /\ execution' = [c \in Callers |-> execution'[c]]
  BY <1>1 DEF GarInv, vars
<1> QED BY <1>3, <1>5, <1>6, <1>7, <1>8 DEF GarInv

\* The ids of a workflow's steps are a sequence.
LEMMA StepIdsFacts ==
  ASSUME NEW w, WorkflowOk(w)
  PROVE  /\ IsSequence(StepIdsOf(w)) /\ Len(StepIdsOf(w)) = Len(w.steps)
         /\ Len(w.steps) \in Nat
         /\ \A i \in 1..Len(w.steps) : StepIdsOf(w)[i] = w.steps[i].step_id
<1>1. PICK n \in Nat : n = Len(w.steps) /\ DOMAIN w.steps = 1..n
  BY SequenceFacts DEF WorkflowOk
<1>2. PICK ids : ids = StepIdsOf(w)
  OBVIOUS
<1>3. ids = [i \in 1..n |-> w.steps[i].step_id]
  BY <1>1, <1>2 DEF StepIdsOf
<1>4. ids = [i \in 1..n |-> ids[i]]
  BY <1>3
<1>5. IsSequence(ids) /\ Len(ids) = n
  BY <1>4, FunctionIsSequence
<1> QED BY <1>1, <1>2, <1>3, <1>5

\* Sequences that agree as far as the first goes.
LEMMA AgreeingPrefix ==
  ASSUME NEW s, NEW t, IsSequence(s), IsSequence(t), Len(s) <= Len(t),
         \A i \in 1..Len(s) : s[i] = t[i]
  PROVE  IsPrefix(s, t)
<1>1. PICK n \in Nat : n = Len(s)
  BY SequenceFacts
<1>2. PICK S, u, v : /\ u = SubSeq(s, 1, n) /\ v = SubSeq(t, 1, n)
                     /\ S = ToSet(s) \cup ToSet(t)
  OBVIOUS
<1>3. \A i \in 1..n : s[i] \in S /\ t[i] \in S
  BY <1>1, <1>2, SequenceFacts DEF ToSet
<1>4. /\ u \in Seq(S) /\ v \in Seq(S) /\ Len(u) = n /\ Len(v) = n
      /\ \A i \in 1..n : u[i] = s[i] /\ v[i] = t[i]
  BY <1>2, <1>3, SubSeqProperties
<1>5. u = v
  <2>1. u \in [1..n -> S] /\ v \in [1..n -> S]
    BY <1>4, LenProperties
  <2> QED BY <1>1, <1>4, <2>1
<1> QED BY <1>1, <1>2, <1>5 DEF IsPrefix

LEMMA WriteEvidenceInv ==
  ASSUME GarInv, WriteEvidence
  PROVE  GarInv'
<1>1. command.pc = "write" /\ UNCHANGED vars /\ CommandOk(command) /\ command.printed /\ Decided
  BY DEF WriteEvidence, At, GarInv
<1>2. PICK r, w : /\ results = {r} /\ w = command.workflow
                  /\ Decides(r.decision, w, Made)
  BY <1>1 DEF Decided
<1>3. Result = r
  BY <1>2 DEF Result
<1>4. PICK made, d, code : /\ made = Made /\ d = r.decision
                           /\ code = (IF Writes THEN EXIT_BY_DECISION[d] ELSE 1)
  OBVIOUS
<1>5. /\ Decides(d, w, made) /\ WorkflowOk(w) /\ StepIdsOf(w) = StepsAskedFor
      /\ command.call.name # "semantics" /\ d \in Decisions
  BY <1>1, <1>2, <1>4 DEF CommandOk, Decides
<1>6. /\ command'.pc = "exit" /\ command'.exit = code
      /\ command'.call = command.call /\ command'.workflow = w /\ command'.grant = command.grant
      /\ command'.printed /\ command'.written \in BOOLEAN
      /\ Writes => (command'.written <=> command.call.evidence_out = "writable")
      /\ DOMAIN command' = DOMAIN command
  BY <1>1, <1>2, <1>3, <1>4 DEF WriteEvidence, CommandOk, Exit
<1>7. code \in 0..4 /\ (Writes => /\ d = "PASS" => code = 0
                                  /\ d = "BLOCKED" => code = 3
                                  /\ d = "FAIL" => code = 4)
                    /\ (~Writes => code = 1)
  BY <1>4, <1>5 DEF EXIT_BY_DECISION, Decisions
<1>8. command' \in [pc : {"start", "execute", "running", "write", "exit"}, call : Invocations,
                    workflow : {command'.workflow}, grant : {command'.grant},
                    printed : BOOLEAN, written : BOOLEAN, exit : 0..4]
  BY <1>1, <1>3, <1>4, <1>6, <1>7 DEF WriteEvidence, CommandOk, Exit
<1>9. CommandOk(command)'
  BY <1>1, <1>2, <1>5, <1>6, <1>8 DEF CommandOk
<1>10. Made' = made /\ StepsAskedFor' = StepsAskedFor
  BY <1>1, <1>4, <1>6 DEF vars, Made, StepsAskedFor
<1>11. PICK called, asked : called = StepsCalled /\ asked = StepsAskedFor
  OBVIOUS
<1>12. StepsCalled' = called /\ StepsAskedFor' = asked
       /\ AllPassed' = (\A i \in DOMAIN made : made[i].decision = "PASS")
  BY <1>4, <1>10, <1>11 DEF StepsCalled, AllPassed
<1>13. /\ IsSequence(called) /\ Len(called) = Len(made) /\ Len(made) \in Nat
       /\ IsSequence(asked) /\ Len(asked) = Len(w.steps) /\ Len(w.steps) \in Nat
       /\ Len(called) <= Len(asked) /\ \A i \in 1..Len(called) : called[i] = asked[i]
  <2>1. /\ IsSequence(made) /\ Len(made) <= Len(w.steps)
        /\ \A i \in 1..Len(made) : made[i].step_id = w.steps[i].step_id
    BY <1>5 DEF Decides, Followed
  <2>2. PICK n \in Nat : n = Len(made) /\ DOMAIN made = 1..n
    BY <2>1, SequenceFacts
  <2>3. called = [i \in 1..n |-> made[i].step_id]
    BY <1>4, <1>11, <2>2 DEF StepsCalled
  <2>4. called = [i \in 1..n |-> called[i]]
    BY <2>3
  <2>5. IsSequence(called) /\ Len(called) = n
    BY <2>4, FunctionIsSequence
  <2>6. /\ IsSequence(asked) /\ Len(asked) = Len(w.steps) /\ Len(w.steps) \in Nat
        /\ \A i \in 1..Len(w.steps) : asked[i] = w.steps[i].step_id
    BY <1>5, <1>11, StepIdsFacts
  <2> QED BY <2>1, <2>2, <2>3, <2>5, <2>6
<1>14. IsPrefix(called, asked)
  BY <1>13, AgreeingPrefix
<1>15. Len(called) = Len(asked) => called = asked
  <2> SUFFICES ASSUME Len(called) = Len(asked) PROVE called = asked
    OBVIOUS
  <2>1. called = [i \in 1..Len(called) |-> called[i]] /\ asked = [i \in 1..Len(asked) |-> asked[i]]
    BY <1>13, SequenceFacts
  <2> QED BY <1>13, <2>1
<1>16. Writes <=> command.call.evidence_out # "unwritable"
  BY DEF Writes
<1>17. ASSUME ~Writes PROVE ExitTellsTheTruth'
  BY <1>6, <1>7, <1>16, <1>17 DEF ExitTellsTheTruth
<1>18. ASSUME Writes, d = "PASS" PROVE ExitTellsTheTruth'
  <2>1. called = asked /\ AllPassed'
    BY <1>5, <1>12, <1>13, <1>15, <1>18 DEF Decides
  <2>2. /\ StepsCalled' = StepsAskedFor'
        /\ command'.written <=> command'.call.evidence_out = "writable"
        /\ command'.call.evidence_out # "unwritable"
    BY <1>6, <1>12, <1>16, <1>18, <2>1
  <2>3. command'.exit = 0
    BY <1>6, <1>7, <1>18
  <2> QED BY <1>6, <2>1, <2>2, <2>3 DEF ExitTellsTheTruth
<1>19. ASSUME Writes, d = "BLOCKED" PROVE ExitTellsTheTruth'
  <2>1. IF AllPassed' THEN Len(made) < Len(asked) ELSE made[Len(made)].decision = "BLOCKED"
    BY <1>5, <1>12, <1>13, <1>19 DEF Decides
  <2>2. command'.exit = 3
    BY <1>6, <1>7, <1>19
  <2> QED BY <1>6, <1>10, <1>12, <1>14, <1>16, <1>19, <2>1, <2>2 DEF ExitTellsTheTruth
<1>20. ASSUME Writes, d = "FAIL" PROVE ExitTellsTheTruth'
  <2>1. made[Len(made)].decision = "FAIL" /\ command'.exit = 4
    BY <1>5, <1>6, <1>7, <1>20 DEF Decides
  <2> QED BY <1>6, <1>10, <2>1 DEF ExitTellsTheTruth
<1>21. ExitTellsTheTruth'
  BY <1>5, <1>17, <1>18, <1>19, <1>20 DEF Decisions
<1>22. now' \in Nat /\ calls' = [n \in Numbers |-> calls'[n]]
       /\ execution' = [c \in Callers |-> execution'[c]]
  BY <1>1 DEF GarInv, vars
<1> QED BY <1>6, <1>9, <1>21, <1>22 DEF GarInv

LEMMA TimePassesInv ==
  ASSUME GarInv, TimePasses
  PROVE  GarInv'
<1>1. /\ UNCHANGED <<execution, started, calls, results, command>>
      /\ now' = now + 1 /\ command.pc # "exit"
  BY DEF TimePasses, Tick, At
<1>2. now' \in Nat
  BY <1>1 DEF GarInv
<1>3. /\ CommandOk(command)' /\ Made' = Made /\ (Decided' <=> Decided)
  BY <1>1 DEF GarInv, CommandOk, StepsAskedFor, Made, Decided
<1>4. ExitTellsTheTruth'
  BY <1>1 DEF ExitTellsTheTruth, At
<1> QED BY <1>1, <1>2, <1>3, <1>4 DEF GarInv

-----------------------------------------------------------------------------
(***************************************************************************)
(* The theorems                                                            *)
(***************************************************************************)

\* Every step of the command keeps the invariant.
LEMMA NextGarInv ==
  ASSUME GarInv, [GarNext]_garVars
  PROVE  GarInv'
<1>1. CASE GarNext
  BY <1>1, ReadContractsInv, DemoContractsInv, SemanticsInv, ExecuteContractsInv, RunningInv,
     UncaughtInv, PrintResultInv, PrintFailsInv, WriteEvidenceInv, TimePassesInv DEF GarNext
<1>2. CASE UNCHANGED garVars
  <2>1. UNCHANGED <<execution, now, started, calls, results, command>>
    BY <1>2 DEF garVars, vars
  <2>2. /\ CommandOk(command)' /\ Made' = Made /\ (Decided' <=> Decided)
    BY <2>1 DEF GarInv, CommandOk, StepsAskedFor, Made, Decided
  <2>3. ExitTellsTheTruth'
    BY <2>1 DEF GarInv, ExitTellsTheTruth, At, StepsCalled, StepsAskedFor, AllPassed, Made
  <2> QED BY <2>1, <2>2, <2>3 DEF GarInv
<1> QED BY <1>1, <1>2

\* The invariant of the command (cli.py main with runtime.py execute): its
\* contracts were read and are well formed, its steps are those asked for, and
\* its one execution has called the handlers of the first of them, in order.
THEOREM GarInvariant == GarSpec => []GarInv
<1>1. GarInit => GarInv
  BY InitGarInv
<1>2. GarInv /\ [GarNext]_garVars => GarInv'
  BY NextGarInv
<1> QED BY <1>1, <1>2, PTL DEF GarSpec

\* The exit code of the command (EXIT_BY_DECISION and the handlers of main)
\* tells what was called and whether its evidence is where it was asked for, for
\* any files, any options and any bounds.
THEOREM GarExitTellsTheTruth == GarSpec => []ExitTellsTheTruth
<1>1. GarInv => ExitTellsTheTruth
  BY DEF GarInv
<1> QED BY <1>1, GarInvariant, PTL

\* Contracts that were read (serialization.py) come back from what the adapter
\* stores of them in a checkpoint as they were, without an error.
THEOREM GarReloadsUnchanged == GarSpec => []ReloadsUnchanged
<1>1. GarInv => ReloadsUnchanged
  <2> SUFFICES ASSUME GarInv, command.workflow # <<>>
               PROVE  LET w == workflow_to_mapping(command.workflow)
                          g == authority_to_mapping(command.grant)
                      IN  /\ workflow_error(w) = "none"
                          /\ workflow_from_mapping(w) = command.workflow
                          /\ authority_error(g) = "none"
                          /\ authority_from_mapping(g) = command.grant
    BY DEF ReloadsUnchanged
  <2>1. WorkflowOk(command.workflow) /\ GrantOk(command.grant)
    BY DEF GarInv, CommandOk
  <2> QED BY <2>1, WorkflowBack, GrantBack
<1> QED BY <1>1, GarInvariant, PTL
===============================================================================
