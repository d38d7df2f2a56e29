------------------------------ MODULE Contracts ------------------------------
(***************************************************************************)
(* The JSON boundary (serialization.py) with the constructors of models.py *)
(* that it calls, and the way back that the adapter stores contracts in    *)
(* checkpoints (langgraph_adapter.py).  Both ways are functions.           *)
(*                                                                         *)
(* A JSON value is a record with a type: "object" (fields, a function from *)
(* keys), "array" (items), "string" (text, without the surrounding blanks, *)
(* and padded, whether there were any; one that reads as a date also has a *)
(* clock, a zone and naive), "number" (finite), "boolean" (value).  A file *)
(* is a JSON value, or has type "missing", "not_utf8" or "not_json".       *)
(*                                                                         *)
(* A contract is a record as RuntimePolicy takes it.  Reading yields an    *)
(* error, "none" if there is a contract.  "ValueError" stands for the      *)
(* exceptions that are no ContractError.                                   *)
(***************************************************************************)
EXTENDS Integers, SequencesExt
\* An operator whose name starts with Mut is a bug put beside the operator that
\* follows it.

\* A JSON value, and an object of them.
JsonValue(v) ==
  /\ v.type = "array" => v.items \in Seq(ToSet(v.items))
  /\ v.type = "boolean" => v.value \in BOOLEAN
  /\ v.type = "string" /\ "zone" \in DOMAIN v => v.clock \in Int /\ v.zone \in Int
JsonObject(v) == v.type = "object" => \A k \in DOMAIN v.fields : JsonValue(v.fields[k])

Absent == [type |-> "absent"]
get(fields, key) == IF key \in DOMAIN fields THEN fields[key] ELSE Absent

Blank == ""       \* what is left of a text of blanks
IsText(v) == v.type = "string" /\ v.text # Blank
IsTexts(v) == v.type = "array" /\ \A i \in DOMAIN v.items : IsText(v.items[i])
texts(v) == IF v = Absent THEN <<>> ELSE [i \in DOMAIN v.items |-> v.items[i].text]
Unique(s) == Cardinality(ToSet(s)) = Len(s)

\* datetime.fromisoformat takes no blanks; the instant is in UTC.
IsDate(v) == v.type = "string" /\ "zone" \in DOMAIN v /\ ~v.padded /\ ~v.naive
Instant(v) == v.clock - v.zone

Texts(fields, keys) == \A k \in keys : IsText(get(fields, k))

-----------------------------------------------------------------------------

read_error(file) ==
  IF file.type = "not_utf8" THEN "ValueError"       \* UnicodeDecodeError
  ELSE IF file.type # "object" THEN "ContractError" ELSE "none"

EffectClass == {"READ_ONLY", "REVERSIBLE", "IRREVERSIBLE"}

IsEffect(v) == v.type = "string" /\ ~v.padded /\ v.text \in EffectClass

StepFields(v) ==
  /\ v.type = "object"
  /\ get(v.fields, "effect") = Absent \/ IsEffect(get(v.fields, "effect"))
  /\ Texts(v.fields, {"step_id", "agent_id", "action", "capability"})
  /\ LET kinds == get(v.fields, "requires_evidence_kinds") IN kinds = Absent \/ IsTexts(kinds)
  /\ get(v.fields, "input_data").type \in {"absent", "object"}

\* StepSpec(...) stands outside the try that makes errors ContractErrors.
StepError(v) ==
  IF ~StepFields(v) THEN "ContractError"
  ELSE IF ~Unique(texts(get(v.fields, "requires_evidence_kinds"))) THEN "ValueError"
  ELSE "none"

effect(fields) == IF get(fields, "effect") = Absent THEN "READ_ONLY" ELSE fields["effect"].text

StepSpec(v) ==
  [step_id    |-> v.fields["step_id"].text,
   agent_id   |-> v.fields["agent_id"].text,
   action     |-> v.fields["action"].text,
   capability |-> v.fields["capability"].text,
   effect     |-> effect(v.fields),
   requires   |-> ToSet(texts(get(v.fields, "requires_evidence_kinds"))),
   input_data |-> IF get(v.fields, "input_data") = Absent THEN <<>>
                  ELSE v.fields["input_data"].fields]

\* The first step with an error decides which; the workflow's own come last.
workflow_error(fields) ==
  LET steps == get(fields, "steps")
      bad   == {i \in DOMAIN steps.items : StepError(steps.items[i]) # "none"}
      ids   == [i \in DOMAIN steps.items |-> steps.items[i].fields["step_id"].text]
  IN  IF steps.type # "array" THEN "ContractError"
      ELSE IF bad # {} THEN StepError(steps.items[Min(bad)])
      ELSE IF /\ Texts(fields, {"workflow_id", "correlation_id"})
              /\ ids # <<>>
              /\ Unique(ids)
      THEN "none" ELSE "ContractError"

workflow_from_mapping(fields) ==
  [workflow_id    |-> fields["workflow_id"].text,
   correlation_id |-> fields["correlation_id"].text,
   steps          |-> [i \in DOMAIN fields["steps"].items |-> StepSpec(fields["steps"].items[i])]]

authority_error(fields) ==
  IF /\ get(fields, "single_use").type \in {"absent", "boolean"}
     /\ Texts(fields, {"authorization_id", "subject", "workflow_id"})
     /\ IsTexts(get(fields, "capabilities"))
     /\ fields["capabilities"].items # <<>>
     /\ IsDate(get(fields, "issued_at"))
     /\ IsDate(get(fields, "expires_at"))
     /\ Instant(fields["issued_at"]) < Instant(fields["expires_at"])
  THEN "none" ELSE "ContractError"

authority_from_mapping(fields) ==
  [authorization_id |-> fields["authorization_id"].text,
   subject          |-> fields["subject"].text,
   workflow_id      |-> fields["workflow_id"].text,
   capabilities     |-> ToSet(texts(fields["capabilities"])),
   issued_at        |-> Instant(fields["issued_at"]),
   expires_at       |-> Instant(fields["expires_at"]),
   single_use       |-> get(fields, "single_use") = Absent \/ fields["single_use"].value]

-----------------------------------------------------------------------------
(***************************************************************************)
(* What a checkpoint stores, and the nodes read again.                     *)
(***************************************************************************)

String(text)  == [type |-> "string", text |-> text, padded |-> FALSE]
Array(items)  == [type |-> "array", items |-> items]
Object(fields) == [type |-> "object", fields |-> fields]
Strings(set)  == Array([i \in 1..Cardinality(set) |-> String(SetToSeq(set)[i])])

utc_text(instant) ==
  [type |-> "string", text |-> "date", padded |-> FALSE,
   clock |-> instant, zone |-> 0, naive |-> FALSE]

workflow_to_mapping(workflow) ==
  [workflow_id    |-> String(workflow.workflow_id),
   correlation_id |-> String(workflow.correlation_id),
   steps          |-> Array([i \in DOMAIN workflow.steps |->
     LET step == workflow.steps[i]
     IN  Object([step_id    |-> String(step.step_id),
                 agent_id   |-> String(step.agent_id),
                 action     |-> String(step.action),
                 capability |-> String(step.capability),
                 effect     |-> String(step.effect),
                 requires_evidence_kinds |-> Strings(step.requires),
                 input_data |-> Object(step.input_data)])])]

\* single_use is left to its default.
MutDefaultLeftOut(grant) ==
  [authorization_id |-> String(grant.authorization_id),
   subject          |-> String(grant.subject),
   workflow_id      |-> String(grant.workflow_id),
   capabilities     |-> Strings(grant.capabilities),
   issued_at        |-> utc_text(grant.issued_at),
   expires_at       |-> utc_text(grant.expires_at)]

authority_to_mapping(grant) ==
  [authorization_id |-> String(grant.authorization_id),
   subject          |-> String(grant.subject),
   workflow_id      |-> String(grant.workflow_id),
   capabilities     |-> Strings(grant.capabilities),
   issued_at        |-> utc_text(grant.issued_at),
   expires_at       |-> utc_text(grant.expires_at),
   single_use       |-> [type |-> "boolean", value |-> grant.single_use]]

-----------------------------------------------------------------------------
(***************************************************************************)
(* The published schemas (docs/contracts).                                 *)
(***************************************************************************)

\* additionalProperties is false; the keys are required, or may be there.
Keys(fields, required, optional) ==
  required \subseteq DOMAIN fields /\ DOMAIN fields \subseteq required \cup optional

UniqueTexts(v) == IsTexts(v) /\ Unique(v.items)

StepSchema(v) ==
  /\ Keys(v.fields, {"step_id", "agent_id", "action", "capability"},
          {"effect", "requires_evidence_kinds", "input_data"})
  /\ StepFields(v)
  /\ LET kinds == get(v.fields, "requires_evidence_kinds") IN kinds = Absent \/ UniqueTexts(kinds)

WorkflowSchema(fields) ==
  /\ Keys(fields, {"workflow_id", "correlation_id", "steps"}, {})
  /\ Texts(fields, {"workflow_id", "correlation_id"})
  /\ fields["steps"].type = "array"
  /\ fields["steps"].items # <<>>
  /\ \A i \in DOMAIN fields["steps"].items : StepSchema(fields["steps"].items[i])

AuthoritySchema(fields) ==
  /\ Keys(fields, {"authorization_id", "subject", "workflow_id", "capabilities",
                   "issued_at", "expires_at"}, {"single_use"})
  /\ Texts(fields, {"authorization_id", "subject", "workflow_id"})
  /\ UniqueTexts(fields["capabilities"])
  /\ fields["capabilities"].items # <<>>
  /\ IsDate(fields["issued_at"])
  /\ IsDate(fields["expires_at"])
  /\ get(fields, "single_use").type \in {"absent", "boolean"}
=============================================================================
