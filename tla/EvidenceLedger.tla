--------------------------- MODULE EvidenceLedger ---------------------------
(***************************************************************************)
(* The hash chain of evidence.py and the two ways it leaves memory and     *)
(* comes back: export, and the adapter's _ledger_from_export, which every  *)
(* node, start and inspect use to rebuild a ledger from a checkpoint.      *)
(*                                                                         *)
(* A record's content is its header (producer, kind, created_at) and its   *)
(* payload.  append copies the payload's top level only: what is nested in *)
(* it stays shared with the code that supplied it, which may change it     *)
(* later.  SHA-256 over canonical JSON is taken to be collision free, so   *)
(* a digest is modelled by the material it digests.  An exported array     *)
(* lies in a store that may damage it, digests aside: nothing but append   *)
(* computes a digest.                                                      *)
(***************************************************************************)
EXTENDS Naturals, Sequences, SequencesExt
\* An operator whose name starts with Mut is a bug put beside the operator that
\* follows it.

CONSTANTS
  Headers, Payloads,   \* what records may say
  Genesis,             \* None: the previous digest of the first record
  MaxRecords,          \* bound of the chain's length
  MaxDamages           \* bound of the damages between an export and a restore

ASSUME BoundsAssumption == MaxRecords \in Nat /\ MaxDamages \in Nat

VARIABLES
  records,    \* EvidenceLedger._records
  stored,     \* the array exported last, as the store has it now
  appended,   \* history: the contents handed to append, for this ledger
  exported,   \* history: appended and records at the last export
  damages,    \* history: how often the stored array was damaged since then
  restored    \* history: the attempt to rebuild a ledger, if it came last

vars == <<records, stored, appended, exported, damages, restored>>

Content == [header : Headers, payload : Payloads]

content(r) == [header |-> r.header, payload |-> r.payload]
contents(ledger) == [i \in DOMAIN ledger |-> content(ledger[i])]

-----------------------------------------------------------------------------

head_digest(ledger) == IF ledger = <<>> THEN Genesis ELSE Last(ledger).digest

material(r) ==
  [sequence        |-> r.sequence,
   evidence_id     |-> r.evidence_id,
   header          |-> r.header,
   payload         |-> r.payload,
   previous_digest |-> r.previous_digest]

\* Sequence numbers are taken from the index, which starts at 0.
MutFromZero(ledger, c, shared) ==
  LET r == [sequence        |-> Len(ledger),
            evidence_id     |-> Len(ledger),
            header          |-> c.header,
            payload         |-> c.payload,
            previous_digest |-> head_digest(ledger),
            digest          |-> Genesis,
            shared          |-> shared]
  IN  Append(ledger, [r EXCEPT !.digest = material(r)])

\* append: the number stands for itself and for evidence_id, which renders it.
Linked(ledger, c, shared) ==
  LET n == Len(ledger) + 1
      r == [sequence        |-> n,
            evidence_id     |-> n,
            header          |-> c.header,
            payload         |-> c.payload,
            previous_digest |-> head_digest(ledger),
            digest          |-> Genesis,
            shared          |-> shared]
  IN  Append(ledger, [r EXCEPT !.digest = material(r)])

\* The digest is compared with the link only.
MutLinksOnly(ledger) ==
  \A i \in DOMAIN ledger :
    /\ ledger[i].sequence = i
    /\ ledger[i].evidence_id = i
    /\ ledger[i].previous_digest = IF i = 1 THEN Genesis ELSE ledger[i - 1].digest

\* verify: every number, link and digest.
verify(ledger) ==
  \A i \in DOMAIN ledger :
    /\ ledger[i].sequence = i
    /\ ledger[i].evidence_id = i
    /\ ledger[i].previous_digest = IF i = 1 THEN Genesis ELSE ledger[i - 1].digest
    /\ ledger[i].digest = material(ledger[i])

\* export: the records as they are now, without a verification.
export(ledger) ==
  [i \in DOMAIN ledger |->
     [sequence        |-> ledger[i].sequence,
      evidence_id     |-> ledger[i].evidence_id,
      header          |-> ledger[i].header,
      payload         |-> ledger[i].payload,
      previous_digest |-> ledger[i].previous_digest,
      digest          |-> ledger[i].digest]]

rebuild(array) ==
  LET ledger[n \in 0..Len(array)] ==
        IF n = 0 THEN <<>> ELSE Linked(ledger[n - 1], content(array[n]), FALSE)
  IN  ledger[Len(array)]

\* The rebuilt ledger is verified, and never compared with the array.
MutRenumber(array) ==
  /\ \A i \in DOMAIN array : array[i].sequence = i /\ array[i].evidence_id = i
  /\ verify(rebuild(array))

\* _ledger_from_export: numbers first, then each rebuilt record against the
\* array, digest and link included.
accepts(array) ==
  /\ \A i \in DOMAIN array : array[i].sequence = i /\ array[i].evidence_id = i
  /\ export(rebuild(array)) = array
  /\ verify(rebuild(array))

-----------------------------------------------------------------------------

Nothing == [contents |-> <<>>, valid |-> TRUE]

Init ==
  /\ records = <<>>
  /\ stored = <<>>
  /\ appended = <<>>
  /\ exported = Nothing
  /\ damages = 0
  /\ restored = <<>>

AppendRecord(c, shared) ==
  /\ Len(records) < MaxRecords
  /\ records' = Linked(records, c, shared)
  /\ appended' = Append(appended, c)
  /\ restored' = <<>>
  /\ UNCHANGED <<stored, exported, damages>>

\* The supplier changes what it nested in the payload.
MutateShared(i, payload) ==
  /\ i \in DOMAIN records
  /\ records[i].shared
  /\ records' = [records EXCEPT ![i].payload = payload]
  /\ restored' = <<>>
  /\ UNCHANGED <<stored, appended, exported, damages>>

Export ==
  /\ stored' = export(records)
  /\ exported' = [contents |-> appended, valid |-> contents(records) = appended]
  /\ damages' = 0
  /\ restored' = <<>>
  /\ UNCHANGED <<records, appended>>

\* What a store, or a hand, does to an array: a record lost, doubled, moved,
\* renumbered or edited.
Lost(array) == {RemoveAt(array, i) : i \in DOMAIN array}
Doubled(array) == {InsertAt(array, i, array[i]) : i \in DOMAIN array}
Moved(array) ==
  {[array EXCEPT ![i] = array[j], ![j] = array[i]] : i, j \in DOMAIN array}
Renumbered(array) ==
  [i \in DOMAIN array |-> [array[i] EXCEPT !.sequence = i, !.evidence_id = i]]
Edited(array) ==
  {[array EXCEPT ![i].payload = p] : i \in DOMAIN array, p \in Payloads}
    \cup {[array EXCEPT ![i].header = h] : i \in DOMAIN array, h \in Headers}

Damaged(array) ==
  Lost(array) \cup Doubled(array) \cup Moved(array) \cup {Renumbered(array)}
    \cup Edited(array)

Damage ==
  /\ damages < MaxDamages
  /\ damages' = damages + 1
  /\ \E array \in Damaged(stored) :
       /\ Len(array) <= MaxRecords
       /\ stored' = array
  /\ restored' = <<>>
  /\ UNCHANGED <<records, appended, exported>>

\* The old ledger is gone; a refused array raises and leaves none.
Restore ==
  LET ledger == IF accepts(stored) THEN rebuild(stored) ELSE <<>>
  IN  /\ records' = ledger
      /\ appended' = contents(ledger)
      /\ restored' = <<[accepted |-> accepts(stored),
                        damaged  |-> damages > 0,
                        from     |-> exported,
                        got      |-> contents(ledger)]>>
      /\ UNCHANGED <<stored, exported, damages>>

Next ==
  \/ \E c \in Content, shared \in BOOLEAN : AppendRecord(c, shared)
  \/ \E i \in 1..MaxRecords, p \in Payloads : MutateShared(i, p)
  \/ Export
  \/ Damage
  \/ Restore

Spec == Init /\ [][Next]_vars

-----------------------------------------------------------------------------
(***************************************************************************)
(* Properties                                                              *)
(***************************************************************************)

TypeOK ==
  /\ \A i \in DOMAIN records : /\ records[i].sequence \in 1..MaxRecords
                               /\ content(records[i]) \in Content
  /\ appended \in BoundedSeq(Content, MaxRecords)
  /\ Len(records) = Len(appended)
  /\ damages \in 0..MaxDamages

\* verify is exact: it passes if and only if every record still says what was
\* handed to append, so it neither misses a change nor refuses a sound ledger.
VerifyIsExact == verify(records) <=> contents(records) = appended

\* "Canonical JSON and SHA-256 chaining detect mutation and ordering changes"
\* (README): whatever was done to the array or, before the export, to shared
\* payloads, a ledger that is rebuilt holds the first records that were appended,
\* each with its first content.  Only a lost tail goes unnoticed.
RestoredIsOriginal ==
  \A n \in DOMAIN restored :
    restored[n].accepted => IsPrefix(restored[n].got, restored[n].from.contents)

\* A node is never stopped by its own checkpoint: an array that was exported from
\* a sound ledger and not damaged is rebuilt in full.
SoundExportsRestore ==
  \A n \in DOMAIN restored :
    restored[n].from.valid /\ ~restored[n].damaged =>
      /\ restored[n].accepted
      /\ restored[n].got = restored[n].from.contents

\* "One immutable link in an evidence chain" (EvidenceRecord): what a record says
\* is what was handed to append.
RecordsAreImmutable == contents(records) = appended
=============================================================================
