------------------------ MODULE EvidenceLedgerProofs ------------------------
(***************************************************************************)
(* The hash chain, for any headers and payloads and any numbers of records *)
(* and damages.                                                            *)
(*                                                                         *)
(* A digest never changes and holds the number and the content of the      *)
(* record it was computed for.  LInv says so of the digests of the ledger  *)
(* (Chain) and of those on the store (StoredOk), wherever damage has moved *)
(* them.  An array is accepted only where each digest is the one of the    *)
(* rebuilt record in its place, so that place and content are those the    *)
(* digest was computed for.                                                *)
(***************************************************************************)
EXTENDS EvidenceLedger, NumberInduction, SequenceTheorems, TLAPS

-----------------------------------------------------------------------------
(***************************************************************************)
(* The inductive invariant                                                 *)
(***************************************************************************)

\* A sequence of whatever.
IsSeq(s) == Len(s) \in Nat /\ s = [i \in 1..Len(s) |-> s[i]]

\* What the i-th record links to.
Link(ledger, i) == IF i = 1 THEN Genesis ELSE ledger[i - 1].digest

\* The digest of content c in place i.
Digest(i, c, previous) ==
  [sequence |-> i, evidence_id |-> i, header |-> c.header, payload |-> c.payload,
   previous_digest |-> previous]

\* A record in place i, computed for content c; its own may have changed since.
RecordOk(i, r, c, previous) ==
  /\ r = [sequence |-> i, evidence_id |-> i, header |-> r.header, payload |-> r.payload,
          previous_digest |-> previous, digest |-> Digest(i, c, previous),
          shared |-> r.shared]
  /\ content(r) \in Content

LEMMA RecordDigest ==
  ASSUME NEW i, NEW r, NEW c, NEW previous, RecordOk(i, r, c, previous)
  PROVE  r.digest = Digest(i, c, previous)
BY DEF RecordOk

\* A ledger to which the contents cs were appended.
Chain(ledger, cs) ==
  /\ cs \in Seq(Content)
  /\ IsSeq(ledger) /\ Len(ledger) = Len(cs)
  /\ \A i \in 1..Len(ledger) : RecordOk(i, ledger[i], cs[i], Link(ledger, i))

\* An entry of an array that may be damaged: its digest was computed for one of cs.
EntryOk(raw, cs) ==
  /\ raw = [sequence |-> raw.sequence, evidence_id |-> raw.evidence_id,
            header |-> raw.header, payload |-> raw.payload,
            previous_digest |-> raw.previous_digest, digest |-> raw.digest]
  /\ content(raw) \in Content
  /\ raw.digest.sequence \in 1..Len(cs)
  /\ content(raw.digest) = cs[raw.digest.sequence]

StoredOk(array, cs) ==
  /\ IsSeq(array) /\ Len(array) <= MaxRecords
  /\ \A k \in 1..Len(array) : EntryOk(array[k], cs)

\* The export of a ledger that says what was appended.
Pristine(array, cs) ==
  /\ IsSeq(array) /\ Len(array) = Len(cs)
  /\ \A k \in 1..Len(array) :
       array[k] = [sequence |-> k, evidence_id |-> k,
                   header |-> cs[k].header, payload |-> cs[k].payload,
                   previous_digest |-> Link(array, k),
                   digest |-> Digest(k, cs[k], Link(array, k))]

LInv ==
  /\ Chain(records, appended) /\ Len(records) <= MaxRecords
  /\ exported.contents \in Seq(Content)
  /\ StoredOk(stored, exported.contents)
  /\ damages \in 0..MaxDamages
  /\ damages = 0 /\ exported.valid => Pristine(stored, exported.contents)
  /\ RestoredIsOriginal
  /\ SoundExportsRestore

-----------------------------------------------------------------------------
(***************************************************************************)
(* Sequences of anything                                                   *)
(***************************************************************************)

LEMMA SeqOfIts ==
  ASSUME NEW s, IsSeq(s), NEW S, \A i \in 1..Len(s) : s[i] \in S
  PROVE  s \in Seq(S)
<1>1. PICK n : n = Len(s) OBVIOUS
<1>2. n \in Nat /\ s \in [1..n -> S] BY <1>1 DEF IsSeq
<1> QED BY <1>2, SeqDef

LEMMA SeqIs ==
  ASSUME NEW S, NEW s \in Seq(S)
  PROVE  IsSeq(s) /\ DOMAIN s = 1..Len(s)
BY LenProperties DEF IsSeq

LEMMA SeqDomain ==
  ASSUME NEW s, IsSeq(s)
  PROVE  DOMAIN s = 1..Len(s) /\ Len(s) \in Nat
BY DEF IsSeq

\* Two sequences of one length with the same elements are one.
LEMMA SameSeq ==
  ASSUME NEW s, IsSeq(s), NEW t, IsSeq(t), Len(s) = Len(t),
         \A i \in 1..Len(s) : s[i] = t[i]
  PROVE  s = t
<1>1. PICK n : n = Len(s) /\ n = Len(t) OBVIOUS
<1>2. s = [i \in 1..n |-> s[i]] /\ t = [i \in 1..n |-> t[i]] BY <1>1 DEF IsSeq
<1>3. [i \in 1..n |-> s[i]] = [i \in 1..n |-> t[i]] BY <1>1
<1> QED BY <1>2, <1>3

\* A function on 1..n is a sequence of length n.
LEMMA FunctionSeq ==
  ASSUME NEW n \in Nat, NEW s, s = [i \in 1..n |-> s[i]]
  PROVE  IsSeq(s) /\ Len(s) = n
<1>1. s \in Seq({s[i] : i \in 1..n})
  <2>1. PICK S : S = {s[i] : i \in 1..n} OBVIOUS
  <2>2. s \in [1..n -> S] BY <2>1
  <2>3. s \in Seq(S) BY <2>2, SeqDef
  <2> QED BY <2>1, <2>3
<1>2. DOMAIN s = 1..n /\ DOMAIN s = 1..Len(s) /\ Len(s) \in Nat BY <1>1, LenProperties
<1>3. Len(s) = n BY <1>2
<1> QED BY <1>3 DEF IsSeq

LEMMA AppendIs ==
  ASSUME NEW s, NEW e, NEW u, IsSeq(s), u = Append(s, e)
  PROVE  /\ IsSeq(u) /\ Len(u) = Len(s) + 1
         /\ \A i \in 1..Len(s) : u[i] = s[i]
         /\ u[Len(s) + 1] = e
<1>1. PICK S : S = {s[i] : i \in 1..Len(s)} \cup {e} OBVIOUS
<1>2. s \in Seq(S)
  <2>1. \A i \in 1..Len(s) : s[i] \in S BY <1>1
  <2> QED BY <2>1, SeqOfIts
<1>3. e \in S BY <1>1
<1>4. u \in Seq(S) /\ Len(u) = Len(s) + 1 /\ u[Len(s) + 1] = e
  BY <1>2, <1>3, AppendProperties
<1>5. \A i \in 1..Len(s) : u[i] = s[i] BY <1>2, <1>3, AppendProperties
<1> QED BY <1>4, <1>5, SeqIs

\* The empty sequence.
LEMMA EmptyIs == IsSeq(<<>>) /\ Len(<<>>) = 0
<1>1. <<>> \in Seq({}) /\ Len(<<>>) = 0 BY EmptySeq
<1> QED BY <1>1, SeqIs

\* The contents of a ledger.
LEMMA ContentsIs ==
  ASSUME NEW ledger, IsSeq(ledger)
  PROVE  /\ IsSeq(contents(ledger)) /\ Len(contents(ledger)) = Len(ledger)
         /\ \A i \in 1..Len(ledger) : contents(ledger)[i] = content(ledger[i])
<1>1. PICK n \in Nat : n = Len(ledger) /\ DOMAIN ledger = 1..n BY SeqDomain
<1>2. PICK c : c = contents(ledger) OBVIOUS
<1>3. c = [i \in 1..n |-> content(ledger[i])] BY <1>1, <1>2 DEF contents
<1>4. c = [i \in 1..n |-> c[i]] /\ \A i \in 1..n : c[i] = content(ledger[i]) BY <1>3
<1>5. IsSeq(c) /\ Len(c) = n BY <1>4, FunctionSeq
<1> QED BY <1>1, <1>2, <1>4, <1>5

-----------------------------------------------------------------------------
(***************************************************************************)
(* append, verify and rebuilding                                           *)
(***************************************************************************)

\* ds is cs with c behind it.
OneMore(cs, c, ds) ==
  /\ c \in Content
  /\ ds \in Seq(Content) /\ Len(ds) = Len(cs) + 1
  /\ \A i \in 1..Len(cs) : ds[i] = cs[i]
  /\ ds[Len(cs) + 1] = c

\* The ledger u is the given one with a record of content c behind it.
Grown(ledger, c, u) ==
  /\ Len(u) = Len(ledger) + 1
  /\ \A i \in 1..Len(ledger) : u[i] = ledger[i]
  /\ content(u[Len(ledger) + 1]) = c

\* append makes a chain longer and leaves what it holds.
LEMMA LinkedChain ==
  ASSUME NEW ledger, NEW cs, NEW c, NEW shared, NEW u, NEW ds,
         Chain(ledger, cs), u = Linked(ledger, c, shared), OneMore(cs, c, ds)
  PROVE  Chain(u, ds) /\ Grown(ledger, c, u)
<1>1. PICK n \in Nat : n = Len(ledger) /\ n = Len(cs) BY DEF Chain, IsSeq
<1>2. PICK previous : previous = head_digest(ledger) OBVIOUS
<1>3. PICK r : r = [sequence |-> n + 1, evidence_id |-> n + 1, header |-> c.header,
                    payload |-> c.payload, previous_digest |-> previous,
                    digest |-> Digest(n + 1, c, previous), shared |-> shared]
  OBVIOUS
<1>4. u = Append(ledger, r) BY <1>1, <1>2, <1>3 DEF Linked, material, Digest
<1>5. /\ IsSeq(u) /\ Len(u) = n + 1
      /\ \A i \in 1..n : u[i] = ledger[i]
      /\ u[n + 1] = r
  <2>1. IsSeq(ledger) BY DEF Chain
  <2>2. /\ IsSeq(u) /\ Len(u) = Len(ledger) + 1
        /\ \A i \in 1..Len(ledger) : u[i] = ledger[i]
        /\ u[Len(ledger) + 1] = r
    BY <1>4, <2>1, AppendIs
  <2> QED BY <1>1, <2>2
<1>6. /\ ds \in Seq(Content) /\ Len(ds) = n + 1
      /\ \A i \in 1..n : ds[i] = cs[i]
      /\ ds[n + 1] = c /\ c \in Content
  BY <1>1 DEF OneMore
<1>7. previous = Link(u, n + 1)
  <2>1. CASE n = 0
    <3>1. ledger = <<>> BY <1>1, <2>1, EmptyIs, SameSeq DEF Chain
    <3> QED BY <1>2, <2>1, <3>1 DEF head_digest, Link
  <2>2. CASE n > 0
    <3>1. ASSUME ledger = <<>> PROVE FALSE
      <4>1. Len(ledger) = 0 BY <3>1, EmptyIs
      <4>2. n = 0 BY <1>1, <4>1
      <4> QED BY <2>2, <4>2
    <3>2. previous = ledger[n].digest BY <1>1, <1>2, <3>1 DEF head_digest, Last
    <3>3. u[n] = ledger[n] BY <1>5, <2>2
    <3>4. Link(u, n + 1) = u[n].digest BY <2>2 DEF Link
    <3> QED BY <3>2, <3>3, <3>4
  <2> QED BY <2>1, <2>2
<1>8. content(r) = c /\ content(r) \in Content BY <1>3, <1>6 DEF content, Content
<1>9. RecordOk(n + 1, u[n + 1], ds[n + 1], Link(u, n + 1))
  <2>1. RecordOk(n + 1, r, c, previous) BY <1>3, <1>8 DEF RecordOk
  <2> QED BY <1>5, <1>6, <1>7, <2>1
<1>10. ASSUME NEW i \in 1..n PROVE RecordOk(i, u[i], ds[i], Link(u, i))
  <2>1. RecordOk(i, ledger[i], cs[i], Link(ledger, i)) BY <1>1 DEF Chain
  <2>2. Link(u, i) = Link(ledger, i)
    <3>1. i # 1 => u[i - 1] = ledger[i - 1] BY <1>5
    <3> QED BY <3>1 DEF Link
  <2> QED BY <1>5, <1>6, <2>1, <2>2
<1>11. \A i \in 1..(n + 1) : i \in 1..n \/ i = n + 1 OBVIOUS
<1>12. \A i \in 1..(n + 1) : RecordOk(i, u[i], ds[i], Link(u, i)) BY <1>9, <1>10, <1>11
<1>13. Chain(u, ds) BY <1>5, <1>6, <1>12 DEF Chain
<1>14. Grown(ledger, c, u) BY <1>1, <1>5, <1>8 DEF Grown
<1> QED BY <1>13, <1>14

\* The digest of a record in a chain is its own exactly when it says what was
\* appended.
LEMMA DigestTells ==
  ASSUME NEW i, NEW r, NEW c \in Content, NEW previous, RecordOk(i, r, c, previous)
  PROVE  r.digest = material(r) <=> content(r) = c
<1>1. /\ r.sequence = i /\ r.evidence_id = i /\ r.previous_digest = previous
      /\ r.digest = Digest(i, c, previous)
  BY DEF RecordOk
<1>2. content(r) = c <=> r.header = c.header /\ r.payload = c.payload
  BY DEF content, Content
<1> QED BY <1>1, <1>2 DEF Digest, material

\* verify is exact on a chain.
LEMMA ChainVerify ==
  ASSUME NEW ledger, NEW cs, Chain(ledger, cs)
  PROVE  verify(ledger) <=> contents(ledger) = cs
<1>1. PICK n \in Nat : n = Len(ledger) /\ n = Len(cs) BY DEF Chain, IsSeq
<1>2. IsSeq(ledger) /\ DOMAIN ledger = 1..n BY <1>1, SeqDomain DEF Chain
<1>3. cs \in Seq(Content) /\ IsSeq(cs) BY SeqIs DEF Chain
<1>4. \A i \in 1..n : cs[i] \in Content BY <1>1, <1>3, ElementOfSeq
<1>5. ASSUME NEW i \in 1..n
      PROVE  /\ ledger[i].sequence = i /\ ledger[i].evidence_id = i
             /\ ledger[i].previous_digest = IF i = 1 THEN Genesis ELSE ledger[i - 1].digest
             /\ ledger[i].digest = material(ledger[i]) <=> content(ledger[i]) = cs[i]
  <2>1. RecordOk(i, ledger[i], cs[i], Link(ledger, i)) BY <1>1 DEF Chain
  <2>2. ledger[i].digest = material(ledger[i]) <=> content(ledger[i]) = cs[i]
    BY <1>4, <2>1, DigestTells
  <2>3. ledger[i].sequence = i /\ ledger[i].evidence_id = i
        /\ ledger[i].previous_digest = Link(ledger, i)
    BY <2>1 DEF RecordOk
  <2> QED BY <2>2, <2>3 DEF Link
<1>6. verify(ledger) <=> \A i \in 1..n : content(ledger[i]) = cs[i]
  BY <1>2, <1>5 DEF verify
<1>7. contents(ledger) = cs <=> \A i \in 1..n : content(ledger[i]) = cs[i]
  <2>1. IsSeq(contents(ledger)) /\ Len(contents(ledger)) = n
        /\ \A i \in 1..n : contents(ledger)[i] = content(ledger[i])
    BY <1>1, <1>2, ContentsIs
  <2>2. ASSUME \A i \in 1..n : content(ledger[i]) = cs[i] PROVE contents(ledger) = cs
    BY <1>1, <1>3, <2>1, <2>2, SameSeq
  <2> QED BY <2>1, <2>2
<1> QED BY <1>6, <1>7

\* Rebuilding makes a chain of an array's contents, for arrays of any length.
LEMMA RebuildIs ==
  ASSUME NEW array, IsSeq(array), \A k \in 1..Len(array) : content(array[k]) \in Content
  PROVE  /\ Chain(rebuild(array), contents(array))
         /\ contents(rebuild(array)) = contents(array)
<1> DEFINE N == Len(array)
           after(f, n) == Linked(f, content(array[n]), FALSE)
           body(f) == [n \in 0..N |-> IF n = 0 THEN <<>> ELSE after(f[n - 1], n)]
           ledger == CHOOSE f : f = body(f)
           start == <<>>
<1>n. N \in Nat BY DEF IsSeq
<1>c. \A k \in 1..N : content(array[k]) \in Content OBVIOUS
<1>t. rebuild(array) = ledger[N] BY DEF rebuild
<1>b. \A f : body(f) = [n \in 0..N |-> IF n = 0 THEN start ELSE after(f[n - 1], n)]
  OBVIOUS
<1>s. start = <<>> OBVIOUS
<1> HIDE DEF N, after, start
<1>1. \E f : f = body(f)
  <2> DEFINE Follows(m, f) == /\ f = [i \in 0..m |-> f[i]]
                              /\ f[0] = start
                              /\ \A n \in 1..m : f[n] = after(f[n - 1], n)
             Built == {m \in Nat : m <= N => \E f : Follows(m, f)}
  <2>1. 0 \in Built
    <3>1. Follows(0, [i \in 0..0 |-> start]) OBVIOUS
    <3> QED BY <3>1
  <2>2. ASSUME NEW m \in Built \cap Nat PROVE m + 1 \in Built
    <3> SUFFICES ASSUME m + 1 <= N PROVE \E f : Follows(m + 1, f)
      OBVIOUS
    <3>1. PICK f : Follows(m, f) BY <1>n
    <3> DEFINE g == [i \in 0..(m + 1) |-> IF i = m + 1 THEN after(f[m], m + 1) ELSE f[i]]
    <3>2. g = [i \in 0..(m + 1) |-> g[i]] OBVIOUS
    <3>3. g[0] = start BY <3>1
    <3>4. ASSUME NEW n \in 1..(m + 1) PROVE g[n] = after(g[n - 1], n)
      <4>1. g[n - 1] = f[n - 1] OBVIOUS
      <4>2. CASE n = m + 1 BY <4>1, <4>2
      <4>3. CASE n # m + 1 BY <4>1, <4>3, <3>1
      <4> QED BY <4>2, <4>3
    <3> QED BY <3>2, <3>3, <3>4
  <2> HIDE DEF Built
  <2>3. N \in Built BY <2>1, <2>2, <1>n, SetInduction
  <2>4. PICK f : Follows(N, f) BY <2>3, <1>n DEF Built
  <2>5. f = body(f) BY <2>4, <1>n
  <2> QED BY <2>5
<1>2. ledger = body(ledger)
  <2> HIDE DEF body
  <2> QED BY <1>1, Zenon
<1> HIDE DEF ledger
<1> DEFINE first(m) == [i \in 1..m |-> content(array[i])]
           Good(m) == /\ Chain(ledger[m], first(m))
                      /\ \A i \in 1..m : content(ledger[m][i]) = content(array[i])
           Reached == {m \in Nat : m <= N => Good(m)}
<1>3. ASSUME NEW m \in Nat, m <= N
      PROVE  first(m) \in Seq(Content) /\ Len(first(m)) = m
  <2>1. PICK s : s = first(m) OBVIOUS
  <2>2. s \in [1..m -> Content] BY <1>c, <1>n, <1>3, <2>1
  <2>3. s \in Seq(Content) BY <2>2, SeqDef
  <2>4. s = [i \in 1..m |-> s[i]] BY <2>2
  <2>5. Len(s) = m BY <2>4, FunctionSeq
  <2> QED BY <2>1, <2>3, <2>5
<1>4. 0 \in Reached
  <2>1. ledger[0] = <<>> BY <1>2, <1>n, <1>s
  <2>2. first(0) \in Seq(Content) /\ Len(first(0)) = 0 BY <1>3, <1>n
  <2>3. Chain(<<>>, first(0)) BY <2>2, EmptyIs DEF Chain
  <2> QED BY <2>1, <2>3
<1>5. ASSUME NEW m \in Reached \cap Nat PROVE m + 1 \in Reached
  <2> SUFFICES ASSUME m + 1 <= N PROVE Good(m + 1)
    OBVIOUS
  <2>1. PICK l, u, c, cs, ds, shared :
          /\ l = ledger[m] /\ u = ledger[m + 1] /\ c = content(array[m + 1])
          /\ cs = first(m) /\ ds = first(m + 1) /\ shared = FALSE
    OBVIOUS
  <2>2. u = Linked(l, c, shared) /\ c \in Content
    <3>1. u = after(l, m + 1) BY <1>2, <1>n, <2>1
    <3>2. u = Linked(l, c, shared) BY <2>1, <3>1 DEF after
    <3> QED BY <1>c, <1>n, <2>1, <3>2
  <2>3. Chain(l, cs) /\ \A i \in 1..m : content(l[i]) = content(array[i])
    BY <1>n, <2>1
  <2>4. cs \in Seq(Content) /\ Len(cs) = m BY <1>3, <1>n, <2>1
  <2>5. ds \in Seq(Content) /\ Len(ds) = m + 1 BY <1>3, <1>n, <2>1
  <2>0. m \in Nat OBVIOUS
  <2> HIDE DEF Reached, Good, first, body
  <2>6. OneMore(cs, c, ds)
    BY <2>0, <2>1, <2>2, <2>4, <2>5 DEF first, OneMore
  <2>a. Chain(u, ds) /\ Grown(l, c, u) BY <2>2, <2>3, <2>6, LinkedChain
  <2>7. /\ Chain(u, ds)
        /\ \A i \in 1..Len(l) : u[i] = l[i]
        /\ content(u[Len(l) + 1]) = c
    BY <2>a DEF Grown
  <2>8. Len(l) = m BY <2>3, <2>4 DEF Chain
  <2>9. ASSUME NEW i \in 1..(m + 1) PROVE content(u[i]) = content(array[i])
    <3>1. CASE i = m + 1 BY <2>1, <2>7, <2>8, <3>1
    <3>2. CASE i # m + 1
      <4>1. i \in 1..m BY <2>0, <3>2
      <4> QED BY <2>3, <2>7, <2>8, <4>1
    <3> QED BY <3>1, <3>2
  <2> QED BY <2>1, <2>7, <2>9 DEF Good
<1>6. N \in Reached
  <2> HIDE DEF Reached
  <2> QED BY <1>4, <1>5, <1>n, SetInduction
<1>7. PICK l, cs : l = ledger[N] /\ cs = contents(array) OBVIOUS
<1>8. Chain(l, cs) /\ \A i \in 1..N : content(l[i]) = content(array[i])
  <2>1. first(N) = contents(array) BY <1>n, SeqDomain DEF contents, N
  <2> QED BY <1>6, <1>7, <1>n, <2>1
<1>9. IsSeq(l) /\ Len(l) = N /\ IsSeq(cs) /\ Len(cs) = N
      /\ \A i \in 1..N : cs[i] = content(array[i])
  <2>1. /\ IsSeq(contents(array)) /\ Len(contents(array)) = N
        /\ \A i \in 1..N : contents(array)[i] = content(array[i])
    BY ContentsIs DEF N
  <2> QED BY <1>7, <1>8, <2>1 DEF Chain
<1>10. contents(l) = cs
  <2>1. PICK k : k = contents(l) OBVIOUS
  <2>2. IsSeq(k) /\ Len(k) = N /\ \A i \in 1..N : k[i] = content(l[i])
    BY <1>9, <2>1, ContentsIs
  <2> QED BY <1>8, <1>9, <2>1, <2>2, SameSeq
<1> QED BY <1>t, <1>7, <1>8, <1>10

-----------------------------------------------------------------------------
(***************************************************************************)
(* What a damaged array still is                                           *)
(***************************************************************************)

\* Every entry of a piece of an array is an entry of the array.
LEMMA PieceIs ==
  ASSUME NEW T, NEW s \in Seq(T), NEW i \in 1..(Len(s) + 1), NEW j \in 0..Len(s), NEW b,
         b = SubSeq(s, i, j)
  PROVE  b \in Seq(T)
<1>1. Len(s) \in Nat BY LenProperties
<1>2. i \in Int /\ j \in Int BY <1>1
<1>3. \A k \in i..j : k \in 1..Len(s) BY <1>1
<1>4. \A k \in i..j : s[k] \in T BY <1>3, ElementOfSeq
<1> QED BY <1>2, <1>4, SubSeqProperties

\* So it is when a record is lost or doubled.
LEMMA PiecesAre ==
  ASSUME NEW T, NEW s \in Seq(T), NEW i \in DOMAIN s, NEW b,
         b = RemoveAt(s, i) \/ b = InsertAt(s, i, s[i])
  PROVE  b \in Seq(T)
<1>1. PICK n \in Nat : n = Len(s) /\ DOMAIN s = 1..n BY LenProperties
<1>2. i \in 1..n /\ i - 1 \in 0..n /\ i + 1 \in 1..(n + 1) /\ n \in 0..n /\ 1 \in 1..(n + 1)
      /\ i \in 1..(n + 1)
  BY <1>1
<1>3. PICK p, q, r, e :
        /\ p = SubSeq(s, 1, i - 1) /\ q = SubSeq(s, i + 1, n) /\ r = SubSeq(s, i, n)
        /\ e = <<s[i]>>
  OBVIOUS
<1>4. p \in Seq(T) BY <1>1, <1>2, <1>3, PieceIs
<1>5. q \in Seq(T) BY <1>1, <1>2, <1>3, PieceIs
<1>6. r \in Seq(T) BY <1>1, <1>2, <1>3, PieceIs
<1>7. e \in Seq(T)
  <2>1. s[i] \in T BY <1>1, ElementOfSeq
  <2> QED BY <1>3, <2>1
<1>8. CASE b = RemoveAt(s, i)
  <2>1. b = p \o q BY <1>1, <1>3, <1>8 DEF RemoveAt
  <2> QED BY <1>4, <1>5, <2>1, ConcatProperties
<1>9. CASE b = InsertAt(s, i, s[i])
  <2>1. PICK pe : pe = p \o e OBVIOUS
  <2>2. pe \in Seq(T) BY <1>4, <1>7, <2>1, ConcatProperties
  <2>3. b = pe \o r BY <1>1, <1>3, <1>9, <2>1 DEF InsertAt
  <2> QED BY <1>6, <2>2, <2>3, ConcatProperties
<1> QED BY <1>8, <1>9

\* An entry that is edited keeps its digest.
LEMMA EditedEntry ==
  ASSUME NEW raw, NEW cs, EntryOk(raw, cs), NEW e,
         \/ \E i : e = [raw EXCEPT !.sequence = i, !.evidence_id = i]
         \/ \E p \in Payloads : e = [raw EXCEPT !.payload = p]
         \/ \E h \in Headers : e = [raw EXCEPT !.header = h]
  PROVE  EntryOk(e, cs)
<1>1. /\ raw = [sequence |-> raw.sequence, evidence_id |-> raw.evidence_id,
                header |-> raw.header, payload |-> raw.payload,
                previous_digest |-> raw.previous_digest, digest |-> raw.digest]
      /\ raw.header \in Headers /\ raw.payload \in Payloads
  BY DEF EntryOk, content, Content
<1>2. /\ e = [sequence |-> e.sequence, evidence_id |-> e.evidence_id,
              header |-> e.header, payload |-> e.payload,
              previous_digest |-> e.previous_digest, digest |-> e.digest]
      /\ e.header \in Headers /\ e.payload \in Payloads /\ e.digest = raw.digest
  BY <1>1
<1>3. content(e) \in Content BY <1>2 DEF content, Content
<1> QED BY <1>2, <1>3 DEF EntryOk

\* Whatever is done to an array, its digests stay digests of what was appended.
LEMMA DamagedOk ==
  ASSUME NEW array, NEW cs, StoredOk(array, cs), NEW b \in Damaged(array),
         Len(b) <= MaxRecords
  PROVE  StoredOk(b, cs)
<1>1. PICK n \in Nat : n = Len(array) /\ DOMAIN array = 1..n
  BY SeqDomain DEF StoredOk
<1>2. IsSeq(array) /\ array = [k \in 1..n |-> array[k]] /\ \A k \in 1..n : EntryOk(array[k], cs)
  BY <1>1 DEF StoredOk, IsSeq
<1>3. SUFFICES IsSeq(b) /\ \A k \in 1..Len(b) : EntryOk(b[k], cs)
  BY DEF StoredOk
<1>4. CASE \E i \in DOMAIN array : b = RemoveAt(array, i) \/ b = InsertAt(array, i, array[i])
  <2>1. PICK T : T = {array[k] : k \in 1..n} OBVIOUS
  <2>2. \A k \in 1..Len(array) : array[k] \in T BY <1>1, <2>1
  <2>3. array \in Seq(T) BY <1>2, <2>2, SeqOfIts
  <2>4. b \in Seq(T) BY <1>4, <2>3, PiecesAre
  <2>5. IsSeq(b) BY <2>4, SeqIs
  <2>6. \A k \in 1..Len(b) : b[k] \in T BY <2>4, ElementOfSeq
  <2> QED BY <1>2, <2>1, <2>5, <2>6
<1>5. ASSUME b = [k \in 1..n |-> b[k]], \A k \in 1..n : EntryOk(b[k], cs)
      PROVE  IsSeq(b) /\ \A k \in 1..Len(b) : EntryOk(b[k], cs)
  <2>1. IsSeq(b) /\ Len(b) = n BY <1>5, FunctionSeq
  <2> QED BY <1>5, <2>1
<1>6. CASE \E i, j \in DOMAIN array : b = [array EXCEPT ![i] = array[j], ![j] = array[i]]
  <2>1. PICK i \in 1..n, j \in 1..n : b = [array EXCEPT ![i] = array[j], ![j] = array[i]]
    BY <1>1, <1>6
  <2>2. b = [k \in 1..n |-> b[k]] BY <1>2, <2>1
  <2>3. \A k \in 1..n : b[k] = array[k] \/ b[k] = array[i] \/ b[k] = array[j]
    BY <1>1, <2>1
  <2>4. \A k \in 1..n : EntryOk(b[k], cs) BY <1>2, <2>1, <2>3
  <2> QED BY <1>5, <2>2, <2>4
<1>7. CASE b = [i \in DOMAIN array |-> [array[i] EXCEPT !.sequence = i, !.evidence_id = i]]
  <2>1. b = [k \in 1..n |-> b[k]] BY <1>1, <1>7
  <2>2. \A k \in 1..n : b[k] = [array[k] EXCEPT !.sequence = k, !.evidence_id = k]
    BY <1>1, <1>7
  <2>3. \A k \in 1..n : EntryOk(b[k], cs) BY <1>2, <2>2, EditedEntry
  <2> QED BY <1>5, <2>1, <2>3
<1>8. CASE \E i \in DOMAIN array : \/ \E p \in Payloads : b = [array EXCEPT ![i].payload = p]
                                   \/ \E h \in Headers : b = [array EXCEPT ![i].header = h]
  <2>1. PICK i \in 1..n : \/ \E p \in Payloads : b = [array EXCEPT ![i].payload = p]
                          \/ \E h \in Headers : b = [array EXCEPT ![i].header = h]
    BY <1>1, <1>8
  <2>2. b = [k \in 1..n |-> b[k]] BY <1>2, <2>1
  <2>3. \A k \in 1..n : k # i => b[k] = array[k] BY <1>1, <2>1
  <2>4. \/ \E p \in Payloads : b[i] = [array[i] EXCEPT !.payload = p]
        \/ \E h \in Headers : b[i] = [array[i] EXCEPT !.header = h]
    BY <1>1, <2>1
  <2>5. EntryOk(b[i], cs) BY <1>2, <2>4, EditedEntry
  <2>6. \A k \in 1..n : EntryOk(b[k], cs) BY <1>2, <2>3, <2>5
  <2> QED BY <1>5, <2>2, <2>6
<1>9. \/ b \in Lost(array) \/ b \in Doubled(array) \/ b \in Moved(array)
      \/ b = Renumbered(array) \/ b \in Edited(array)
  BY DEF Damaged
<1>10. b \in Lost(array) => \E i \in DOMAIN array : b = RemoveAt(array, i)
  BY DEF Lost
<1>11. b \in Doubled(array) => \E i \in DOMAIN array : b = InsertAt(array, i, array[i])
  BY DEF Doubled
<1>12. b \in Moved(array) =>
         \E i, j \in DOMAIN array : b = [array EXCEPT ![i] = array[j], ![j] = array[i]]
  BY DEF Moved
<1>13. ASSUME b \in Edited(array)
       PROVE  \/ b \in {[array EXCEPT ![i].payload = p] : i \in DOMAIN array, p \in Payloads}
              \/ b \in {[array EXCEPT ![i].header = h] : i \in DOMAIN array, h \in Headers}
  BY <1>13 DEF Edited
<1> DEFINE Done == IsSeq(b) /\ \A k \in 1..Len(b) : EntryOk(b[k], cs)
<1>16. b \in Lost(array) \/ b \in Doubled(array) => Done BY <1>4, <1>10, <1>11
<1>17. b \in Moved(array) => Done BY <1>6, <1>12
<1>18. b = Renumbered(array) => Done BY <1>7 DEF Renumbered
<1>19. ASSUME b \in {[array EXCEPT ![i].payload = p] : i \in DOMAIN array, p \in Payloads}
       PROVE  Done
  <2>1. PICK i \in DOMAIN array, p \in Payloads : b = [array EXCEPT ![i].payload = p]
    BY <1>19
  <2> QED BY <1>8, <2>1
<1>20. ASSUME b \in {[array EXCEPT ![i].header = h] : i \in DOMAIN array, h \in Headers}
       PROVE  Done
  <2>1. PICK i \in DOMAIN array, h \in Headers : b = [array EXCEPT ![i].header = h]
    BY <1>20
  <2> QED BY <1>8, <2>1
<1>21. b \in Edited(array) => Done BY <1>13, <1>19, <1>20
<1> HIDE DEF Done
<1>22. Done BY <1>9, <1>16, <1>17, <1>18, <1>21
<1> QED BY <1>22 DEF Done

-----------------------------------------------------------------------------
(***************************************************************************)
(* Export and restore                                                      *)
(***************************************************************************)

\* What export makes of a record.
Entry(r) ==
  [sequence |-> r.sequence, evidence_id |-> r.evidence_id, header |-> r.header,
   payload |-> r.payload, previous_digest |-> r.previous_digest, digest |-> r.digest]

LEMMA ExportIs ==
  ASSUME NEW ledger, NEW a, IsSeq(ledger), a = export(ledger)
  PROVE  /\ IsSeq(a) /\ Len(a) = Len(ledger)
         /\ \A i \in 1..Len(ledger) : a[i] = Entry(ledger[i])
<1>1. PICK n \in Nat : n = Len(ledger) /\ DOMAIN ledger = 1..n BY SeqDomain
<1>2. a = [i \in 1..n |-> Entry(ledger[i])] BY <1>1 DEF export, Entry
<1>3. a = [i \in 1..n |-> a[i]] /\ \A i \in 1..n : a[i] = Entry(ledger[i]) BY <1>2
<1> QED BY <1>1, <1>3, FunctionSeq

\* The digests of an exported ledger are digests of what was appended to it.
LEMMA ExportOk ==
  ASSUME NEW ledger, NEW cs, NEW a, Chain(ledger, cs), Len(ledger) <= MaxRecords,
         a = export(ledger)
  PROVE  StoredOk(a, cs)
<1>1. PICK n \in Nat : n = Len(ledger) /\ n = Len(cs) BY DEF Chain, IsSeq
<1>2. IsSeq(ledger) BY DEF Chain
<1>3. IsSeq(a) /\ Len(a) = n /\ \A i \in 1..n : a[i] = Entry(ledger[i])
  BY <1>1, <1>2, ExportIs
<1>4. ASSUME NEW k \in 1..n PROVE EntryOk(a[k], cs)
  <2>1. PICK r, c, previous : r = ledger[k] /\ c = cs[k] /\ previous = Link(ledger, k)
    OBVIOUS
  <2>2. RecordOk(k, r, c, previous) BY <1>1, <2>1 DEF Chain
  <2>3. c \in Content BY <1>1, <2>1, ElementOfSeq DEF Chain
  <2>4. content(r) \in Content /\ r.digest = Digest(k, c, previous) BY <2>2 DEF RecordOk
  <2>5. content(Entry(r)) \in Content BY <2>4 DEF content, Entry
  <2>6. Entry(r).digest.sequence = k /\ content(Entry(r).digest) = c
    BY <2>3, <2>4 DEF content, Content, Digest, Entry
  <2>7. EntryOk(Entry(r), cs) BY <1>1, <2>1, <2>5, <2>6 DEF EntryOk, Entry
  <2> QED BY <1>3, <2>1, <2>7
<1> QED BY <1>1, <1>3, <1>4 DEF StoredOk

\* The export of a ledger that says what was appended is its image.
LEMMA ExportPristine ==
  ASSUME NEW ledger, NEW cs, NEW a, Chain(ledger, cs), contents(ledger) = cs,
         a = export(ledger)
  PROVE  Pristine(a, cs)
<1>1. PICK n \in Nat : n = Len(ledger) /\ n = Len(cs) BY DEF Chain, IsSeq
<1>2. IsSeq(ledger) BY DEF Chain
<1>3. IsSeq(a) /\ Len(a) = n /\ \A i \in 1..n : a[i] = Entry(ledger[i])
  BY <1>1, <1>2, ExportIs
<1>4. ASSUME NEW k \in 1..n
      PROVE  a[k] = [sequence |-> k, evidence_id |-> k,
                     header |-> cs[k].header, payload |-> cs[k].payload,
                     previous_digest |-> Link(a, k),
                     digest |-> Digest(k, cs[k], Link(a, k))]
  <2>1. PICK r, c, previous : r = ledger[k] /\ c = cs[k] /\ previous = Link(ledger, k)
    OBVIOUS
  <2>2. RecordOk(k, r, c, previous) BY <1>1, <2>1 DEF Chain
  <2>3. content(r) = c
    <3>1. contents(ledger)[k] = content(ledger[k]) BY <1>1, <1>2, ContentsIs
    <3> QED BY <2>1, <3>1
  <2>4. r.header = c.header /\ r.payload = c.payload BY <2>3 DEF content
  <2>5. previous = Link(a, k)
    <3>1. k # 1 => a[k - 1] = Entry(ledger[k - 1]) BY <1>3
    <3> QED BY <2>1, <3>1 DEF Link, Entry
  <2>6. Entry(r) = [sequence |-> k, evidence_id |-> k, header |-> c.header,
                    payload |-> c.payload, previous_digest |-> previous,
                    digest |-> Digest(k, c, previous)]
    BY <2>2, <2>4 DEF RecordOk, Entry
  <2> QED BY <1>3, <2>1, <2>5, <2>6
<1> QED BY <1>1, <1>3, <1>4 DEF Pristine

\* An accepted array holds the first records that were appended: each of its
\* digests is the digest of the record rebuilt in its place.
LEMMA AcceptedIsOriginal ==
  ASSUME NEW array, NEW cs \in Seq(Content), StoredOk(array, cs), accepts(array)
  PROVE  IsPrefix(contents(array), cs)
<1>1. PICK n \in Nat : n = Len(array) BY DEF StoredOk, IsSeq
<1>2. IsSeq(array) /\ \A k \in 1..n : EntryOk(array[k], cs) BY <1>1 DEF StoredOk
<1>3. PICK l, ds : l = rebuild(array) /\ ds = contents(array) OBVIOUS
<1>4. \A k \in 1..n : content(array[k]) \in Content BY <1>2 DEF EntryOk
<1>5. Chain(l, ds) BY <1>1, <1>2, <1>3, <1>4, RebuildIs
<1>6. IsSeq(ds) /\ Len(ds) = n /\ \A k \in 1..n : ds[k] = content(array[k])
  BY <1>1, <1>2, <1>3, ContentsIs
<1>7. array = export(l) BY <1>3 DEF accepts
<1>8. IsSeq(l) /\ Len(l) = n BY <1>5, <1>6 DEF Chain
<1>9. \A k \in 1..n : array[k] = Entry(l[k]) BY <1>7, <1>8, ExportIs
<1>10. ASSUME NEW k \in 1..n PROVE k \in 1..Len(cs) /\ ds[k] = cs[k]
  <2>1. PICK r, c, previous : r = l[k] /\ c = ds[k] /\ previous = Link(l, k)
    OBVIOUS
  <2>2. RecordOk(k, r, c, previous) BY <1>5, <1>8, <2>1 DEF Chain
  <2>3. c \in Content BY <1>4, <1>6, <2>1
  <2>4. array[k].digest = Digest(k, c, previous)
    <3>1. r.digest = Digest(k, c, previous) BY <2>2, RecordDigest
    <3>2. array[k] = Entry(r) BY <1>9, <2>1
    <3>3. Entry(r).digest = r.digest BY DEF Entry
    <3> QED BY <3>1, <3>2, <3>3
  <2>5. array[k].digest.sequence = k /\ content(array[k].digest) = c
    BY <2>3, <2>4 DEF content, Content, Digest
  <2>6. EntryOk(array[k], cs) BY <1>2
  <2> QED BY <2>1, <2>5, <2>6 DEF EntryOk
<1>11. Len(cs) \in Nat BY LenProperties
<1>12. n <= Len(cs)
  <2>1. n \in 1..n => n \in 1..Len(cs) BY <1>10
  <2> QED BY <1>11, <2>1
<1>13. SubSeq(ds, 1, n) = SubSeq(cs, 1, n)
  <2>1. PICK p, q : p = SubSeq(ds, 1, n) /\ q = SubSeq(cs, 1, n) OBVIOUS
  <2>2. \A k \in 1..n : ds[k] \in Content /\ cs[k] \in Content BY <1>4, <1>6, <1>10
  <2>3. p \in Seq(Content) /\ Len(p) = n /\ \A k \in 1..n : p[k] = ds[k]
    BY <2>1, <2>2, SubSeqProperties
  <2>4. q \in Seq(Content) /\ Len(q) = n /\ \A k \in 1..n : q[k] = cs[k]
    BY <2>1, <2>2, SubSeqProperties
  <2>5. IsSeq(p) /\ IsSeq(q) BY <2>3, <2>4, SeqIs
  <2>6. \A k \in 1..n : p[k] = q[k] BY <1>10, <2>3, <2>4
  <2> QED BY <2>1, <2>3, <2>4, <2>5, <2>6, SameSeq
<1> QED BY <1>3, <1>6, <1>12, <1>13 DEF IsPrefix

\* What was exported from a sound ledger and left alone is accepted: record by
\* record the rebuilt ledger links to the same digests.
LEMMA PristineAccepted ==
  ASSUME NEW array, NEW cs \in Seq(Content), Pristine(array, cs)
  PROVE  accepts(array) /\ contents(array) = cs
<1>1. PICK n \in Nat : n = Len(array) /\ n = Len(cs) BY DEF Pristine, IsSeq
<1>2. IsSeq(array) /\ DOMAIN array = 1..n BY <1>1, SeqDomain DEF Pristine
<1>3. ASSUME NEW k \in 1..n
      PROVE  /\ array[k] = [sequence |-> k, evidence_id |-> k,
                            header |-> cs[k].header, payload |-> cs[k].payload,
                            previous_digest |-> Link(array, k),
                            digest |-> Digest(k, cs[k], Link(array, k))]
             /\ cs[k] \in Content /\ content(array[k]) = cs[k]
  <2>1. cs[k] \in Content BY <1>1, ElementOfSeq
  <2>2. array[k] = [sequence |-> k, evidence_id |-> k,
                    header |-> cs[k].header, payload |-> cs[k].payload,
                    previous_digest |-> Link(array, k),
                    digest |-> Digest(k, cs[k], Link(array, k))]
    BY <1>1 DEF Pristine
  <2> QED BY <2>1, <2>2 DEF content, Content
<1>4. PICK l, ds : l = rebuild(array) /\ ds = contents(array) OBVIOUS
<1>5. IsSeq(ds) /\ Len(ds) = n /\ \A k \in 1..n : ds[k] = content(array[k])
  BY <1>1, <1>2, <1>4, ContentsIs
<1>6. ds = cs
  <2>1. IsSeq(cs) BY SeqIs
  <2>2. \A k \in 1..n : ds[k] = cs[k] BY <1>3, <1>5
  <2> QED BY <1>1, <1>5, <2>1, <2>2, SameSeq
<1>7. Chain(l, ds) /\ contents(l) = ds BY <1>1, <1>2, <1>3, <1>4, RebuildIs
<1>8. IsSeq(l) /\ Len(l) = n /\ DOMAIN l = 1..n
  BY <1>5, <1>7, SeqDomain DEF Chain
<1>9. \A k \in 1..n : content(l[k]) = cs[k]
  <2>1. \A k \in 1..n : contents(l)[k] = content(l[k]) BY <1>8, ContentsIs
  <2> QED BY <1>6, <1>7, <2>1
<1> DEFINE Same(k) == k \in 1..n => l[k].digest = array[k].digest
           Linking == {k \in Nat : Same(k)}
<1>10. ASSUME NEW k \in 1..n, Link(l, k) = Link(array, k)
       PROVE  Entry(l[k]) = array[k]
  <2>1. PICK r, c, previous : r = l[k] /\ c = cs[k] /\ previous = Link(l, k)
    OBVIOUS
  <2>2. RecordOk(k, r, c, previous) BY <1>6, <1>7, <1>8, <2>1 DEF Chain
  <2>3. r.header = c.header /\ r.payload = c.payload
    <3>1. content(r) = c BY <1>9, <2>1
    <3> QED BY <3>1 DEF content
  <2>4. Entry(r) = [sequence |-> k, evidence_id |-> k, header |-> c.header,
                    payload |-> c.payload, previous_digest |-> previous,
                    digest |-> Digest(k, c, previous)]
    BY <2>2, <2>3 DEF RecordOk, Entry
  <2> QED BY <1>3, <1>10, <2>1, <2>4
<1>11. 0 \in Linking OBVIOUS
<1>12. ASSUME NEW k \in Linking \cap Nat PROVE k + 1 \in Linking
  <2>1. SUFFICES ASSUME k + 1 \in 1..n PROVE l[k + 1].digest = array[k + 1].digest
    OBVIOUS
  <2>2. Link(l, k + 1) = Link(array, k + 1)
    <3>1. CASE k = 0 BY <3>1 DEF Link
    <3>2. CASE k # 0
      <4>1. k \in 1..n BY <2>1, <3>2
      <4>2. l[k].digest = array[k].digest BY <4>1
      <4> QED BY <3>2, <4>2 DEF Link
    <3> QED BY <3>1, <3>2
  <2>3. Entry(l[k + 1]) = array[k + 1] BY <1>10, <2>1, <2>2
  <2> QED BY <2>3 DEF Entry
<1>13. Nat \subseteq Linking
  <2> HIDE DEF Linking
  <2> QED BY <1>11, <1>12, SetInduction
<1>14. ASSUME NEW k \in 1..n PROVE Entry(l[k]) = array[k]
  <2>1. k # 1 => l[k - 1].digest = array[k - 1].digest
    <3>1. SUFFICES ASSUME k # 1 PROVE l[k - 1].digest = array[k - 1].digest
      OBVIOUS
    <3>2. k - 1 \in 1..n /\ k - 1 \in Nat BY <3>1
    <3>3. k - 1 \in Linking BY <1>13, <3>2
    <3> QED BY <3>2, <3>3
  <2>2. Link(l, k) = Link(array, k) BY <2>1 DEF Link
  <2> QED BY <1>10, <2>2
<1>15. export(l) = array
  <2>1. PICK e : e = export(l) OBVIOUS
  <2>2. IsSeq(e) /\ Len(e) = n /\ \A k \in 1..n : e[k] = Entry(l[k])
    BY <1>8, <2>1, ExportIs
  <2>3. \A k \in 1..n : e[k] = array[k] BY <1>14, <2>2
  <2> QED BY <1>1, <1>2, <2>1, <2>2, <2>3, SameSeq
<1>16. verify(l) BY <1>7, ChainVerify
<1>17. \A i \in DOMAIN array : array[i].sequence = i /\ array[i].evidence_id = i
  BY <1>2, <1>3
<1> QED BY <1>4, <1>6, <1>15, <1>16, <1>17 DEF accepts

-----------------------------------------------------------------------------
(***************************************************************************)
(* The invariant holds                                                     *)
(***************************************************************************)

LEMMA InitLInv == Init => LInv
<1>1. SUFFICES ASSUME Init PROVE LInv OBVIOUS
<1>2. /\ records = <<>> /\ stored = <<>> /\ appended = <<>> /\ restored = <<>>
      /\ exported.contents = <<>> /\ damages = 0
  BY <1>1 DEF Init, Nothing
<1>3. <<>> \in Seq(Content) /\ IsSeq(<<>>) /\ Len(<<>>) = 0 /\ DOMAIN <<>> = {}
  BY EmptySeq, EmptyIs
<1>4. Chain(records, appended) /\ Len(records) <= MaxRecords
  BY <1>2, <1>3, BoundsAssumption DEF Chain
<1>5. StoredOk(stored, exported.contents) BY <1>2, <1>3, BoundsAssumption DEF StoredOk
<1>6. Pristine(stored, exported.contents) BY <1>2, <1>3 DEF Pristine
<1>7. damages \in 0..MaxDamages BY <1>2, BoundsAssumption
<1>8. RestoredIsOriginal /\ SoundExportsRestore
  BY <1>2, <1>3 DEF RestoredIsOriginal, SoundExportsRestore
<1>9. exported.contents \in Seq(Content) BY <1>2, <1>3
<1> QED BY <1>4, <1>5, <1>6, <1>7, <1>8, <1>9 DEF LInv

\* What holds of the last restore holds when there is none.
LEMMA NoRestore ==
  restored' = <<>> => RestoredIsOriginal' /\ SoundExportsRestore'
<1>1. DOMAIN <<>> = {} BY EmptyIs
<1> QED BY <1>1 DEF RestoredIsOriginal, SoundExportsRestore

LEMMA AppendLInv ==
  ASSUME LInv, NEW c \in Content, NEW shared \in BOOLEAN, AppendRecord(c, shared)
  PROVE  LInv'
<1>1. PICK u, ds, sh : u = records' /\ ds = appended' /\ sh = shared OBVIOUS
<1>2. u = Linked(records, c, sh) /\ ds = Append(appended, c) /\ Len(records) < MaxRecords
  BY <1>1 DEF AppendRecord
<1>3. Chain(records, appended) BY DEF LInv
<1>4. appended \in Seq(Content) /\ Len(appended) \in Nat /\ Len(records) = Len(appended)
  BY <1>3, LenProperties DEF Chain
<1>5. OneMore(appended, c, ds)
  <2>1. ds \in Seq(Content) /\ Len(ds) = Len(appended) + 1 /\ ds[Len(appended) + 1] = c
    BY <1>2, <1>4, AppendProperties
  <2>2. \A i \in 1..Len(appended) : ds[i] = appended[i] BY <1>2, <1>4, AppendProperties
  <2> QED BY <2>1, <2>2 DEF OneMore
<1>6. Chain(u, ds) /\ Grown(records, c, u) BY <1>2, <1>3, <1>5, LinkedChain
<1>7. Len(u) <= MaxRecords BY <1>2, <1>4, <1>6, BoundsAssumption DEF Grown
<1>8. stored' = stored /\ exported' = exported /\ damages' = damages /\ restored' = <<>>
  BY DEF AppendRecord
<1>9. RestoredIsOriginal' /\ SoundExportsRestore' BY <1>8, NoRestore
<1>10. /\ exported'.contents \in Seq(Content)
       /\ StoredOk(stored', exported'.contents)
       /\ damages' \in 0..MaxDamages
       /\ damages' = 0 /\ exported'.valid => Pristine(stored', exported'.contents)
  BY <1>8 DEF LInv
<1> QED BY <1>1, <1>6, <1>7, <1>9, <1>10 DEF LInv

LEMMA MutateLInv ==
  ASSUME LInv, NEW i, NEW p \in Payloads, MutateShared(i, p)
  PROVE  LInv'
<1>1. PICK l, u, cs : l = records /\ u = records' /\ cs = appended OBVIOUS
<1>2. Chain(l, cs) /\ Len(l) <= MaxRecords BY <1>1 DEF LInv
<1>3. PICK n \in Nat : n = Len(l) /\ n = Len(cs) /\ DOMAIN l = 1..n
  BY <1>2, SeqDomain DEF Chain
<1>4. l = [k \in 1..n |-> l[k]] BY <1>2, <1>3 DEF Chain, IsSeq
<1>5. u = [l EXCEPT ![i].payload = p] /\ i \in 1..n BY <1>1, <1>3 DEF MutateShared
<1>6. /\ u = [k \in 1..n |-> u[k]] /\ u[i] = [l[i] EXCEPT !.payload = p]
      /\ \A k \in 1..n : k # i => u[k] = l[k]
  BY <1>4, <1>5
<1>7. IsSeq(u) /\ Len(u) = n BY <1>6, FunctionSeq
<1>8. \A k \in 1..n : RecordOk(k, l[k], cs[k], Link(l, k)) BY <1>2, <1>3 DEF Chain
<1>9. ASSUME NEW r, NEW c, NEW previous, RecordOk(i, r, c, previous)
      PROVE  /\ RecordOk(i, [r EXCEPT !.payload = p], c, previous)
             /\ [r EXCEPT !.payload = p].digest = r.digest
  <2>1. PICK e : e = [r EXCEPT !.payload = p] OBVIOUS
  <2>2. /\ r = [sequence |-> i, evidence_id |-> i, header |-> r.header, payload |-> r.payload,
                previous_digest |-> previous, digest |-> Digest(i, c, previous),
                shared |-> r.shared]
        /\ r.header \in Headers
    BY <1>9 DEF RecordOk, content, Content
  <2>3. /\ e = [sequence |-> i, evidence_id |-> i, header |-> e.header, payload |-> e.payload,
                previous_digest |-> previous, digest |-> Digest(i, c, previous),
                shared |-> e.shared]
        /\ e.header \in Headers /\ e.payload \in Payloads /\ e.digest = r.digest
    BY <2>1, <2>2
  <2>4. content(e) \in Content BY <2>3 DEF content, Content
  <2> QED BY <2>1, <2>3, <2>4 DEF RecordOk
<1>10. \A k \in 1..n : u[k].digest = l[k].digest
  BY <1>5, <1>6, <1>8, <1>9
<1>11. \A k \in 1..n : Link(u, k) = Link(l, k)
  <2>1. TAKE k \in 1..n
  <2>2. k # 1 => u[k - 1].digest = l[k - 1].digest BY <1>10
  <2> QED BY <2>2 DEF Link
<1>12. \A k \in 1..n : RecordOk(k, u[k], cs[k], Link(u, k))
  <2>1. TAKE k \in 1..n
  <2>2. CASE k = i BY <1>6, <1>8, <1>9, <1>11, <2>2
  <2>3. CASE k # i BY <1>6, <1>8, <1>11, <2>3
  <2> QED BY <2>2, <2>3
<1>13. Chain(u, cs) /\ Len(u) <= MaxRecords BY <1>2, <1>3, <1>7, <1>12 DEF Chain
<1>14. /\ stored' = stored /\ exported' = exported /\ damages' = damages
       /\ restored' = <<>> /\ appended' = appended
  BY DEF MutateShared
<1>15. RestoredIsOriginal' /\ SoundExportsRestore' BY <1>14, NoRestore
<1>16. /\ exported'.contents \in Seq(Content)
       /\ StoredOk(stored', exported'.contents)
       /\ damages' \in 0..MaxDamages
       /\ damages' = 0 /\ exported'.valid => Pristine(stored', exported'.contents)
  BY <1>14 DEF LInv
<1> QED BY <1>1, <1>13, <1>14, <1>15, <1>16 DEF LInv

LEMMA ExportLInv ==
  ASSUME LInv, Export
  PROVE  LInv'
<1>1. PICK a, l, cs : a = stored' /\ l = records /\ cs = appended OBVIOUS
<1>2. Chain(l, cs) /\ Len(l) <= MaxRecords BY <1>1 DEF LInv
<1>3. a = export(l) BY <1>1 DEF Export
<1>4. /\ exported'.contents = cs /\ exported'.valid = (contents(l) = cs)
      /\ damages' = 0 /\ restored' = <<>> /\ records' = l /\ appended' = cs
  BY <1>1 DEF Export
<1>5. cs \in Seq(Content) BY <1>2 DEF Chain
<1>6. StoredOk(a, cs) BY <1>2, <1>3, ExportOk
<1>7. exported'.valid => Pristine(a, cs)
  <2>1. contents(l) = cs => Pristine(a, cs) BY <1>2, <1>3, ExportPristine
  <2> QED BY <1>4, <2>1
<1>8. RestoredIsOriginal' /\ SoundExportsRestore' BY <1>4, NoRestore
<1>9. damages' \in 0..MaxDamages BY <1>4, BoundsAssumption
<1> QED BY <1>1, <1>2, <1>4, <1>5, <1>6, <1>7, <1>8, <1>9 DEF LInv

LEMMA DamageLInv ==
  ASSUME LInv, Damage
  PROVE  LInv'
<1>1. PICK b \in Damaged(stored) : Len(b) <= MaxRecords /\ stored' = b BY DEF Damage
<1>2. PICK cs : cs = exported.contents OBVIOUS
<1>3. StoredOk(stored, cs) /\ cs \in Seq(Content) /\ damages \in 0..MaxDamages
  BY <1>2 DEF LInv
<1>4. StoredOk(b, cs) BY <1>1, <1>3, DamagedOk
<1>5. /\ damages < MaxDamages /\ damages' = damages + 1 /\ restored' = <<>>
      /\ records' = records /\ appended' = appended /\ exported' = exported
  BY DEF Damage
<1>6. damages' \in 0..MaxDamages /\ damages' # 0 BY <1>3, <1>5, BoundsAssumption
<1>7. RestoredIsOriginal' /\ SoundExportsRestore' BY <1>5, NoRestore
<1>8. Chain(records', appended') /\ Len(records') <= MaxRecords BY <1>5 DEF LInv
<1>9. exported'.contents = cs BY <1>2, <1>5
<1> QED BY <1>1, <1>3, <1>4, <1>6, <1>7, <1>8, <1>9 DEF LInv

LEMMA RestoreLInv ==
  ASSUME LInv, Restore
  PROVE  LInv'
<1>1. PICK a, cs : a = stored /\ cs = exported.contents OBVIOUS
<1>2. StoredOk(a, cs) /\ cs \in Seq(Content) /\ damages \in 0..MaxDamages
  BY <1>1 DEF LInv
<1>3. PICK n \in Nat : n = Len(a) BY <1>2 DEF StoredOk, IsSeq
<1>4. IsSeq(a) /\ n <= MaxRecords /\ \A k \in 1..n : content(a[k]) \in Content
  BY <1>2, <1>3 DEF StoredOk, EntryOk
<1>5. stored' = a /\ exported' = exported /\ damages' = damages
  BY <1>1 DEF Restore
<1>6. PICK l : l = IF accepts(a) THEN rebuild(a) ELSE <<>> OBVIOUS
<1>7. PICK r : r = [accepted |-> accepts(a), damaged |-> damages > 0,
                    from |-> exported, got |-> contents(l)]
  OBVIOUS
<1>8. records' = l /\ appended' = contents(l) /\ restored' = <<r>>
  BY <1>1, <1>6, <1>7 DEF Restore
<1>9. ASSUME accepts(a)
      PROVE  /\ Chain(l, contents(l)) /\ Len(l) <= MaxRecords
             /\ contents(l) = contents(a) /\ IsPrefix(contents(l), cs)
  <2>1. l = rebuild(a) BY <1>6, <1>9
  <2>2. Chain(l, contents(a)) /\ contents(l) = contents(a)
    BY <1>3, <1>4, <2>1, RebuildIs
  <2>3. Len(l) <= MaxRecords
    <3>1. Len(contents(a)) = n BY <1>3, <1>4, ContentsIs
    <3> QED BY <1>4, <2>2, <3>1 DEF Chain
  <2>4. IsPrefix(contents(l), cs) BY <1>2, <1>9, <2>2, AcceptedIsOriginal
  <2> QED BY <2>2, <2>3, <2>4
<1>10. ASSUME ~ accepts(a)
       PROVE  Chain(l, contents(l)) /\ Len(l) <= MaxRecords
  <2>1. l = <<>> BY <1>6, <1>10
  <2>2. IsSeq(l) /\ Len(l) = 0 BY <2>1, EmptyIs
  <2>3. IsSeq(contents(l)) /\ Len(contents(l)) = 0 BY <2>2, ContentsIs
  <2>4. contents(l) = <<>> BY <2>3, EmptyIs, SameSeq
  <2>5. contents(l) \in Seq(Content) BY <2>4, EmptySeq
  <2>6. Chain(l, contents(l)) BY <2>2, <2>3, <2>5 DEF Chain
  <2>7. Len(l) <= MaxRecords BY <2>2, BoundsAssumption
  <2> QED BY <2>6, <2>7
<1>11. Chain(l, contents(l)) /\ Len(l) <= MaxRecords BY <1>9, <1>10
<1>12. DOMAIN restored' = {1} /\ restored'[1] = r BY <1>8
<1>13. RestoredIsOriginal'
  <2>1. r.accepted => IsPrefix(r.got, r.from.contents)
    <3>1. r.accepted = accepts(a) /\ r.got = contents(l) /\ r.from.contents = cs
      BY <1>1, <1>7
    <3> QED BY <1>9, <3>1
  <2> QED BY <1>12, <2>1 DEF RestoredIsOriginal
<1>14. ASSUME r.from.valid, ~ r.damaged
       PROVE  accepts(a) /\ contents(l) = cs
  <2>1. exported.valid BY <1>7, <1>14
  <2>2. ~ (damages > 0) BY <1>7, <1>14
  <2>3. damages = 0 BY <1>2, <2>2, BoundsAssumption
  <2>4. Pristine(a, cs) BY <1>1, <2>1, <2>3 DEF LInv
  <2>5. accepts(a) /\ contents(a) = cs BY <1>2, <2>4, PristineAccepted
  <2> QED BY <1>9, <2>5
<1>15. SoundExportsRestore'
  <2>1. r.from.valid /\ ~ r.damaged => r.accepted /\ r.got = r.from.contents
    BY <1>1, <1>7, <1>14
  <2> QED BY <1>12, <2>1 DEF SoundExportsRestore
<1>16. /\ exported'.contents \in Seq(Content)
       /\ StoredOk(stored', exported'.contents)
       /\ damages' \in 0..MaxDamages
       /\ damages' = 0 /\ exported'.valid => Pristine(stored', exported'.contents)
  BY <1>1, <1>5 DEF LInv
<1>17. Chain(records', appended') /\ Len(records') <= MaxRecords BY <1>8, <1>11
<1> QED BY <1>13, <1>15, <1>16, <1>17 DEF LInv

LEMMA NextLInv == LInv /\ [Next]_vars => LInv'
<1>1. SUFFICES ASSUME LInv, [Next]_vars PROVE LInv' OBVIOUS
<1>2. CASE \E c \in Content, shared \in BOOLEAN : AppendRecord(c, shared)
  BY <1>1, <1>2, AppendLInv
<1>3. CASE \E i \in 1..MaxRecords, p \in Payloads : MutateShared(i, p)
  BY <1>1, <1>3, MutateLInv
<1>4. CASE Export BY <1>1, <1>4, ExportLInv
<1>5. CASE Damage BY <1>1, <1>5, DamageLInv
<1>6. CASE Restore BY <1>1, <1>6, RestoreLInv
<1>7. CASE UNCHANGED vars
  <2>1. /\ records' = records /\ stored' = stored /\ appended' = appended
        /\ exported' = exported /\ damages' = damages /\ restored' = restored
    BY <1>7 DEF vars
  <2>2. RestoredIsOriginal' /\ SoundExportsRestore'
    BY <1>1, <2>1 DEF LInv, RestoredIsOriginal, SoundExportsRestore
  <2> QED BY <1>1, <2>1, <2>2 DEF LInv
<1> QED BY <1>1, <1>2, <1>3, <1>4, <1>5, <1>6, <1>7 DEF Next

\* In every reachable state the digests of the ledger, and those on the store, are
\* digests of what was appended.
THEOREM SpecLInv == Spec => []LInv
BY InitLInv, NextLInv, PTL DEF Spec

-----------------------------------------------------------------------------
(***************************************************************************)
(* What the ledger promises                                                *)
(***************************************************************************)

\* Type correctness: numbers stay within the ledger, contents are contents.
THEOREM LedgerTypeOK == Spec => []TypeOK
<1>1. LInv => TypeOK
  <2>1. SUFFICES ASSUME LInv PROVE TypeOK OBVIOUS
  <2>2. PICK l, cs : l = records /\ cs = appended OBVIOUS
  <2>3. Chain(l, cs) /\ Len(l) <= MaxRecords /\ damages \in 0..MaxDamages
    BY <2>1, <2>2 DEF LInv
  <2>4. PICK n \in Nat : n = Len(l) /\ n = Len(cs) /\ DOMAIN l = 1..n
    BY <2>3, SeqDomain DEF Chain
  <2>5. \A i \in 1..n : l[i].sequence \in 1..MaxRecords /\ content(l[i]) \in Content
    <3>1. TAKE i \in 1..n
    <3>2. PICK c, previous : RecordOk(i, l[i], c, previous) BY <2>3, <2>4 DEF Chain
    <3>3. l[i].sequence = i /\ content(l[i]) \in Content BY <3>2 DEF RecordOk
    <3> QED BY <2>3, <2>4, <3>3, BoundsAssumption
  <2>6. cs \in BoundedSeq(Content, MaxRecords)
    <3>1. cs \in Seq(Content) BY <2>3 DEF Chain
    <3>2. cs \in [1..n -> Content] BY <2>4, <3>1, LenProperties, ElementOfSeq
    <3>3. n \in 0..MaxRecords BY <2>3, <2>4, BoundsAssumption
    <3> QED BY <3>2, <3>3 DEF BoundedSeq, SeqOf
  <2> QED BY <2>2, <2>3, <2>4, <2>5, <2>6 DEF TypeOK
<1> QED BY <1>1, SpecLInv, PTL

\* verify passes exactly while every record says what was handed to append: it
\* misses no change to a shared payload and refuses no sound ledger.
THEOREM LedgerVerifyIsExact == Spec => []VerifyIsExact
<1>1. LInv => VerifyIsExact BY ChainVerify DEF LInv, VerifyIsExact
<1> QED BY <1>1, SpecLInv, PTL

\* Whatever happened to an exported array, and to shared payloads before the
\* export, a ledger that is rebuilt from it holds the first records appended.
THEOREM LedgerRestoredIsOriginal == Spec => []RestoredIsOriginal
<1>1. LInv => RestoredIsOriginal BY DEF LInv
<1> QED BY <1>1, SpecLInv, PTL

\* An array exported from a sound ledger and left alone is rebuilt in full.
THEOREM LedgerSoundExportsRestore == Spec => []SoundExportsRestore
<1>1. LInv => SoundExportsRestore BY DEF LInv
<1> QED BY <1>1, SpecLInv, PTL
=============================================================================
